--------------------------------- MODULE Queue ---------------------------------
(***************************************************************************)
(* Queue (generic/queue.hpp): a ring of values and a condition variable,   *)
(* shared by the coroutines of one thread.  Nothing runs between two       *)
(* suspensions of a coroutine, so the code between them is one step.       *)
(* push() is read as if it ended with a co_return of success.              *)
(***************************************************************************)
EXTENDS Naturals, Sequences, FiniteSets

CONSTANTS Producers, Consumers,
          Size,         \* of the queue
          MaxCalls,     \* bound on the calls of push, pop and try_*
          MaxCancels    \* bound on the cancellations of waits

ASSUME QueueAssumption == /\ Size \in Nat \ {0}
                          /\ MaxCalls \in Nat /\ MaxCancels \in Nat
                          /\ Producers \cap Consumers = {}
                          /\ IsFiniteSet(Producers \cup Consumers)

VARIABLES slots, mRead, mWrite,                 \* mQueue
          mFutex, old, ring, asleep, ended,     \* mReady
          blocking,     \* who calls push and pop; the others call try_*
          waits,        \* who is suspended in push or pop
          value,        \* the argument of push
          calls, cancels,                       \* calls made, waits cancelled
          sent, received                        \* history: the values so far

Procs == Producers \cup Consumers

kNonEmptyMask == {"nonEmpty"}
kNonFullMask  == {"nonFull"}

Values == 0..MaxCalls

R == INSTANCE RingQueue
(* All the coroutines run on one thread.                                   *)
Thread == 1

C == INSTANCE CondVar WITH Masks <- {kNonEmptyMask, kNonFullMask}, MaxCount <- MaxCalls,
                           Rings <- {Thread}

queueVars == <<slots, mRead, mWrite>>
condVars  == <<mFutex, old, ring, asleep, ended>>
history   == <<sent, received>>
vars == <<queueVars, condVars, blocking, waits, value, calls, cancels, history>>

(* try_push and try_pop notify only when they end an empty or a full       *)
(* queue.  That is enough for one sleeper of a kind, not for two, so they  *)
(* are used beside at most one.                                            *)
Usable(B) == \/ B = Procs
             \/ /\ Cardinality(B \cap Producers) <= 1
                /\ Cardinality(B \cap Consumers) <= 1

Init == /\ R!Init(0) /\ C!Init
        /\ blocking \in {B \in SUBSET Procs : Usable(B)}
        /\ waits = {} /\ value = [p \in Producers |-> 0]
        /\ calls = 0 /\ cancels = 0
        /\ sent = << >> /\ received = << >>

Call(p) == p \notin waits /\ calls < MaxCalls /\ calls' = calls + 1

Sent(v) == sent' = Append(sent, v) /\ UNCHANGED received

Received(v) == received' = Append(received, v) /\ UNCHANGED sent

Quiet == UNCHANGED <<mFutex, old, ring, asleep>>

Suspend(p, m) == /\ C!Wait(Thread, p, m)
                 /\ waits' = waits \cup {p}
                 /\ UNCHANGED <<queueVars, history>>

Return(p) == waits' = waits \ {p}

Push(v) == ~R!full /\ R!Store(v) /\ Sent(v)

Pop == ~R!empty /\ R!Drop /\ \E v \in R!Front : Received(v)

(* Mutant: push notifies only a queue that was empty, as try_push does.    *)
NotifyFirst(p, v) ==
  \/ Push(v) /\ Return(p) /\ IF R!empty THEN C!NotifyOne(Thread, kNonEmptyMask) ELSE Quiet
  \/ R!full /\ Suspend(p, kNonFullMask)

(* The body of push's loop: store the value and notify, or wait.           *)
Offer(p, v) == \/ Push(v) /\ C!NotifyOne(Thread, kNonEmptyMask) /\ Return(p)
               \/ R!full /\ Suspend(p, kNonFullMask)

(* Mutant: pop notifies its own side.                                      *)
NotifySame(p) == \/ Pop /\ C!NotifyOne(Thread, kNonEmptyMask) /\ Return(p)
                 \/ R!empty /\ Suspend(p, kNonEmptyMask)

(* The body of pop's loop: take a value and notify, or wait.               *)
Take(p) == \/ Pop /\ C!NotifyOne(Thread, kNonFullMask) /\ Return(p)
           \/ R!empty /\ Suspend(p, kNonEmptyMask)

push(p) == /\ p \in blocking \cap Producers /\ Call(p)
           /\ value' = [value EXCEPT ![p] = calls']
           /\ Offer(p, calls')
           /\ UNCHANGED <<ended, blocking, cancels>>

pop(p) == /\ p \in blocking \cap Consumers /\ Call(p)
          /\ Take(p)
          /\ UNCHANGED <<ended, blocking, cancels, value>>

try_push(p) ==
  /\ p \in Producers \ blocking /\ Call(p)
  /\ \/ Push(calls') /\ IF R!empty THEN C!NotifyOne(Thread, kNonEmptyMask) ELSE Quiet
     \/ R!full /\ Quiet /\ UNCHANGED <<queueVars, history>>
  /\ UNCHANGED <<ended, blocking, waits, value, cancels>>

try_pop(p) ==
  /\ p \in Consumers \ blocking /\ Call(p)
  /\ \/ Pop /\ IF R!full THEN C!NotifyOne(Thread, kNonFullMask) ELSE Quiet
     \/ R!empty /\ Quiet /\ UNCHANGED <<queueVars, history>>
  /\ UNCHANGED <<ended, blocking, waits, value, cancels>>

(* The wait's request ended: another turn of wait()'s loop, or of that of  *)
(* push or pop.                                                            *)
Woken(p) ==
  /\ p \in waits /\ C!Resumed(p, "woken")
  /\ \/ C!WaitOver(p) /\ IF p \in Producers THEN Offer(p, value[p]) ELSE Take(p)
     \/ /\ C!WaitAgain(Thread, p, IF p \in Producers THEN kNonFullMask ELSE kNonEmptyMask)
        /\ UNCHANGED <<waits, queueVars, history>>
  /\ UNCHANGED <<blocking, value, calls, cancels>>

(* The program cancels a wait.                                             *)
Cancel(p) == /\ p \in waits /\ cancels < MaxCancels
             /\ cancels' = cancels + 1
             /\ C!Cancel(Thread, p)
             /\ UNCHANGED <<queueVars, blocking, waits, value, calls, history>>

(* The failed wait's error is returned by push or pop.                     *)
Cancelled(p) == /\ C!Resumed(p, "cancelled") /\ Return(p) /\ Quiet
                /\ UNCHANGED <<queueVars, blocking, value, calls, cancels, history>>

Kernel == C!Kernel(Thread) /\ UNCHANGED <<queueVars, blocking, waits, value, calls, cancels, history>>

Step(p) == Woken(p) \/ Cancelled(p)

Terminated == /\ calls = MaxCalls /\ ring[Thread] = << >>
              /\ \A p \in Procs : ended[p] = "none"
              /\ UNCHANGED vars

Next == \/ \E p \in Procs : \/ push(p) \/ pop(p) \/ try_push(p) \/ try_pop(p)
                            \/ Step(p) \/ Cancel(p)
        \/ Kernel \/ Terminated

(* The loop submits its ring and resumes who can go on; calls and          *)
(* cancellations are up to the program.                                    *)
Fairness == WF_vars(Kernel) /\ \A p \in Procs : WF_vars(Step(p))

Spec == Init /\ [][Next]_vars
FairSpec == Spec /\ Fairness
------------------------------------------------------------------------------
(* Properties.                                                             *)

(* The variables have their types.                                         *)
TypeOK == /\ R!TypeOK /\ C!TypeOK
          /\ blocking \subseteq Procs /\ waits \subseteq blocking
          /\ value \in [Producers -> Values]
          /\ calls \in 0..MaxCalls /\ cancels \in 0..MaxCancels
          /\ sent \in Seq(Values) /\ received \in Seq(Values)

Sleepers(P) == {asleep[i].who : i \in DOMAIN asleep} \cap P

(* Nobody sleeps on a queue that has what he waits for, unless a wake-up   *)
(* for his side is in the ring or one of his side is about to look.        *)
NoStranded ==
  LET Help(P, m) == \/ [op |-> "wake", mask |-> m] \in {ring[Thread][i] : i \in DOMAIN ring[Thread]}
                    \/ \E p \in P : ended[p] = "woken"
  IN /\ Sleepers(Consumers) # {} /\ ~R!empty => Help(Consumers, kNonEmptyMask)
     /\ Sleepers(Producers) # {} /\ ~R!full  => Help(Producers, kNonFullMask)

(* No pop waits for ever on a queue that stays non-empty, and no push on   *)
(* one that stays non-full.                                                *)
Served == \A p \in Procs :
  []<>(p \notin waits \/ (p \in Consumers /\ R!empty) \/ (p \in Producers /\ R!full))

Abstract == INSTANCE Channel WITH Capacity <- Size, turn <- mRead

(* What the consumers receive is what the producers sent, in that order,   *)
(* without loss or repetition, and at most Size values are under way; but  *)
(* of every Size + 1 values the last passes through memory that is not the *)
(* queue's, and another may be received in its place.                      *)
ImplementsChannel == Abstract!Spec
==============================================================================
