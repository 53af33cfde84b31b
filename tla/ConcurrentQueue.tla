---------------------------- MODULE ConcurrentQueue ----------------------------
(***************************************************************************)
(* ConcurrentQueue (generic/queue.hpp): a ring of values under a spin lock *)
(* and a condition variable.  A critical section is one step.  The lock is *)
(* given back before the wait reads the count and before the notification  *)
(* is sent: on several threads other steps fall in between.                *)
(***************************************************************************)
EXTENDS Naturals, Sequences, FiniteSets

CONSTANTS Producers, Consumers,
          Values, Size,             \* see RingQueue
          Blank,                    \* a value that is no longer needed
          Rings, MaxCount           \* see CondVar

VARIABLES slots, mRead, mWrite,                 \* mQueue
          mFutex, old, ring, asleep, ended,     \* mReady
          at,       \* where a coroutine is in push, pop or try_push
          item      \* the value it pushes, or has popped

Procs == Producers \cup Consumers

kNonEmptyMask == {"nonEmpty"}
kNonFullMask  == {"nonFull"}

R == INSTANCE RingQueue
C == INSTANCE CondVar WITH Masks <- {kNonEmptyMask, kNonFullMask}

queueVars == <<slots, mRead, mWrite>>
condVars  == <<mFutex, old, ring, asleep, ended>>
vars == <<queueVars, condVars, at, item>>

Places == {"out", "lock", "try", "unlocked", "waiting", "notify", "done", "refused", "failed"}

Init == /\ R!Init(Blank) /\ C!Init
        /\ at = [p \in Procs |-> "out"]
        /\ item = [p \in Procs |-> Blank]

TypeOK == /\ R!TypeOK /\ C!TypeOK
          /\ at \in [Procs -> Places]
          /\ item \in [Procs -> Values]

Goto(p, place) == at' = [at EXCEPT ![p] = place]

push(p, v) == /\ Goto(p, "lock") /\ item' = [item EXCEPT ![p] = v]
              /\ UNCHANGED <<queueVars, condVars>>

try_push(p, v) == /\ Goto(p, "try") /\ item' = [item EXCEPT ![p] = v]
                  /\ UNCHANGED <<queueVars, condVars>>

pop(p) == Goto(p, "lock") /\ UNCHANGED <<queueVars, condVars, item>>

(* Mutant: wasEmpty is read when the value is stored, and so never true.   *)
StoreThenLook(p) == /\ ~R!full /\ R!Store(item[p])
                    /\ Goto(p, "done")
                    /\ UNCHANGED <<condVars, item>>

(* push's critical section: store, and notify if the queue was empty.      *)
StoreItem(p) == /\ ~R!full /\ R!Store(item[p])
                /\ Goto(p, IF R!empty THEN "notify" ELSE "done")
                /\ UNCHANGED <<condVars, item>>

(* pop's: take the oldest, and notify if the queue was full.               *)
TakeItem(p) == /\ ~R!empty /\ R!Drop
               /\ \E v \in R!Front : item' = [item EXCEPT ![p] = v]
               /\ Goto(p, IF R!full THEN "notify" ELSE "done")
               /\ UNCHANGED condVars

Leave(p, place) == Goto(p, place) /\ UNCHANGED <<queueVars, condVars, item>>

Push(p) == at[p] = "lock" /\ (StoreItem(p) \/ (R!full /\ Leave(p, "unlocked")))

TryPush(p) == at[p] = "try" /\ (StoreItem(p) \/ (R!full /\ Leave(p, "refused")))

Pop(p) == at[p] = "lock" /\ (TakeItem(p) \/ (R!empty /\ Leave(p, "unlocked")))

(* After the critical section: the notification, or the wait.              *)
Notify(g, p) ==
  /\ at[p] = "notify" /\ Goto(p, "done")
  /\ C!NotifyOne(g, IF p \in Producers THEN kNonEmptyMask ELSE kNonFullMask)
  /\ UNCHANGED <<queueVars, ended, item>>

Wait(g, p) ==
  /\ at[p] = "unlocked" /\ Goto(p, "waiting")
  /\ C!Wait(g, p, IF p \in Producers THEN kNonFullMask ELSE kNonEmptyMask)
  /\ UNCHANGED <<queueVars, ended, item>>

WaitReturns(p) == old' = [old EXCEPT ![p] = 0] /\ UNCHANGED <<mFutex, ring, asleep>>

(* The wait's request ended; its error is returned.                        *)
Woken(g, p) ==
  /\ at[p] = "waiting" /\ UNCHANGED <<queueVars, item>>
  /\ \/ /\ C!Resumed(p, "woken")
        /\ \/ C!WaitOver(p) /\ Goto(p, "lock") /\ WaitReturns(p)
           \/ /\ C!WaitAgain(g, p, IF p \in Producers THEN kNonFullMask ELSE kNonEmptyMask)
              /\ UNCHANGED at
     \/ /\ C!Resumed(p, "cancelled") /\ Goto(p, "failed")
        /\ WaitReturns(p)

Cancel(g, p) == /\ at[p] = "waiting" /\ C!Cancel(g, p)
                /\ UNCHANGED <<queueVars, at, item>>

Kernel(g) == C!Kernel(g) /\ UNCHANGED <<queueVars, at, item>>

(* The call returns.                                                       *)
Return(p, place) == /\ at[p] = place /\ Goto(p, "out")
                    /\ item' = [item EXCEPT ![p] = Blank]
                    /\ UNCHANGED <<queueVars, condVars>>
==============================================================================
