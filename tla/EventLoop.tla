------------------------------ MODULE EventLoop ------------------------------
(***************************************************************************)
(* One thread's event loop: IOContext::run over the timer set of           *)
(* GenericIOContext and the io_uring of PlatformIOContext, together with   *)
(* the coroutines it resumes and the kernel that completes their requests. *)
(*                                                                         *)
(* A coroutine stands for a whole chain of tasks started by co_spawn: when *)
(* it runs, it may sleep, await a request, start a detached request, spawn *)
(* another coroutine (which runs nested, before it) or finish.  A request  *)
(* is a member of Sqes, a ticket that is followed from io_uring_get_sqe to *)
(* the completion entry and reused afterwards.  Completion values are left *)
(* out, and so is the order of a batch: the kernel may complete requests   *)
(* in any order.  Timers only expire here; their cancellation needs the    *)
(* real tree and is in module TimerTree.                                   *)
(***************************************************************************)
EXTENDS Integers, Sequences, FiniteSets

CONSTANTS
  Coros,      \* coroutine chains
  Sqes,       \* tickets for requests: bounds the requests outstanding at once
  Nobody,     \* the handle of noop_coroutine
  Kinds,      \* kinds of request the coroutines issue
  SQSize,     \* IOContextOptions::queueEntries
  MaxSleep,   \* IOContextOptions::maxSleep
  Delays,     \* durations a coroutine passes to co_sleep
  MaxTime     \* bound on the clock

ASSUME CorosAssumption == Nobody \notin Coros
ASSUME SqesAssumption == IsFiniteSet(Sqes)
ASSUME TimeAssumption == /\ MaxTime \in Nat
                         /\ MaxSleep \in Nat
                         /\ Delays \subseteq Nat

VARIABLES
  pc,         \* "main", "timers", "wait", "batch" or "exit"
  stack,      \* nested resume() calls; the last coroutine is the one running
  co,         \* [Coros -> {"new", "running", "timer", "op", "done"}]
  expires,    \* TimerNode::mExpires of each coroutine
  now,        \* steady_clock
  deadline,   \* when the present wait times out
  st,         \* [Sqes -> {"free", "sq", "kernel", "notif", "cq", "batch"}]
  handle,     \* UringOp::mPrevious
  pending     \* mNumSqesPending; a negative value stands for the wrapped size_t

loopVars == <<pc, deadline>>
reqVars  == <<st, handle, pending>>
vars == <<pc, stack, co, expires, now, deadline, st, handle, pending>>

Init == /\ pc = "main"
        /\ stack = << >>
        /\ co = [c \in Coros |-> "new"]
        /\ expires = [c \in Coros |-> 0]
        /\ now = 0
        /\ deadline = 0
        /\ st = [t \in Sqes |-> "free"]
        /\ handle = [t \in Sqes |-> Nobody]
        /\ pending = 0

------------------------------------------------------------------------------
(* Coroutines.                                                             *)

Running(c) == stack # << >> /\ stack[Len(stack)] = c

Pop == SubSeq(stack, 1, Len(stack) - 1)

Suspend(c, why) == /\ co' = [co EXCEPT ![c] = why]
                   /\ stack' = Pop

(* io_uring_submit hands every queued entry to the kernel.                 *)
Submitted(s) == [t \in Sqes |-> IF s[t] = "sq" THEN "kernel" ELSE s[t]]

(* getSqe: a full submission queue is submitted before the entry is taken. *)
WithSqe(s, t) ==
  LET room == IF Cardinality({u \in Sqes : s[u] = "sq"}) < SQSize
              THEN s ELSE Submitted(s)
  IN  [room EXCEPT ![t] = "sq"]

(* Mutant: a chain that was started is started a second time.              *)
SpawnAgain(c) == /\ pc = "main" \/ stack # << >>
                 /\ co[c] \in {"new", "running"}
                 /\ co' = [co EXCEPT ![c] = "running"]
                 /\ stack' = Append(stack, c)
                 /\ UNCHANGED <<loopVars, expires, now, reqVars>>

(* main or a running coroutine calls co_spawn: the new coroutine runs now. *)
Spawn(c) == /\ pc = "main" \/ stack # << >>
            /\ co[c] = "new"
            /\ co' = [co EXCEPT ![c] = "running"]
            /\ stack' = Append(stack, c)
            /\ UNCHANGED <<loopVars, expires, now, reqVars>>

(* Mutant: the duration is added to the clock twice.                       *)
SleepTwice(c, d) == /\ Running(c)
                    /\ now + d <= MaxTime
                    /\ expires' = [expires EXCEPT ![c] = now + (now + d)]
                    /\ Suspend(c, "timer")
                    /\ UNCHANGED <<loopVars, now, reqVars>>

(* TimerNode::Awaiter::await_suspend: set mExpires and enter the tree.     *)
Sleep(c, d) == /\ Running(c)
               /\ now + d <= MaxTime
               /\ expires' = [expires EXCEPT ![c] = now + d]
               /\ Suspend(c, "timer")
               /\ UNCHANGED <<loopVars, now, reqVars>>

(* co_await UringOp().prep_...: take an entry, then store the handle.      *)
AwaitOp(c, t) == /\ Running(c)
                 /\ Kinds \cap {"plain", "zerocopy"} # {}
                 /\ st[t] = "free"
                 /\ st' = WithSqe(st, t)
                 /\ handle' = [handle EXCEPT ![t] = c]
                 /\ pending' = pending + 1
                 /\ Suspend(c, "op")
                 /\ UNCHANGED <<loopVars, expires, now>>

(* Mutant: the linked timeout resumes the coroutine too.                   *)
AwaitLinkedBoth(c, t, u) ==
  /\ Running(c)
  /\ "linked" \in Kinds
  /\ t # u /\ st[t] = "free" /\ st[u] = "free"
  /\ st' = WithSqe(WithSqe(st, t), u)
  /\ handle' = [handle EXCEPT ![t] = c, ![u] = c]
  /\ pending' = pending + 2
  /\ Suspend(c, "op")
  /\ UNCHANGED <<loopVars, expires, now>>

(* co_await link_ops(op, link timeout): two entries, one coroutine.  The   *)
(* entries are taken one after the other, so the first may be submitted    *)
(* alone when the queue has one place left.                                *)
AwaitLinked(c, t, u) ==
  /\ Running(c)
  /\ "linked" \in Kinds
  /\ t # u /\ st[t] = "free" /\ st[u] = "free"
  /\ \/ st' = WithSqe(WithSqe(st, t), u)
     \/ st' = WithSqe(WithSqe(st, u), t)
  /\ handle' = [handle EXCEPT ![t] = c, ![u] = Nobody]
  /\ pending' = pending + 2
  /\ Suspend(c, "op")
  /\ UNCHANGED <<loopVars, expires, now>>

(* Mutant: a detached request is not counted.                              *)
StartUncounted(c, t) == /\ Running(c)
                        /\ "detached" \in Kinds
                        /\ st[t] = "free"
                        /\ st' = WithSqe(st, t)
                        /\ handle' = [handle EXCEPT ![t] = Nobody]
                        /\ UNCHANGED <<loopVars, stack, co, expires, now, pending>>

(* startDetach: the entry points at detachedOp, whose handle is a noop.    *)
StartDetached(c, t) == /\ Running(c)
                       /\ "detached" \in Kinds
                       /\ st[t] = "free"
                       /\ st' = WithSqe(st, t)
                       /\ handle' = [handle EXCEPT ![t] = Nobody]
                       /\ pending' = pending + 1
                       /\ UNCHANGED <<loopVars, stack, co, expires, now>>

(* The chain's last co_return: AutoDestroyFinalAwaiter frees the frame.    *)
Finish(c) == /\ Running(c)
             /\ Suspend(c, "done")
             /\ UNCHANGED <<loopVars, expires, now, reqVars>>

------------------------------------------------------------------------------
(* The loop.                                                               *)

Armed == {c \in Coros : co[c] = "timer"}
Earliest(c) == c \in Armed /\ \A d \in Armed : expires[c] <= expires[d]

StartRun == /\ pc = "main" /\ stack = << >>
            /\ pc' = "timers"
            /\ UNCHANGED <<stack, co, expires, now, deadline, reqVars>>

(* runDuration: the front of the tree is due, erase it and resume it.      *)
(* Among timers of one expiry any may be the front here.                   *)
FireTimer(c) == /\ pc = "timers" /\ stack = << >>
                /\ Earliest(c) /\ expires[c] <= now
                /\ co' = [co EXCEPT ![c] = "running"]
                /\ stack' = <<c>>
                /\ UNCHANGED <<loopVars, expires, now, reqVars>>

(* runDuration found nothing due.                                          *)
NoneDue == pc = "timers" /\ stack = << >> /\ \A c \in Armed : expires[c] > now

(* Mutants: run() returns while a timer is armed, or a request is pending. *)
LeaveWithTimers == /\ NoneDue /\ pending = 0
                   /\ pc' = "exit"
                   /\ UNCHANGED <<stack, co, expires, now, deadline, reqVars>>

LeaveWithRequests == /\ NoneDue /\ Armed = {}
                     /\ pc' = "exit"
                     /\ UNCHANGED <<stack, co, expires, now, deadline, reqVars>>

(* runOnce: no timer and nothing pending, run() returns.                   *)
Leave == /\ NoneDue /\ Armed = {} /\ pending = 0
         /\ pc' = "exit"
         /\ UNCHANGED <<stack, co, expires, now, deadline, reqVars>>

(* Mutant: the wait ignores the timers.                                    *)
EnterLongWait ==
  /\ NoneDue /\ (Armed # {} \/ pending # 0)
  /\ pc' = "wait"
  /\ st' = Submitted(st)
  /\ deadline' = now + MaxSleep
  /\ UNCHANGED <<stack, co, expires, now, handle, pending>>

(* runOnce: submit and wait for the earliest timer, capped by mMaxSleep.   *)
EnterWait ==
  /\ NoneDue /\ (Armed # {} \/ pending # 0)
  /\ pc' = "wait"
  /\ st' = Submitted(st)
  /\ \/ \E c \in Coros : /\ Earliest(c) /\ expires[c] - now <= MaxSleep
                         /\ deadline' = expires[c]
     \/ /\ \A c \in Armed : expires[c] - now > MaxSleep
        /\ deadline' = now + MaxSleep
  /\ UNCHANGED <<stack, co, expires, now, handle, pending>>

Completed == {t \in Sqes : st[t] = "cq"}

(* waitEventsFor: take every completion, remember its handle, then advance *)
(* the ring and lower the counter.                                         *)
Reap == /\ pc = "wait" /\ Completed # {}
        /\ st' = [t \in Sqes |-> IF st[t] = "cq" THEN "batch" ELSE st[t]]
        /\ pending' = pending - Cardinality(Completed)
        /\ pc' = "batch"
        /\ UNCHANGED <<stack, co, expires, now, deadline, handle>>

(* The wait ends without a completion: back to runOnce.                    *)
WaitEnds == /\ pc = "wait" /\ Completed = {}
            /\ pc' = "timers"
            /\ UNCHANGED <<stack, co, expires, now, deadline, reqVars>>

TimedOut    == now >= deadline /\ WaitEnds    \* -ETIME
Interrupted == WaitEnds                       \* -EINTR, at any moment

(* One task.resume() of the batch.                                         *)
ResumeTask(t) ==
  /\ pc = "batch" /\ stack = << >>
  /\ st[t] = "batch"
  /\ st' = [st EXCEPT ![t] = "free"]
  /\ IF handle[t] = Nobody
     THEN UNCHANGED <<co, stack>>
     ELSE /\ co' = [co EXCEPT ![handle[t]] = "running"]
          /\ stack' = <<handle[t]>>
  /\ UNCHANGED <<loopVars, expires, now, handle, pending>>

BatchDone == /\ pc = "batch" /\ stack = << >>
             /\ \A t \in Sqes : st[t] # "batch"
             /\ pc' = "timers"
             /\ UNCHANGED <<stack, co, expires, now, deadline, reqVars>>

------------------------------------------------------------------------------
(* The kernel and the clock.                                               *)

(* A request completes.  A zero-copy send posts a first completion and     *)
(* later a notification with the same user_data (ticket n), which no       *)
(* entry was counted for.                                                  *)
Complete(t) ==
  /\ st[t] \in {"kernel", "notif"}
  /\ \/ /\ st' = [st EXCEPT ![t] = "cq"]
        /\ UNCHANGED handle
     \/ /\ "zerocopy" \in Kinds /\ st[t] = "kernel" /\ handle[t] # Nobody
        /\ \E n \in Sqes :
             /\ st[n] = "free"
             /\ st' = [st EXCEPT ![t] = "cq", ![n] = "notif"]
             /\ handle' = [handle EXCEPT ![n] = handle[t]]
  /\ UNCHANGED <<pc, stack, co, expires, now, deadline, pending>>

Tick == /\ now < MaxTime /\ pc # "exit"
        /\ now' = now + 1
        /\ UNCHANGED <<pc, stack, co, expires, deadline, reqVars>>

Terminated == pc = "exit" /\ UNCHANGED vars

Program == \E c \in Coros :
             \/ Spawn(c)
             \/ \E d \in Delays : Sleep(c, d)
             \/ \E t \in Sqes : AwaitOp(c, t) \/ StartDetached(c, t)
             \/ \E t, u \in Sqes : AwaitLinked(c, t, u)
             \/ Finish(c)

Loop == \/ StartRun \/ Leave \/ EnterWait \/ Reap \/ TimedOut \/ BatchDone
        \/ \E c \in Coros : FireTimer(c)
        \/ \E t \in Sqes : ResumeTask(t)

Next == \/ Program \/ Loop \/ Interrupted \/ Tick \/ Terminated
        \/ \E t \in Sqes : Complete(t)

(* The thread keeps executing, the clock advances and the kernel completes *)
(* every request it was handed.                                            *)
Fairness == /\ WF_vars(Program \/ Loop)
            /\ WF_vars(Tick)
            /\ \A t \in Sqes : WF_vars(Complete(t))

Spec == Init /\ [][Next]_vars
FairSpec == Spec /\ Fairness
------------------------------------------------------------------------------
(* Properties.                                                             *)

Outstanding == {t \in Sqes : st[t] \in {"sq", "kernel", "notif", "cq"}}
OnStack == {stack[i] : i \in 1..Len(stack)}

(* The variables have their types.                                         *)
TypeOK ==
  /\ pc \in {"main", "timers", "wait", "batch", "exit"}
  /\ stack \in Seq(Coros)
  /\ co \in [Coros -> {"new", "running", "timer", "op", "done"}]
  /\ expires \in [Coros -> 0..MaxTime]
  /\ now \in 0..MaxTime
  /\ deadline \in 0..(MaxTime + MaxSleep)
  /\ st \in [Sqes -> {"free", "sq", "kernel", "notif", "cq", "batch"}]
  /\ handle \in [Sqes -> Coros \cup {Nobody}]
  /\ pending \in Int

(* mNumSqesPending, raised in getSqe and lowered per batch in              *)
(* waitEventsFor, is the number of requests whose completion is to come.   *)
PendingExact == pending = Cardinality(Outstanding)

(* A coroutine suspended on a request is held by exactly one handle that   *)
(* is still to be resumed, and a handle that is still to be resumed is     *)
(* held for a coroutine suspended on a request: nobody is resumed twice    *)
(* and nobody is forgotten.                                                *)
OneHandle ==
  /\ \A c \in Coros : co[c] = "op" =>
       \E t \in Sqes : st[t] # "free" /\ handle[t] = c
  /\ \A t \in Sqes : st[t] # "free" /\ handle[t] # Nobody =>
       /\ co[handle[t]] = "op"
       /\ \A u \in Sqes : st[u] # "free" /\ handle[u] = handle[t] => u = t

(* resume() is never called on a coroutine that is already executing, and  *)
(* the coroutines executing are those of the nested calls.                 *)
NoReentry == /\ OnStack = {c \in Coros : co[c] = "running"}
             /\ \A i, j \in 1..Len(stack) : stack[i] = stack[j] => i = j

(* The loop never blocks beyond the earliest timer, whichever coroutine    *)
(* armed it.                                                               *)
NoOversleep == pc = "wait" => \A c \in Armed : deadline <= expires[c]

(* Every coroutine that awaits a request, or sleeps, is resumed.           *)
Resumed == \A c \in Coros : co[c] \in {"op", "timer"} ~> co[c] = "running"

(* The loop implements the reactor its coroutines rely on.                 *)
Abstract == INSTANCE Reactor
              WITH phase <- [c \in Coros |-> IF co[c] \in {"op", "timer"}
                                             THEN "waiting" ELSE co[c]],
                   stopped <- pc = "exit"
ImplementsReactor == Abstract!Spec
==============================================================================
