-------------------------------- MODULE CondVar --------------------------------
(***************************************************************************)
(* ConditionVariable (generic/condition_variable.hpp): a futex whose word  *)
(* counts the notifications.  Waits, notifications and cancellations are   *)
(* requests in the ring of the thread that makes them; the kernel takes    *)
(* the requests of one ring in order and wakes sleepers in order.          *)
(***************************************************************************)
EXTENDS Naturals, Sequences

CONSTANTS Procs, Masks, MaxCount,
          Rings         \* the threads, each with its ring

VARIABLES mFutex,     \* the count
          old,        \* [Procs -> the count a waiter has seen]
          ring,       \* [Rings -> requests that the kernel has not taken]
          asleep,     \* [who, mask] of the sleepers, the longest first
          ended       \* [Procs -> how the waiter's request completed]

vars == <<mFutex, old, ring, asleep, ended>>

S == INSTANCE SequencesExt

Requests == [op : {"wait"}, who : Procs, mask : Masks]
            \cup [op : {"wake"}, mask : Masks]
            \cup [op : {"cancel"}, who : Procs]

Init == /\ mFutex = 0 /\ old = [p \in Procs |-> 0]
        /\ ring = [g \in Rings |-> << >>] /\ asleep = << >>
        /\ ended = [p \in Procs |-> "none"]

TypeOK == /\ mFutex \in 0..MaxCount
          /\ old \in [Procs -> 0..MaxCount]
          /\ ring \in [Rings -> Seq(Requests)]
          /\ asleep \in Seq([who : Procs, mask : Masks])
          /\ ended \in [Procs -> {"none", "woken", "cancelled"}]

Prepare(g, r) == ring' = [ring EXCEPT ![g] = Append(@, r)]

(* futex_wait: the request is prepared, the coroutine suspends.            *)
FutexWait(g, p, m) == /\ Prepare(g, [op |-> "wait", who |-> p, mask |-> m])
                      /\ UNCHANGED <<mFutex, asleep>>

(* wait(mask), up to its suspension.                                       *)
Wait(g, p, m) == old' = [old EXCEPT ![p] = mFutex] /\ FutexWait(g, p, m)

(* The coroutine takes the result of its request.                          *)
Resumed(p, how) == ended[p] = how /\ ended' = [ended EXCEPT ![p] = "none"]

(* wait(mask) after a futex operation: over, or once more.                 *)
WaitOver(p) == mFutex # old[p]
WaitAgain(g, p, m) == ~WaitOver(p) /\ FutexWait(g, p, m) /\ UNCHANGED old

(* notify_one(mask): count, then wake.                                     *)
NotifyOne(g, m) == /\ mFutex' = mFutex + 1
                   /\ Prepare(g, [op |-> "wake", mask |-> m])
                   /\ UNCHANGED <<old, asleep>>

(* cancelGuard's callback prepares a cancellation of the request.          *)
Cancel(g, p) == /\ Prepare(g, [op |-> "cancel", who |-> p])
                /\ UNCHANGED <<mFutex, old, asleep, ended>>

Complete(p, how) == ended' = [ended EXCEPT ![p] = how]

(* The sleepers that a request of the kernel's would end, the first of     *)
(* them only.                                                              *)
Ends(r, s) == IF r.op = "wake" THEN s.mask \cap r.mask # {} ELSE s.who = r.who

(* The kernel takes a request of a ring.  A wait sleeps if the count is still the    *)
(* one it names, or completes with EAGAIN, which futex_wait ignores.       *)
Kernel(g) ==
  /\ ring[g] # << >> /\ ring' = [ring EXCEPT ![g] = Tail(@)]
  /\ LET r == Head(ring[g])
         i == S!SelectInSeq(asleep, LAMBDA s : Ends(r, s))
     IN \/ /\ r.op = "wait" /\ mFutex = old[r.who]
           /\ asleep' = Append(asleep, [who |-> r.who, mask |-> r.mask])
           /\ UNCHANGED ended
        \/ /\ r.op = "wait" /\ mFutex # old[r.who]
           /\ Complete(r.who, "woken")
           /\ UNCHANGED asleep
        \/ /\ r.op # "wait" /\ i > 0
           /\ asleep' = S!RemoveAt(asleep, i)
           /\ Complete(asleep[i].who, IF r.op = "wake" THEN "woken" ELSE "cancelled")
        \/ /\ r.op # "wait" /\ i = 0
           /\ UNCHANGED <<asleep, ended>>
  /\ UNCHANGED <<mFutex, old>>
==============================================================================
