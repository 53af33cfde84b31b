-------------------------------- MODULE Futex --------------------------------
(***************************************************************************)
(* A futex as platform/futex.hpp uses it through io_uring.  A waiter's     *)
(* request sits in its own loop's submission queue first ("queued"); only  *)
(* when the kernel takes it is the word compared with the value the waiter *)
(* read.  A notification is a detached request: it too reaches the kernel  *)
(* some time after futex_notify returned.  The word itself belongs to the  *)
(* module that instantiates this one.                                      *)
(***************************************************************************)
EXTENDS Naturals, FiniteSets

CONSTANTS Procs,      \* coroutines, on any threads
          WakeKinds,  \* [all : BOOLEAN, mask] of the notifications in use
          MaxWakes    \* bound on undelivered notifications of one kind

VARIABLES wait,       \* [Procs -> WaitStates]
          expect,     \* the value a waiter passed to futex_wait
          wmask,      \* the mask it passed
          wakes       \* [WakeKinds -> notifications not yet delivered]

WaitStates == {"none", "queued", "asleep", "awake", "cancelled"}

Init(v, m) == /\ wait = [p \in Procs |-> "none"]
              /\ expect = [p \in Procs |-> v]
              /\ wmask = [p \in Procs |-> m]
              /\ wakes = [k \in WakeKinds |-> 0]

TypeOK(Values, Masks) == /\ wait \in [Procs -> WaitStates]
                         /\ expect \in [Procs -> Values]
                         /\ wmask \in [Procs -> Masks]
                         /\ wakes \in [WakeKinds -> 0..MaxWakes]

(* futex_wait: the request is prepared, the coroutine suspends.            *)
Wait(p, v, m) == /\ wait' = [wait EXCEPT ![p] = "queued"]
                 /\ expect' = [expect EXCEPT ![p] = v]
                 /\ wmask' = [wmask EXCEPT ![p] = m]
                 /\ UNCHANGED wakes

(* The kernel takes the request: sleep, or EAGAIN (which is ignored).      *)
KernelWait(p, word) ==
  /\ wait[p] = "queued"
  /\ wait' = [wait EXCEPT ![p] = IF word = expect[p] THEN "asleep" ELSE "awake"]
  /\ UNCHANGED <<expect, wmask, wakes>>

(* futex_notify: a detached wake request.                                  *)
Notify(k) == /\ wakes[k] < MaxWakes
             /\ wakes' = [wakes EXCEPT ![k] = @ + 1]
             /\ UNCHANGED <<wait, expect, wmask>>

Sleepers(k) == {p \in Procs : wait[p] = "asleep" /\ wmask[p] \cap k.mask # {}}

(* The kernel delivers a notification: to one sleeper or to all of them.   *)
KernelWake(k) ==
  /\ wakes[k] > 0
  /\ wakes' = [wakes EXCEPT ![k] = @ - 1]
  /\ IF k.all \/ Sleepers(k) = {}
     THEN wait' = [p \in Procs |-> IF p \in Sleepers(k) THEN "awake" ELSE wait[p]]
     ELSE \E p \in Sleepers(k) : wait' = [wait EXCEPT ![p] = "awake"]
  /\ UNCHANGED <<expect, wmask>>

(* cancelGuard's prep_cancel reaches the request before it completed.      *)
KernelCancel(p) == /\ wait[p] \in {"queued", "asleep"}
                   /\ wait' = [wait EXCEPT ![p] = "cancelled"]
                   /\ UNCHANGED <<expect, wmask, wakes>>

(* The loop resumes the waiter, which sees how its request ended.          *)
Resume(p, how) == /\ wait[p] = how
                  /\ wait' = [wait EXCEPT ![p] = "none"]
                  /\ UNCHANGED <<expect, wmask, wakes>>
==============================================================================
