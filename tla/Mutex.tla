-------------------------------- MODULE Mutex --------------------------------
(***************************************************************************)
(* BasicMutex and the Locked guard of MutexImp1 (generic/mutex.hpp): a     *)
(* byte that lock() exchanges, and a futex the losers sleep on.  Every     *)
(* shared-memory access is a step of its own; lock() may be cancelled      *)
(* while it waits.                                                         *)
(***************************************************************************)
EXTENDS Naturals, FiniteSets

CONSTANTS Procs,      \* coroutines, on any threads
          MaxCalls,   \* bound on the calls they make between them
          MaxWakes    \* bound on undelivered notifications

ASSUME BoundsAssumption == MaxCalls \in Nat /\ MaxWakes \in Nat \ {0}

VARIABLES word,       \* BasicMutex::mFutex, a byte: 1 when locked
          pc,         \* where each coroutine is
          calls,      \* the calls still to be made
          wait, expect, wmask, wakes      \* the futex

AnyBit    == {"any"}                      \* FUTEX_BITSET_MATCH_ANY
WakeOne   == [all |-> FALSE, mask |-> AnyBit]
WakeKinds == {WakeOne}

F == INSTANCE Futex

futexVars == <<wait, expect, wmask, wakes>>
vars == <<word, pc, calls, futexVars>>

Init == /\ word = 0
        /\ pc = [p \in Procs |-> "idle"]
        /\ calls = MaxCalls
        /\ F!Init(0, AnyBit)

Goto(p, l) == pc' = [pc EXCEPT ![p] = l]

Call(p, l) == /\ pc[p] = "idle" /\ calls > 0
              /\ calls' = calls - 1
              /\ Goto(p, l)

(* try_lock: one exchange, no waiting.                                     *)
TryLock(p) == /\ Call(p, IF word = 1 THEN "idle" ELSE "locked")
              /\ word' = 1
              /\ UNCHANGED futexVars

Lock(p) == /\ Call(p, "exchange")
           /\ UNCHANGED <<word, futexVars>>

(* Mutant: a fetch-and-add in place of the exchange.                       *)
FetchAdd(p) == /\ pc[p] = "exchange"
               /\ word' = word + 1
               /\ UNCHANGED calls
               /\ IF word # 0
                  THEN Goto(p, "waiting") /\ F!Wait(p, word, AnyBit)
                  ELSE Goto(p, "locked") /\ UNCHANGED futexVars

(* One turn of lock()'s loop: take the byte or wait for it to change.      *)
Exchange(p) == /\ pc[p] = "exchange"
               /\ word' = 1
               /\ UNCHANGED calls
               /\ IF word = 1
                  THEN Goto(p, "waiting") /\ F!Wait(p, word, AnyBit)
                  ELSE Goto(p, "locked") /\ UNCHANGED futexVars

(* Mutant: a woken waiter believes that the mutex was handed to it.        *)
HandedOver(p) == /\ pc[p] = "waiting"
                 /\ F!Resume(p, "awake")
                 /\ Goto(p, "locked")
                 /\ UNCHANGED <<word, calls>>

(* The futex request completed: another turn of the loop.                  *)
Woken(p) == /\ pc[p] = "waiting"
            /\ F!Resume(p, "awake")
            /\ Goto(p, "exchange")
            /\ UNCHANGED <<word, calls>>

(* co_await of the failed wait returns the error to lock()'s caller.       *)
Cancelled(p) == /\ pc[p] = "waiting"
                /\ F!Resume(p, "cancelled")
                /\ Goto(p, "idle")
                /\ UNCHANGED <<word, calls>>

(* Mutants: an unlock without the store, or without the notification.      *)
KeepByte(p) == /\ pc[p] = "locked"
               /\ Goto(p, "notify")
               /\ UNCHANGED <<word, calls, futexVars>>

NotifyNobody(p) == /\ pc[p] = "notify"
                   /\ Goto(p, "idle")
                   /\ UNCHANGED <<word, calls, futexVars>>

(* unlock, or ~Locked: the store first, the notification after it.         *)
UnlockStore(p) == /\ pc[p] = "locked"
                  /\ word' = 0
                  /\ Goto(p, "notify")
                  /\ UNCHANGED <<calls, futexVars>>

UnlockNotify(p) == /\ pc[p] = "notify"
                   /\ F!Notify(WakeOne)
                   /\ Goto(p, "idle")
                   /\ UNCHANGED <<word, calls>>

(* The kernel's side of the futex.                                         *)
KernelWait(p) == F!KernelWait(p, word) /\ UNCHANGED <<word, pc, calls>>
KernelWake    == F!KernelWake(WakeOne) /\ UNCHANGED <<word, pc, calls>>
KernelCancel(p) == F!KernelCancel(p) /\ UNCHANGED <<word, pc, calls>>

Step(p) == Exchange(p) \/ Woken(p) \/ Cancelled(p) \/ UnlockStore(p) \/ UnlockNotify(p)

Terminated == /\ calls = 0 /\ \A p \in Procs : pc[p] = "idle"
              /\ UNCHANGED vars

Next == \/ \E p \in Procs : \/ TryLock(p) \/ Lock(p) \/ Step(p)
                            \/ KernelWait(p) \/ KernelCancel(p)
        \/ KernelWake \/ Terminated

(* A coroutine that may run does, holders release, and the rings are       *)
(* submitted; calling and cancelling is up to the program.                 *)
Fairness == /\ \A p \in Procs : WF_vars(Step(p)) /\ WF_vars(KernelWait(p))
            /\ WF_vars(KernelWake)

Spec == Init /\ [][Next]_vars
FairSpec == Spec /\ Fairness
------------------------------------------------------------------------------
(* Properties.                                                             *)

(* The variables have their types.                                         *)
TypeOK == /\ word \in {0, 1}
          /\ pc \in [Procs -> {"idle", "exchange", "waiting", "locked", "notify"}]
          /\ calls \in 0..MaxCalls
          /\ F!TypeOK({0, 1}, {AnyBit})

Holders == {p \in Procs : pc[p] = "locked"}

(* Two coroutines never hold the mutex together, and while one holds it    *)
(* the byte stays set, whatever try_lock and late wake-ups do meanwhile.   *)
MutualExclusion == /\ \A p, q \in Holders : p = q
                   /\ word = 1 <=> Holders # {}

(* A waiter asleep on a free mutex is about to be woken: a notification is *)
(* under way, or an awake coroutine is about to take the mutex and will    *)
(* notify when it releases it.                                             *)
NoLostWakeup ==
  (word = 0 /\ \E p \in Procs : wait[p] = "asleep") =>
    \/ wakes[WakeOne] > 0
    \/ \E p \in Procs : \/ pc[p] \in {"notify", "exchange"}
                        \/ pc[p] = "waiting" /\ wait[p] = "awake"

(* Every call to lock() ends: with the mutex, or cancelled.                *)
EveryLockEnds == \A p \in Procs : pc[p] \in {"exchange", "waiting"}
                                 ~> pc[p] \in {"locked", "idle"}
==============================================================================
