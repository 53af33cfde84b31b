----------------------------- MODULE MutexProofs -----------------------------
(***************************************************************************)
(* Proofs about Mutex and CallOnce, for any set of coroutines and any      *)
(* bounds: types, mutual exclusion, that no wake-up is lost, and that the  *)
(* initialiser runs in the holder of the mutex, on an object not ready.    *)
(***************************************************************************)
EXTENDS CallOnce, TLAPS

USE DEF futexVars, WakeKinds

(* Waiting on the futex is what the program counter says it is.            *)
WaitInv == \A p \in Procs : wait[p] # "none" <=> pc[p] = "waiting"

(* A waiter always passed the value "locked" it had read.                  *)
ExpectInv == \A p \in Procs : wait[p] # "none" => expect[p] = 1

(* The inductive invariant.  NoLostWakeup alone is not inductive: a waiter *)
(* is queued with the value it expects, and the kernel compares that value *)
(* with the byte later, so what it expects must be known.                  *)
IInv == TypeOK /\ MutualExclusion /\ WaitInv /\ ExpectInv /\ NoLostWakeup

LEMMA NotifyKind == WakeOne \in WakeKinds /\ ~WakeOne.all
  BY DEF WakeOne

(* No call, wait or delivery leaves the types.                             *)
LEMMA TypeStep == TypeOK /\ [Next]_vars => TypeOK'
<1> SUFFICES ASSUME TypeOK, [Next]_vars PROVE TypeOK'
  OBVIOUS
<1> USE DEF TypeOK, F!TypeOK, F!WaitStates, Goto
<1>1. ASSUME NEW p \in Procs, TryLock(p) \/ Lock(p) PROVE TypeOK'
  BY <1>1, BoundsAssumption DEF TryLock, Lock, Call
<1>2. ASSUME NEW p \in Procs, Exchange(p) PROVE TypeOK'
  BY <1>2 DEF Exchange, F!Wait
<1>3. ASSUME NEW p \in Procs, Woken(p) \/ Cancelled(p) PROVE TypeOK'
  BY <1>3 DEF Woken, Cancelled, F!Resume
<1>4. ASSUME NEW p \in Procs, UnlockStore(p) PROVE TypeOK'
  BY <1>4 DEF UnlockStore
<1>5. ASSUME NEW p \in Procs, UnlockNotify(p) PROVE TypeOK'
  BY <1>5, NotifyKind, BoundsAssumption DEF UnlockNotify, F!Notify
<1>6. ASSUME NEW p \in Procs, KernelWait(p) \/ KernelCancel(p) PROVE TypeOK'
  BY <1>6 DEF KernelWait, KernelCancel, F!KernelWait, F!KernelCancel
<1>7. CASE KernelWake
  BY <1>7, NotifyKind, BoundsAssumption
     DEF KernelWake, F!KernelWake, F!Sleepers
<1>8. CASE UNCHANGED vars
  BY <1>8 DEF vars
<1>9. QED
  BY <1>1, <1>2, <1>3, <1>4, <1>5, <1>6, <1>7, <1>8
     DEF Next, Step, Terminated

(* Every variable keeps its type in every step of the mutex.               *)
THEOREM TypeCorrect == Spec => []TypeOK
<1>1. Init => TypeOK
  BY BoundsAssumption DEF Init, TypeOK, F!Init, F!TypeOK, F!WaitStates
<1>2. QED
  BY <1>1, TypeStep, PTL DEF Spec
------------------------------------------------------------------------------
(* The byte and the program counters: taking the byte is the only way in,  *)
(* and the holder is the only one that clears it.                          *)
LEMMA ExclusionStep == TypeOK /\ MutualExclusion /\ [Next]_vars => MutualExclusion'
<1> SUFFICES ASSUME TypeOK, MutualExclusion, [Next]_vars PROVE MutualExclusion'
  OBVIOUS
<1> USE DEF TypeOK, MutualExclusion, Holders, Goto
<1>1. ASSUME NEW p \in Procs, TryLock(p) \/ Lock(p) PROVE MutualExclusion'
  <2>1. CASE Lock(p)
    BY <2>1 DEF Lock, Call
  <2>2. CASE TryLock(p) /\ word = 1
    BY <2>2 DEF TryLock, Call
  <2>3. CASE TryLock(p) /\ word = 0
    BY <2>3 DEF TryLock, Call
  <2>4. QED
    BY <1>1, <2>1, <2>2, <2>3
<1>2. ASSUME NEW p \in Procs, Exchange(p) PROVE MutualExclusion'
  <2>1. CASE word = 1
    BY <1>2, <2>1 DEF Exchange
  <2>2. CASE word = 0
    BY <1>2, <2>2 DEF Exchange
  <2>3. QED
    BY <2>1, <2>2
<1>3. ASSUME NEW p \in Procs, UnlockStore(p) PROVE MutualExclusion'
  BY <1>3 DEF UnlockStore
<1>4. ASSUME NEW p \in Procs, Woken(p) \/ Cancelled(p) \/ UnlockNotify(p)
      PROVE MutualExclusion'
  BY <1>4 DEF Woken, Cancelled, UnlockNotify
<1>5. ASSUME UNCHANGED <<word, pc>> PROVE MutualExclusion'
  BY <1>5
<1>6. QED
  BY <1>1, <1>2, <1>3, <1>4, <1>5
     DEF Next, Step, Terminated, vars, KernelWait, KernelCancel, KernelWake

(* At most one coroutine holds the mutex, and the byte says so.            *)
THEOREM Exclusion == Spec => []MutualExclusion
<1>1. Init => MutualExclusion
  BY DEF Init, MutualExclusion, Holders
<1>2. QED
  BY <1>1, ExclusionStep, TypeCorrect, PTL DEF Spec

(* Between the coroutine and the kernel: who waits, and for which value.   *)
LEMMA WaitStep ==
  TypeOK /\ WaitInv /\ ExpectInv /\ [Next]_vars => WaitInv' /\ ExpectInv'
<1> SUFFICES ASSUME TypeOK, WaitInv, ExpectInv, [Next]_vars
             PROVE  WaitInv' /\ ExpectInv'
  OBVIOUS
<1> USE DEF TypeOK, F!TypeOK, F!WaitStates, WaitInv, ExpectInv, Goto
<1>1. ASSUME NEW p \in Procs, TryLock(p) \/ Lock(p) \/ UnlockStore(p)
      PROVE  WaitInv' /\ ExpectInv'
  BY <1>1 DEF TryLock, Lock, Call, UnlockStore
<1>2. ASSUME NEW p \in Procs, Exchange(p) PROVE WaitInv' /\ ExpectInv'
  BY <1>2 DEF Exchange, F!Wait
<1>3. ASSUME NEW p \in Procs, Woken(p) \/ Cancelled(p)
      PROVE  WaitInv' /\ ExpectInv'
  BY <1>3 DEF Woken, Cancelled, F!Resume
<1>4. ASSUME NEW p \in Procs, UnlockNotify(p) PROVE WaitInv' /\ ExpectInv'
  BY <1>4 DEF UnlockNotify, F!Notify
<1>5. ASSUME NEW p \in Procs, KernelWait(p) \/ KernelCancel(p)
      PROVE  WaitInv' /\ ExpectInv'
  BY <1>5 DEF KernelWait, KernelCancel, F!KernelWait, F!KernelCancel
<1>6. CASE KernelWake
  BY <1>6 DEF KernelWake, F!KernelWake, F!Sleepers
<1>7. CASE UNCHANGED vars
  BY <1>7 DEF vars
<1>8. QED
  BY <1>1, <1>2, <1>3, <1>4, <1>5, <1>6, <1>7 DEF Next, Step, Terminated

(* Whoever sleeps while the byte is clear has a wake-up on its way.        *)
LEMMA WakeupStep == IInv /\ [Next]_vars => NoLostWakeup'
<1> SUFFICES ASSUME IInv, [Next]_vars PROVE NoLostWakeup'
  OBVIOUS
<1> USE DEF IInv, TypeOK, F!TypeOK, F!WaitStates, NoLostWakeup, Goto
<1>1. ASSUME NEW p \in Procs, TryLock(p) \/ Exchange(p) PROVE NoLostWakeup'
  BY <1>1 DEF TryLock, Exchange
<1>2. ASSUME NEW p \in Procs, Lock(p) \/ UnlockStore(p) PROVE NoLostWakeup'
  BY <1>2 DEF Lock, Call, UnlockStore
<1>3. ASSUME NEW p \in Procs, Woken(p) \/ Cancelled(p) PROVE NoLostWakeup'
  BY <1>3 DEF Woken, Cancelled, F!Resume
<1>4. ASSUME NEW p \in Procs, UnlockNotify(p) PROVE NoLostWakeup'
  <2>1. wakes'[WakeOne] > 0
    BY <1>4, NotifyKind DEF UnlockNotify, F!Notify
  <2>2. QED
    BY <2>1
<1>5. ASSUME NEW p \in Procs, KernelWait(p) PROVE NoLostWakeup'
  <2>1. CASE word = 1
    BY <1>5, <2>1 DEF KernelWait, F!KernelWait
  <2>2. CASE word = 0
    <3>1. wait'[p] = "awake" /\ pc'[p] = "waiting"
      BY <1>5, <2>2 DEF KernelWait, F!KernelWait, ExpectInv, WaitInv
    <3>2. QED
      BY <3>1
  <2>3. QED
    BY <2>1, <2>2
<1>6. ASSUME NEW p \in Procs, KernelCancel(p) PROVE NoLostWakeup'
  BY <1>6 DEF KernelCancel, F!KernelCancel
<1>7. CASE KernelWake
  <2>1. CASE F!Sleepers(WakeOne) = {}
    <3>1. \A p \in Procs : wait'[p] # "asleep"
      BY <1>7, <2>1, NotifyKind
         DEF KernelWake, F!KernelWake, F!Sleepers, WakeOne, AnyBit
    <3>2. QED
      BY <3>1
  <2>2. CASE F!Sleepers(WakeOne) # {}
    <3>1. PICK p \in F!Sleepers(WakeOne) : wait' = [wait EXCEPT ![p] = "awake"]
      BY <1>7, <2>2, NotifyKind DEF KernelWake, F!KernelWake
    <3>2. p \in Procs /\ wait'[p] = "awake" /\ pc'[p] = "waiting"
      BY <1>7, <3>1 DEF F!Sleepers, KernelWake, WaitInv
    <3>3. QED
      BY <3>2
  <2>3. QED
    BY <2>1, <2>2
<1>8. CASE UNCHANGED vars
  BY <1>8 DEF vars
<1>9. QED
  BY <1>1, <1>2, <1>3, <1>4, <1>5, <1>6, <1>7, <1>8 DEF Next, Step, Terminated

(* No wake-up is lost, for any number of coroutines, barging try_locks and *)
(* cancellations included.                                                 *)
THEOREM WakeupKept == Spec => []NoLostWakeup
<1>1. Init => WaitInv /\ ExpectInv /\ NoLostWakeup
  BY DEF Init, F!Init, WaitInv, ExpectInv, NoLostWakeup
<1>2. QED
  BY <1>1, TypeCorrect, Exclusion, WaitStep, WakeupStep, PTL DEF Spec, IInv
------------------------------------------------------------------------------
(* CallOnce.                                                               *)

(* What the proof needs of the types.                                      *)
OnceTypes == /\ word \in {0, 1}
             /\ pc \in [Procs -> {"idle", "exchange", "waiting", "locked", "notify"}]
             /\ mCalled \in BOOLEAN
             /\ user \in [Procs -> {"plain", "once", "init", "set"}]

(* The inductive invariant: SetReady keeps InitOnce because no other       *)
(* coroutine holds the mutex, so no other is initialising.                 *)
OnceInv == OnceTypes /\ MutualExclusion /\ InitOnce

LEMMA OnceStart == OnceInit => OnceInv
<1> SUFFICES ASSUME OnceInit PROVE OnceInv
  OBVIOUS
<1> USE DEF OnceInit, Init
<1>1. OnceTypes
  BY DEF OnceTypes
<1>2. MutualExclusion
  BY DEF MutualExclusion, Holders
<1>3. InitOnce
  BY DEF InitOnce
<1>4. QED
  BY <1>1, <1>2, <1>3 DEF OnceInv

(* Steps that leave the byte, the program counters and the users alone.    *)
LEMMA OnceQuiet ==
  ASSUME OnceInv, UNCHANGED <<word, pc, mCalled, user>> PROVE OnceInv'
  BY DEF OnceInv, OnceTypes, MutualExclusion, Holders, InitOnce

(* Steps of a coroutine that does not hold the mutex and does not take it. *)
LEMMA OnceOutside ==
  ASSUME OnceInv, NEW p \in Procs, pc[p] # "locked",
         NEW l \in {"idle", "exchange", "waiting", "notify"}, NEW u \in {"plain", "once"},
         pc' = [pc EXCEPT ![p] = l], UNCHANGED <<word, mCalled>>,
         user' = user \/ user' = [user EXCEPT ![p] = u]
  PROVE  OnceInv'
<1> USE DEF OnceInv, OnceTypes
<1>1. OnceTypes'
  BY DEF OnceTypes
<1>2. Holders' = Holders
  BY DEF Holders
<1>3. MutualExclusion'
  BY <1>2 DEF MutualExclusion
<1>4. InitOnce'
  BY DEF InitOnce
<1>5. QED
  BY <1>1, <1>3, <1>4

(* Taking the byte: nobody held it.                                        *)
LEMMA OnceTake ==
  ASSUME OnceInv, NEW p \in Procs, pc[p] # "locked", word = 0, word' = 1,
         pc' = [pc EXCEPT ![p] = "locked"], UNCHANGED <<mCalled, user>>
  PROVE  OnceInv'
<1> USE DEF OnceInv, OnceTypes
<1>1. Holders = {} /\ Holders' = {p}
  BY DEF Holders, MutualExclusion
<1>2. MutualExclusion'
  BY <1>1 DEF MutualExclusion
<1>3. InitOnce'
  BY DEF InitOnce
<1>4. QED
  BY <1>2, <1>3

LEMMA OnceStepKeeps == OnceInv /\ [OnceNext]_allVars => OnceInv'
<1> SUFFICES ASSUME OnceInv, [OnceNext]_allVars PROVE OnceInv'
  OBVIOUS
<1> USE DEF OnceInv, OnceTypes, Goto, Become, onceVars
<1>1. ASSUME NEW p \in Procs, CallOnceStart(p) PROVE OnceInv'
  BY <1>1, OnceOutside DEF CallOnceStart, Call
<1>2. ASSUME NEW p \in Procs, Recheck(p) PROVE OnceInv'
  BY <1>2 DEF Recheck, vars, MutualExclusion, Holders, InitOnce
<1>3. ASSUME NEW p \in Procs, SetReady(p) PROVE OnceInv'
  <2>1. \A q \in Procs : user[q] = "init" => q = p
    BY <1>3 DEF SetReady, InitOnce, MutualExclusion, Holders
  <2>2. QED
    BY <1>3, <2>1 DEF SetReady, vars, InitOnce, MutualExclusion, Holders
<1>4. ASSUME NEW p \in Procs, Retry(p) PROVE OnceInv'
  BY <1>4, OnceOutside DEF Retry
<1>5. ASSUME NEW p \in Procs, Release(p) PROVE OnceInv'
  <2>1. Holders = {p} /\ Holders' = {}
    BY <1>5 DEF Release, UnlockStore, Holders, MutualExclusion
  <2>2. MutualExclusion'
    BY <1>5, <2>1 DEF Release, UnlockStore, MutualExclusion
  <2>3. InitOnce'
    BY <1>5 DEF Release, UnlockStore, InitOnce
  <2>4. QED
    BY <1>5, <2>2, <2>3 DEF Release, UnlockStore
<1>6. ASSUME NEW p \in Procs, Exchange(p), UNCHANGED onceVars PROVE OnceInv'
  <2>1. CASE word = 1
    BY <1>6, <2>1, OnceOutside DEF Exchange
  <2>2. CASE word = 0
    BY <1>6, <2>2, OnceTake DEF Exchange
  <2>3. QED
    BY <2>1, <2>2
<1>7. ASSUME NEW p \in Procs, Woken(p) \/ UnlockNotify(p) \/ Cancelled(p), UNCHANGED onceVars
      PROVE  OnceInv'
  <2>1. CASE Woken(p)
    BY <1>7, <2>1, OnceOutside DEF Woken
  <2>2. CASE UnlockNotify(p)
    BY <1>7, <2>2, OnceOutside DEF UnlockNotify
  <2>3. CASE Cancelled(p)
    BY <1>7, <2>3, OnceOutside DEF Cancelled
  <2>4. QED
    BY <1>7, <2>1, <2>2, <2>3
<1>8. ASSUME NEW p \in Procs, TryLock(p), UNCHANGED onceVars PROVE OnceInv'
  <2>1. CASE word = 1
    <3>1. pc[p] = "idle" /\ pc' = [pc EXCEPT ![p] = "idle"] /\ word' = word
      BY <1>8, <2>1 DEF TryLock, Call
    <3>2. QED
      BY <1>8, <3>1, OnceOutside
  <2>2. CASE word = 0
    <3>1. pc[p] = "idle" /\ pc' = [pc EXCEPT ![p] = "locked"] /\ word' = 1
      BY <1>8, <2>2 DEF TryLock, Call
    <3>2. QED
      BY <1>8, <2>2, <3>1, OnceTake
  <2>3. QED
    BY <2>1, <2>2
<1>9. ASSUME NEW p \in Procs, Lock(p), UNCHANGED onceVars PROVE OnceInv'
  BY <1>9, OnceOutside DEF Lock, Call
<1>10. ASSUME UNCHANGED <<word, pc, mCalled, user>> PROVE OnceInv'
  BY <1>10, OnceQuiet
<1>11. QED
  BY <1>1, <1>2, <1>3, <1>4, <1>5, <1>6, <1>7, <1>8, <1>9, <1>10
     DEF OnceNext, OnceStep, OnceKernelWait, OnceKernelWake, KernelWait, KernelWake,
         KernelCancel, Terminated, allVars, vars

(* The object is initialised once: no coroutine runs the initialiser       *)
(* without the mutex, or when the object is ready (call_once, set_ready).  *)
THEOREM Once == OnceSpec => []InitOnce
<1>1. OnceInv => InitOnce
  BY DEF OnceInv
<1>2. QED
  BY <1>1, OnceStart, OnceStepKeeps, PTL DEF OnceSpec

(* What call_once does to the mutex is what lock, try_lock and unlock do,  *)
(* but that an initialised object is returned without the lock, and that a *)
(* cancelled lock is tried again.                                          *)
Skip(p) == Call(p, "idle") /\ UNCHANGED <<word, futexVars>>

LEMMA OnceMoves ==
  ASSUME [OnceNext]_allVars
  PROVE  [Next]_vars \/ \E p \in Procs : Skip(p) \/ Retry(p)
<1>1. ASSUME NEW p \in Procs, CallOnceStart(p) PROVE Lock(p) \/ Skip(p)
  BY <1>1 DEF CallOnceStart, Lock, Skip
<1>2. ASSUME NEW p \in Procs, OnceStep(p) PROVE Retry(p) \/ Step(p) \/ UNCHANGED vars
  BY <1>2 DEF OnceStep, Recheck, SetReady, Release, Step
<1>3. ASSUME NEW p \in Procs, OnceKernelWait(p) PROVE KernelWait(p)
  BY <1>3 DEF OnceKernelWait
<1>4. CASE OnceKernelWake
  BY <1>4 DEF OnceKernelWake, Next
<1>5. CASE Terminated
  BY <1>5 DEF Next
<1>6. CASE UNCHANGED allVars
  BY <1>6 DEF allVars, vars
<1>7. QED
  BY <1>1, <1>2, <1>3, <1>4, <1>5, <1>6 DEF OnceNext, Next

LEMMA SkipKeeps == ASSUME IInv, NEW p \in Procs, Skip(p) PROVE IInv'
<1>1. TypeOK /\ pc' = pc
  BY DEF IInv, Skip, Call, Goto, TypeOK
<1>2. calls' \in 0..MaxCalls
  BY BoundsAssumption DEF IInv, TypeOK, Skip, Call
<1>3. TypeOK'
  BY <1>1, <1>2 DEF Skip, TypeOK, F!TypeOK, F!WaitStates
<1>4. MutualExclusion' /\ WaitInv' /\ ExpectInv' /\ NoLostWakeup'
  BY <1>1 DEF IInv, Skip, MutualExclusion, Holders, WaitInv, ExpectInv, NoLostWakeup
<1>5. QED
  BY <1>3, <1>4 DEF IInv

LEMMA RetryKeeps == ASSUME IInv, NEW p \in Procs, Retry(p) PROVE IInv'
<1>1. TypeOK'
  BY DEF IInv, Retry, TypeOK, F!TypeOK, F!WaitStates, F!Resume, Goto
<1>2. MutualExclusion'
  BY DEF IInv, Retry, TypeOK, MutualExclusion, Holders, F!Resume, Goto
<1>3. WaitInv' /\ ExpectInv'
  BY DEF IInv, Retry, TypeOK, F!TypeOK, F!WaitStates, WaitInv, ExpectInv, F!Resume, Goto
<1>4. NoLostWakeup'
  <2>1. pc'[p] = "exchange"
    BY DEF IInv, Retry, TypeOK, Goto
  <2>2. QED
    BY <2>1 DEF NoLostWakeup
<1>5. QED
  BY <1>1, <1>2, <1>3, <1>4 DEF IInv

(* The mutex keeps its promises to call_once and beside it.                *)
THEOREM OnceKeepsMutex == OnceSpec => [](TypeOK /\ MutualExclusion /\ NoLostWakeup)
<1>1. OnceInit => IInv
  <2>1. Init => TypeOK
    BY BoundsAssumption DEF Init, TypeOK, F!Init, F!TypeOK, F!WaitStates
  <2>2. QED
    BY <2>1 DEF OnceInit, IInv, Init, F!Init, MutualExclusion, Holders, WaitInv, ExpectInv,
                NoLostWakeup
<1>2. IInv /\ [OnceNext]_allVars => IInv'
  <2> SUFFICES ASSUME IInv, [OnceNext]_allVars PROVE IInv'
    OBVIOUS
  <2>1. CASE [Next]_vars
    BY <2>1, TypeStep, ExclusionStep, WaitStep, WakeupStep DEF IInv
  <2>2. QED
    BY <2>1, OnceMoves, SkipKeeps, RetryKeeps
<1>3. IInv => TypeOK /\ MutualExclusion /\ NoLostWakeup
  BY DEF IInv
<1>4. QED
  BY <1>1, <1>2, <1>3, PTL DEF OnceSpec
==============================================================================
