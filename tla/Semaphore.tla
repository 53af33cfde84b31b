-------------------------------- MODULE Semaphore --------------------------------
(***************************************************************************)
(* Semaphone (generic/semaphone.hpp): a counter that acquire takes from    *)
(* and release adds to, each waiting on the counter's futex while it       *)
(* cannot, each by a compare-exchange that its loop repeats on success.    *)
(* A spurious failure of the weak exchange, which x86 has not, and the     *)
(* cancellation of a wait are left out.                                    *)
(***************************************************************************)
EXTENDS Naturals, FiniteSets

CONSTANTS Procs,            \* coroutines
          mMaxCount,        \* the most the counter may be
          initialCount,
          MaxCalls,         \* bound on the calls of acquire and release
          OneThread         \* do all coroutines run on one thread?

VARIABLES mCounter,                     \* Semaphone::mCounter
          wait, expect, wmask, wakes,   \* its futex
          call,     \* the call each coroutine is in: "acquire", "release" or "none"
          at,       \* where it stands in it
          count,    \* its local variable
          calls,    \* calls begun
          ended     \* history: calls ended

futex == <<wait, expect, wmask, wakes>>
vars == <<mCounter, futex, call, at, count, calls, ended>>

Operations == {"acquire", "release"}

kAcquireMask == {"acquire"}
kReleaseMask == {"release"}

(* futex_notify(&mCounter, 1, mask)                                        *)
Wake(mask) == [all |-> FALSE, mask |-> mask]

F == INSTANCE Futex WITH WakeKinds <- {Wake(kAcquireMask), Wake(kReleaseMask)},
                         MaxWakes <- MaxCalls

Mask(o)     == IF o = "acquire" THEN kAcquireMask ELSE kReleaseMask
Notified(o) == IF o = "acquire" THEN kReleaseMask ELSE kAcquireMask

(* The value at which the operation cannot be done, and what it makes of   *)
(* another one.                                                            *)
Limit(o)     == IF o = "acquire" THEN 0 ELSE mMaxCount
Changed(o, n) == IF o = "acquire" THEN n - 1 ELSE n + 1

Init == /\ mCounter = initialCount /\ F!Init(0, {})
        /\ call = [p \in Procs |-> "none"] /\ at = [p \in Procs |-> "out"]
        /\ count = [p \in Procs |-> 0]
        /\ calls = 0 /\ ended = [o \in Operations |-> 0]

(* On one thread a coroutine that runs is not interrupted.                 *)
Executes(p) == OneThread => \A q \in Procs \ {p} : at[q] \in {"out", "waiting"}

(* acquire() or release(): the counter is loaded.                          *)
Begin(p, o) == /\ at[p] = "out" /\ Executes(p) /\ calls < MaxCalls
               /\ calls' = calls + 1
               /\ call' = [call EXCEPT ![p] = o]
               /\ count' = [count EXCEPT ![p] = mCounter]
               /\ at' = [at EXCEPT ![p] = "test"]
               /\ UNCHANGED <<mCounter, futex, ended>>

(* while (count == limit) co_await futex_wait                              *)
Test(p) ==
  /\ at[p] = "test" /\ Executes(p)
  /\ IF count[p] = Limit(call[p])
     THEN F!Wait(p, count[p], Mask(call[p])) /\ at' = [at EXCEPT ![p] = "waiting"]
     ELSE at' = [at EXCEPT ![p] = "exchange"] /\ UNCHANGED futex
  /\ UNCHANGED <<mCounter, call, count, calls, ended>>

Woken(p) == /\ at[p] = "waiting" /\ Executes(p) /\ F!Resume(p, "awake")
            /\ count' = [count EXCEPT ![p] = mCounter]
            /\ at' = [at EXCEPT ![p] = "test"]
            /\ UNCHANGED <<mCounter, call, calls, ended>>

(* while (compare_exchange_weak): again if the counter still was count.    *)
CompareExchange(p) ==
  /\ at[p] = "exchange" /\ Executes(p)
  /\ IF mCounter = count[p]
     THEN /\ mCounter' = Changed(call[p], mCounter)
          /\ at' = [at EXCEPT ![p] = "test"]
          /\ UNCHANGED count
     ELSE /\ count' = [count EXCEPT ![p] = mCounter]
          /\ at' = [at EXCEPT ![p] = "notify"]
          /\ UNCHANGED mCounter
  /\ UNCHANGED <<futex, call, calls, ended>>

Return(p) == /\ at[p] = "notify" /\ Executes(p)
             /\ F!Notify(Wake(Notified(call[p])))
             /\ ended' = [ended EXCEPT ![call[p]] = @ + 1]
             /\ call' = [call EXCEPT ![p] = "none"]
             /\ at' = [at EXCEPT ![p] = "out"]
             /\ UNCHANGED <<mCounter, count, calls>>

Kernel == /\ \/ \E p \in Procs : F!KernelWait(p, mCounter)
             \/ \E o \in Operations : F!KernelWake(Wake(Mask(o)))
          /\ UNCHANGED <<mCounter, call, at, count, calls, ended>>

Next == \/ \E p \in Procs : \/ \E o \in Operations : Begin(p, o)
                            \/ Test(p) \/ Woken(p) \/ CompareExchange(p) \/ Return(p)
        \/ Kernel

Spec == Init /\ [][Next]_vars
--------------------------------------------------------------------------------
(* "try to acquire one resource", "try to release one resource"            *)
(* (semaphone.hpp:33, 50): while nobody is in the middle of a call, the    *)
(* counter is what the calls that have ended make of it.                   *)
Counted == (\A p \in Procs : at[p] \in {"out", "waiting"})
             => mCounter + ended["acquire"] = initialCount + ended["release"]
================================================================================
