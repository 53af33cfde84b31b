------------------------------- MODULE CallOnce ------------------------------
(***************************************************************************)
(* CallOnce (generic/mutex.hpp) over Mutex: double-checked initialisation. *)
(* The coroutines of Procs share one mutex; each call is a plain lock, a   *)
(* try_lock or a call_once.  A caller that receives the Locked handle runs *)
(* the initialiser and may call set_ready before it drops the handle.      *)
(***************************************************************************)
EXTENDS Mutex

VARIABLES mCalled,    \* CallOnce::mCalled
          user        \* what each coroutine wants the mutex for

onceVars == <<mCalled, user>>
allVars == <<vars, onceVars>>

OnceInit == /\ Init
            /\ mCalled = FALSE
            /\ user = [p \in Procs |-> "plain"]

Become(p, u) == user' = [user EXCEPT ![p] = u]

(* The first load: an initialised object is returned without the lock.     *)
CallOnceStart(p) == /\ IF mCalled
                       THEN Call(p, "idle") /\ UNCHANGED user
                       ELSE Call(p, "exchange") /\ Become(p, "once")
                    /\ UNCHANGED <<mCalled, word, futexVars>>

(* Mutant: the caller trusts the first load once it holds the lock.              *)
NoRecheck(p) == /\ pc[p] = "locked" /\ user[p] = "once"
                /\ Become(p, "init")
                /\ UNCHANGED <<mCalled, vars>>

(* The second load, under the lock: hand out the handle or drop the lock.  *)
Recheck(p) == /\ pc[p] = "locked" /\ user[p] = "once"
              /\ Become(p, IF mCalled THEN "plain" ELSE "init")
              /\ UNCHANGED <<mCalled, vars>>

SetReady(p) == /\ user[p] = "init"
               /\ mCalled' = TRUE
               /\ Become(p, "set")
               /\ UNCHANGED vars

(* A lock() that failed is tried again, for ever.                          *)
Retry(p) == /\ pc[p] = "waiting" /\ user[p] = "once"
            /\ F!Resume(p, "cancelled")
            /\ Goto(p, "exchange")
            /\ UNCHANGED <<word, calls, onceVars>>

(* ~Locked, by a plain holder or by the owner of the handle.               *)
Release(p) == /\ user[p] # "once"
              /\ UnlockStore(p)
              /\ Become(p, "plain")
              /\ UNCHANGED mCalled

OnceStep(p) ==
  \/ Recheck(p) \/ SetReady(p) \/ Retry(p) \/ Release(p)
  \/ /\ Exchange(p) \/ Woken(p) \/ UnlockNotify(p)
     /\ UNCHANGED onceVars
  \/ user[p] = "plain" /\ Cancelled(p) /\ UNCHANGED onceVars

OnceKernelWait(p) == KernelWait(p) /\ UNCHANGED onceVars
OnceKernelWake    == KernelWake /\ UNCHANGED onceVars

OnceNext ==
  \/ \E p \in Procs :
       \/ CallOnceStart(p) \/ OnceStep(p) \/ OnceKernelWait(p)
       \/ /\ TryLock(p) \/ Lock(p) \/ KernelCancel(p)
          /\ UNCHANGED onceVars
  \/ OnceKernelWake
  \/ Terminated /\ UNCHANGED onceVars

OnceFairness ==
  /\ \A p \in Procs : WF_allVars(OnceStep(p)) /\ WF_allVars(OnceKernelWait(p))
  /\ WF_allVars(OnceKernelWake)

OnceSpec == OnceInit /\ [][OnceNext]_allVars
OnceFairSpec == OnceSpec /\ OnceFairness
------------------------------------------------------------------------------
(* The initialiser runs only on an object that is not ready, and only in   *)
(* the coroutine that holds the mutex: never twice to completion, never in *)
(* two coroutines at once.                                                 *)
InitOnce == /\ \A p \in Procs : user[p] \in {"init", "set"} => pc[p] = "locked"
            /\ \A p \in Procs : user[p] = "init" => ~mCalled
==============================================================================
