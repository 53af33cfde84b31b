------------------------------ MODULE ThreadPool -----------------------------
(***************************************************************************)
(* Thread_pool (generic/thread_pool.cpp): submitJob hands a function to a  *)
(* free or a new thread, the thread runs it and goes back to the free      *)
(* list, and the coroutine that called run(), on whatever thread, waits on *)
(* a futex for the result.  A section under a spin mutex is one step; a    *)
(* thread's own mutex is held across steps in the states of Held.  The     *)
(* functions' results and exceptions are left out: both are written to the *)
(* caller's frame before ready is set.                                     *)
(***************************************************************************)
EXTENDS Naturals, Sequences, FiniteSets

CONSTANTS Callers,      \* coroutines that call run(), one call at a time
          Cancellable,  \* those that pass a cancel token
          MaxCalls,     \* bound on the calls
          MaxThreads,   \* bound on the threads: a call that would need one
                        \* more is not made
          None          \* an empty std::function

ASSUME CallersAssumption == /\ None \notin Callers
                            /\ IsFiniteSet(Callers)
                            /\ Cancellable \subseteq Callers
ASSUME BoundsAssumption == MaxThreads \in Nat /\ MaxCalls \in Nat

Workers == 1..MaxThreads

VARIABLES
  calls,      \* the calls still to be made
  cpc,        \* [Callers -> where its call is]
  target,     \* the thread submitJob chose
  ready,      \* the shared futex word of the call
  stopped,    \* the call's cancel callback ran
  threads,    \* how many elements mThreads has had, in order of creation
  free,       \* mFreeThreads
  working,    \* [Workers -> entries of the thread in mWorkingThreads]
  wpc,        \* [Workers -> where the thread is]
  task,       \* Thread::mTask
  job,        \* the caller whose function the thread took
  ran,        \* how often the function of the call was run
  stop,       \* the jthread's stop state
  dpc, dying  \* ~Thread_pool: its step and the element of mThreads it is at

callVars == <<calls, cpc, target, ready, stopped>>
listVars == <<threads, free, working>>
workVars == <<wpc, task, job, ran>>
dtorVars == <<stop, dpc, dying>>
vars == <<callVars, listVars, workVars, dtorVars>>

Init == /\ calls = MaxCalls
        /\ cpc = [j \in Callers |-> "idle"]
        /\ target = [j \in Callers |-> 0]
        /\ ready = [j \in Callers |-> FALSE]
        /\ stopped = [j \in Callers |-> FALSE]
        /\ threads = 0
        /\ free = << >>
        /\ working = [w \in Workers |-> 0]
        /\ wpc = [w \in Workers |-> "none"]
        /\ task = [w \in Workers |-> None]
        /\ job = [w \in Workers |-> None]
        /\ ran = [j \in Callers |-> 0]
        /\ stop = [w \in Workers |-> FALSE]
        /\ dpc = "alive" /\ dying = 0

CallAt(j, from, to) == cpc[j] = from /\ cpc' = [cpc EXCEPT ![j] = to]
WorkerAt(w, from, to) == wpc[w] = from /\ wpc' = [wpc EXCEPT ![w] = to]

(* The thread holds its own mMutex between two steps.                      *)
Held(w) == wpc[w] \in {"block", "remove", "free"}

------------------------------------------------------------------------------
(* The caller: submitJob, then the wait of rawRun.                         *)

(* Mutant: the thread chosen stays in the free list.                       *)
BorrowFree(j) ==
  /\ dpc = "alive"
  /\ calls > 0 /\ calls' = calls - 1
  /\ IF free = << >>
     THEN /\ threads + Cardinality({k \in Callers : cpc[k] = "create"}) < MaxThreads
          /\ CallAt(j, "idle", "create")
          /\ UNCHANGED target
     ELSE /\ CallAt(j, "idle", "workOn")
          /\ target' = [target EXCEPT ![j] = Head(free)]
  /\ UNCHANGED <<ready, stopped, threads, free, working, workVars, dtorVars>>

(* Under mFreeMutex: take the first free thread, or decide to create one.  *)
Submit(j) ==
  /\ dpc = "alive"
  /\ calls > 0 /\ calls' = calls - 1
  /\ IF free = << >>
     THEN /\ threads + Cardinality({k \in Callers : cpc[k] = "create"}) < MaxThreads
          /\ CallAt(j, "idle", "create")
          /\ UNCHANGED <<target, free>>
     ELSE /\ CallAt(j, "idle", "workOn")
          /\ target' = [target EXCEPT ![j] = Head(free)]
          /\ free' = Tail(free)
  /\ UNCHANGED <<ready, stopped, threads, working, workVars, dtorVars>>

(* Under mThreadsMutex: emplace_back starts the thread.                    *)
Create(j) ==
  /\ CallAt(j, "create", "workOn")
  /\ threads' = threads + 1
  /\ target' = [target EXCEPT ![j] = threads + 1]
  /\ wpc' = [wpc EXCEPT ![threads + 1] = "lock"]
  /\ UNCHANGED <<calls, ready, stopped, free, working, task, job, ran, dtorVars>>

(* Mutant: the task is set, the thread is not notified.                    *)
WorkOnSilently(j) ==
  LET w == target[j]
  IN  /\ CallAt(j, "workOn", "list")
      /\ ~Held(w)
      /\ task' = [task EXCEPT ![w] = j]
      /\ UNCHANGED <<calls, target, ready, stopped, listVars, wpc, job, ran, dtorVars>>

(* workOn: under the thread's mutex, set the task and notify.              *)
WorkOn(j) ==
  LET w == target[j]
  IN  /\ CallAt(j, "workOn", "list")
      /\ ~Held(w)
      /\ task' = [task EXCEPT ![w] = j]
      /\ wpc' = [wpc EXCEPT ![w] = IF @ = "sleep" THEN "lock" ELSE @]
      /\ UNCHANGED <<calls, target, ready, stopped, listVars, job, ran, dtorVars>>

(* Under mWorkingMutex, after the thread may have started.                 *)
List(j) == /\ CallAt(j, "list", "check")
           /\ working' = [working EXCEPT ![target[j]] = @ + 1]
           /\ UNCHANGED <<calls, target, ready, stopped, threads, free, workVars, dtorVars>>

(* while(ready == false) co_await futex_wait(ready, false).                *)
Await(j) == /\ ~ready[j]
            /\ CallAt(j, "check", "queued")
            /\ UNCHANGED <<calls, target, ready, stopped, listVars, workVars, dtorVars>>

(* Mutant: a cancelled caller returns without its function.                *)
ReturnCancelled(j) ==
  /\ ready[j] \/ stopped[j]
  /\ CallAt(j, "check", "idle")
  /\ ready' = [ready EXCEPT ![j] = FALSE]
  /\ stopped' = [stopped EXCEPT ![j] = FALSE]
  /\ ran' = [ran EXCEPT ![j] = 0]
  /\ job' = [w \in Workers |-> IF job[w] = j THEN None ELSE job[w]]
  /\ UNCHANGED <<calls, target, listVars, wpc, task, dtorVars>>

(* rawRun returns; its next call has a futex word of its own, and a thread *)
(* that still has to notify this one wakes nobody.                         *)
Return(j) == /\ ready[j]
             /\ CallAt(j, "check", "idle")
             /\ ready' = [ready EXCEPT ![j] = FALSE]
             /\ stopped' = [stopped EXCEPT ![j] = FALSE]
             /\ ran' = [ran EXCEPT ![j] = 0]
             /\ job' = [w \in Workers |-> IF job[w] = j THEN None ELSE job[w]]
             /\ UNCHANGED <<calls, target, listVars, wpc, task, dtorVars>>

(* The kernel takes the futex request, and compares the word.              *)
KernelWait(j) == /\ CallAt(j, "queued", IF ready[j] THEN "check" ELSE "asleep")
                 /\ UNCHANGED <<calls, target, ready, stopped, listVars, workVars, dtorVars>>

(* The CancelCallback of the cancellable rawRun, and the cancellation of   *)
(* the futex request it waits on; the result of the wait is ignored.       *)
Cancel(j) == /\ j \in Cancellable /\ ~stopped[j]
             /\ cpc[j] \in {"check", "queued", "asleep"}
             /\ stopped' = [stopped EXCEPT ![j] = TRUE]
             /\ UNCHANGED <<calls, cpc, target, ready, listVars, workVars, dtorVars>>

KernelCancel(j) == /\ stopped[j]
                   /\ CallAt(j, "asleep", "check")
                   /\ UNCHANGED <<calls, target, ready, stopped, listVars, workVars, dtorVars>>

Call(j) == \/ Create(j) \/ WorkOn(j) \/ List(j) \/ Await(j) \/ Return(j) \/ KernelWait(j)

------------------------------------------------------------------------------
(* The thread: startMain.                                                  *)

(* The thread takes its task and gives the mutex back.                     *)
Take(w) == /\ ~stop[w] /\ task[w] # None
           /\ WorkerAt(w, "lock", "run")
           /\ job' = [job EXCEPT ![w] = task[w]]
           /\ task' = [task EXCEPT ![w] = None]
           /\ UNCHANGED <<callVars, listVars, ran, dtorVars>>

Quit(w) == /\ stop[w]
           /\ WorkerAt(w, "lock", "exit")
           /\ UNCHANGED <<callVars, listVars, task, job, ran, dtorVars>>

(* The predicate is false: the thread will block, and only then let go of  *)
(* the mutex.                                                              *)
Idle(w) == /\ ~stop[w] /\ task[w] = None
           /\ WorkerAt(w, "lock", "block")
           /\ UNCHANGED <<callVars, listVars, task, job, ran, dtorVars>>

Block(w) == /\ WorkerAt(w, "block", "sleep")
            /\ UNCHANGED <<callVars, listVars, task, job, ran, dtorVars>>

Spurious(w) == /\ WorkerAt(w, "sleep", "lock")
               /\ UNCHANGED <<callVars, listVars, task, job, ran, dtorVars>>

(* task(): func(), which writes res and ep in the caller's frame.          *)
Run(w) == /\ WorkerAt(w, "run", "store")
          /\ ran' = [ran EXCEPT ![job[w]] = @ + 1]
          /\ UNCHANGED <<callVars, listVars, task, job, dtorVars>>

Store(w) == /\ WorkerAt(w, "store", "notify")
            /\ ready' = [ready EXCEPT ![job[w]] = TRUE]
            /\ UNCHANGED <<calls, cpc, target, stopped, listVars, task, job, ran, dtorVars>>

(* futex_notify_sync: whoever sleeps on this word now is woken.            *)
Notify(w) == /\ WorkerAt(w, "notify", "relock")
             /\ cpc' = [j \in Callers |-> IF j = job[w] /\ cpc[j] = "asleep"
                                          THEN "check" ELSE cpc[j]]
             /\ UNCHANGED <<calls, target, ready, stopped, listVars, task, job, ran, dtorVars>>

Relock(w) == /\ WorkerAt(w, "relock", "remove")
             /\ task' = [task EXCEPT ![w] = None]
             /\ job' = [job EXCEPT ![w] = None]
             /\ UNCHANGED <<callVars, listVars, ran, dtorVars>>

(* Mutant: one entry is erased, whether or not it is there.                *)
RemoveOne(w) == /\ WorkerAt(w, "remove", "free")
                /\ working' = [working EXCEPT ![w] = @ - 1]
                /\ UNCHANGED <<callVars, threads, free, task, job, ran, dtorVars>>

(* list::remove drops every entry of the thread.                           *)
Remove(w) == /\ WorkerAt(w, "remove", "free")
             /\ working' = [working EXCEPT ![w] = 0]
             /\ UNCHANGED <<callVars, threads, free, task, job, ran, dtorVars>>

PushFree(w) == /\ WorkerAt(w, "free", "lock")
               /\ free' = Append(free, w)
               /\ UNCHANGED <<callVars, threads, working, task, job, ran, dtorVars>>

Work(w) == \/ Take(w) \/ Quit(w) \/ Idle(w) \/ Block(w) \/ Run(w)
           \/ Store(w) \/ Notify(w) \/ Relock(w) \/ Remove(w) \/ PushFree(w)

------------------------------------------------------------------------------
(* ~Thread_pool, when no call is inside submitJob: ~Thread of one element  *)
(* of mThreads after the other.                                            *)

Dtor(from, to) == dpc = from /\ dpc' = to

Destroy == /\ Dtor("alive", "next")
           /\ \A j \in Callers : cpc[j] \notin {"create", "workOn", "list"}
           /\ UNCHANGED <<callVars, listVars, workVars, stop, dying>>

RequestStop == /\ dying < threads
               /\ Dtor("next", "notify")
               /\ dying' = dying + 1
               /\ stop' = [stop EXCEPT ![dying + 1] = TRUE]
               /\ UNCHANGED <<callVars, listVars, workVars>>

(* mCV.notify_one, without the mutex.                                      *)
NotifyStop == /\ Dtor("notify", "join")
              /\ wpc' = [wpc EXCEPT ![dying] = IF @ = "sleep" THEN "lock" ELSE @]
              /\ UNCHANGED <<callVars, listVars, task, job, ran, stop, dying>>

Join == /\ Dtor("join", "next")
        /\ wpc[dying] = "exit"
        /\ UNCHANGED <<callVars, listVars, workVars, stop, dying>>

Gone == /\ dying = threads
        /\ Dtor("next", "gone")
        /\ UNCHANGED <<callVars, listVars, workVars, stop, dying>>

Destructor == RequestStop \/ NotifyStop \/ Join \/ Gone

Terminated == dpc = "gone" /\ UNCHANGED vars

Next == \/ \E j \in Callers : Submit(j) \/ Call(j) \/ Cancel(j) \/ KernelCancel(j)
        \/ \E w \in Workers : Work(w) \/ Spurious(w)
        \/ Destroy \/ Destructor \/ Terminated

(* Threads and callers' loops keep running; functions return; a mutex that *)
(* is free again and again is obtained; whether and when the pool is       *)
(* called, cancelled or destroyed is up to the program.                    *)
Fairness == /\ \A j \in Callers : WF_vars(Call(j)) /\ SF_vars(WorkOn(j))
            /\ \A w \in Workers : WF_vars(Work(w))
            /\ WF_vars(Destructor)

Spec == Init /\ [][Next]_vars
FairSpec == Spec /\ Fairness
------------------------------------------------------------------------------
(* Properties.                                                             *)

InFree == {free[i] : i \in 1..Len(free)}

(* The variables have their types.                                         *)
TypeOK ==
  /\ calls \in 0..MaxCalls
  /\ cpc \in [Callers -> {"idle", "create", "workOn", "list", "check", "queued",
                          "asleep"}]
  /\ target \in [Callers -> 0..MaxThreads]
  /\ ready \in [Callers -> BOOLEAN] /\ stopped \in [Callers -> BOOLEAN]
  /\ threads \in 0..MaxThreads
  /\ free \in Seq(Workers)
  /\ working \in [Workers -> Nat]
  /\ wpc \in [Workers -> {"none", "lock", "block", "sleep", "run", "store",
                          "notify", "relock", "remove", "free", "exit"}]
  /\ task \in [Workers -> Callers \cup {None}] /\ job \in [Workers -> Callers \cup {None}]
  /\ ran \in [Callers -> 0..1]
  /\ stop \in [Workers -> BOOLEAN]
  /\ dpc \in {"alive", "next", "notify", "join", "gone"} /\ dying \in 0..MaxThreads

Choosers(w) == {j \in Callers : cpc[j] = "workOn" /\ target[j] = w}

(* A thread is offered to one caller at a time, and only when it has       *)
(* nothing to run: it is in the free list at most once, or chosen by one   *)
(* call, or busy.                                                          *)
ThreadOffered ==
  /\ \A i, k \in 1..Len(free) : free[i] = free[k] => i = k
  /\ \A w \in Workers : w \in InFree \/ Choosers(w) # {} =>
       /\ task[w] = None
       /\ wpc[w] \in {"lock", "block", "sleep", "exit"}
  /\ \A w \in Workers : /\ Cardinality(Choosers(w)) <= 1
                        /\ w \in InFree => Choosers(w) = {}

Carriers(j) == {w \in Workers : \/ task[w] = j
                                \/ job[w] = j /\ wpc[w] = "run"}

(* A function given to a thread is neither overwritten, dropped nor run    *)
(* twice: until it has run, exactly one thread has it, and that thread is  *)
(* offered to nobody else.                                                 *)
NoJobLost ==
  /\ ThreadOffered
  /\ \A j \in Callers :
       IF cpc[j] \in {"idle", "create", "workOn"} \/ ran[j] = 1
       THEN Carriers(j) = {}
       ELSE Cardinality(Carriers(j)) = 1

(* The function writes to the frame of its caller, so while a thread runs  *)
(* it the caller is still inside that call of run(), cancelled or not.     *)
FrameAlive == \A w \in Workers : wpc[w] = "run" => job[w] # None

(* Every call of run() that was submitted ends, unless the pool is being   *)
(* destroyed.                                                              *)
RunEnds == \A j \in Callers : cpc[j] # "idle" ~> cpc[j] = "idle" \/ dpc # "alive"

(* When the pool is destroyed the loop of every thread leaves by itself    *)
(* (startMain), so that join returns and the destructor ends.              *)
DtorEnds == dpc = "next" ~> dpc = "gone"
==============================================================================
