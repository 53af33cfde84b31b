-------------------------------- MODULE DemoLoop --------------------------------
(***************************************************************************)
(* The self-contained loop of main.cpp: coroutines queued by main, each a  *)
(* task that awaits sleep_for a few times, a deque of ready coroutines and *)
(* a heap of timers on the system clock, which may be set back.  A task    *)
(* that awaits and the sleep_for it awaits are two frames; the handle in   *)
(* the heap is the inner one's.                                            *)
(***************************************************************************)
EXTENDS Naturals, Sequences, FiniteSets

CONSTANTS NumTasks,     \* the tasks main adds: t1, t2, ...
          Delays,       \* what sleep_for may be called with
          MaxSleeps,    \* bound on the sleeps of a task
          MaxTime,      \* bound on the clock
          MaxSetBacks   \* bound on how often the clock is set back

ASSUME DemoAssumption == /\ NumTasks \in Nat \ {0} /\ Delays \subseteq Nat
                         /\ MaxSleeps \in Nat /\ MaxTime \in Nat /\ MaxSetBacks \in Nat

Tasks == 1..NumTasks
None == 0

VARIABLES mReadyQueue,  \* Loop::mReadyQueue
          mTimerHeap,   \* Loop::mTimerHeap: [expireTime, coroutine]
          outer,        \* the frame of each task
          inner,        \* the frame of the sleep_for it has called, if any
          promise,      \* the promises of both
          current,      \* the task whose frames runAll has resumed
          left,         \* sleeps a task has still to do
          main,         \* where main and runAll stand
          next,         \* the task main adds or reads next
          until,        \* what runAll sleeps until
          now,          \* the system clock
          setBacks      \* how often it was set back

frames == <<outer, inner, promise, left>>
loop == <<mReadyQueue, mTimerHeap>>
clock == <<now, setBacks>>
vars == <<frames, loop, current, main, next, until, clock>>

(* A promise: whom the frame resumes at its end, and how it ended.         *)
Promises == [mPrevious : Tasks \cup {None},
             mResult : {"none", "value", "exception", "moved"}]

NewPromise == [mPrevious |-> None, mResult |-> "none"]

Init == /\ mReadyQueue = << >> /\ mTimerHeap = {}
        /\ outer = [t \in Tasks |-> "initial"] /\ inner = [t \in Tasks |-> "none"]
        /\ promise = [t \in Tasks |-> [outer |-> NewPromise, inner |-> NewPromise]]
        /\ current = None
        /\ left = [t \in Tasks |-> MaxSleeps]
        /\ main = "adding" /\ next = 1 /\ until = 0
        /\ now = 0 /\ setBacks = 0

--------------------------------------------------------------------------------
(* main                                                                    *)

addTask(t) == mReadyQueue' = <<t>> \o mReadyQueue

AddTask == /\ main = "adding" /\ addTask(next)
           /\ next' = IF next = NumTasks THEN 1 ELSE next + 1
           /\ main' = IF next = NumTasks THEN "runAll" ELSE "adding"
           /\ UNCHANGED <<frames, mTimerHeap, current, until, clock>>

(* Promise::result: the value is moved out, an exception thrown again.     *)
result(p) == IF p.mResult = "value" THEN [p EXCEPT !.mResult = "moved"] ELSE p

(* t.mCoroutine.promise().result(): an exception ends main.                *)
ReadResult == /\ main = "reading"
              /\ promise' = [promise EXCEPT ![next].outer = result(@)]
              /\ main' = IF promise[next].outer.mResult = "exception" THEN "terminated"
                         ELSE IF next = NumTasks THEN "ended" ELSE "reading"
              /\ next' = IF main' = "reading" THEN next + 1 ELSE next
              /\ UNCHANGED <<outer, inner, left, loop, current, until, clock>>

--------------------------------------------------------------------------------
(* Loop::runAll                                                            *)

InLoop == main = "runAll" /\ current = None

(* Mutant: the coroutine stays in the queue.                               *)
PeekReady == /\ InLoop /\ mReadyQueue # << >>
             /\ outer[Head(mReadyQueue)] = "initial"
             /\ current' = Head(mReadyQueue)
             /\ outer' = [outer EXCEPT ![Head(mReadyQueue)] = "running"]
             /\ UNCHANGED <<inner, promise, left, loop, main, next, until, clock>>

ResumeReady == /\ InLoop /\ mReadyQueue # << >>
               /\ mReadyQueue' = Tail(mReadyQueue)
               /\ current' = Head(mReadyQueue)
               /\ outer' = [outer EXCEPT ![Head(mReadyQueue)] = "running"]
               /\ UNCHANGED <<inner, promise, left, mTimerHeap, main, next, until,
                              clock>>

(* The timers that mTimerHeap.top() may be: TimerEntry's order puts the    *)
(* earliest on top.                                                        *)
Top == {e \in mTimerHeap : \A o \in mTimerHeap : e.expireTime <= o.expireTime}

FireTimer ==
  /\ InLoop /\ mReadyQueue = << >>
  /\ \E e \in Top : /\ e.expireTime < now
                    /\ mTimerHeap' = mTimerHeap \ {e}
                    /\ current' = e.coroutine
                    /\ inner' = [inner EXCEPT ![e.coroutine] = "running"]
  /\ UNCHANGED <<outer, promise, left, mReadyQueue, main, next, until, clock>>

SleepUntil == /\ InLoop /\ mReadyQueue = << >>
              /\ \E e \in Top : /\ now <= e.expireTime
                                /\ until' = e.expireTime
              /\ main' = "asleep"
              /\ UNCHANGED <<frames, loop, current, next, clock>>

WakeUp == /\ main = "asleep" /\ until <= now
          /\ main' = "runAll"
          /\ UNCHANGED <<frames, loop, current, next, until, clock>>

(* Mutant: the loop needs both timers and ready coroutines to go on.       *)
LeaveEarly == /\ InLoop /\ (mReadyQueue = << >> \/ mTimerHeap = {})
              /\ main' = "reading"
              /\ UNCHANGED <<frames, loop, current, next, until, clock>>

LoopEnds == /\ InLoop /\ mReadyQueue = << >> /\ mTimerHeap = {}
            /\ main' = "reading"
            /\ UNCHANGED <<frames, loop, current, next, until, clock>>

--------------------------------------------------------------------------------
(* The coroutines                                                          *)

Running(t) == current = t /\ outer[t] = "running"

(* Task::Awaiter: the new frame is resumed in place of the awaiting one,   *)
(* which it is to resume at its end.                                       *)
AwaitTask(t) == /\ outer' = [outer EXCEPT ![t] = "waiting"]
                /\ promise' = [promise EXCEPT ![t].inner = [NewPromise EXCEPT !.mPrevious = t]]

(* SleepAwaiter: the frame suspends and resume() returns.                  *)
AwaitSleep(t, expireTime) ==
  /\ mTimerHeap' = mTimerHeap \cup {[expireTime |-> expireTime, coroutine |-> t]}
  /\ inner' = [inner EXCEPT ![t] = "suspended"]
  /\ current' = None

(* co_await sleep_for(d)                                                   *)
sleep_for(t, d) ==
  /\ Running(t) /\ left[t] > 0 /\ now + d < MaxTime
  /\ left' = [left EXCEPT ![t] = @ - 1]
  /\ AwaitTask(t) /\ AwaitSleep(t, now + d)
  /\ UNCHANGED <<mReadyQueue, main, next, until, clock>>

(* Mutant: the end of a frame resumes nobody.                              *)
Noop(previous) == None

(* PreviousAwaiter: whom the end of a frame resumes, or nobody.            *)
FinalSuspend(previous) == previous

(* sleep_for goes on: it returns, the frame that awaits it is resumed,     *)
(* takes its result and destroys it.                                       *)
SleepReturns(t) ==
  /\ current = t /\ inner[t] = "running"
  /\ current' = FinalSuspend(promise[t].inner.mPrevious)
  /\ IF current' = None
     THEN inner' = [inner EXCEPT ![t] = "final"] /\ UNCHANGED <<outer, promise>>
     ELSE /\ inner' = [inner EXCEPT ![t] = "none"]
          /\ outer' = [outer EXCEPT ![t] = "running"]
          /\ promise' = [promise EXCEPT ![t].inner = NewPromise]
  /\ UNCHANGED <<left, loop, main, next, until, clock>>

(* The task ends, with co_return or an exception; nobody awaits it.        *)
Return(t, how) == /\ Running(t)
                  /\ promise' = [promise EXCEPT ![t].outer.mResult = how]
                  /\ outer' = [outer EXCEPT ![t] = "final"]
                  /\ current' = FinalSuspend(promise[t].outer.mPrevious)
                  /\ UNCHANGED <<inner, left, loop, main, next, until, clock>>

--------------------------------------------------------------------------------
(* The system clock                                                        *)
Tick == /\ now < MaxTime /\ now' = now + 1
        /\ UNCHANGED <<frames, loop, current, main, next, until, setBacks>>

SetBack == /\ setBacks < MaxSetBacks /\ setBacks' = setBacks + 1
           /\ now' \in {n \in 0..MaxTime : n < now}
           /\ UNCHANGED <<frames, loop, current, main, next, until>>

Program == \/ AddTask \/ ReadResult
           \/ ResumeReady \/ FireTimer \/ SleepUntil \/ WakeUp \/ LoopEnds
           \/ \E t \in Tasks : \/ \E d \in Delays : sleep_for(t, d)
                               \/ SleepReturns(t)
                               \/ \E how \in {"value", "exception"} : Return(t, how)

Terminated == main \in {"ended", "terminated"} /\ UNCHANGED vars

Next == Program \/ Tick \/ SetBack \/ Terminated

Spec == Init /\ [][Next]_vars

(* The thread executes, and the clock goes on.                             *)
Fairness == WF_vars(Program) /\ WF_vars(Tick)

FairSpec == Spec /\ Fairness

--------------------------------------------------------------------------------
Queued(t) == Cardinality({i \in 1..Len(mReadyQueue) : mReadyQueue[i] = t})

Timers(t) == {e \in mTimerHeap : e.coroutine = t}

(* The variables have their types, and the loop holds each coroutine it is *)
(* to resume exactly once: in the queue before it starts, in the heap      *)
(* while it sleeps, and nowhere while it runs or when it is over.          *)
TypeOK ==
  /\ mReadyQueue \in Seq(Tasks)
  /\ mTimerHeap \subseteq [expireTime : 0..MaxTime, coroutine : Tasks]
  /\ outer \in [Tasks -> {"initial", "running", "waiting", "final"}]
  /\ inner \in [Tasks -> {"none", "suspended", "running", "final"}]
  /\ promise \in [Tasks -> [outer : Promises, inner : Promises]]
  /\ current \in Tasks \cup {None} /\ left \in [Tasks -> 0..MaxSleeps]
  /\ main \in {"adding", "runAll", "asleep", "reading", "ended", "terminated"}
  /\ next \in Tasks /\ {now, until} \subseteq 0..MaxTime /\ setBacks \in 0..MaxSetBacks
  /\ \A t \in Tasks :
       /\ Queued(t) = IF outer[t] = "initial" /\ (main = "adding" => t < next) THEN 1 ELSE 0
       /\ Cardinality(Timers(t)) = IF inner[t] = "suspended" THEN 1 ELSE 0

Phases == [t \in Tasks |-> IF outer[t] = "initial" THEN "new"
                        ELSE IF outer[t] = "final" THEN "done"
                        ELSE IF current = t THEN "running" ELSE "waiting"]

Stopped == main \in {"reading", "ended", "terminated"}

Abstract == INSTANCE Reactor WITH Coros <- Tasks, phase <- Phases, stopped <- Stopped

(* The loop drives its coroutines as IOContext drives its own (Reactor):   *)
(* each is started once and woken only while it sleeps, and runAll returns *)
(* only when all of them have ended.                                       *)
ImplementsReactor == Abstract!Spec

(* main reaches its end, and by then it has read the result of every task  *)
(* up to the first that threw, even if the clock was set back meanwhile:   *)
(* the timer that is slept for is tested with < and not with <=.           *)
AllRead == <>(/\ main \in {"ended", "terminated"}
              /\ \A t \in Tasks : t < next => promise[t].outer.mResult = "moved"
              /\ promise[next].outer.mResult
                   = IF main = "ended" THEN "moved" ELSE "exception")
================================================================================
