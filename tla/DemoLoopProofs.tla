----------------------------- MODULE DemoLoopProofs -----------------------------
(***************************************************************************)
(* Proofs about DemoLoop, for any number of tasks, delays and sleeps and   *)
(* any behaviour of the clock: the loop implements Reactor.                *)
(***************************************************************************)
EXTENDS DemoLoop, FiniteSetTheorems, TLAPS

(* What the proof needs of the types; no frame of sleep_for is left at its *)
(* end, since the task that awaits it goes on and destroys it.             *)
Types == /\ mReadyQueue \in Seq(Tasks)
         /\ mTimerHeap \subseteq [expireTime : Nat, coroutine : Tasks]
         /\ outer \in [Tasks -> {"initial", "running", "waiting", "final"}]
         /\ inner \in [Tasks -> {"none", "suspended", "running"}]
         /\ promise \in [Tasks -> [outer : Promises, inner : Promises]]
         /\ current \in Tasks \cup {None} /\ next \in Tasks /\ now \in Nat
         /\ current # None => main = "runAll"

(* The queue holds tasks that have not started, each once; while main adds *)
(* them, only those added.                                                 *)
QueueOK == /\ \A i \in 1..Len(mReadyQueue) : outer[mReadyQueue[i]] = "initial"
           /\ \A i, j \in 1..Len(mReadyQueue) : mReadyQueue[i] = mReadyQueue[j] => i = j
           /\ main = "adding" =>
                /\ \A t \in Tasks : outer[t] = "initial"
                /\ \A i \in 1..Len(mReadyQueue) : mReadyQueue[i] < next

(* A task waits while it has a frame of sleep_for, which resumes it; one   *)
(* of the two frames executes if the task is the current one.              *)
FrameOK(t) == /\ outer[t] = "waiting" <=> inner[t] # "none"
              /\ current = t <=> outer[t] = "running" \/ inner[t] = "running"
              /\ inner[t] # "none" => promise[t].inner.mPrevious = t
              /\ promise[t].outer.mPrevious = None

(* The heap holds the tasks that sleep, each once.                         *)
HeapOK == /\ \A t \in Tasks : inner[t] = "suspended" <=> \E e \in mTimerHeap : e.coroutine = t
          /\ \A e, o \in mTimerHeap : e.coroutine = o.coroutine => e = o

(* The inductive invariant.                                                *)
Inv == Types /\ QueueOK /\ (\A t \in Tasks : FrameOK(t)) /\ HeapOK

LEMMA TasksFacts == None \notin Tasks /\ Tasks \subseteq Nat
  BY DemoAssumption DEF Tasks, None

LEMMA InvInit == Init => Inv
<1> SUFFICES ASSUME Init PROVE Inv
  OBVIOUS
<1>1. Types
  BY DemoAssumption DEF Init, Types, Tasks, None, Promises, NewPromise
<1>2. QueueOK
  BY DEF Init, QueueOK
<1>3. ASSUME NEW t \in Tasks PROVE FrameOK(t)
  BY TasksFacts DEF Init, FrameOK, NewPromise
<1>4. HeapOK
  BY DEF Init, HeapOK
<1>5. QED
  BY <1>1, <1>2, <1>3, <1>4 DEF Inv
------------------------------------------------------------------------------
(* Each action keeps the invariant.                                        *)

LEMMA AddTaskInv == ASSUME Inv, AddTask PROVE Inv'
<1> DEFINE q == mReadyQueue
<1>1. /\ Types /\ QueueOK /\ q \in Seq(Tasks) /\ next \in Tasks
      /\ \A t \in Tasks : outer[t] = "initial"
  BY DEF Inv, Types, AddTask, QueueOK
<1>2. /\ q' = <<next>> \o q
      /\ UNCHANGED <<outer, inner, promise, mTimerHeap, current, now>>
  BY DEF AddTask, addTask, frames, clock
<1>3. /\ q' \in Seq(Tasks) /\ Len(q') = Len(q) + 1 /\ q'[1] = next
      /\ \A i \in 1..Len(q') : i # 1 => i - 1 \in 1..Len(q) /\ q'[i] = q[i - 1]
  BY <1>1, <1>2
<1>4. \A i \in 1..Len(q) : q[i] < next /\ q[i] \in Tasks
  BY <1>1 DEF QueueOK, AddTask
<1>5. next' \in Tasks /\ (main' = "adding" => next' = next + 1)
  BY <1>1, DemoAssumption DEF AddTask, Tasks
<1>6. Types'
  <2>1. current = None
    BY DEF AddTask, Inv, Types
  <2>2. QED
    BY <1>1, <1>2, <1>3, <1>5, <2>1 DEF Types
<1>7. QueueOK'
  <2>1. ASSUME NEW i \in 1..Len(q'), NEW j \in 1..Len(q'), q'[i] = q'[j] PROVE i = j
    <3>1. CASE i = 1 /\ j # 1
      BY <1>1, <1>3, <1>4, <2>1, <3>1, TasksFacts
    <3>2. CASE i # 1 /\ j = 1
      BY <1>1, <1>3, <1>4, <2>1, <3>2, TasksFacts
    <3>3. CASE i # 1 /\ j # 1
      <4>1. /\ i - 1 \in 1..Len(q) /\ j - 1 \in 1..Len(q) /\ q[i - 1] = q[j - 1]
        BY <1>3, <2>1, <3>3
      <4>2. i - 1 = j - 1
        BY <1>1, <4>1 DEF QueueOK
      <4>3. QED
        BY <1>3, <4>2
    <3>4. QED
      BY <3>1, <3>2, <3>3
  <2>2. \A i \in 1..Len(q') : q'[i] \in Tasks
    BY <1>3
  <2>3. ASSUME main' = "adding", NEW i \in 1..Len(q') PROVE q'[i] < next'
    <3>1. CASE i = 1
      BY <1>1, <1>3, <1>5, <2>3, <3>1, TasksFacts
    <3>2. CASE i # 1
      <4>1. q[i - 1] < next /\ q[i - 1] \in Nat /\ next \in Nat
        BY <1>1, <1>3, <1>4, <2>3, <3>2, TasksFacts
      <4>2. next' = next + 1 /\ q'[i] = q[i - 1]
        BY <1>3, <1>5, <2>3, <3>2
      <4>3. QED
        BY <4>1, <4>2
    <3>3. QED
      BY <3>1, <3>2
  <2>4. QED
    BY <1>1, <1>2, <2>1, <2>2, <2>3 DEF QueueOK
<1>8. ASSUME NEW t \in Tasks PROVE FrameOK(t)'
  BY <1>2 DEF Inv, FrameOK
<1>9. HeapOK'
  BY <1>2 DEF Inv, HeapOK
<1>10. QED
  BY <1>6, <1>7, <1>8, <1>9 DEF Inv

LEMMA ResumeReadyInv == ASSUME Inv, ResumeReady PROVE Inv'
<1> DEFINE q == mReadyQueue
           h == Head(mReadyQueue)
<1>1. Types /\ QueueOK /\ q \in Seq(Tasks) /\ q # << >> /\ main = "runAll" /\ current = None
  BY DEF Inv, Types, ResumeReady, InLoop
<1>2. h \in Tasks /\ h = q[1] /\ outer[h] = "initial"
  BY <1>1 DEF QueueOK
<1>3. /\ q' = Tail(q) /\ current' = h
      /\ outer' = [outer EXCEPT ![h] = "running"]
      /\ UNCHANGED <<inner, promise, mTimerHeap, next, now, main>>
  BY DEF ResumeReady, clock
<1> HIDE DEF h
<1>4. /\ q' \in Seq(Tasks) /\ Len(q') = Len(q) - 1
      /\ \A i \in 1..Len(q') : i + 1 \in 1..Len(q) /\ q'[i] = q[i + 1]
  BY <1>1, <1>3
<1>5. Types'
  BY <1>1, <1>2, <1>3, <1>4 DEF Types
<1>6. QueueOK'
  <2>1. ASSUME NEW i \in 1..Len(q') PROVE q'[i] # h /\ outer[q'[i]] = "initial" /\ q'[i] \in Tasks
    BY <1>1, <1>2, <1>4 DEF QueueOK
  <2>2. \A i \in 1..Len(q') : outer'[q'[i]] = "initial"
    BY <1>1, <1>3, <2>1 DEF Types
  <2>3. ASSUME NEW i \in 1..Len(q'), NEW j \in 1..Len(q'), q'[i] = q'[j] PROVE i = j
    BY <1>1, <1>4, <2>3 DEF QueueOK
  <2>4. QED
    BY <1>1, <1>3, <2>2, <2>3 DEF QueueOK
<1>7. ASSUME NEW t \in Tasks PROVE FrameOK(t)'
  <2>1. FrameOK(t)
    BY DEF Inv
  <2>2. CASE t = h
    BY <1>1, <1>2, <1>3, <2>1, <2>2 DEF FrameOK, Types
  <2>3. CASE t # h
    BY <1>1, <1>2, <1>3, <2>1, <2>3, TasksFacts DEF FrameOK, Types
  <2>4. QED
    BY <2>2, <2>3
<1>8. HeapOK'
  BY <1>3 DEF Inv, HeapOK
<1>9. QED
  BY <1>5, <1>6, <1>7, <1>8 DEF Inv

LEMMA FireTimerInv == ASSUME Inv, FireTimer PROVE Inv'
<1>1. Types /\ main = "runAll" /\ current = None /\ mReadyQueue = << >>
  BY DEF Inv, FireTimer, InLoop
<1>2. PICK e \in mTimerHeap : /\ mTimerHeap' = mTimerHeap \ {e} /\ current' = e.coroutine
                              /\ inner' = [inner EXCEPT ![e.coroutine] = "running"]
  BY DEF FireTimer, Top
<1> DEFINE c == e.coroutine
<1>3. c \in Tasks /\ inner[c] = "suspended"
  BY <1>1, <1>2 DEF Inv, HeapOK, Types
<1>4. UNCHANGED <<outer, promise, mReadyQueue, main, next, now>>
  BY DEF FireTimer, clock
<1>5. Types'
  BY <1>1, <1>2, <1>3, <1>4 DEF Types
<1>6. QueueOK'
  BY <1>1, <1>4 DEF QueueOK
<1>7. ASSUME NEW t \in Tasks PROVE FrameOK(t)'
  <2>1. FrameOK(t)
    BY DEF Inv
  <2>2. CASE t = c
    BY <1>1, <1>2, <1>3, <1>4, <2>1, <2>2 DEF FrameOK, Types
  <2>3. CASE t # c
    BY <1>1, <1>2, <1>3, <1>4, <2>1, <2>3, TasksFacts DEF FrameOK, Types
  <2>4. QED
    BY <2>2, <2>3
<1>8. HeapOK'
  BY <1>1, <1>2, <1>3 DEF Inv, HeapOK, Types
<1>9. QED
  BY <1>5, <1>6, <1>7, <1>8 DEF Inv

LEMMA SleepInv == ASSUME Inv, NEW t \in Tasks, NEW d \in Delays, sleep_for(t, d) PROVE Inv'
<1> DEFINE n == [expireTime |-> now + d, coroutine |-> t]
<1>1. /\ Types /\ current = t /\ outer[t] = "running" /\ main = "runAll"
      /\ inner[t] = "none"
  BY TasksFacts DEF Inv, Types, sleep_for, Running, FrameOK
<1>2. /\ mTimerHeap' = mTimerHeap \cup {n} /\ current' = None
      /\ inner' = [inner EXCEPT ![t] = "suspended"]
      /\ outer' = [outer EXCEPT ![t] = "waiting"]
      /\ promise' = [promise EXCEPT ![t].inner = [NewPromise EXCEPT !.mPrevious = t]]
      /\ UNCHANGED <<mReadyQueue, main, next, now>>
  BY DEF sleep_for, AwaitTask, AwaitSleep, clock
<1>3. n \in [expireTime : Nat, coroutine : Tasks] /\ n.coroutine = t
  BY <1>1, DemoAssumption DEF Types
<1>4. /\ promise' \in [Tasks -> [outer : Promises, inner : Promises]]
      /\ promise'[t].inner.mPrevious = t
      /\ \A u \in Tasks : promise'[u].outer = promise[u].outer
      /\ \A u \in Tasks \ {t} : promise'[u] = promise[u]
  BY <1>1, <1>2, SMTT(20) DEF Types, Promises, NewPromise
<1> HIDE DEF n
<1>5. Types'
  BY <1>1, <1>2, <1>3, <1>4 DEF Types
<1>6. QueueOK'
  <2>1. \A i \in 1..Len(mReadyQueue) : mReadyQueue[i] # t /\ mReadyQueue[i] \in Tasks
    BY <1>1 DEF Inv, QueueOK, Types
  <2>2. QED
    BY <1>1, <1>2, <2>1 DEF Inv, QueueOK, Types
<1>7. ASSUME NEW u \in Tasks PROVE FrameOK(u)'
  <2>1. FrameOK(u)
    BY DEF Inv
  <2>2. CASE u = t
    BY <1>1, <1>2, <1>4, <2>1, <2>2, TasksFacts DEF FrameOK, Types
  <2>3. CASE u # t
    BY <1>1, <1>2, <1>4, <2>1, <2>3, TasksFacts DEF FrameOK, Types
  <2>4. QED
    BY <2>2, <2>3
<1>8. HeapOK'
  BY <1>1, <1>2, <1>3 DEF Inv, HeapOK, Types
<1>9. QED
  BY <1>5, <1>6, <1>7, <1>8 DEF Inv

LEMMA SleepReturnsInv == ASSUME Inv, NEW t \in Tasks, SleepReturns(t) PROVE Inv'
<1>1. /\ Types /\ current = t /\ inner[t] = "running" /\ outer[t] = "waiting"
      /\ main = "runAll"
  BY TasksFacts DEF Inv, Types, SleepReturns, FrameOK
<1>2. current' = t
  BY <1>1 DEF SleepReturns, FinalSuspend, Inv, FrameOK
<1>3. /\ inner' = [inner EXCEPT ![t] = "none"]
      /\ outer' = [outer EXCEPT ![t] = "running"]
      /\ promise' = [promise EXCEPT ![t].inner = NewPromise]
      /\ UNCHANGED <<mReadyQueue, mTimerHeap, main, next, now>>
  BY <1>2, TasksFacts DEF SleepReturns, loop, clock
<1>4. /\ promise' \in [Tasks -> [outer : Promises, inner : Promises]]
      /\ \A u \in Tasks : promise'[u].outer = promise[u].outer
      /\ \A u \in Tasks \ {t} : promise'[u] = promise[u]
  BY <1>1, <1>3 DEF Types, Promises, NewPromise
<1>5. Types'
  BY <1>1, <1>2, <1>3, <1>4 DEF Types
<1>6. QueueOK'
  <2>1. \A i \in 1..Len(mReadyQueue) : mReadyQueue[i] # t /\ mReadyQueue[i] \in Tasks
    BY <1>1 DEF Inv, QueueOK, Types
  <2>2. QED
    BY <1>1, <1>3, <2>1 DEF Inv, QueueOK, Types
<1>7. ASSUME NEW u \in Tasks PROVE FrameOK(u)'
  <2>1. FrameOK(u)
    BY DEF Inv
  <2>2. CASE u = t
    BY <1>1, <1>2, <1>3, <1>4, <2>1, <2>2 DEF FrameOK, Types
  <2>3. CASE u # t
    BY <1>1, <1>2, <1>3, <1>4, <2>1, <2>3 DEF FrameOK, Types
  <2>4. QED
    BY <2>2, <2>3
<1>8. HeapOK'
  BY <1>1, <1>3 DEF Inv, HeapOK, Types
<1>9. QED
  BY <1>5, <1>6, <1>7, <1>8 DEF Inv

LEMMA ReturnInv ==
  ASSUME Inv, NEW t \in Tasks, NEW how \in {"value", "exception"}, Return(t, how) PROVE Inv'
<1>1. /\ Types /\ current = t /\ outer[t] = "running" /\ main = "runAll"
      /\ inner[t] = "none" /\ promise[t].outer.mPrevious = None
  BY TasksFacts DEF Inv, Types, Return, Running, FrameOK
<1>2. /\ current' = None
      /\ outer' = [outer EXCEPT ![t] = "final"]
      /\ promise' = [promise EXCEPT ![t].outer.mResult = how]
      /\ UNCHANGED <<inner, mReadyQueue, mTimerHeap, main, next, now>>
  BY <1>1 DEF Return, FinalSuspend, loop, clock
<1>4. /\ promise' \in [Tasks -> [outer : Promises, inner : Promises]]
      /\ \A u \in Tasks : promise'[u].outer.mPrevious = promise[u].outer.mPrevious
      /\ \A u \in Tasks \ {t} : promise'[u] = promise[u]
  BY <1>1, <1>2, SMTT(20) DEF Types, Promises
<1>5. Types'
  BY <1>1, <1>2, <1>4 DEF Types
<1>6. QueueOK'
  <2>1. \A i \in 1..Len(mReadyQueue) : mReadyQueue[i] # t /\ mReadyQueue[i] \in Tasks
    BY <1>1 DEF Inv, QueueOK, Types
  <2>2. QED
    BY <1>1, <1>2, <2>1 DEF Inv, QueueOK, Types
<1>7. ASSUME NEW u \in Tasks PROVE FrameOK(u)'
  <2>1. FrameOK(u)
    BY DEF Inv
  <2>2. CASE u = t
    BY <1>1, <1>2, <1>4, <2>1, <2>2, TasksFacts DEF FrameOK, Types
  <2>3. CASE u # t
    BY <1>1, <1>2, <1>4, <2>1, <2>3, TasksFacts DEF FrameOK, Types
  <2>4. QED
    BY <2>2, <2>3
<1>8. HeapOK'
  BY <1>2 DEF Inv, HeapOK
<1>9. QED
  BY <1>5, <1>6, <1>7, <1>8 DEF Inv

(* What else happens touches neither the queue, the heap nor a frame.      *)
LEMMA OtherInv ==
  ASSUME Inv, UNCHANGED <<mReadyQueue, mTimerHeap, outer, inner, current>>,
         next' \in Tasks, now' \in Nat, main' = "adding" => main = "adding" /\ next' = next,
         current # None => main' = "runAll",
         promise' \in [Tasks -> [outer : Promises, inner : Promises]],
         \A t \in Tasks : /\ promise'[t].inner = promise[t].inner
                         /\ promise'[t].outer.mPrevious = promise[t].outer.mPrevious
  PROVE  Inv'
<1>1. Types'
  BY DEF Inv, Types
<1>2. QueueOK'
  BY DEF Inv, QueueOK
<1>3. ASSUME NEW t \in Tasks PROVE FrameOK(t)'
  BY DEF Inv, FrameOK
<1>4. HeapOK'
  BY DEF Inv, HeapOK
<1>5. QED
  BY <1>1, <1>2, <1>3, <1>4 DEF Inv

LEMMA ReadResultInv == ASSUME Inv, ReadResult PROVE Inv'
<1>1. Types /\ main = "reading" /\ current = None
  BY DEF Inv, Types, ReadResult
<1>2. promise' = [promise EXCEPT ![next].outer = result(@)]
  BY DEF ReadResult
<1>3. /\ promise' \in [Tasks -> [outer : Promises, inner : Promises]]
      /\ \A t \in Tasks : /\ promise'[t].inner = promise[t].inner
                          /\ promise'[t].outer.mPrevious = promise[t].outer.mPrevious
  BY <1>1, <1>2 DEF Types, Promises, result
<1>4. next' \in Tasks
  BY <1>1, DemoAssumption DEF ReadResult, Types, Tasks
<1>5. main' # "adding"
  BY <1>1 DEF ReadResult
<1>6. UNCHANGED <<mReadyQueue, mTimerHeap, outer, inner, current, now>>
  BY DEF ReadResult, loop, clock
<1>7. QED
  BY <1>1, <1>3, <1>4, <1>5, <1>6, OtherInv DEF Types

LEMMA LoopInv ==
  ASSUME Inv, SleepUntil \/ WakeUp \/ LoopEnds \/ Tick \/ SetBack \/ UNCHANGED vars
  PROVE  Inv'
<1>1. UNCHANGED <<mReadyQueue, mTimerHeap, outer, inner, current, promise, next>>
  BY DEF SleepUntil, WakeUp, LoopEnds, Tick, SetBack, vars, frames, loop, clock
<1>2. now' \in Nat
  BY DemoAssumption DEF SleepUntil, WakeUp, LoopEnds, Tick, SetBack, vars, clock, Inv, Types
<1>3. main' = "adding" => main = "adding"
  BY DEF SleepUntil, WakeUp, LoopEnds, Tick, SetBack, vars
<1>4. current # None => main' = "runAll"
  BY DEF SleepUntil, WakeUp, LoopEnds, Tick, SetBack, vars, InLoop, Inv, Types
<1>5. QED
  BY <1>1, <1>2, <1>3, <1>4, OtherInv DEF Inv, Types

LEMMA InvNext == Inv /\ [Next]_vars => Inv'
<1> SUFFICES ASSUME Inv, [Next]_vars PROVE Inv'
  OBVIOUS
<1>1. ASSUME Program PROVE Inv'
  BY <1>1, AddTaskInv, ReadResultInv, ResumeReadyInv, FireTimerInv, LoopInv, SleepInv,
     SleepReturnsInv, ReturnInv DEF Program
<1>2. QED
  BY <1>1, LoopInv DEF Next, Terminated

LEMMA Invariance == Spec => []Inv
  BY InvInit, InvNext, PTL DEF Spec
------------------------------------------------------------------------------
(* The refinement: every step moves one task, stops the loop, or is not    *)
(* seen.                                                                   *)

LEMMA MoveStep ==
  ASSUME NEW t \in Tasks, NEW from, NEW to, Phases[t] = from, Phases'[t] = to,
         \A u \in Tasks \ {t} : Phases'[u] = Phases[u], ~Stopped, ~Stopped'
  PROVE  Abstract!Move(t, from, to)
<1>1. Phases = [u \in Tasks |-> Phases[u]] /\ Phases' = [u \in Tasks |-> Phases'[u]]
  BY DEF Phases
<1>2. Phases' = [Phases EXCEPT ![t] = to]
  BY <1>1
<1>3. Stopped' = Stopped
  BY DEF Stopped
<1>4. QED
  BY <1>2, <1>3 DEF Abstract!Move

LEMMA SameStep ==
  ASSUME UNCHANGED <<outer, current>>, Stopped' = Stopped PROVE UNCHANGED Abstract!vars
<1>1. UNCHANGED Phases
  BY DEF Phases
<1>2. QED
  BY <1>1 DEF Abstract!vars

LEMMA StartStep == ASSUME Inv, ResumeReady PROVE \E t \in Tasks : Abstract!Start(t)
<1> DEFINE h == Head(mReadyQueue)
<1>1. /\ Types /\ h \in Tasks /\ outer[h] = "initial" /\ current = None
      /\ main = "runAll" /\ main' = "runAll"
  BY DEF Inv, Types, QueueOK, ResumeReady, InLoop
<1>2. outer' = [outer EXCEPT ![h] = "running"] /\ current' = h
  BY DEF ResumeReady
<1> HIDE DEF h
<1>3. Phases[h] = "new" /\ Phases'[h] = "running"
  BY <1>1, <1>2 DEF Phases, Types
<1>4. \A u \in Tasks \ {h} : Phases'[u] = Phases[u]
  BY <1>1, <1>2, TasksFacts DEF Phases, Types
<1>5. ~Stopped /\ ~Stopped'
  BY <1>1 DEF Stopped
<1>6. Abstract!Move(h, "new", "running")
  BY <1>1, <1>3, <1>4, <1>5, MoveStep
<1>7. QED
  BY <1>1, <1>6 DEF Abstract!Start

LEMMA WakeStep == ASSUME Inv, FireTimer PROVE \E t \in Tasks : Abstract!Wake(t)
<1>1. /\ Types /\ main = "runAll" /\ main' = "runAll" /\ current = None
      /\ outer' = outer
  BY DEF Inv, FireTimer, InLoop
<1>2. PICK e \in mTimerHeap : current' = e.coroutine
  BY DEF FireTimer, Top
<1> DEFINE c == e.coroutine
<1>3. c \in Tasks /\ outer[c] = "waiting"
  BY <1>1, <1>2 DEF Inv, HeapOK, FrameOK, Types
<1>4. Phases[c] = "waiting" /\ Phases'[c] = "running"
  BY <1>1, <1>2, <1>3, TasksFacts DEF Phases
<1>5. \A u \in Tasks \ {c} : Phases'[u] = Phases[u]
  BY <1>1, <1>2, <1>3, TasksFacts DEF Phases
<1>6. ~Stopped /\ ~Stopped'
  BY <1>1 DEF Stopped
<1> HIDE DEF c
<1>7. Abstract!Move(c, "waiting", "running")
  BY <1>3, <1>4, <1>5, <1>6, MoveStep
<1>8. QED
  BY <1>3, <1>7 DEF Abstract!Wake

LEMMA SuspendStep ==
  ASSUME Inv, NEW t \in Tasks, NEW d \in Delays, sleep_for(t, d) PROVE Abstract!Suspend(t)
<1>1. /\ Types /\ current = t /\ outer[t] = "running" /\ main = "runAll" /\ main' = "runAll"
  BY TasksFacts DEF Inv, Types, sleep_for, Running
<1>2. current' = None /\ outer' = [outer EXCEPT ![t] = "waiting"]
  BY DEF sleep_for, AwaitTask, AwaitSleep
<1>3. Phases[t] = "running" /\ Phases'[t] = "waiting"
  BY <1>1, <1>2, TasksFacts DEF Phases, Types
<1>4. \A u \in Tasks \ {t} : Phases'[u] = Phases[u]
  BY <1>1, <1>2, TasksFacts DEF Phases, Types
<1>5. ~Stopped /\ ~Stopped'
  BY <1>1 DEF Stopped
<1>6. Abstract!Move(t, "running", "waiting")
  BY <1>3, <1>4, <1>5, MoveStep
<1>7. QED
  BY <1>6 DEF Abstract!Suspend

LEMMA FinishStep ==
  ASSUME Inv, NEW t \in Tasks, NEW how \in {"value", "exception"}, Return(t, how)
  PROVE  Abstract!Finish(t)
<1>1. /\ Types /\ current = t /\ outer[t] = "running" /\ main = "runAll" /\ main' = "runAll"
  BY TasksFacts DEF Inv, Types, Return, Running
<1>2. current' = None /\ outer' = [outer EXCEPT ![t] = "final"]
  BY DEF Return, FinalSuspend, Inv, FrameOK
<1>3. Phases[t] = "running" /\ Phases'[t] = "done"
  BY <1>1, <1>2, TasksFacts DEF Phases, Types
<1>4. \A u \in Tasks \ {t} : Phases'[u] = Phases[u]
  BY <1>1, <1>2, TasksFacts DEF Phases, Types
<1>5. ~Stopped /\ ~Stopped'
  BY <1>1 DEF Stopped
<1>6. Abstract!Move(t, "running", "done")
  BY <1>3, <1>4, <1>5, MoveStep
<1>7. QED
  BY <1>6 DEF Abstract!Finish

(* A sleep that returns gives control to the task that awaits it, which    *)
(* was executing already.                                                  *)
LEMMA SleepReturnsStep ==
  ASSUME Inv, NEW t \in Tasks, SleepReturns(t) PROVE UNCHANGED Abstract!vars
<1>1. /\ Types /\ current = t /\ outer[t] = "waiting" /\ main' = main
  BY DEF Inv, SleepReturns, FrameOK
<1>2. current' = t
  BY <1>1 DEF SleepReturns, FinalSuspend, Inv, FrameOK
<1>3. outer' = [outer EXCEPT ![t] = "running"]
  BY <1>2, TasksFacts DEF SleepReturns
<1>4. UNCHANGED Phases
  BY <1>1, <1>2, <1>3 DEF Phases, Types
<1>5. UNCHANGED Stopped
  BY <1>1 DEF Stopped
<1>6. QED
  BY <1>4, <1>5 DEF Abstract!vars

(* The loop ends on an empty queue and an empty heap: nobody waits or      *)
(* executes.                                                               *)
LEMMA StopStep == ASSUME Inv, LoopEnds PROVE Abstract!Stop
<1>1. Types /\ mTimerHeap = {} /\ current = None /\ main = "runAll" /\ main' = "reading"
  BY DEF Inv, LoopEnds, InLoop
<1>2. ASSUME NEW t \in Tasks PROVE Phases[t] \in {"new", "done"}
  <2>1. inner[t] # "suspended"
    BY <1>1 DEF Inv, HeapOK
  <2>2. outer[t] \in {"initial", "final"}
    BY <1>1, <2>1, TasksFacts DEF Inv, FrameOK, Types
  <2>3. QED
    BY <2>2 DEF Phases
<1>3. UNCHANGED Phases
  BY DEF LoopEnds, frames, Phases
<1>4. ~Stopped /\ Stopped'
  BY <1>1 DEF Stopped
<1>5. QED
  BY <1>2, <1>3, <1>4 DEF Abstract!Stop

LEMMA ReactorStep == Inv /\ [Next]_vars => [Abstract!Next]_(Abstract!vars)
<1> SUFFICES ASSUME Inv, [Next]_vars PROVE Abstract!Next \/ UNCHANGED Abstract!vars
  OBVIOUS
<1>1. ASSUME AddTask \/ ReadResult \/ SleepUntil \/ WakeUp \/ Tick \/ SetBack \/ UNCHANGED vars
      PROVE  UNCHANGED Abstract!vars
  <2>1. UNCHANGED <<outer, current>>
    BY <1>1 DEF AddTask, ReadResult, SleepUntil, WakeUp, Tick, SetBack, vars, frames
  <2>2. Stopped' = Stopped
    BY <1>1 DEF AddTask, ReadResult, SleepUntil, WakeUp, Tick, SetBack, vars, Stopped, InLoop
  <2>3. QED
    BY <2>1, <2>2, SameStep
<1>2. ASSUME Program PROVE Abstract!Next \/ UNCHANGED Abstract!vars
  <2>1. ASSUME NEW t \in Tasks, \E d \in Delays : sleep_for(t, d) PROVE Abstract!Next
    BY <2>1, SuspendStep DEF Abstract!Next
  <2>2. ASSUME NEW t \in Tasks, \E how \in {"value", "exception"} : Return(t, how)
        PROVE  Abstract!Next
    BY <2>2, FinishStep DEF Abstract!Next
  <2>3. ASSUME ResumeReady \/ FireTimer \/ LoopEnds PROVE Abstract!Next
    BY <2>3, StartStep, WakeStep, StopStep DEF Abstract!Next
  <2>4. QED
    BY <1>1, <1>2, <2>1, <2>2, <2>3, SleepReturnsStep DEF Program
<1>3. QED
  BY <1>1, <1>2 DEF Next, Terminated

LEMMA ReactorInit == Init => Abstract!Init
<1> SUFFICES ASSUME Init PROVE Abstract!Init
  OBVIOUS
<1>1. Phases = [t \in Tasks |-> "new"]
  BY DEF Init, Phases
<1>2. Stopped = FALSE
  BY DEF Init, Stopped
<1>3. QED
  BY <1>1, <1>2 DEF Abstract!Init

(* The loop of main.cpp keeps the promise of Reactor, with frames of its   *)
(* own for each sleep and on a clock that may be set: it starts a task     *)
(* once, wakes only one that sleeps, and ends when all have ended.         *)
THEOREM Implements == Spec => ImplementsReactor
  BY Invariance, ReactorInit, ReactorStep, PTL DEF Spec, ImplementsReactor, Abstract!Spec
------------------------------------------------------------------------------
(* What is left of the types.                                              *)

Bounds == /\ mTimerHeap \subseteq [expireTime : 0..MaxTime, coroutine : Tasks]
          /\ left \in [Tasks -> 0..MaxSleeps]
          /\ main \in {"adding", "runAll", "asleep", "reading", "ended", "terminated"}
          /\ now \in 0..MaxTime /\ until \in 0..MaxTime /\ setBacks \in 0..MaxSetBacks

(* A task that has been added and has not started is in the queue.         *)
Present == \A t \in Tasks : outer[t] = "initial" /\ (main = "adding" => t < next)
                              => \E i \in 1..Len(mReadyQueue) : mReadyQueue[i] = t

LEMMA BoundsNext == ASSUME Inv, Bounds, [Next]_vars PROVE Bounds'
<1>1. Types /\ MaxTime \in Nat /\ MaxSleeps \in Nat /\ MaxSetBacks \in Nat /\ Delays \subseteq Nat
  BY DemoAssumption DEF Inv
<1>2. ASSUME AddTask \/ ReadResult \/ ResumeReady \/ LoopEnds \/ WakeUp \/ UNCHANGED vars
      PROVE  Bounds'
  BY <1>2 DEF Bounds, AddTask, ReadResult, ResumeReady, LoopEnds, WakeUp, vars, frames, loop,
              clock
<1>3. ASSUME FireTimer PROVE Bounds'
  BY <1>3 DEF Bounds, FireTimer, InLoop, Top, clock
<1>4. ASSUME SleepUntil PROVE Bounds'
  <2>1. until' \in 0..MaxTime
    BY <1>4 DEF Bounds, SleepUntil, Top
  <2>2. QED
    BY <1>4, <2>1 DEF Bounds, SleepUntil, frames, loop, clock
<1>5. ASSUME NEW t \in Tasks, NEW d \in Delays, sleep_for(t, d) PROVE Bounds'
  <2>1. left' \in [Tasks -> 0..MaxSleeps]
    BY <1>1, <1>5 DEF Bounds, sleep_for
  <2>2. now + d \in 0..MaxTime
    BY <1>1, <1>5 DEF Bounds, sleep_for
  <2>3. mTimerHeap' \subseteq [expireTime : 0..MaxTime, coroutine : Tasks]
    BY <1>5, <2>2 DEF Bounds, sleep_for, AwaitSleep
  <2>4. QED
    BY <1>5, <2>1, <2>3 DEF Bounds, sleep_for, clock
<1>6. ASSUME NEW t \in Tasks, SleepReturns(t) \/ \E how \in {"value", "exception"} : Return(t, how)
      PROVE  Bounds'
  BY <1>6 DEF Bounds, SleepReturns, Return, loop, clock
<1>7. ASSUME Tick \/ SetBack PROVE Bounds'
  BY <1>1, <1>7 DEF Bounds, Tick, SetBack, frames, loop
<1>8. QED
  BY <1>2, <1>3, <1>4, <1>5, <1>6, <1>7 DEF Next, Program, Terminated

LEMMA PresentNext == ASSUME Inv, Present, [Next]_vars PROVE Present'
<1>1. Types /\ QueueOK /\ mReadyQueue \in Seq(Tasks)
  BY DEF Inv, Types
<1>2. CASE AddTask
  <2> DEFINE q == mReadyQueue
  <2>1. /\ q' = <<next>> \o q /\ outer' = outer /\ main = "adding" /\ next \in Tasks
        /\ q \in Seq(Tasks)
    BY <1>1, <1>2 DEF AddTask, addTask, frames, Types
  <2>2. /\ Len(q') = Len(q) + 1 /\ q'[1] = next /\ Len(q) \in Nat
        /\ \A i \in 1..Len(q) : q'[i + 1] = q[i]
    BY <2>1
  <2> SUFFICES ASSUME NEW t \in Tasks, outer'[t] = "initial", main' = "adding" => t < next'
               PROVE  \E i \in 1..Len(q') : q'[i] = t
    BY DEF Present
  <2>3. t = next \/ t < next
    BY <1>1, <1>2, DemoAssumption DEF AddTask, Types, Tasks
  <2>4. CASE t = next
    BY <2>2, <2>4
  <2>5. CASE t < next
    <3>1. PICK i \in 1..Len(q) : q[i] = t
      BY <2>1, <2>5 DEF Present
    <3>2. i + 1 \in 1..Len(q') /\ q'[i + 1] = t
      BY <2>2, <3>1
    <3>3. QED
      BY <3>2
  <2>6. QED
    BY <2>3, <2>4, <2>5
<1>3. CASE ResumeReady
  <2> DEFINE q == mReadyQueue
             h == Head(q)
  <2>1. /\ q # << >> /\ q' = Tail(q) /\ main' = main /\ next' = next /\ main = "runAll"
        /\ outer' = [outer EXCEPT ![h] = "running"]
    BY <1>3 DEF ResumeReady, InLoop
  <2>2. /\ Len(q) \in Nat \ {0} /\ h = q[1] /\ h \in Tasks /\ Len(q') = Len(q) - 1
        /\ \A i \in 1..(Len(q) - 1) : q'[i] = q[i + 1]
    BY <1>1, <2>1
  <2> SUFFICES ASSUME NEW t \in Tasks, outer'[t] = "initial" PROVE \E i \in 1..Len(q') : q'[i] = t
    BY DEF Present
  <2> HIDE DEF h
  <2>3. t # h /\ outer[t] = "initial"
    BY <1>1, <2>1, <2>2 DEF Types
  <2>4. PICK i \in 1..Len(q) : q[i] = t
    BY <2>1, <2>3 DEF Present
  <2>5. i # 1
    BY <2>2, <2>3, <2>4
  <2>6. i - 1 \in 1..Len(q') /\ q'[i - 1] = t
    BY <2>2, <2>4, <2>5
  <2>7. QED
    BY <2>6
<1>4. ASSUME mReadyQueue' = mReadyQueue, main' = "adding" => main = "adding" /\ next' = next,
             main = "adding" => main' = "adding",
             \A t \in Tasks : outer'[t] = "initial" => outer[t] = "initial"
      PROVE  Present'
  BY <1>4 DEF Present
<1>5. ASSUME ReadResult \/ FireTimer \/ SleepUntil \/ WakeUp \/ LoopEnds \/ Tick \/ SetBack
             \/ UNCHANGED vars
      PROVE  Present'
  <2>1. UNCHANGED <<mReadyQueue, outer>>
    BY <1>5 DEF ReadResult, FireTimer, SleepUntil, WakeUp, LoopEnds, Tick, SetBack, vars, frames,
                loop
  <2>2. /\ main' = "adding" => main = "adding" /\ next' = next
        /\ main = "adding" => main' = "adding"
    BY <1>5 DEF ReadResult, FireTimer, SleepUntil, WakeUp, LoopEnds, Tick, SetBack, vars, InLoop
  <2>3. QED
    BY <1>4, <2>1, <2>2
<1>6. ASSUME NEW t \in Tasks, (\E d \in Delays : sleep_for(t, d)) \/ SleepReturns(t)
                              \/ \E how \in {"value", "exception"} : Return(t, how)
      PROVE  Present'
  <2>1. UNCHANGED <<mReadyQueue, main, next>>
    BY <1>6 DEF sleep_for, SleepReturns, Return, loop
  <2>2. outer' = outer \/ \E x \in {"waiting", "running", "final"} : outer' = [outer EXCEPT ![t] = x]
    BY <1>6 DEF sleep_for, AwaitTask, SleepReturns, Return
  <2>3. \A u \in Tasks : outer'[u] = "initial" => outer[u] = "initial"
    BY <1>1, <2>2 DEF Types
  <2>4. QED
    BY <1>4, <2>1, <2>3
<1>7. QED
  BY <1>2, <1>3, <1>5, <1>6, Zenon DEF Next, Program, Terminated

LEMMA HeldOnce ==
  ASSUME Inv, Present, NEW t \in Tasks
  PROVE  /\ Queued(t) = IF outer[t] = "initial" /\ (main = "adding" => t < next) THEN 1 ELSE 0
         /\ Cardinality(Timers(t)) = IF inner[t] = "suspended" THEN 1 ELSE 0
<1>1. Types /\ QueueOK /\ HeapOK
  BY DEF Inv
<1> DEFINE I == {i \in 1..Len(mReadyQueue) : mReadyQueue[i] = t}
           added == outer[t] = "initial" /\ (main = "adding" => t < next)
<1>2. added => \E i : I = {i}
  <2>1. SUFFICES ASSUME added PROVE \E i : I = {i}
    OBVIOUS
  <2>2. PICK i \in 1..Len(mReadyQueue) : mReadyQueue[i] = t
    BY <2>1 DEF Present
  <2>3. I = {i}
    BY <1>1, <2>2 DEF QueueOK
  <2>4. QED
    BY <2>3
<1>3. ~added => I = {}
  BY <1>1 DEF QueueOK
<1>4. inner[t] = "suspended" => \E e : Timers(t) = {e}
  BY <1>1 DEF HeapOK, Timers
<1>5. inner[t] # "suspended" => Timers(t) = {}
  BY <1>1 DEF HeapOK, Timers
<1>6. Queued(t) = Cardinality(I)
  BY DEF Queued
<1> HIDE DEF I
<1>7. QED
  BY <1>2, <1>3, <1>4, <1>5, <1>6, FS_Singleton, FS_EmptySet

(* The loop holds each coroutine it is to resume exactly once, in the      *)
(* queue before it starts, in the heap while it sleeps, and nowhere while  *)
(* it runs or when it is over; for any tasks, delays and settings of the   *)
(* clock.                                                                  *)
THEOREM TypeCorrect == Spec => []TypeOK
<1>1. ASSUME Inv, Bounds, Present PROVE TypeOK
  <2>1. \A t \in Tasks :
          /\ Queued(t) = IF outer[t] = "initial" /\ (main = "adding" => t < next) THEN 1 ELSE 0
          /\ Cardinality(Timers(t)) = IF inner[t] = "suspended" THEN 1 ELSE 0
    BY <1>1, HeldOnce
  <2>2. inner \in [Tasks -> {"none", "suspended", "running", "final"}]
    BY <1>1 DEF Inv, Types
  <2>3. QED
    BY <1>1, <2>1, <2>2 DEF Inv, Types, Bounds, TypeOK
<1>2. Init => Bounds /\ Present
  <2> SUFFICES ASSUME Init PROVE Bounds /\ Present
    OBVIOUS
  <2>1. Bounds
    BY DemoAssumption DEF Init, Bounds
  <2>2. main = "adding" /\ next = 1
    BY DEF Init
  <2>3. \A t \in Tasks : ~(t < 1)
    BY DEF Tasks
  <2>4. QED
    BY <2>1, <2>2, <2>3 DEF Present
<1>3. Inv /\ Bounds /\ Present /\ [Next]_vars => Inv' /\ Bounds' /\ Present'
  BY BoundsNext, PresentNext, InvNext
<1>4. QED
  BY <1>1, <1>2, <1>3, InvInit, PTL DEF Spec
==============================================================================
