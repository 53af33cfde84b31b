--------------------------- MODULE EventLoopProofs ---------------------------
(***************************************************************************)
(* Proofs about EventLoop, for any coroutines, requests, queue size and    *)
(* delays: its counter, its handles, and that it implements Reactor.  What *)
(* depends on one completion per request assumes that no zero-copy send is *)
(* in use: with one, it posts two completions and the counter is wrong.    *)
(* And about TimerTree, for any timers and times: the tree is a red-black  *)
(* search tree of the active timers, and implements TimerSet, unless a     *)
(* node with two children is cancelled.                                    *)
(***************************************************************************)
EXTENDS EventLoop, TimerTree, FiniteSetTheorems, SequenceTheorems, TLAPS

(* What the properties leave implicit about the phases of the loop.        *)
PhaseInv == /\ pc \in {"wait", "exit"} => stack = << >>
            /\ \A t \in Sqes : st[t] = "batch" => pc = "batch"

(* Handles, the stack and the phases: inductive together.                  *)
ControlInv == OneHandle /\ NoReentry /\ PhaseInv

------------------------------------------------------------------------------
(* The stack of nested resumes.                                            *)

SeqSet(s) == {s[i] : i \in 1..Len(s)}
Injective(s) == \A i, j \in 1..Len(s) : s[i] = s[j] => i = j

(* Returning from the innermost resume removes exactly its coroutine.      *)
LEMMA PopStack ==
  ASSUME NEW s \in Seq(Coros), s # << >>, Injective(s),
         NEW p, p = SubSeq(s, 1, Len(s) - 1)
  PROVE  /\ p \in Seq(Coros) /\ Injective(p)
         /\ SeqSet(p) = SeqSet(s) \ {s[Len(s)]}
<1>1. Len(s) \in Nat \ {0}
  OBVIOUS
<1>2. p \in Seq(Coros) /\ Len(p) = Len(s) - 1 /\ \A i \in 1..Len(p) : p[i] = s[i]
  <2>1. \A i \in 1..(Len(s) - 1) : s[i] \in Coros
    BY <1>1
  <2>2. QED
    <3> DEFINE n == Len(s) - 1
    <3>1. n \in Int /\ 1 \in Int /\ \A i \in 1..n : s[i] \in Coros
      BY <1>1, <2>1
    <3>2. /\ SubSeq(s, 1, n) \in Seq(Coros)
          /\ Len(SubSeq(s, 1, n)) = IF 1 <= n THEN n - 1 + 1 ELSE 0
          /\ \A i \in 1..(n - 1 + 1) : SubSeq(s, 1, n)[i] = s[1 + i - 1]
      BY <3>1, SubSeqProperties
    <3>3. \A i \in 1..n : 1 + i - 1 = i
      BY <3>1
    <3>4. n - 1 + 1 = n /\ n >= 0
      BY <1>1
    <3>5. QED
      BY <3>1, <3>2, <3>3, <3>4
<1>3. Injective(p)
  BY <1>1, <1>2 DEF Injective
<1>4. SeqSet(p) \subseteq SeqSet(s) \ {s[Len(s)]}
  BY <1>1, <1>2 DEF SeqSet, Injective
<1>5. ASSUME NEW i \in 1..Len(s), s[i] # s[Len(s)] PROVE s[i] \in SeqSet(p)
  <2>1. i \in 1..Len(p) /\ p[i] = s[i]
    BY <1>1, <1>2, <1>5
  <2>2. QED
    BY <2>1 DEF SeqSet
<1>6. ASSUME NEW x \in SeqSet(s), x # s[Len(s)] PROVE x \in SeqSet(p)
  <2>1. PICK i \in 1..Len(s) : s[i] = x
    BY <1>6 DEF SeqSet
  <2>2. QED
    BY <1>5, <1>6, <2>1
<1>7. SeqSet(p) = SeqSet(s) \ {s[Len(s)]}
  BY <1>4, <1>6
<1>8. QED
  BY <1>2, <1>3, <1>7

(* A nested resume adds its coroutine.                                     *)
LEMMA PushStack ==
  ASSUME NEW s \in Seq(Coros), Injective(s), NEW c \in Coros, c \notin SeqSet(s)
  PROVE  /\ Append(s, c) \in Seq(Coros)
         /\ Injective(Append(s, c))
         /\ SeqSet(Append(s, c)) = SeqSet(s) \cup {c}
<1> DEFINE a == Append(s, c)
<1>1. /\ a \in Seq(Coros) /\ Len(a) = Len(s) + 1 /\ Len(s) \in Nat
      /\ a[Len(a)] = c /\ \A i \in 1..Len(s) : a[i] = s[i]
  OBVIOUS
<1>2. Injective(a)
  BY <1>1 DEF Injective, SeqSet
<1>3. SeqSet(a) = SeqSet(s) \cup {c}
  BY <1>1 DEF SeqSet
<1>4. QED
  BY <1>1, <1>2, <1>3
------------------------------------------------------------------------------
(* Types.                                                                  *)

Stages == {"free", "sq", "kernel", "notif", "cq", "batch"}

LEMMA QueueType ==
  ASSUME NEW s \in [Sqes -> Stages],
         NEW t \in Sqes
  PROVE  /\ Submitted(s) \in [Sqes -> Stages]
         /\ WithSqe(s, t) \in [Sqes -> Stages]
  BY DEF Submitted, WithSqe, Stages

(* The coroutine running is one of Coros.                                  *)
LEMMA RunningCoro ==
  ASSUME TypeOK, NEW c \in Coros, Running(c)
  PROVE  Pop \in Seq(Coros)
  BY DEF TypeOK, Running, Pop

(* What an action that leaves the clock and pc alone has to show.          *)
LEMMA StepType ==
  ASSUME TypeOK, UNCHANGED <<pc, expires, now, deadline>>,
         stack' \in Seq(Coros),
         co' \in [Coros -> {"new", "running", "timer", "op", "done"}],
         st' \in [Sqes -> Stages],
         handle' \in [Sqes -> Coros \cup {Nobody}],
         pending' \in Int
  PROVE  TypeOK'
  BY DEF TypeOK, Stages

(* Every variable keeps its type: clock, deadline and queues included.     *)
THEOREM TypeCorrect == Spec => []TypeOK
<1>1. Init => TypeOK
  BY TimeAssumption DEF Init, TypeOK
<1>2. TypeOK /\ [Next]_vars => TypeOK'
  <2> SUFFICES ASSUME TypeOK, [Next]_vars PROVE TypeOK'
    OBVIOUS
  <2> USE TimeAssumption DEF TypeOK, Suspend, loopVars, reqVars
  <2>1. ASSUME NEW c \in Coros, Spawn(c) PROVE TypeOK'
    BY <2>1 DEF Spawn
  <2>2. ASSUME NEW c \in Coros, NEW d \in Delays, Sleep(c, d) PROVE TypeOK'
    BY <2>2, RunningCoro DEF Sleep
  <2>3. ASSUME NEW c \in Coros, NEW t \in Sqes, AwaitOp(c, t) PROVE TypeOK'
    <3>1. st' \in [Sqes -> Stages]
      BY <2>3, QueueType DEF AwaitOp, Stages
    <3>2. UNCHANGED <<pc, expires, now, deadline>> /\ pending' \in Int
      BY <2>3 DEF AwaitOp
    <3>3. handle' \in [Sqes -> Coros \cup {Nobody}]
      BY <2>3 DEF AwaitOp
    <3>4. /\ stack' \in Seq(Coros)
           /\ co' \in [Coros -> {"new", "running", "timer", "op", "done"}]
      BY <2>3, RunningCoro DEF AwaitOp
    <3>5. QED
      BY <3>1, <3>2, <3>3, <3>4, StepType
  <2>4. ASSUME NEW c \in Coros, NEW t \in Sqes, NEW u \in Sqes, AwaitLinked(c, t, u)
        PROVE  TypeOK'
    <3>1. st' \in [Sqes -> Stages]
      <4>1. \A a, b \in Sqes : WithSqe(WithSqe(st, a), b) \in [Sqes -> Stages]
        BY QueueType DEF Stages
      <4>2. QED
        BY <2>4, <4>1 DEF AwaitLinked
    <3>2. UNCHANGED <<pc, expires, now, deadline>> /\ pending' \in Int
      BY <2>4 DEF AwaitLinked
    <3>3. handle' \in [Sqes -> Coros \cup {Nobody}]
      BY <2>4 DEF AwaitLinked
    <3>4. /\ stack' \in Seq(Coros)
           /\ co' \in [Coros -> {"new", "running", "timer", "op", "done"}]
      BY <2>4, RunningCoro DEF AwaitLinked
    <3>5. QED
      BY <3>1, <3>2, <3>3, <3>4, StepType
  <2>5. ASSUME NEW c \in Coros, NEW t \in Sqes, StartDetached(c, t) PROVE TypeOK'
    <3>1. st' \in [Sqes -> Stages]
      BY <2>5, QueueType DEF StartDetached, Stages
    <3>2. UNCHANGED <<pc, expires, now, deadline>> /\ pending' \in Int
      BY <2>5 DEF StartDetached
    <3>3. handle' \in [Sqes -> Coros \cup {Nobody}]
      BY <2>5 DEF StartDetached
    <3>4. /\ stack' \in Seq(Coros)
           /\ co' \in [Coros -> {"new", "running", "timer", "op", "done"}]
      BY <2>5 DEF StartDetached
    <3>5. QED
      BY <3>1, <3>2, <3>3, <3>4, StepType
  <2>6. ASSUME NEW c \in Coros, Finish(c) PROVE TypeOK'
    BY <2>6, RunningCoro DEF Finish
  <2>7. CASE StartRun \/ Leave \/ TimedOut \/ Interrupted \/ BatchDone
    BY <2>7 DEF StartRun, Leave, TimedOut, Interrupted, WaitEnds, BatchDone
  <2>8. CASE EnterWait
    <3>1. deadline' \in 0..(MaxTime + MaxSleep)
      BY <2>8 DEF EnterWait, Earliest, Armed
    <3>2. st' \in [Sqes -> Stages]
      BY <2>8 DEF EnterWait, Submitted, Stages
    <3>3. pc' = "wait" /\ UNCHANGED <<stack, co, expires, now, handle, pending>>
      BY <2>8 DEF EnterWait
    <3>4. QED
      BY <3>1, <3>2, <3>3 DEF Stages
  <2>9. CASE Reap
    <3>1. pending' \in Int
      BY <2>9, SqesAssumption, FS_Subset, FS_CardinalityType DEF Reap, Completed
    <3>2. QED
      BY <2>9, <3>1 DEF Reap
  <2>10. ASSUME NEW c \in Coros, FireTimer(c) PROVE TypeOK'
    BY <2>10 DEF FireTimer
  <2>11. ASSUME NEW t \in Sqes, ResumeTask(t) PROVE TypeOK'
    <3>1. CASE handle[t] = Nobody
      BY <2>11, <3>1 DEF ResumeTask
    <3>2. CASE handle[t] \in Coros
      <4>1. stack' = <<handle[t]>> /\ co' = [co EXCEPT ![handle[t]] = "running"]
        BY <2>11, <3>2, CorosAssumption DEF ResumeTask
      <4>2. /\ UNCHANGED <<pc, expires, now, deadline, handle, pending>>
            /\ st' \in [Sqes -> Stages]
        BY <2>11 DEF ResumeTask, Stages
      <4>3. QED
        BY <3>2, <4>1, <4>2, StepType
    <3>3. QED
      BY <3>1, <3>2
  <2>12. ASSUME NEW t \in Sqes, Complete(t) PROVE TypeOK'
    BY <2>12 DEF Complete
  <2>13. CASE Tick
    BY <2>13 DEF Tick
  <2>14. CASE UNCHANGED vars
    BY <2>14 DEF vars
  <2>15. QED
    BY <2>1, <2>2, <2>3, <2>4, <2>5, <2>6, <2>7, <2>8, <2>9, <2>10, <2>11,
       <2>12, <2>13, <2>14 DEF Next, Program, Loop, Terminated
<1>3. QED
  BY <1>1, <1>2, PTL DEF Spec
------------------------------------------------------------------------------
(* The counter.                                                            *)

Out(s) == {t \in Sqes : s[t] \in {"sq", "kernel", "notif", "cq"}}

(* Submitting moves entries on, taking one adds exactly that ticket.       *)
LEMMA OutstandingSqe ==
  ASSUME NEW s \in [Sqes -> Stages], NEW t \in Sqes, s[t] = "free"
  PROVE  /\ Out(Submitted(s)) = Out(s)
         /\ Out(WithSqe(s, t)) = Out(s) \cup {t}
         /\ t \notin Out(s)
         /\ \A u \in Sqes : u # t /\ s[u] = "free" => WithSqe(s, t)[u] = "free"
         /\ WithSqe(s, t) \in [Sqes -> Stages]
  BY DEF Out, Submitted, WithSqe, Stages

LEMMA OutFinite ==
  ASSUME NEW s \in [Sqes -> Stages]
  PROVE  IsFiniteSet(Out(s)) /\ Cardinality(Out(s)) \in Nat
  BY SqesAssumption, FS_Subset, FS_CardinalityType DEF Out

LEMMA CountSqe ==
  ASSUME NEW s \in [Sqes -> Stages], NEW t \in Sqes, s[t] = "free"
  PROVE  Cardinality(Out(WithSqe(s, t))) = Cardinality(Out(s)) + 1
  BY OutstandingSqe, OutFinite, FS_AddElement

LEMMA CounterStep ==
  ASSUME "zerocopy" \notin Kinds, TypeOK, PendingExact, [Next]_vars
  PROVE  PendingExact'
<1>1. /\ Outstanding = Out(st) /\ Outstanding' = Out(st')
      /\ st \in [Sqes -> Stages] /\ pending = Cardinality(Out(st))
  BY DEF Outstanding, Out, TypeOK, Stages, PendingExact
<1>2. SUFFICES pending' = Cardinality(Out(st'))
  BY <1>1 DEF PendingExact
<1> USE <1>1
<1>3. ASSUME NEW c \in Coros, NEW t \in Sqes, AwaitOp(c, t) \/ StartDetached(c, t)
      PROVE  pending' = Cardinality(Out(st'))
  BY <1>3, CountSqe DEF AwaitOp, StartDetached
<1>4. ASSUME NEW c \in Coros, NEW t \in Sqes, NEW u \in Sqes, AwaitLinked(c, t, u)
      PROVE  pending' = Cardinality(Out(st'))
  <2>1. /\ t # u /\ st[t] = "free" /\ st[u] = "free" /\ pending' = pending + 2
        /\ st' = WithSqe(WithSqe(st, t), u) \/ st' = WithSqe(WithSqe(st, u), t)
    BY <1>4 DEF AwaitLinked
  <2>2. ASSUME NEW a \in Sqes, NEW b \in Sqes, a # b, st[a] = "free", st[b] = "free"
        PROVE  Cardinality(Out(WithSqe(WithSqe(st, a), b))) = Cardinality(Out(st)) + 2
    <3>1. /\ WithSqe(st, a) \in [Sqes -> Stages] /\ WithSqe(st, a)[b] = "free"
          /\ Cardinality(Out(WithSqe(st, a))) = Cardinality(Out(st)) + 1
      BY <2>2, OutstandingSqe, CountSqe
    <3>2. Cardinality(Out(WithSqe(WithSqe(st, a), b)))
            = Cardinality(Out(WithSqe(st, a))) + 1
      BY <3>1, CountSqe
    <3>3. QED
      BY <3>1, <3>2, OutFinite
  <2>3. QED
    BY <2>1, <2>2
<1>5. CASE EnterWait
  <2>1. Out(Submitted(st)) = Out(st)
    BY DEF Out, Submitted
  <2>2. QED
    BY <1>5, <2>1 DEF EnterWait
<1>6. CASE Reap
  <2>1. Out(st') = Out(st) \ Completed /\ Completed \subseteq Out(st)
    BY <1>6 DEF Reap, Out, Completed, Stages
  <2>2. Cardinality(Out(st')) = Cardinality(Out(st)) - Cardinality(Completed)
    <3>1. Out(st) \cap Completed = Completed
      BY <2>1
    <3>2. QED
      BY <2>1, <3>1, OutFinite, FS_Difference
  <2>3. QED
    BY <1>6, <2>2 DEF Reap
<1>7. ASSUME NEW t \in Sqes, ResumeTask(t) PROVE pending' = Cardinality(Out(st'))
  <2>1. Out(st') = Out(st) /\ pending' = pending
    BY <1>7 DEF ResumeTask, Out
  <2>2. QED
    BY <2>1
<1>8. ASSUME NEW t \in Sqes, Complete(t) PROVE pending' = Cardinality(Out(st'))
  <2>1. Out(st') = Out(st) /\ pending' = pending
    BY <1>8 DEF Complete, Out
  <2>2. QED
    BY <2>1
<1>9. ASSUME UNCHANGED reqVars PROVE pending' = Cardinality(Out(st'))
  BY <1>9 DEF reqVars
<1>10. QED
  <2>1. ASSUME NEW c \in Coros,
               Spawn(c) \/ (\E d \in Delays : Sleep(c, d)) \/ Finish(c) \/ FireTimer(c)
        PROVE  UNCHANGED reqVars
    BY <2>1 DEF Spawn, Sleep, Finish, FireTimer
  <2>2. ASSUME \/ StartRun \/ Leave \/ TimedOut \/ Interrupted \/ BatchDone
               \/ Tick \/ UNCHANGED vars
        PROVE  UNCHANGED reqVars
    BY <2>2 DEF StartRun, Leave, TimedOut, Interrupted, WaitEnds, BatchDone, Tick,
                vars, reqVars
  <2>3. QED
    BY <1>3, <1>4, <1>5, <1>6, <1>7, <1>8, <1>9, <2>1, <2>2
       DEF Next, Program, Loop, Terminated

(* mNumSqesPending is the number of completions still to come, for any     *)
(* mix of plain, linked and detached requests.                             *)
THEOREM CounterExact ==
  ASSUME "zerocopy" \notin Kinds
  PROVE  Spec => []PendingExact
<1>1. Init => PendingExact
  <2>1. Init => Outstanding = {}
    BY DEF Init, Outstanding
  <2>2. QED
    BY <2>1, FS_EmptySet DEF Init, PendingExact
<1>2. TypeOK /\ PendingExact /\ [Next]_vars => PendingExact'
  BY CounterStep
<1>3. QED
  BY <1>1, <1>2, TypeCorrect, PTL DEF Spec
------------------------------------------------------------------------------
(* Handles and the stack.                                                  *)

LEMMA TopRuns ==
  ASSUME TypeOK, NoReentry, NEW c \in Coros, Running(c)
  PROVE  co[c] = "running" /\ stack # << >>
  BY DEF TypeOK, NoReentry, OnStack, Running

(* A coroutine that suspends or ends leaves the stack and stops running.   *)
LEMMA SuspendStack ==
  ASSUME TypeOK, NoReentry, NEW c \in Coros, Running(c),
         NEW why, why # "running", Suspend(c, why)
  PROVE  NoReentry'
<1>1. /\ stack \in Seq(Coros) /\ stack # << >> /\ Injective(stack)
      /\ stack' = SubSeq(stack, 1, Len(stack) - 1) /\ stack[Len(stack)] = c
      /\ SeqSet(stack) = {d \in Coros : co[d] = "running"}
  BY DEF TypeOK, NoReentry, OnStack, SeqSet, Injective, Running, Suspend, Pop
<1>2. Injective(stack') /\ SeqSet(stack') = SeqSet(stack) \ {c}
  BY <1>1, PopStack
<1>3. {d \in Coros : co'[d] = "running"} = {d \in Coros : co[d] = "running"} \ {c}
  BY DEF Suspend, TypeOK
<1>4. QED
  BY <1>1, <1>2, <1>3 DEF NoReentry, OnStack, SeqSet, Injective

(* The loop resumes a coroutine on an empty stack.                         *)
LEMMA ResumeStack ==
  ASSUME TypeOK, NoReentry, stack = << >>, NEW c \in Coros,
         co' = [co EXCEPT ![c] = "running"], stack' = <<c>>
  PROVE  NoReentry'
<1>1. {d \in Coros : co[d] = "running"} = {}
  BY DEF NoReentry, OnStack
<1>2. {d \in Coros : co'[d] = "running"} = {c}
  BY <1>1 DEF TypeOK
<1>3. Len(stack') = 1 /\ stack'[1] = c
  OBVIOUS
<1>4. QED
  BY <1>2, <1>3 DEF NoReentry, OnStack

LEMMA ReentryStep == TypeOK /\ NoReentry /\ [Next]_vars => NoReentry'
<1> SUFFICES ASSUME TypeOK, NoReentry, [Next]_vars PROVE NoReentry'
  OBVIOUS
<1>0. NoReentry
  OBVIOUS
<1>1. ASSUME NEW c \in Coros, Spawn(c) PROVE NoReentry'
  <2>1. /\ c \notin SeqSet(stack) /\ Injective(stack) /\ stack \in Seq(Coros)
        /\ SeqSet(stack) = {d \in Coros : co[d] = "running"}
    BY <1>0, <1>1 DEF Spawn, NoReentry, OnStack, SeqSet, Injective, TypeOK
  <2>2. Injective(stack') /\ SeqSet(stack') = SeqSet(stack) \cup {c}
    BY <1>1, <2>1, PushStack DEF Spawn
  <2>3. {d \in Coros : co'[d] = "running"} = {d \in Coros : co[d] = "running"} \cup {c}
    BY <1>1 DEF Spawn, TypeOK
  <2>4. QED
    BY <2>1, <2>2, <2>3 DEF NoReentry, OnStack, SeqSet, Injective
<1>2. ASSUME NEW c \in Coros,
             \/ \E d \in Delays : Sleep(c, d)
             \/ \E t \in Sqes : AwaitOp(c, t)
             \/ \E t, u \in Sqes : AwaitLinked(c, t, u)
             \/ Finish(c)
      PROVE  NoReentry'
  BY <1>0, <1>2, SuspendStack DEF Sleep, AwaitOp, AwaitLinked, Finish
<1>3. ASSUME NEW c \in Coros, FireTimer(c) PROVE NoReentry'
  BY <1>0, <1>3, ResumeStack DEF FireTimer
<1>4. ASSUME NEW t \in Sqes, ResumeTask(t) PROVE NoReentry'
  <2>1. CASE handle[t] = Nobody
    BY <1>0, <1>4, <2>1 DEF ResumeTask, NoReentry, OnStack
  <2>2. CASE handle[t] # Nobody
    <3>1. handle[t] \in Coros
      BY <2>2 DEF TypeOK
    <3>2. QED
      BY <1>0, <1>4, <2>2, <3>1, ResumeStack DEF ResumeTask
  <2>3. QED
    BY <2>1, <2>2
<1>5. ASSUME UNCHANGED <<co, stack>> PROVE NoReentry'
  BY <1>0, <1>5 DEF NoReentry, OnStack
<1>6. QED
  BY <1>1, <1>2, <1>3, <1>4, <1>5
     DEF Next, Program, Loop, Terminated, StartDetached, StartRun, Leave, EnterWait,
         Reap, TimedOut, Interrupted, WaitEnds, BatchDone, Complete, Tick, vars
------------------------------------------------------------------------------
(* The loop waits and returns on an empty stack, and a completion is in    *)
(* hand only while its batch is being resumed.                             *)
LEMMA PhaseStep == TypeOK /\ PhaseInv /\ [Next]_vars => PhaseInv'
<1> SUFFICES ASSUME TypeOK, PhaseInv, [Next]_vars PROVE PhaseInv'
  OBVIOUS
<1> USE DEF PhaseInv, TypeOK
<1>1. ASSUME NEW c \in Coros,
             \/ Spawn(c) \/ FireTimer(c) \/ Finish(c)
             \/ \E d \in Delays : Sleep(c, d)
      PROVE  PhaseInv'
  BY <1>1 DEF Spawn, FireTimer, Finish, Sleep, Running, loopVars, reqVars
<1>2. ASSUME NEW c \in Coros, NEW t \in Sqes, NEW u \in Sqes,
             AwaitOp(c, t) \/ StartDetached(c, t) \/ AwaitLinked(c, t, u)
      PROVE  PhaseInv'
  <2>1. ASSUME NEW s \in [Sqes -> Stages], NEW a \in Sqes
        PROVE  /\ \A b \in Sqes : WithSqe(s, a)[b] = "batch" => s[b] = "batch"
               /\ WithSqe(s, a) \in [Sqes -> Stages]
    BY DEF WithSqe, Submitted, Stages
  <2>2. \A b \in Sqes : st'[b] = "batch" => st[b] = "batch"
    <3>1. st \in [Sqes -> Stages]
      BY DEF Stages
    <3>2. ASSUME AwaitOp(c, t) \/ StartDetached(c, t)
          PROVE  \A b \in Sqes : st'[b] = "batch" => st[b] = "batch"
      BY <2>1, <3>1, <3>2 DEF AwaitOp, StartDetached
    <3>3. ASSUME NEW x \in Sqes, NEW y \in Sqes, NEW b \in Sqes,
                 WithSqe(WithSqe(st, x), y)[b] = "batch"
          PROVE  st[b] = "batch"
      <4>1. WithSqe(st, x) \in [Sqes -> Stages]
        BY <2>1, <3>1
      <4>2. WithSqe(st, x)[b] = "batch"
        BY <2>1, <3>3, <4>1
      <4>3. QED
        BY <2>1, <3>1, <4>2
    <3>4. ASSUME AwaitLinked(c, t, u)
          PROVE  \A b \in Sqes : st'[b] = "batch" => st[b] = "batch"
      BY <3>3, <3>4 DEF AwaitLinked
    <3>5. QED
      BY <1>2, <3>2, <3>4
  <2>3. pc' = pc /\ pc \notin {"wait", "exit"}
    BY <1>2 DEF AwaitOp, StartDetached, AwaitLinked, Running, loopVars
  <2>4. QED
    BY <2>2, <2>3
<1>3. CASE EnterWait
  BY <1>3 DEF EnterWait, NoneDue, Submitted
<1>4. CASE Reap \/ BatchDone \/ StartRun \/ Leave \/ TimedOut \/ Interrupted \/ Tick
  BY <1>4 DEF Reap, BatchDone, StartRun, Leave, NoneDue, TimedOut, Interrupted,
              WaitEnds, Tick, reqVars
<1>5. ASSUME NEW t \in Sqes, ResumeTask(t) \/ Complete(t) PROVE PhaseInv'
  BY <1>5 DEF ResumeTask, Complete, loopVars
<1>6. CASE UNCHANGED vars
  BY <1>6 DEF vars
<1>7. QED
  BY <1>1, <1>2, <1>3, <1>4, <1>5, <1>6 DEF Next, Program, Loop, Terminated

(* Requests of a coroutine about to suspend: it had none before.           *)
LEMMA FreshHandle ==
  ASSUME TypeOK, ControlInv, NEW c \in Coros, Running(c)
  PROVE  \A t \in Sqes : st[t] # "free" => handle[t] # c
<1>1. co[c] = "running"
  BY TopRuns DEF ControlInv
<1>2. QED
  BY <1>1, CorosAssumption DEF ControlInv, OneHandle

(* A coroutine without a handle suspends on ticket t; the other tickets    *)
(* taken with it hold no coroutine.                                        *)
LEMMA AttachHandle ==
  ASSUME TypeOK, OneHandle, NEW c \in Coros, NEW t \in Sqes, st[t] = "free",
         \A u \in Sqes : st[u] # "free" => handle[u] # c,
         co' = [co EXCEPT ![c] = "op"],
         st'[t] # "free", handle'[t] = c,
         \A u \in Sqes : st[u] # "free" => st'[u] # "free" /\ handle'[u] = handle[u],
         \A u \in Sqes : u # t /\ st'[u] # "free" /\ st[u] = "free"
                           => handle'[u] = Nobody
  PROVE  OneHandle'
<1>1. c # Nobody /\ co'[c] = "op" /\ \A d \in Coros : d # c => co'[d] = co[d]
  BY CorosAssumption DEF TypeOK
<1>2. ASSUME NEW d \in Coros, co'[d] = "op"
      PROVE  \E u \in Sqes : st'[u] # "free" /\ handle'[u] = d
  <2>1. CASE d = c
    BY <2>1
  <2>2. CASE d # c
    BY <1>1, <1>2, <2>2 DEF OneHandle
  <2>3. QED
    BY <2>1, <2>2
<1>3. ASSUME NEW u \in Sqes, st'[u] # "free", handle'[u] # Nobody
      PROVE  u = t \/ (u # t /\ st[u] # "free" /\ handle'[u] = handle[u] /\ handle[u] # c)
  BY <1>3
<1>4. ASSUME NEW u \in Sqes, st'[u] # "free", handle'[u] # Nobody
      PROVE  co'[handle'[u]] = "op"
  <2>1. CASE u = t
    BY <1>1, <2>1
  <2>2. CASE u # t
    <3>1. /\ st[u] # "free" /\ handle'[u] = handle[u] /\ handle[u] # c
          /\ handle[u] \in Coros
      BY <1>3, <1>4, <2>2 DEF TypeOK
    <3>2. co[handle[u]] = "op"
      BY <1>4, <3>1 DEF OneHandle
    <3>3. QED
      BY <1>1, <3>1, <3>2
  <2>3. QED
    BY <2>1, <2>2
<1>5. ASSUME NEW u \in Sqes, st'[u] # "free", handle'[u] # Nobody,
             NEW v \in Sqes, st'[v] # "free", handle'[v] = handle'[u]
      PROVE  v = u
  <2>1. /\ u = t \/ (st[u] # "free" /\ handle'[u] = handle[u] /\ handle[u] # c)
        /\ v = t \/ (st[v] # "free" /\ handle'[v] = handle[v] /\ handle[v] # c)
    BY <1>3, <1>5
  <2>2. QED
    BY <1>5, <2>1 DEF OneHandle
<1>6. QED
  BY <1>2, <1>4, <1>5 DEF OneHandle

LEMMA HandleStep ==
  ASSUME "zerocopy" \notin Kinds, TypeOK, ControlInv, [Next]_vars
  PROVE  OneHandle'
<1> USE DEF OneHandle
<1>0. OneHandle /\ st \in [Sqes -> Stages] /\ handle \in [Sqes -> Coros \cup {Nobody}]
  BY DEF ControlInv, TypeOK, Stages
<1>1. ASSUME NEW c \in Coros, NEW why, co[c] # "op", why # "op",
             co' = [co EXCEPT ![c] = why], UNCHANGED <<st, handle>>
      PROVE  OneHandle'
  BY <1>0, <1>1 DEF TypeOK
<1>2. ASSUME NEW c \in Coros, Spawn(c) \/ FireTimer(c) PROVE OneHandle'
  BY <1>1, <1>2 DEF Spawn, FireTimer, Earliest, Armed, reqVars
<1>3. ASSUME NEW c \in Coros, (\E d \in Delays : Sleep(c, d)) \/ Finish(c)
      PROVE  OneHandle'
  <2>1. co[c] = "running"
    BY <1>3, TopRuns DEF ControlInv, Sleep, Finish
  <2>2. QED
    BY <1>1, <1>3, <2>1 DEF Sleep, Finish, Suspend, reqVars
<1>4. ASSUME NEW s \in [Sqes -> Stages], NEW t \in Sqes, s[t] = "free"
      PROVE  /\ WithSqe(s, t)[t] = "sq"
             /\ \A u \in Sqes : u # t => (WithSqe(s, t)[u] = "free" <=> s[u] = "free")
             /\ WithSqe(s, t) \in [Sqes -> Stages]
  BY <1>4 DEF WithSqe, Submitted, Stages
<1>5. ASSUME NEW c \in Coros, NEW t \in Sqes, AwaitOp(c, t) PROVE OneHandle'
  <2>1. /\ st'[t] = "sq"
        /\ \A u \in Sqes : u # t => (st'[u] = "free" <=> st[u] = "free")
    BY <1>0, <1>4, <1>5 DEF AwaitOp
  <2>2. handle' = [handle EXCEPT ![t] = c] /\ co' = [co EXCEPT ![c] = "op"]
    BY <1>5 DEF AwaitOp, Suspend
  <2>3. \A u \in Sqes : st[u] # "free" => handle[u] # c
    BY <1>5, FreshHandle DEF AwaitOp
  <2>4. st[t] = "free"
    BY <1>5 DEF AwaitOp
  <2>5. /\ handle'[t] = c
        /\ \A u \in Sqes : u # t => handle'[u] = handle[u]
    BY <1>0, <2>2
  <2>6. \A u \in Sqes : st[u] # "free" => st'[u] # "free" /\ handle'[u] = handle[u]
    BY <2>1, <2>4, <2>5
  <2>7. \A u \in Sqes : u # t /\ st'[u] # "free" /\ st[u] = "free" => handle'[u] = Nobody
    BY <2>1
  <2> HIDE DEF OneHandle
  <2>8. QED
    BY <1>0, <2>1, <2>2, <2>3, <2>4, <2>5, <2>6, <2>7, AttachHandle
<1>6. ASSUME NEW c \in Coros, NEW t \in Sqes, NEW u \in Sqes, AwaitLinked(c, t, u)
      PROVE  OneHandle'
  <2>1. t # u /\ st[t] = "free" /\ st[u] = "free"
    BY <1>6 DEF AwaitLinked
  <2>2. /\ st'[t] # "free" /\ st'[u] # "free"
        /\ \A v \in Sqes : v # t /\ v # u => (st'[v] = "free" <=> st[v] = "free")
    <3>1. ASSUME NEW a \in Sqes, NEW b \in Sqes, a # b, st[a] = "free", st[b] = "free",
                 st' = WithSqe(WithSqe(st, a), b)
          PROVE  /\ st'[a] # "free" /\ st'[b] # "free"
                 /\ \A v \in Sqes : v # a /\ v # b => (st'[v] = "free" <=> st[v] = "free")
      BY <1>0, <1>4, <3>1
    <3>2. QED
      BY <1>6, <2>1, <3>1 DEF AwaitLinked
  <2>3. /\ handle' = [handle EXCEPT ![t] = c, ![u] = Nobody]
        /\ co' = [co EXCEPT ![c] = "op"]
    BY <1>6 DEF AwaitLinked, Suspend
  <2>4. \A v \in Sqes : st[v] # "free" => handle[v] # c
    BY <1>6, FreshHandle DEF AwaitLinked
  <2>5. /\ handle'[t] = c /\ handle'[u] = Nobody
        /\ \A v \in Sqes : v # t /\ v # u => handle'[v] = handle[v]
    BY <1>0, <2>1, <2>3
  <2>6. \A v \in Sqes : st[v] # "free" => st'[v] # "free" /\ handle'[v] = handle[v]
    BY <2>1, <2>2, <2>5
  <2>7. \A v \in Sqes : v # t /\ st'[v] # "free" /\ st[v] = "free" => handle'[v] = Nobody
    BY <2>2, <2>5
  <2> HIDE DEF OneHandle
  <2>8. QED
    BY <1>0, <2>1, <2>2, <2>3, <2>4, <2>5, <2>6, <2>7, AttachHandle
<1>7. ASSUME NEW c \in Coros, NEW t \in Sqes, StartDetached(c, t) PROVE OneHandle'
  <2>1. /\ st[t] = "free" /\ st'[t] = "sq"
        /\ \A u \in Sqes : u # t => (st'[u] = "free" <=> st[u] = "free")
    BY <1>0, <1>4, <1>7 DEF StartDetached
  <2>2. handle' = [handle EXCEPT ![t] = Nobody] /\ co' = co
    BY <1>7 DEF StartDetached
  <2>3. QED
    BY <1>0, <2>1, <2>2, CorosAssumption
<1>8. ASSUME UNCHANGED <<co, handle>>,
             \A t \in Sqes : st'[t] = "free" <=> st[t] = "free"
      PROVE  OneHandle'
  BY <1>0, <1>8
<1>9. CASE EnterWait \/ Reap
  BY <1>0, <1>8, <1>9 DEF EnterWait, Reap, Submitted
<1>10. ASSUME NEW t \in Sqes, Complete(t) PROVE OneHandle'
  BY <1>0, <1>8, <1>10 DEF Complete
<1>11. ASSUME NEW t \in Sqes, ResumeTask(t) PROVE OneHandle'
  <2>1. st[t] = "batch" /\ st' = [st EXCEPT ![t] = "free"] /\ handle' = handle
    BY <1>11 DEF ResumeTask
  <2>2. CASE handle[t] = Nobody
    BY <1>0, <1>11, <2>1, <2>2, CorosAssumption DEF ResumeTask
  <2>3. CASE handle[t] # Nobody
    <3>1. /\ handle[t] \in Coros /\ co[handle[t]] = "op"
          /\ co' = [co EXCEPT ![handle[t]] = "running"]
      BY <1>0, <1>11, <2>1, <2>3 DEF ResumeTask
    <3>2. QED
      BY <1>0, <2>1, <3>1 DEF TypeOK
  <2>4. QED
    BY <2>2, <2>3
<1>12. CASE \/ StartRun \/ Leave \/ TimedOut \/ Interrupted \/ BatchDone
            \/ Tick \/ UNCHANGED vars
  BY <1>0, <1>12 DEF StartRun, Leave, TimedOut, Interrupted, WaitEnds, BatchDone, Tick,
                     vars, reqVars
<1>13. QED
  BY <1>2, <1>3, <1>5, <1>6, <1>7, <1>9, <1>10, <1>11, <1>12
     DEF Next, Program, Loop, Terminated
------------------------------------------------------------------------------
(* However spawns, timers and completions nest, a coroutine that is        *)
(* executing is never resumed: this holds for every kind of request.       *)
THEOREM NeverReentered == Spec => []NoReentry
<1>1. Init => NoReentry
  BY DEF Init, NoReentry, OnStack
<1>2. QED
  BY <1>1, ReentryStep, TypeCorrect, PTL DEF Spec

(* While the loop waits nobody executes, so no timer is armed or fired.    *)
LEMMA OversleepStep ==
  ASSUME TypeOK, PhaseInv, PhaseInv', NoOversleep, [Next]_vars PROVE NoOversleep'
<1> SUFFICES ASSUME pc' = "wait" PROVE \A c \in Armed' : deadline' <= expires'[c]
  BY DEF NoOversleep
<1>1. CASE EnterWait
  <2>1. /\ Armed' = Armed /\ expires' = expires /\ expires \in [Coros -> 0..MaxTime]
        /\ now \in 0..MaxTime /\ Armed \subseteq Coros
    BY <1>1 DEF EnterWait, Armed, TypeOK
  <2>2. CASE \E c \in Coros : Earliest(c) /\ deadline' = expires[c]
    BY <2>1, <2>2 DEF Earliest
  <2>3. CASE (\A c \in Armed : expires[c] - now > MaxSleep) /\ deadline' = now + MaxSleep
    BY <2>1, <2>3, TimeAssumption
  <2>4. QED
    BY <1>1, <2>2, <2>3 DEF EnterWait
<1>2. CASE ~EnterWait
  <2>1. pc = "wait" /\ stack = << >>
    BY <1>2 DEF Next, Program, Loop, Terminated, Spawn, Sleep, AwaitOp, AwaitLinked, StartDetached,
       Finish, StartRun, FireTimer, Leave, Reap, TimedOut, Interrupted, WaitEnds, ResumeTask,
       BatchDone, Complete, Tick, vars, loopVars, PhaseInv
  <2>2. UNCHANGED <<co, expires, deadline>>
    BY <1>2, <2>1 DEF Next, Program, Loop, Terminated, Running, Spawn, Sleep, AwaitOp, AwaitLinked,
       StartDetached, Finish, StartRun, FireTimer, Leave, Reap, TimedOut, Interrupted, WaitEnds,
       ResumeTask, BatchDone, Complete, Tick, vars, NoneDue
  <2>3. QED
    BY <2>1, <2>2 DEF NoOversleep, Armed
<1>3. QED
  BY <1>1, <1>2

(* The loop never blocks beyond the earliest timer, nor beyond maxSleep    *)
(* when that comes first (runOnce), whatever kinds of request are in use.  *)
THEOREM NeverOversleeps == Spec => []NoOversleep
<1>1. Init => PhaseInv /\ NoOversleep
  BY DEF Init, PhaseInv, NoOversleep
<1>2. TypeOK /\ PhaseInv /\ NoOversleep /\ [Next]_vars => PhaseInv' /\ NoOversleep'
  BY PhaseStep, OversleepStep
<1>3. QED
  BY <1>1, <1>2, TypeCorrect, PTL DEF Spec

LEMMA ControlCorrect ==
  ASSUME "zerocopy" \notin Kinds
  PROVE  Spec => []ControlInv
<1>1. Init => ControlInv
  BY DEF Init, ControlInv, OneHandle, NoReentry, OnStack, PhaseInv
<1>2. TypeOK /\ ControlInv /\ [Next]_vars => ControlInv'
  BY HandleStep, ReentryStep, PhaseStep DEF ControlInv
<1>3. QED
  BY <1>1, <1>2, TypeCorrect, PTL DEF Spec

(* Every coroutine suspended on a request is held by exactly one handle    *)
(* still to be resumed, and no handle outlives its wait.                   *)
THEOREM HandleOnce ==
  ASSUME "zerocopy" \notin Kinds
  PROVE  Spec => []OneHandle
<1>1. ControlInv => OneHandle
  BY DEF ControlInv
<1>2. QED
  BY <1>1, ControlCorrect, PTL
------------------------------------------------------------------------------
(* Implementation of Reactor.                                              *)

View(s) == IF s \in {"op", "timer"} THEN "waiting" ELSE s

LEMMA MoveStep ==
  ASSUME TypeOK, pc # "exit", pc' = pc, NEW c \in Coros, NEW w,
         co' = [co EXCEPT ![c] = w]
  PROVE  Abstract!Move(c, View(co[c]), View(w))
  BY DEF Abstract!Move, View, TypeOK

LEMMA Stutter ==
  ASSUME UNCHANGED co, pc = "exit" <=> pc' = "exit"
  PROVE  UNCHANGED Abstract!vars
  BY DEF Abstract!vars

(* run() returns when the tree is empty and the counter is zero: with the  *)
(* counter exact and one handle per suspended coroutine, nobody waits.     *)
LEMMA LeaveStep ==
  ASSUME TypeOK, ControlInv, PendingExact, Leave
  PROVE  Abstract!Stop
<1>1. /\ pc = "timers" /\ stack = << >> /\ Armed = {} /\ pending = 0
      /\ pc' = "exit" /\ co' = co
  BY DEF Leave, NoneDue
<1>2. Outstanding = {}
  <2>1. IsFiniteSet(Outstanding)
    BY SqesAssumption, FS_Subset DEF Outstanding
  <2>2. QED
    BY <1>1, <2>1, FS_EmptySet DEF PendingExact
<1>3. \A t \in Sqes : st[t] = "free"
  BY <1>1, <1>2 DEF ControlInv, PhaseInv, TypeOK, Outstanding
<1>4. \A c \in Coros : co[c] \in {"new", "done"}
  BY <1>1, <1>3 DEF ControlInv, OneHandle, NoReentry, OnStack, TypeOK, Armed
<1>5. QED
  BY <1>1, <1>4 DEF Abstract!Stop

(* Every step of the loop is a step of Reactor or leaves it as it is.      *)
LEMMA ReactorStep ==
  ASSUME TypeOK, ControlInv, PendingExact, [Next]_vars
  PROVE  [Abstract!Next]_(Abstract!vars)
<1>1. ASSUME NEW c \in Coros, Spawn(c) PROVE Abstract!Start(c)
  <2>1. /\ pc # "exit" /\ pc' = pc /\ co[c] = "new"
        /\ co' = [co EXCEPT ![c] = "running"]
    BY <1>1 DEF Spawn, ControlInv, PhaseInv, loopVars
  <2>2. QED
    BY <2>1, MoveStep DEF Abstract!Start, View
<1>2. ASSUME NEW c \in Coros, Running(c), NEW why, Suspend(c, why), pc' = pc
      PROVE  Abstract!Move(c, "running", View(why))
  <2>1. /\ pc # "exit" /\ View(co[c]) = "running"
        /\ co' = [co EXCEPT ![c] = why]
    BY <1>2, TopRuns DEF ControlInv, PhaseInv, Suspend, View
  <2>2. QED
    BY <1>2, <2>1, MoveStep
<1>3. ASSUME NEW c \in Coros,
             \/ \E d \in Delays : Sleep(c, d)
             \/ \E t \in Sqes : AwaitOp(c, t)
             \/ \E t, u \in Sqes : AwaitLinked(c, t, u)
      PROVE  Abstract!Suspend(c)
  <2>1. Running(c) /\ pc' = pc /\ (Suspend(c, "timer") \/ Suspend(c, "op"))
    BY <1>3 DEF Sleep, AwaitOp, AwaitLinked, loopVars
  <2>2. View("timer") = "waiting" /\ View("op") = "waiting"
    BY DEF View
  <2>3. Abstract!Move(c, "running", "waiting")
    BY <1>2, <2>1, <2>2
  <2>4. QED
    BY <2>3 DEF Abstract!Suspend
<1>4. ASSUME NEW c \in Coros, Finish(c) PROVE Abstract!Finish(c)
  <2>1. Running(c) /\ pc' = pc /\ Suspend(c, "done") /\ View("done") = "done"
    BY <1>4 DEF Finish, loopVars, View
  <2>2. Abstract!Move(c, "running", "done")
    BY <1>2, <2>1
  <2>3. QED
    BY <2>2 DEF Abstract!Finish
<1>5. ASSUME NEW c \in Coros, FireTimer(c) PROVE Abstract!Wake(c)
  <2>1. /\ pc # "exit" /\ pc' = pc /\ co[c] = "timer"
        /\ co' = [co EXCEPT ![c] = "running"]
    BY <1>5 DEF FireTimer, Earliest, Armed, loopVars
  <2>2. QED
    BY <2>1, MoveStep DEF Abstract!Wake, View
<1>6. ASSUME NEW t \in Sqes, NEW c \in Coros, c = handle[t], ResumeTask(t)
      PROVE  Abstract!Wake(c)
  <2>1. /\ pc = "batch" /\ pc' = pc /\ st[t] = "batch"
        /\ co[c] = "op" /\ co' = [co EXCEPT ![c] = "running"]
    BY <1>6, CorosAssumption DEF ResumeTask, TypeOK, ControlInv, OneHandle, loopVars
  <2>2. QED
    BY <2>1, MoveStep DEF Abstract!Wake, View
<1>7. CASE Leave
  BY <1>7, LeaveStep DEF Abstract!Next
<1>8. ASSUME \/ StartRun \/ EnterWait \/ Reap \/ TimedOut \/ Interrupted
             \/ BatchDone \/ Tick \/ UNCHANGED vars
             \/ \E c \in Coros, t \in Sqes : StartDetached(c, t)
             \/ \E t \in Sqes : Complete(t) \/ (ResumeTask(t) /\ handle[t] = Nobody)
      PROVE  UNCHANGED Abstract!vars
  <2>1. UNCHANGED co /\ (pc = "exit" <=> pc' = "exit")
    BY <1>8 DEF StartRun, EnterWait, NoneDue, Reap, TimedOut, Interrupted, WaitEnds,
                BatchDone, Tick, vars, StartDetached, Complete, ResumeTask, loopVars
  <2>2. QED
    BY <2>1, Stutter
<1>9. QED
  <2>1. ASSUME NEW t \in Sqes, handle[t] # Nobody, ResumeTask(t) PROVE Abstract!Next
    <3>1. PICK c \in Coros : c = handle[t]
      BY <2>1 DEF TypeOK
    <3>2. QED
      BY <1>6, <2>1, <3>1 DEF Abstract!Next
  <2>2. QED
    BY <1>1, <1>3, <1>4, <1>5, <1>7, <1>8, <2>1
       DEF Next, Program, Loop, Terminated, Abstract!Next

(* Without zero-copy sends, the loop with its ring, timer set and counter  *)
(* is a Reactor: it resumes only who is suspended, touches nobody that     *)
(* finished, and returns only when nobody waits.                           *)
THEOREM Implements ==
  ASSUME "zerocopy" \notin Kinds
  PROVE  Spec => ImplementsReactor
<1>1. Init => Abstract!Init
  BY DEF Init, Abstract!Init
<1>2. TypeOK /\ ControlInv /\ PendingExact /\ [Next]_vars
        => [Abstract!Next]_(Abstract!vars)
  BY ReactorStep
<1>3. QED
  BY <1>1, <1>2, TypeCorrect, ControlCorrect, CounterExact, PTL
     DEF Spec, ImplementsReactor, Abstract!Spec

------------------------------------------------------------------------------
(* TimerTree.                                                              *)

(* What the prover is told of the tree, for a set A of nodes and a strict  *)
(* total order R on it.                                                    *)

Nodes == Timers \cup {Nil}

TreeType == [root : Nodes, left : [Timers -> Nodes], right : [Timers -> Nodes],
             parent : [Timers -> Nodes], red : [Timers -> BOOLEAN]]

(* Links stay in A, and a link and a parent pointer answer each other.     *)
Shape(T, A) ==
  /\ T.root \in A \cup {Nil} /\ (T.root = Nil <=> A = {})
  /\ T.root # Nil => T.parent[T.root] = Nil
  /\ \A x \in A : /\ T.left[x] \in A \cup {Nil}
                  /\ T.right[x] \in A \cup {Nil}
                  /\ T.left[x] # Nil => T.parent[T.left[x]] = x
                  /\ T.right[x] # Nil => T.parent[T.right[x]] = x
                  /\ x # T.root => /\ T.parent[x] \in A
                                   /\ x \in {T.left[T.parent[x]], T.right[T.parent[x]]}

(* C has the children of its members.                                      *)
Closed(T, C) == \A x \in C : {T.left[x], T.right[x]} \subseteq C \cup {Nil}

(* All of A is reached from the root.                                      *)
Reach(T, A) == \A C \in SUBSET A : T.root \in C /\ Closed(T, C) => C = A

(* The search order: x and all below it lie between lo[x] and hi[x], where *)
(* Nil is no bound.                                                        *)
Bounds(T, A, R, lo, hi) ==
  /\ T.root # Nil => lo[T.root] = Nil /\ hi[T.root] = Nil
  /\ \A x \in A : /\ T.left[x] # Nil => lo[T.left[x]] = lo[x] /\ hi[T.left[x]] = x
                  /\ T.right[x] # Nil => lo[T.right[x]] = x /\ hi[T.right[x]] = hi[x]
                  /\ lo[x] # Nil => <<lo[x], x>> \in R
                  /\ hi[x] # Nil => <<x, hi[x]>> \in R

Ordered(T, A, R) == \E lo, hi \in [Timers -> Nodes] : Bounds(T, A, R, lo, hi)

StrictOrder(R, A) ==
  /\ R \subseteq A \X A
  /\ \A x \in A : <<x, x>> \notin R
  /\ \A x, y, z \in A : <<x, y>> \in R /\ <<y, z>> \in R => <<x, z>> \in R
  /\ \A x, y \in A : x = y \/ <<x, y>> \in R \/ <<y, x>> \in R

SearchTree(T, A, R) == Shape(T, A) /\ Reach(T, A) /\ Ordered(T, A, R)

------------------------------------------------------------------------------
(* A child is on its side of its parent, and no two links make a cycle.    *)
Apart(T, A, R) ==
  \A x \in A : /\ T.left[x] # Nil => <<T.left[x], x>> \in R
               /\ T.right[x] # Nil => <<x, T.right[x]>> \in R
               /\ x \in Timers /\ x # Nil
               /\ x \notin {T.left[x], T.right[x]}
               /\ T.left[x] # Nil => T.left[x] # T.right[x]
               /\ \A c \in A : c \in {T.left[x], T.right[x]} =>
                    /\ x \notin {T.left[c], T.right[c]} /\ T.parent[c] = x /\ c # T.root
               /\ T.root = x <=> T.parent[x] = Nil

(* Each link of a search tree goes the way of the order.                   *)
LEMMA Edges ==
  ASSUME NEW A \in SUBSET Timers, NEW T \in TreeType, NEW R, SearchTree(T, A, R),
         StrictOrder(R, A)
  PROVE  Apart(T, A, R)
<1> SUFFICES ASSUME NEW x \in A
             PROVE  /\ T.left[x] # Nil => <<T.left[x], x>> \in R
                    /\ T.right[x] # Nil => <<x, T.right[x]>> \in R
                    /\ x \in Timers /\ x # Nil
                    /\ x \notin {T.left[x], T.right[x]}
                    /\ T.left[x] # Nil => T.left[x] # T.right[x]
                    /\ \A c \in A : c \in {T.left[x], T.right[x]} =>
                         /\ x \notin {T.left[c], T.right[c]} /\ T.parent[c] = x
                         /\ c # T.root
                    /\ T.root = x <=> T.parent[x] = Nil
  BY DEF Apart
<1>1. PICK lo \in [Timers -> Nodes], hi \in [Timers -> Nodes] : Bounds(T, A, R, lo, hi)
  BY DEF SearchTree, Ordered
<1>2. /\ T.left[x] # Nil => <<T.left[x], x>> \in R /\ T.left[x] \in A
      /\ T.right[x] # Nil => <<x, T.right[x]>> \in R /\ T.right[x] \in A
      /\ x \in Timers /\ x # Nil
  <2>1. x \in Timers /\ x # Nil
    BY TreeAssumption
  <2>2. /\ T.left[x] # Nil => T.left[x] \in A
        /\ T.right[x] # Nil => T.right[x] \in A
    BY DEF SearchTree, Shape
  <2>3. T.left[x] # Nil => <<T.left[x], x>> \in R
    BY <1>1, <2>1, <2>2 DEF Bounds
  <2>4. T.right[x] # Nil => <<x, T.right[x]>> \in R
    BY <1>1, <2>1, <2>2 DEF Bounds
  <2>5. QED
    BY <2>1, <2>2, <2>3, <2>4
<1>3. x \notin {T.left[x], T.right[x]} /\ (T.left[x] # Nil => T.left[x] # T.right[x])
  BY <1>2 DEF StrictOrder
<1>4. /\ T.left[x] # Nil => hi[T.left[x]] = x /\ lo[T.left[x]] = lo[x]
      /\ T.right[x] # Nil => lo[T.right[x]] = x /\ hi[T.right[x]] = hi[x]
  BY <1>1 DEF Bounds
<1>5. ASSUME NEW c \in A, c \in {T.left[x], T.right[x]}
      PROVE  /\ x \notin {T.left[c], T.right[c]} /\ T.parent[c] = x /\ c # T.root
  <2>1. c # Nil /\ T.parent[c] = x /\ c # T.root
    BY <1>2, <1>5, TreeAssumption DEF SearchTree, Shape
  <2>2. CASE c = T.left[x]
    <3>1. hi[c] = x /\ lo[c] = lo[x]
      BY <1>4, <2>1, <2>2
    <3>2. T.left[c] # x
      <4>1. SUFFICES ASSUME T.left[c] = x PROVE FALSE
        OBVIOUS
      <4>2. hi[x] = c /\ <<x, c>> \in R
        BY <1>1, <1>2, <2>1, <4>1 DEF Bounds
      <4>3. <<c, x>> \in R
        BY <1>2, <2>1, <2>2
      <4>4. QED
        BY <4>2, <4>3 DEF StrictOrder
    <3>3. T.right[c] # x
      <4>1. SUFFICES ASSUME T.right[c] = x PROVE FALSE
        OBVIOUS
      <4>2. hi[x] = x
        BY <1>1, <1>2, <3>1, <4>1 DEF Bounds
      <4>3. QED
        BY <1>1, <1>2, <4>2 DEF Bounds, StrictOrder
    <3>4. QED
      BY <2>1, <3>2, <3>3
  <2>3. CASE c = T.right[x]
    <3>1. lo[c] = x /\ hi[c] = hi[x]
      BY <1>4, <2>1, <2>3
    <3>2. T.right[c] # x
      <4>1. SUFFICES ASSUME T.right[c] = x PROVE FALSE
        OBVIOUS
      <4>2. lo[x] = c /\ <<c, x>> \in R
        BY <1>1, <1>2, <2>1, <4>1 DEF Bounds
      <4>3. <<x, c>> \in R
        BY <1>2, <2>1, <2>3
      <4>4. QED
        BY <4>2, <4>3 DEF StrictOrder
    <3>3. T.left[c] # x
      <4>1. SUFFICES ASSUME T.left[c] = x PROVE FALSE
        OBVIOUS
      <4>2. lo[x] = x
        BY <1>1, <1>2, <3>1, <4>1 DEF Bounds
      <4>3. QED
        BY <1>1, <1>2, <4>2 DEF Bounds, StrictOrder
    <3>4. QED
      BY <2>1, <3>2, <3>3
  <2>4. QED
    BY <1>5, <2>2, <2>3
<1>6. T.root = x <=> T.parent[x] = Nil
  BY <1>2, TreeAssumption DEF SearchTree, Shape
<1>7. QED
  BY <1>2, <1>3, <1>5, <1>6

(* A child is below its parent only.                                       *)
LEMMA Child ==
  ASSUME NEW A \in SUBSET Timers, NEW T \in TreeType, NEW R, SearchTree(T, A, R),
         StrictOrder(R, A), NEW x \in A, NEW c, c \in {T.left[x], T.right[x]}, c # Nil
  PROVE  /\ c \in A /\ c \in Timers /\ T.parent[c] = x /\ c # T.root /\ c # x
         /\ x \notin {T.left[c], T.right[c]} /\ T.left[x] # T.right[x]
<1>1. Apart(T, A, R)
  BY Edges
<1>2. c \in A
  BY DEF SearchTree, Shape
<1>3. QED
  BY <1>1, <1>2 DEF Apart

(* What a rotation to the left does to the fields of the tree.             *)
RotatedLeft(T, U, n, r) ==
  /\ U.red = T.red /\ U.root = IF T.root = n THEN r ELSE T.root
  /\ \A x \in Timers :
       /\ U.left[x] = IF x = r THEN n
                     ELSE IF x = T.parent[n] /\ T.left[x] = n THEN r ELSE T.left[x]
       /\ U.right[x] = IF x = n THEN T.left[r]
                      ELSE IF x = T.parent[n] /\ T.left[x] # n THEN r ELSE T.right[x]
       /\ U.parent[x] = IF x = n THEN r ELSE IF x = r THEN T.parent[n]
                        ELSE IF x = T.left[r] THEN n ELSE T.parent[x]

(* What a rotation does to each link.                                      *)
LEMMA RotateLeftFields ==
  ASSUME NEW A \in SUBSET Timers, NEW T \in TreeType, NEW R, SearchTree(T, A, R),
         StrictOrder(R, A), NEW n \in A, NEW r, r = T.right[n], r # Nil,
         NEW U, U = rotateLeft(T, n)
  PROVE  U \in TreeType /\ r \in A /\ r # n /\ RotatedLeft(T, U, n, r)
<1> USE TreeAssumption
<1>0. Apart(T, A, R)
  BY Edges
<1>1. /\ n \in Timers /\ r \in A /\ r \in Timers /\ n # Nil /\ T.left[r] \in Nodes
      /\ T.parent[n] \in Nodes /\ r # n /\ T.left[r] # r /\ T.left[r] # n
      /\ T.root = n <=> T.parent[n] = Nil
      /\ T.parent[n] # r
  <2>1. r \in A
    BY DEF SearchTree, Shape
  <2>2. /\ n # Nil /\ n \in Timers /\ r # n
        /\ T.root = n <=> T.parent[n] = Nil
        /\ n \notin {T.left[r], T.right[r]}
    BY <1>0, <2>1 DEF Apart
  <2>3. T.left[r] # r
    BY <1>0, <2>1 DEF Apart
  <2>5. T.parent[n] # r
    BY <2>1, <2>2 DEF SearchTree, Shape
  <2>4. QED
    BY <2>1, <2>2, <2>3, <2>5 DEF TreeType, Nodes
<1>2. T.parent[n] # Nil =>
        /\ T.parent[n] \in Timers
        /\ T.left[T.parent[n]] = n <=> T.right[T.parent[n]] # n
  <2>1. SUFFICES ASSUME T.parent[n] # Nil
                 PROVE  /\ T.parent[n] \in Timers
                        /\ T.left[T.parent[n]] = n <=> T.right[T.parent[n]] # n
    OBVIOUS
  <2>2. T.parent[n] \in A /\ n \in {T.left[T.parent[n]], T.right[T.parent[n]]}
    BY <1>1, <2>1 DEF SearchTree, Shape
  <2>3. QED
    BY <1>0, <1>1, <2>2 DEF Apart
<1> DEFINE m == Relink(T, n, r, T.parent[n] = Nil)
           up == [m EXCEPT !.right[n] = T.left[r], !.left[r] = n]
           sp == SetParent(up, T.left[r], n)
<1> HIDE DEF m, up, sp
<1>3. /\ m \in TreeType /\ m.red = T.red /\ m.parent = T.parent
      /\ m.root = IF T.root = n THEN r ELSE T.root
      /\ \A x \in Timers :
           /\ m.left[x] = IF x = T.parent[n] /\ T.left[x] = n THEN r ELSE T.left[x]
           /\ m.right[x] = IF x = T.parent[n] /\ T.left[x] # n THEN r ELSE T.right[x]
  <2>1. CASE T.parent[n] = Nil
    <3>1. m = [T EXCEPT !.root = r]
      BY <2>1 DEF Relink, m
    <3>2. QED
      BY <1>1, <2>1, <3>1 DEF TreeType, Nodes
  <2>2. CASE T.parent[n] # Nil /\ T.left[T.parent[n]] = n
    <3>1. m = [T EXCEPT !.left[T.parent[n]] = r]
      BY <1>1, <1>2, <2>2 DEF Relink, m
    <3>2. QED
      BY <1>1, <1>2, <2>2, <3>1 DEF TreeType, Nodes
  <2>3. CASE T.parent[n] # Nil /\ T.left[T.parent[n]] # n
    <3>1. m = [T EXCEPT !.right[T.parent[n]] = r]
      BY <1>1, <1>2, <2>3 DEF Relink, m
    <3>2. QED
      BY <1>1, <1>2, <2>3, <3>1 DEF TreeType, Nodes
  <2>4. QED
    BY <2>1, <2>2, <2>3
<1>4. /\ up \in TreeType /\ up.red = T.red /\ up.parent = T.parent /\ up.root = m.root
      /\ up.left = [m.left EXCEPT ![r] = n] /\ up.right = [m.right EXCEPT ![n] = T.left[r]]
  <2>1. up = [[m EXCEPT !.right[n] = T.left[r]] EXCEPT !.left[r] = n]
    BY DEF up
  <2>2. QED
    BY <1>1, <1>3, <2>1 DEF TreeType, Nodes
<1>5. /\ sp \in TreeType /\ sp.red = up.red /\ sp.root = up.root
      /\ sp.left = up.left /\ sp.right = up.right
      /\ \A x \in Timers : sp.parent[x] = IF x = T.left[r] THEN n ELSE T.parent[x]
  <2>1. CASE T.left[r] = Nil
    BY <1>1, <1>3, <1>4, <2>1 DEF SetParent, sp
  <2>2. CASE T.left[r] # Nil
    <3>1. sp = [up EXCEPT !.parent[T.left[r]] = n]
      BY <2>2 DEF SetParent, sp
    <3>2. QED
      BY <1>1, <1>3, <1>4, <2>2, <3>1 DEF TreeType, Nodes
  <2>3. QED
    BY <2>1, <2>2
<1>6. U = [sp EXCEPT !.parent[r] = T.parent[n], !.parent[n] = r]
  BY DEF rotateLeft, m, up, sp
<1>7. /\ U \in TreeType /\ U.red = sp.red /\ U.root = sp.root
      /\ U.left = sp.left /\ U.right = sp.right
      /\ U.parent = [[sp.parent EXCEPT ![r] = T.parent[n]] EXCEPT ![n] = r]
  <2>1. U = [[sp EXCEPT !.parent[r] = T.parent[n]] EXCEPT !.parent[n] = r]
    BY <1>6
  <2>2. QED
    <3> DEFINE V == [sp EXCEPT !.parent[r] = T.parent[n]]
    <3>1. /\ V \in TreeType /\ V.red = sp.red /\ V.root = sp.root
          /\ V.left = sp.left /\ V.right = sp.right
          /\ V.parent = [sp.parent EXCEPT ![r] = T.parent[n]]
      BY <1>1, <1>5 DEF TreeType, Nodes
    <3>2. U = [V EXCEPT !.parent[n] = r]
      BY <2>1
    <3> HIDE DEF V
    <3>3. QED
      BY <1>1, <3>1, <3>2 DEF TreeType, Nodes
<1>8. /\ U.red = T.red /\ U.root = IF T.root = n THEN r ELSE T.root
  BY <1>3, <1>4, <1>5, <1>7
<1>9. ASSUME NEW x \in Timers
      PROVE  /\ U.left[x] = IF x = r THEN n
                           ELSE IF x = T.parent[n] /\ T.left[x] = n THEN r
                           ELSE T.left[x]
             /\ U.right[x] = IF x = n THEN T.left[r]
                            ELSE IF x = T.parent[n] /\ T.left[x] # n THEN r
                            ELSE T.right[x]
             /\ U.parent[x] = IF x = n THEN r ELSE IF x = r THEN T.parent[n]
                             ELSE IF x = T.left[r] THEN n ELSE T.parent[x]
  <2>1. m \in TreeType /\ up \in TreeType /\ sp \in TreeType
    BY <1>3, <1>4, <1>5
  <2>2. U.left[x] = IF x = r THEN n ELSE m.left[x]
    BY <1>1, <1>4, <1>5, <1>7, <2>1 DEF TreeType
  <2>3. U.right[x] = IF x = n THEN T.left[r] ELSE m.right[x]
    BY <1>1, <1>4, <1>5, <1>7, <2>1 DEF TreeType
  <2>4. U.parent[x] = IF x = n THEN r ELSE IF x = r THEN T.parent[n] ELSE sp.parent[x]
    BY <1>1, <1>7, <2>1 DEF TreeType
  <2>5. QED
    BY <1>3, <1>5, <2>2, <2>3, <2>4
<1>10. QED
  BY <1>1, <1>7, <1>8, <1>9 DEF RotatedLeft

(* What a rotation to the right does to the fields of the tree.            *)
RotatedRight(T, U, n, r) ==
  /\ U.red = T.red /\ U.root = IF T.root = n THEN r ELSE T.root
  /\ \A x \in Timers :
       /\ U.right[x] = IF x = r THEN n
                     ELSE IF x = T.parent[n] /\ T.right[x] = n THEN r ELSE T.right[x]
       /\ U.left[x] = IF x = n THEN T.right[r]
                      ELSE IF x = T.parent[n] /\ T.right[x] # n THEN r ELSE T.left[x]
       /\ U.parent[x] = IF x = n THEN r ELSE IF x = r THEN T.parent[n]
                        ELSE IF x = T.right[r] THEN n ELSE T.parent[x]

(* What the other rotation does.                                           *)
LEMMA RotateRightFields ==
  ASSUME NEW A \in SUBSET Timers, NEW T \in TreeType, NEW R, SearchTree(T, A, R),
         StrictOrder(R, A), NEW n \in A, NEW r, r = T.left[n], r # Nil,
         NEW U, U = rotateRight(T, n)
  PROVE  U \in TreeType /\ r \in A /\ r # n /\ RotatedRight(T, U, n, r)
<1> USE TreeAssumption
<1>0. Apart(T, A, R)
  BY Edges
<1>1. /\ n \in Timers /\ r \in A /\ r \in Timers /\ n # Nil /\ T.right[r] \in Nodes
      /\ T.parent[n] \in Nodes /\ r # n /\ T.right[r] # r /\ T.right[r] # n
      /\ T.root = n <=> T.parent[n] = Nil
      /\ T.parent[n] # r
  <2>1. r \in A
    BY DEF SearchTree, Shape
  <2>2. /\ n # Nil /\ n \in Timers /\ r # n
        /\ T.root = n <=> T.parent[n] = Nil
        /\ n \notin {T.left[r], T.right[r]}
    BY <1>0, <2>1 DEF Apart
  <2>3. T.right[r] # r
    BY <1>0, <2>1 DEF Apart
  <2>5. T.parent[n] # r
    BY <2>1, <2>2 DEF SearchTree, Shape
  <2>4. QED
    BY <2>1, <2>2, <2>3, <2>5 DEF TreeType, Nodes
<1>2. T.parent[n] # Nil =>
        /\ T.parent[n] \in Timers
        /\ T.left[T.parent[n]] = n <=> T.right[T.parent[n]] # n
  <2>1. SUFFICES ASSUME T.parent[n] # Nil
                 PROVE  /\ T.parent[n] \in Timers
                        /\ T.left[T.parent[n]] = n <=> T.right[T.parent[n]] # n
    OBVIOUS
  <2>2. T.parent[n] \in A /\ n \in {T.left[T.parent[n]], T.right[T.parent[n]]}
    BY <1>1, <2>1 DEF SearchTree, Shape
  <2>3. QED
    BY <1>0, <1>1, <2>2 DEF Apart
<1> DEFINE m == Relink(T, n, r, T.parent[n] = Nil)
           up == [m EXCEPT !.left[n] = T.right[r], !.right[r] = n]
           sp == SetParent(up, T.right[r], n)
<1> HIDE DEF m, up, sp
<1>3. /\ m \in TreeType /\ m.red = T.red /\ m.parent = T.parent
      /\ m.root = IF T.root = n THEN r ELSE T.root
      /\ \A x \in Timers :
           /\ m.right[x] = IF x = T.parent[n] /\ T.right[x] = n THEN r ELSE T.right[x]
           /\ m.left[x] = IF x = T.parent[n] /\ T.right[x] # n THEN r ELSE T.left[x]
  <2>1. CASE T.parent[n] = Nil
    <3>1. m = [T EXCEPT !.root = r]
      BY <2>1 DEF Relink, m
    <3>2. QED
      BY <1>1, <2>1, <3>1 DEF TreeType, Nodes
  <2>2. CASE T.parent[n] # Nil /\ T.right[T.parent[n]] = n
    <3>1. m = [T EXCEPT !.right[T.parent[n]] = r]
      BY <1>1, <1>2, <2>2 DEF Relink, m
    <3>2. QED
      BY <1>1, <1>2, <2>2, <3>1 DEF TreeType, Nodes
  <2>3. CASE T.parent[n] # Nil /\ T.right[T.parent[n]] # n
    <3>1. m = [T EXCEPT !.left[T.parent[n]] = r]
      BY <1>1, <1>2, <2>3 DEF Relink, m
    <3>2. QED
      BY <1>1, <1>2, <2>3, <3>1 DEF TreeType, Nodes
  <2>4. QED
    BY <2>1, <2>2, <2>3
<1>4. /\ up \in TreeType /\ up.red = T.red /\ up.parent = T.parent /\ up.root = m.root
      /\ up.right = [m.right EXCEPT ![r] = n] /\ up.left = [m.left EXCEPT ![n] = T.right[r]]
  <2>1. up = [[m EXCEPT !.left[n] = T.right[r]] EXCEPT !.right[r] = n]
    BY DEF up
  <2>2. QED
    BY <1>1, <1>3, <2>1 DEF TreeType, Nodes
<1>5. /\ sp \in TreeType /\ sp.red = up.red /\ sp.root = up.root
      /\ sp.right = up.right /\ sp.left = up.left
      /\ \A x \in Timers : sp.parent[x] = IF x = T.right[r] THEN n ELSE T.parent[x]
  <2>1. CASE T.right[r] = Nil
    BY <1>1, <1>3, <1>4, <2>1 DEF SetParent, sp
  <2>2. CASE T.right[r] # Nil
    <3>1. sp = [up EXCEPT !.parent[T.right[r]] = n]
      BY <2>2 DEF SetParent, sp
    <3>2. QED
      BY <1>1, <1>3, <1>4, <2>2, <3>1 DEF TreeType, Nodes
  <2>3. QED
    BY <2>1, <2>2
<1>6. U = [sp EXCEPT !.parent[r] = T.parent[n], !.parent[n] = r]
  BY DEF rotateRight, m, up, sp
<1>7. /\ U \in TreeType /\ U.red = sp.red /\ U.root = sp.root
      /\ U.right = sp.right /\ U.left = sp.left
      /\ U.parent = [[sp.parent EXCEPT ![r] = T.parent[n]] EXCEPT ![n] = r]
  <2>1. U = [[sp EXCEPT !.parent[r] = T.parent[n]] EXCEPT !.parent[n] = r]
    BY <1>6
  <2>2. QED
    <3> DEFINE V == [sp EXCEPT !.parent[r] = T.parent[n]]
    <3>1. /\ V \in TreeType /\ V.red = sp.red /\ V.root = sp.root
          /\ V.left = sp.left /\ V.right = sp.right
          /\ V.parent = [sp.parent EXCEPT ![r] = T.parent[n]]
      BY <1>1, <1>5 DEF TreeType, Nodes
    <3>2. U = [V EXCEPT !.parent[n] = r]
      BY <2>1
    <3> HIDE DEF V
    <3>3. QED
      BY <1>1, <3>1, <3>2 DEF TreeType, Nodes
<1>8. /\ U.red = T.red /\ U.root = IF T.root = n THEN r ELSE T.root
  BY <1>3, <1>4, <1>5, <1>7
<1>9. ASSUME NEW x \in Timers
      PROVE  /\ U.right[x] = IF x = r THEN n
                           ELSE IF x = T.parent[n] /\ T.right[x] = n THEN r
                           ELSE T.right[x]
             /\ U.left[x] = IF x = n THEN T.right[r]
                            ELSE IF x = T.parent[n] /\ T.right[x] # n THEN r
                            ELSE T.left[x]
             /\ U.parent[x] = IF x = n THEN r ELSE IF x = r THEN T.parent[n]
                             ELSE IF x = T.right[r] THEN n ELSE T.parent[x]
  <2>1. m \in TreeType /\ up \in TreeType /\ sp \in TreeType
    BY <1>3, <1>4, <1>5
  <2>2. U.right[x] = IF x = r THEN n ELSE m.right[x]
    BY <1>1, <1>4, <1>5, <1>7, <2>1 DEF TreeType
  <2>3. U.left[x] = IF x = n THEN T.right[r] ELSE m.left[x]
    BY <1>1, <1>4, <1>5, <1>7, <2>1 DEF TreeType
  <2>4. U.parent[x] = IF x = n THEN r ELSE IF x = r THEN T.parent[n] ELSE sp.parent[x]
    BY <1>1, <1>7, <2>1 DEF TreeType
  <2>5. QED
    BY <1>3, <1>5, <2>2, <2>3, <2>4
<1>10. QED
  BY <1>1, <1>7, <1>8, <1>9 DEF RotatedRight

(* A rotation keeps the search tree.                                       *)
LEMMA RotateLeftKeeps ==
  ASSUME NEW A \in SUBSET Timers, NEW T \in TreeType, NEW R, SearchTree(T, A, R),
         StrictOrder(R, A), NEW n \in A, NEW r, r = T.right[n], r # Nil,
         NEW U, U = rotateLeft(T, n)
  PROVE  SearchTree(U, A, R)
<1> USE TreeAssumption
<1>1. Apart(T, A, R) /\ A \subseteq Timers
  BY Edges
<1>2. /\ U \in TreeType /\ r \in A /\ r # n /\ n # Nil
      /\ U.root = IF T.root = n THEN r ELSE T.root
      /\ \A x \in A :
           /\ U.left[x] = IF x = r THEN n
                        ELSE IF x = T.parent[n] /\ T.left[x] = n THEN r
                        ELSE T.left[x]
           /\ U.right[x] = IF x = n THEN T.left[r]
                         ELSE IF x = T.parent[n] /\ T.left[x] # n THEN r
                         ELSE T.right[x]
           /\ U.parent[x] = IF x = n THEN r ELSE IF x = r THEN T.parent[n]
                          ELSE IF x = T.left[r] THEN n ELSE T.parent[x]
  <2>1. n # Nil
    BY <1>1
  <2>2. U \in TreeType /\ r \in A /\ r # n /\ RotatedLeft(T, U, n, r)
    BY RotateLeftFields
  <2>3. QED
    BY <1>1, <2>1, <2>2 DEF RotatedLeft
<1>3. /\ T.parent[r] = n /\ T.left[n] # T.right[n] /\ r # T.parent[n] /\ n # T.left[r]
      /\ T.left[r] # r /\ T.left[r] \in A \cup {Nil} /\ T.left[n] \in A \cup {Nil}
      /\ T.left[n] # r /\ r # T.root
      /\ T.left[r] # Nil => T.parent[T.left[r]] = r
      /\ T.root = n <=> T.parent[n] = Nil
      /\ T.parent[n] # Nil => /\ T.parent[n] \in A /\ T.parent[n] # n
                              /\ T.left[T.parent[n]] # n => T.right[T.parent[n]] = n
                              /\ T.left[T.parent[n]] = n => T.right[T.parent[n]] # n
  <2>1. /\ T.parent[r] = n /\ T.left[n] # T.right[n] /\ n # T.left[r] /\ r # T.root
        /\ T.left[r] # r
        /\ T.root = n <=> T.parent[n] = Nil
    <3>1. /\ T.left[n] # Nil => T.left[n] # T.right[n]
          /\ \A c \in A : c \in {T.left[n], T.right[n]} =>
               n \notin {T.left[c], T.right[c]} /\ T.parent[c] = n /\ c # T.root
          /\ T.root = n <=> T.parent[n] = Nil
      BY <1>1 DEF Apart
    <3>2. r \notin {T.left[r], T.right[r]}
      BY <1>1, <1>2 DEF Apart
    <3>3. QED
      BY <1>2, <3>1, <3>2
  <2>2. /\ T.left[r] \in A \cup {Nil} /\ T.left[n] \in A \cup {Nil}
        /\ T.left[r] # Nil => T.parent[T.left[r]] = r
    BY <1>2 DEF SearchTree, Shape
  <2>3. ASSUME T.parent[n] # Nil
        PROVE  /\ T.parent[n] \in A /\ T.parent[n] # n /\ r # T.parent[n]
               /\ T.left[T.parent[n]] # n => T.right[T.parent[n]] = n
               /\ T.left[T.parent[n]] = n => T.right[T.parent[n]] # n
    <3>1. T.parent[n] \in A /\ n \in {T.left[T.parent[n]], T.right[T.parent[n]]}
      BY <2>1, <2>3 DEF SearchTree, Shape
    <3>2. T.parent[n] # n /\ r # T.parent[n]
      BY <1>1, <1>2, <3>1 DEF Apart
    <3>3. T.left[T.parent[n]] # Nil => T.left[T.parent[n]] # T.right[T.parent[n]]
      BY <1>1, <3>1 DEF Apart
    <3>4. QED
      BY <1>2, <3>1, <3>2, <3>3
  <2>4. T.parent[n] # r
    BY <2>3
  <2>5. T.left[n] # r
    BY <2>1
  <2>6. QED
    BY <2>1, <2>2, <2>3, <2>4, <2>5
<1>4. Shape(U, A)
  <2>1. U.root \in A \cup {Nil} /\ (U.root = Nil <=> A = {})
    BY <1>2, <1>1 DEF SearchTree, Shape
  <2>2. U.root # Nil => U.parent[U.root] = Nil
    BY <1>2, <1>3 DEF SearchTree, Shape
  <2>3. ASSUME NEW x \in A
        PROVE  U.left[x] \in A \cup {Nil} /\ U.right[x] \in A \cup {Nil}
    BY <1>2, <1>3 DEF SearchTree, Shape
  <2>4. ASSUME NEW x \in A, U.left[x] # Nil PROVE U.parent[U.left[x]] = x
    <3>1. CASE x = r
      BY <1>2, <3>1
    <3>2. CASE x # r /\ x = T.parent[n] /\ T.left[x] = n
      BY <1>2, <3>2
    <3>3. CASE x # r /\ ~(x = T.parent[n] /\ T.left[x] = n)
      <4>1. U.left[x] = T.left[x] /\ T.left[x] \in A /\ T.parent[T.left[x]] = x
        BY <1>2, <2>4, <3>3 DEF SearchTree, Shape
      <4>2. T.left[x] # n /\ T.left[x] # r /\ T.left[x] # T.left[r]
        BY <1>2, <1>3, <3>3, <4>1
      <4>3. QED
        BY <1>2, <4>1, <4>2
    <3>4. QED
      BY <3>1, <3>2, <3>3
  <2>5. ASSUME NEW x \in A, U.right[x] # Nil PROVE U.parent[U.right[x]] = x
    <3>1. CASE x = n
      BY <1>2, <1>3, <2>5, <3>1
    <3>2. CASE x # n /\ x = T.parent[n] /\ T.left[x] # n
      BY <1>2, <3>2
    <3>3. CASE x # n /\ ~(x = T.parent[n] /\ T.left[x] # n)
      <4>1. U.right[x] = T.right[x] /\ T.right[x] \in A /\ T.parent[T.right[x]] = x
        BY <1>2, <2>5, <3>3 DEF SearchTree, Shape
      <4>2. T.right[x] # n /\ T.right[x] # r
        BY <1>2, <1>3, <3>3, <4>1
      <4>3. T.right[x] # T.left[r]
        <5>1. SUFFICES ASSUME T.right[x] = T.left[r] PROVE FALSE
          OBVIOUS
        <5>2. x = r
          BY <1>3, <4>1, <5>1
        <5>3. QED
          BY <1>1, <1>2, <4>1, <5>1, <5>2 DEF Apart
      <4>4. QED
        BY <1>2, <4>1, <4>2, <4>3
    <3>4. QED
      BY <3>1, <3>2, <3>3
  <2>6. ASSUME NEW x \in A, x # U.root
        PROVE  /\ U.parent[x] \in A
               /\ x \in {U.left[U.parent[x]], U.right[U.parent[x]]}
    <3>1. CASE x = n
      BY <1>2, <3>1
    <3>2. CASE x = r
      BY <1>2, <1>3, <2>6, <3>2
    <3>3. CASE x = T.left[r]
      <4>1. x # n /\ x # r
        BY <1>3, <3>3
      <4>2. U.parent[x] = n /\ U.right[n] = x
        BY <1>2, <3>3, <4>1
      <4>3. QED
        BY <4>2
    <3>4. CASE x \notin {n, r, T.left[r]}
      <4>1. /\ U.parent[x] = T.parent[x] /\ T.parent[x] \in A
            /\ x \in {T.left[T.parent[x]], T.right[T.parent[x]]}
        BY <1>2, <2>6, <3>4 DEF SearchTree, Shape
      <4>2. QED
        BY <1>2, <1>3, <3>4, <4>1
    <3>5. QED
      BY <3>1, <3>2, <3>3, <3>4
  <2>7. QED
    BY <2>1, <2>2, <2>3, <2>4, <2>5, <2>6 DEF Shape
<1>5. Reach(U, A)
  <2>1. SUFFICES ASSUME NEW C \in SUBSET A, U.root \in C, Closed(U, C) PROVE C = A
    BY DEF Reach
  <2>2. CASE r \in C
    <3>1. n \in C
      BY <1>1, <1>2, <2>1, <2>2 DEF Closed
    <3>2. T.root \in C
      BY <1>2, <2>1, <3>1
    <3>3. Closed(T, C)
      BY <1>2, <1>3, <2>1, <2>2, <3>1 DEF Closed
    <3>4. QED
      BY <2>1, <3>2, <3>3 DEF SearchTree, Reach
  <2>3. CASE r \notin C
    <3> DEFINE D == C \ {n}
    <3>1. T.root \in D
      BY <1>2, <2>1, <2>3
    <3>2. T.parent[n] \notin C
      BY <1>1, <1>2, <1>3, <2>1, <2>3 DEF Closed
    <3>3. ASSUME NEW x \in D PROVE {T.left[x], T.right[x]} \subseteq D \cup {Nil}
      <4>1. {T.left[x], T.right[x]} \subseteq C \cup {Nil}
        BY <1>2, <2>1, <2>3, <3>2, <3>3 DEF Closed
      <4>2. n \notin {T.left[x], T.right[x]}
        BY <1>2, <2>1, <3>2, <3>3 DEF SearchTree, Shape
      <4>3. QED
        BY <4>1, <4>2
    <3>4. D = A
      BY <2>1, <3>1, <3>3 DEF SearchTree, Reach, Closed
    <3>5. QED
      BY <3>4
  <2>4. QED
    BY <2>2, <2>3
<1>6. Ordered(U, A, R)
  <2>1. PICK lo \in [Timers -> Nodes], hi \in [Timers -> Nodes] : Bounds(T, A, R, lo, hi)
    BY DEF SearchTree, Ordered
  <2> DEFINE lo2 == [lo EXCEPT ![r] = lo[n]]
             hi2 == [hi EXCEPT ![n] = r]
  <2>2. lo2 \in [Timers -> Nodes] /\ hi2 \in [Timers -> Nodes]
    BY <1>1, <1>2 DEF Nodes
  <2>3. /\ \A x \in A : lo2[x] = IF x = r THEN lo[n] ELSE lo[x]
        /\ \A x \in A : hi2[x] = IF x = n THEN r ELSE hi[x]
    BY <1>1, <1>2
  <2> HIDE DEF lo2, hi2
  <2>4. <<n, r>> \in R /\ lo[r] = n /\ hi[r] = hi[n]
    BY <1>1, <1>2, <2>1 DEF Apart, Bounds
  <2>5. U.root # Nil => lo2[U.root] = Nil /\ hi2[U.root] = Nil
    BY <1>2, <2>1, <2>3, <2>4 DEF Bounds, SearchTree, Shape
  <2>6. ASSUME NEW x \in A, lo2[x] # Nil PROVE <<lo2[x], x>> \in R
    <3>1. CASE x = r
      <4>1. <<lo[n], n>> \in R
        BY <2>1, <2>3, <2>6, <3>1 DEF Bounds
      <4>2. QED
        BY <1>2, <2>3, <2>4, <3>1, <4>1 DEF StrictOrder
    <3>2. CASE x # r
      BY <2>1, <2>3, <2>6, <3>2 DEF Bounds
    <3>3. QED
      BY <3>1, <3>2
  <2>7. ASSUME NEW x \in A, hi2[x] # Nil PROVE <<x, hi2[x]>> \in R
    BY <2>1, <2>3, <2>4, <2>7 DEF Bounds
  <2>8. ASSUME NEW x \in A, U.left[x] # Nil
        PROVE  lo2[U.left[x]] = lo2[x] /\ hi2[U.left[x]] = x
    <3>1. CASE x = r
      BY <1>2, <2>3, <3>1
    <3>2. CASE x # r /\ x = T.parent[n] /\ T.left[x] = n
      <4>1. U.left[x] = r
        BY <1>2, <3>2
      <4>3. lo[n] = lo[x] /\ hi[n] = x
        <5>1. T.left[x] = n /\ n # Nil
          BY <1>2, <3>2
        <5>2. QED
          BY <2>1, <5>1 DEF Bounds
      <4>2. QED
        BY <1>2, <2>3, <2>4, <3>2, <4>1, <4>3
    <3>3. CASE x # r /\ ~(x = T.parent[n] /\ T.left[x] = n)
      <4>1. U.left[x] = T.left[x] /\ T.left[x] \in A /\ T.parent[T.left[x]] = x
        BY <1>2, <2>8, <3>3 DEF SearchTree, Shape
      <4>2. T.left[x] # n /\ T.left[x] # r
        BY <1>2, <1>3, <3>3, <4>1
      <4>3. QED
        <5>1. lo[T.left[x]] = lo[x] /\ hi[T.left[x]] = x
          BY <1>2, <2>1, <2>8, <4>1 DEF Bounds
        <5>2. QED
          BY <1>2, <2>3, <3>3, <4>1, <4>2, <5>1
    <3>4. QED
      BY <3>1, <3>2, <3>3
  <2>9. ASSUME NEW x \in A, U.right[x] # Nil
        PROVE  lo2[U.right[x]] = x /\ hi2[U.right[x]] = hi2[x]
    <3>1. CASE x = n
      <4>1. T.left[r] # Nil /\ T.left[r] \in A /\ U.right[x] = T.left[r]
        BY <1>2, <1>3, <2>9, <3>1
      <4>2. lo[T.left[r]] = n /\ hi[T.left[r]] = r
        BY <1>2, <2>1, <2>4, <4>1 DEF Bounds
      <4>3. QED
        BY <1>2, <1>3, <2>3, <3>1, <4>1, <4>2
    <3>2. CASE x # n /\ x = T.parent[n] /\ T.left[x] # n
      <4>1. T.right[x] = n /\ U.right[x] = r
        BY <1>2, <1>3, <3>2
      <4>3. lo[n] = x /\ hi[n] = hi[x]
        BY <1>2, <2>1, <4>1 DEF Bounds
      <4>2. QED
        BY <1>2, <2>3, <2>4, <3>2, <4>1, <4>3
    <3>3. CASE x # n /\ ~(x = T.parent[n] /\ T.left[x] # n)
      <4>1. U.right[x] = T.right[x] /\ T.right[x] \in A /\ T.parent[T.right[x]] = x
        BY <1>2, <2>9, <3>3 DEF SearchTree, Shape
      <4>2. T.right[x] # n /\ T.right[x] # r
        BY <1>2, <1>3, <3>3, <4>1
      <4>3. QED
        <5>1. lo[T.right[x]] = x /\ hi[T.right[x]] = hi[x]
          BY <1>2, <2>1, <2>9, <4>1 DEF Bounds
        <5>2. QED
          BY <1>2, <2>3, <3>3, <4>1, <4>2, <5>1
    <3>4. QED
      BY <3>1, <3>2, <3>3
  <2>10. Bounds(U, A, R, lo2, hi2)
    BY <2>5, <2>6, <2>7, <2>8, <2>9 DEF Bounds
  <2>11. QED
    BY <2>2, <2>10 DEF Ordered
<1>7. QED
  BY <1>4, <1>5, <1>6 DEF SearchTree

(* A rotation keeps the search tree.                                       *)
LEMMA RotateRightKeeps ==
  ASSUME NEW A \in SUBSET Timers, NEW T \in TreeType, NEW R, SearchTree(T, A, R),
         StrictOrder(R, A), NEW n \in A, NEW r, r = T.left[n], r # Nil,
         NEW U, U = rotateRight(T, n)
  PROVE  SearchTree(U, A, R)
<1> USE TreeAssumption
<1>1. Apart(T, A, R) /\ A \subseteq Timers
  BY Edges
<1>2. /\ U \in TreeType /\ r \in A /\ r # n /\ n # Nil
      /\ U.root = IF T.root = n THEN r ELSE T.root
      /\ \A x \in A :
           /\ U.right[x] = IF x = r THEN n
                        ELSE IF x = T.parent[n] /\ T.right[x] = n THEN r
                        ELSE T.right[x]
           /\ U.left[x] = IF x = n THEN T.right[r]
                         ELSE IF x = T.parent[n] /\ T.right[x] # n THEN r
                         ELSE T.left[x]
           /\ U.parent[x] = IF x = n THEN r ELSE IF x = r THEN T.parent[n]
                          ELSE IF x = T.right[r] THEN n ELSE T.parent[x]
  <2>1. n # Nil
    BY <1>1
  <2>2. U \in TreeType /\ r \in A /\ r # n /\ RotatedRight(T, U, n, r)
    BY RotateRightFields
  <2>3. QED
    BY <1>1, <2>1, <2>2 DEF RotatedRight
<1>3. /\ T.parent[r] = n /\ T.left[n] # T.right[n] /\ r # T.parent[n] /\ n # T.right[r]
      /\ T.right[r] # r /\ T.right[r] \in A \cup {Nil} /\ T.right[n] \in A \cup {Nil}
      /\ T.right[n] # r /\ r # T.root
      /\ T.right[r] # Nil => T.parent[T.right[r]] = r
      /\ T.root = n <=> T.parent[n] = Nil
      /\ T.parent[n] # Nil => /\ T.parent[n] \in A /\ T.parent[n] # n
                              /\ T.right[T.parent[n]] # n => T.left[T.parent[n]] = n
                              /\ T.right[T.parent[n]] = n => T.left[T.parent[n]] # n
  <2>1. /\ T.parent[r] = n /\ T.left[n] # T.right[n] /\ n # T.right[r] /\ r # T.root
        /\ T.right[r] # r
        /\ T.root = n <=> T.parent[n] = Nil
    <3>1. /\ T.left[n] # Nil => T.left[n] # T.right[n]
          /\ \A c \in A : c \in {T.left[n], T.right[n]} =>
               n \notin {T.left[c], T.right[c]} /\ T.parent[c] = n /\ c # T.root
          /\ T.root = n <=> T.parent[n] = Nil
      BY <1>1 DEF Apart
    <3>2. r \notin {T.left[r], T.right[r]}
      BY <1>1, <1>2 DEF Apart
    <3>3. QED
      BY <1>2, <3>1, <3>2
  <2>2. /\ T.right[r] \in A \cup {Nil} /\ T.right[n] \in A \cup {Nil}
        /\ T.right[r] # Nil => T.parent[T.right[r]] = r
    BY <1>2 DEF SearchTree, Shape
  <2>3. ASSUME T.parent[n] # Nil
        PROVE  /\ T.parent[n] \in A /\ T.parent[n] # n /\ r # T.parent[n]
               /\ T.right[T.parent[n]] # n => T.left[T.parent[n]] = n
               /\ T.right[T.parent[n]] = n => T.left[T.parent[n]] # n
    <3>1. T.parent[n] \in A /\ n \in {T.left[T.parent[n]], T.right[T.parent[n]]}
      BY <2>1, <2>3 DEF SearchTree, Shape
    <3>2. T.parent[n] # n /\ r # T.parent[n]
      BY <1>1, <1>2, <3>1 DEF Apart
    <3>3. T.left[T.parent[n]] # Nil => T.left[T.parent[n]] # T.right[T.parent[n]]
      BY <1>1, <3>1 DEF Apart
    <3>4. QED
      BY <1>2, <3>1, <3>2, <3>3
  <2>4. T.parent[n] # r
    BY <2>3
  <2>5. T.right[n] # r
    BY <2>1
  <2>6. QED
    BY <2>1, <2>2, <2>3, <2>4, <2>5
<1>4. Shape(U, A)
  <2>1. U.root \in A \cup {Nil} /\ (U.root = Nil <=> A = {})
    BY <1>2, <1>1 DEF SearchTree, Shape
  <2>2. U.root # Nil => U.parent[U.root] = Nil
    BY <1>2, <1>3 DEF SearchTree, Shape
  <2>3. ASSUME NEW x \in A
        PROVE  U.right[x] \in A \cup {Nil} /\ U.left[x] \in A \cup {Nil}
    BY <1>2, <1>3 DEF SearchTree, Shape
  <2>4. ASSUME NEW x \in A, U.right[x] # Nil PROVE U.parent[U.right[x]] = x
    <3>1. CASE x = r
      BY <1>2, <3>1
    <3>2. CASE x # r /\ x = T.parent[n] /\ T.right[x] = n
      BY <1>2, <3>2
    <3>3. CASE x # r /\ ~(x = T.parent[n] /\ T.right[x] = n)
      <4>1. U.right[x] = T.right[x] /\ T.right[x] \in A /\ T.parent[T.right[x]] = x
        BY <1>2, <2>4, <3>3 DEF SearchTree, Shape
      <4>2. T.right[x] # n /\ T.right[x] # r /\ T.right[x] # T.right[r]
        BY <1>2, <1>3, <3>3, <4>1
      <4>3. QED
        BY <1>2, <4>1, <4>2
    <3>4. QED
      BY <3>1, <3>2, <3>3
  <2>5. ASSUME NEW x \in A, U.left[x] # Nil PROVE U.parent[U.left[x]] = x
    <3>1. CASE x = n
      BY <1>2, <1>3, <2>5, <3>1
    <3>2. CASE x # n /\ x = T.parent[n] /\ T.right[x] # n
      BY <1>2, <3>2
    <3>3. CASE x # n /\ ~(x = T.parent[n] /\ T.right[x] # n)
      <4>1. U.left[x] = T.left[x] /\ T.left[x] \in A /\ T.parent[T.left[x]] = x
        BY <1>2, <2>5, <3>3 DEF SearchTree, Shape
      <4>2. T.left[x] # n /\ T.left[x] # r
        BY <1>2, <1>3, <3>3, <4>1
      <4>3. T.left[x] # T.right[r]
        <5>1. SUFFICES ASSUME T.left[x] = T.right[r] PROVE FALSE
          OBVIOUS
        <5>2. x = r
          BY <1>3, <4>1, <5>1
        <5>3. QED
          BY <1>1, <1>2, <4>1, <5>1, <5>2 DEF Apart
      <4>4. QED
        BY <1>2, <4>1, <4>2, <4>3
    <3>4. QED
      BY <3>1, <3>2, <3>3
  <2>6. ASSUME NEW x \in A, x # U.root
        PROVE  /\ U.parent[x] \in A
               /\ x \in {U.right[U.parent[x]], U.left[U.parent[x]]}
    <3>1. CASE x = n
      BY <1>2, <3>1
    <3>2. CASE x = r
      BY <1>2, <1>3, <2>6, <3>2
    <3>3. CASE x = T.right[r]
      <4>1. x # n /\ x # r
        BY <1>3, <3>3
      <4>2. U.parent[x] = n /\ U.left[n] = x
        BY <1>2, <3>3, <4>1
      <4>3. QED
        BY <4>2
    <3>4. CASE x \notin {n, r, T.right[r]}
      <4>1. /\ U.parent[x] = T.parent[x] /\ T.parent[x] \in A
            /\ x \in {T.right[T.parent[x]], T.left[T.parent[x]]}
        BY <1>2, <2>6, <3>4 DEF SearchTree, Shape
      <4>2. QED
        BY <1>2, <1>3, <3>4, <4>1
    <3>5. QED
      BY <3>1, <3>2, <3>3, <3>4
  <2>7. QED
    BY <2>1, <2>2, <2>3, <2>4, <2>5, <2>6 DEF Shape
<1>5. Reach(U, A)
  <2>1. SUFFICES ASSUME NEW C \in SUBSET A, U.root \in C, Closed(U, C) PROVE C = A
    BY DEF Reach
  <2>2. CASE r \in C
    <3>1. n \in C
      BY <1>1, <1>2, <2>1, <2>2 DEF Closed
    <3>2. T.root \in C
      BY <1>2, <2>1, <3>1
    <3>3. Closed(T, C)
      BY <1>2, <1>3, <2>1, <2>2, <3>1 DEF Closed
    <3>4. QED
      BY <2>1, <3>2, <3>3 DEF SearchTree, Reach
  <2>3. CASE r \notin C
    <3> DEFINE D == C \ {n}
    <3>1. T.root \in D
      BY <1>2, <2>1, <2>3
    <3>2. T.parent[n] \notin C
      BY <1>1, <1>2, <1>3, <2>1, <2>3 DEF Closed
    <3>3. ASSUME NEW x \in D PROVE {T.left[x], T.right[x]} \subseteq D \cup {Nil}
      <4>1. {T.left[x], T.right[x]} \subseteq C \cup {Nil}
        BY <1>2, <2>1, <2>3, <3>2, <3>3 DEF Closed
      <4>2. n \notin {T.left[x], T.right[x]}
        BY <1>2, <2>1, <3>2, <3>3 DEF SearchTree, Shape
      <4>3. QED
        BY <4>1, <4>2
    <3>4. D = A
      BY <2>1, <3>1, <3>3 DEF SearchTree, Reach, Closed
    <3>5. QED
      BY <3>4
  <2>4. QED
    BY <2>2, <2>3
<1>6. Ordered(U, A, R)
  <2>1. PICK lo \in [Timers -> Nodes], hi \in [Timers -> Nodes] : Bounds(T, A, R, lo, hi)
    BY DEF SearchTree, Ordered
  <2> DEFINE hi2 == [hi EXCEPT ![r] = hi[n]]
             lo2 == [lo EXCEPT ![n] = r]
  <2>2. hi2 \in [Timers -> Nodes] /\ lo2 \in [Timers -> Nodes]
    BY <1>1, <1>2 DEF Nodes
  <2>3. /\ \A x \in A : hi2[x] = IF x = r THEN hi[n] ELSE hi[x]
        /\ \A x \in A : lo2[x] = IF x = n THEN r ELSE lo[x]
    BY <1>1, <1>2
  <2> HIDE DEF hi2, lo2
  <2>4. <<r, n>> \in R /\ hi[r] = n /\ lo[r] = lo[n]
    BY <1>1, <1>2, <2>1 DEF Apart, Bounds
  <2>5. U.root # Nil => lo2[U.root] = Nil /\ hi2[U.root] = Nil
    BY <1>2, <2>1, <2>3, <2>4 DEF Bounds, SearchTree, Shape
  <2>6. ASSUME NEW x \in A, hi2[x] # Nil PROVE <<x, hi2[x]>> \in R
    <3>1. CASE x = r
      <4>1. <<n, hi[n]>> \in R
        BY <2>1, <2>3, <2>6, <3>1 DEF Bounds
      <4>2. QED
        BY <1>2, <2>3, <2>4, <3>1, <4>1 DEF StrictOrder
    <3>2. CASE x # r
      BY <2>1, <2>3, <2>6, <3>2 DEF Bounds
    <3>3. QED
      BY <3>1, <3>2
  <2>7. ASSUME NEW x \in A, lo2[x] # Nil PROVE <<lo2[x], x>> \in R
    BY <2>1, <2>3, <2>4, <2>7 DEF Bounds
  <2>8. ASSUME NEW x \in A, U.right[x] # Nil
        PROVE  hi2[U.right[x]] = hi2[x] /\ lo2[U.right[x]] = x
    <3>1. CASE x = r
      BY <1>2, <2>3, <3>1
    <3>2. CASE x # r /\ x = T.parent[n] /\ T.right[x] = n
      <4>1. U.right[x] = r
        BY <1>2, <3>2
      <4>3. hi[n] = hi[x] /\ lo[n] = x
        <5>1. T.right[x] = n /\ n # Nil
          BY <1>2, <3>2
        <5>2. QED
          BY <2>1, <5>1 DEF Bounds
      <4>2. QED
        BY <1>2, <2>3, <2>4, <3>2, <4>1, <4>3
    <3>3. CASE x # r /\ ~(x = T.parent[n] /\ T.right[x] = n)
      <4>1. U.right[x] = T.right[x] /\ T.right[x] \in A /\ T.parent[T.right[x]] = x
        BY <1>2, <2>8, <3>3 DEF SearchTree, Shape
      <4>2. T.right[x] # n /\ T.right[x] # r
        BY <1>2, <1>3, <3>3, <4>1
      <4>3. QED
        <5>1. hi[T.right[x]] = hi[x] /\ lo[T.right[x]] = x
          BY <1>2, <2>1, <2>8, <4>1 DEF Bounds
        <5>2. QED
          BY <1>2, <2>3, <3>3, <4>1, <4>2, <5>1
    <3>4. QED
      BY <3>1, <3>2, <3>3
  <2>9. ASSUME NEW x \in A, U.left[x] # Nil
        PROVE  hi2[U.left[x]] = x /\ lo2[U.left[x]] = lo2[x]
    <3>1. CASE x = n
      <4>1. T.right[r] # Nil /\ T.right[r] \in A /\ U.left[x] = T.right[r]
        BY <1>2, <1>3, <2>9, <3>1
      <4>2. hi[T.right[r]] = n /\ lo[T.right[r]] = r
        BY <1>2, <2>1, <2>4, <4>1 DEF Bounds
      <4>3. QED
        BY <1>2, <1>3, <2>3, <3>1, <4>1, <4>2
    <3>2. CASE x # n /\ x = T.parent[n] /\ T.right[x] # n
      <4>1. T.left[x] = n /\ U.left[x] = r
        BY <1>2, <1>3, <3>2
      <4>3. hi[n] = x /\ lo[n] = lo[x]
        BY <1>2, <2>1, <4>1 DEF Bounds
      <4>2. QED
        BY <1>2, <2>3, <2>4, <3>2, <4>1, <4>3
    <3>3. CASE x # n /\ ~(x = T.parent[n] /\ T.right[x] # n)
      <4>1. U.left[x] = T.left[x] /\ T.left[x] \in A /\ T.parent[T.left[x]] = x
        BY <1>2, <2>9, <3>3 DEF SearchTree, Shape
      <4>2. T.left[x] # n /\ T.left[x] # r
        BY <1>2, <1>3, <3>3, <4>1
      <4>3. QED
        <5>1. hi[T.left[x]] = x /\ lo[T.left[x]] = lo[x]
          BY <1>2, <2>1, <2>9, <4>1 DEF Bounds
        <5>2. QED
          BY <1>2, <2>3, <3>3, <4>1, <4>2, <5>1
    <3>4. QED
      BY <3>1, <3>2, <3>3
  <2>10. Bounds(U, A, R, lo2, hi2)
    BY <2>5, <2>6, <2>7, <2>8, <2>9 DEF Bounds
  <2>11. QED
    BY <2>2, <2>10 DEF Ordered
<1>7. QED
  BY <1>4, <1>5, <1>6 DEF SearchTree

------------------------------------------------------------------------------
(* Walks down the tree.                                                    *)

(* A walk from the root along links that the parent pointers answer comes  *)
(* to an end, at a node that is in every set the walk cannot leave.        *)
Walk(A, up, next, n) ==
  /\ n \in A /\ up[n] = Nil
  /\ \A x \in A : next[x] # Nil => next[x] \in A /\ up[next[x]] = x

(* A walk away from n ends, where next is null.                            *)
LEMMA WalkEnds ==
  ASSUME NEW A \in SUBSET Timers, NEW up, NEW next, NEW n, Walk(A, up, next, n)
  PROVE  LET m == EndOf(next, n)
         IN  /\ m \in A /\ next[m] = Nil
             /\ \A C \in SUBSET A :
                  n \in C /\ (\A x \in C : next[x] \in C \cup {Nil}) => m \in C
<1> DEFINE m == EndOf(next, n)
<1> USE DEF Walk
<1> DEFINE In(C) == n \in C /\ \A x \in C : next[x] \in C \cup {Nil}
           W == {x \in A : \A C \in SUBSET Timers : In(C) => x \in C}
<1>1. In(A) /\ A \in SUBSET Timers
  OBVIOUS
<1>2. ASSUME NEW x \in W, next[x] # Nil PROVE next[x] \in W
  BY <1>2
<1>3. n \in W
  OBVIOUS
<1>4. PICK e \in W : next[e] = Nil
  <2>1. SUFFICES ASSUME \A x \in W : next[x] # Nil PROVE FALSE
    OBVIOUS
  <2> DEFINE f == [x \in W |-> next[x]]
  <2>2. f \in [W -> W \ {n}]
    <3>1. ASSUME NEW x \in W PROVE next[x] \in W \ {n}
      <4>1. next[x] \in W /\ x \in A /\ up[next[x]] = x
        BY <1>2, <2>1
      <4>2. QED
        BY <4>1, TreeAssumption
    <3>2. QED
      BY <3>1
  <2>3. IsFiniteSet(W) /\ IsFiniteSet(W \ {n}) /\ Cardinality(W) \in Nat
        /\ Cardinality(W \ {n}) = Cardinality(W) - 1
    <3>1. W \subseteq Timers
      OBVIOUS
    <3> HIDE DEF W
    <3>2. IsFiniteSet(W)
      BY <3>1, FS_Subset, TreeAssumption
    <3>3. QED
      BY <1>3, <3>2, FS_RemoveElement, FS_CardinalityType
  <2>4. PICK x \in W, y \in W : x # y /\ f[x] = f[y]
    <3> HIDE DEF W, f
    <3>1. Cardinality(W \ {n}) < Cardinality(W)
      BY <2>3
    <3>2. QED
      BY <2>2, <2>3, <3>1, FS_PigeonHole
  <2>5. next[x] = next[y] /\ x \in A /\ y \in A
    BY <2>4
  <2>6. up[next[x]] = x /\ up[next[y]] = y
    BY <2>1, <2>5
  <2>7. QED
    BY <2>4, <2>5, <2>6
<1>5. \E k \in Timers : /\ next[k] = Nil
                        /\ \A C \in SUBSET Timers :
                             n \in C /\ (\A t \in C : next[t] \in C \cup {Nil}) => k \in C
  <2>1. e \in Timers /\ \A C \in SUBSET Timers : In(C) => e \in C
    OBVIOUS
  <2>2. QED
    BY <1>4, <2>1
<1>6. /\ m \in Timers /\ next[m] = Nil
      /\ \A C \in SUBSET Timers :
           n \in C /\ (\A t \in C : next[t] \in C \cup {Nil}) => m \in C
  BY <1>5 DEF EndOf
<1>7. m \in A
  BY <1>1, <1>6
<1>8. QED
  BY <1>6, <1>7

(* getFront returns the earliest.  The nodes above it are those without a  *)
(* lower bound (K); all others have one, and it is not before the front.   *)
LEMMA FrontEarliest ==
  ASSUME NEW A \in SUBSET Timers, NEW T \in TreeType, NEW R, SearchTree(T, A, R),
         StrictOrder(R, A), T.root # Nil, NEW m, m = getFront(T)
  PROVE  m \in A /\ T.left[m] = Nil /\ \A x \in A : x = m \/ <<m, x>> \in R
<1>1. Apart(T, A, R)
  BY Edges
<1>2. PICK lo \in [Timers -> Nodes], hi \in [Timers -> Nodes] : Bounds(T, A, R, lo, hi)
  BY DEF SearchTree, Ordered
<1> DEFINE V == {x \in A : lo[x] = Nil}
           Up(P) == \A x \in P : x # T.root => T.parent[x] \in P
           K == {x \in V : \A P \in SUBSET V : m \in P /\ Up(P) => x \in P}
           B == {x \in A : x \in K \/ (lo[x] # Nil /\ (lo[x] = m \/ <<m, lo[x]>> \in R))}
<1>3. T.root \in A /\ T.parent[T.root] = Nil /\ lo[T.root] = Nil
  BY <1>2 DEF SearchTree, Shape, Bounds
<1>4. ASSUME NEW x \in A
      PROVE  /\ T.left[x] # Nil => T.left[x] \in A /\ T.parent[T.left[x]] = x
             /\ T.right[x] # Nil => T.right[x] \in A /\ T.parent[T.right[x]] = x
  BY DEF SearchTree, Shape
<1>5. /\ m \in A /\ T.left[m] = Nil
      /\ \A C \in SUBSET A :
           T.root \in C /\ (\A x \in C : T.left[x] \in C \cup {Nil}) => m \in C
  <2>1. m = EndOf(T.left, T.root)
    BY DEF getFront
  <2>2. Walk(A, T.parent, T.left, T.root)
    BY <1>3, <1>4 DEF Walk
  <2>3. QED
    BY <2>1, <2>2, WalkEnds
<1>6. m \in V
  <2>1. \A x \in V : T.left[x] \in V \cup {Nil}
    BY <1>2, <1>4 DEF Bounds
  <2>2. QED
    BY <1>3, <1>5, <2>1
<1>7. ASSUME NEW x \in V, x # T.root
      PROVE  /\ T.parent[x] \in V /\ T.left[T.parent[x]] = x
             /\ <<x, T.parent[x]>> \in R
  <2>1. T.parent[x] \in A /\ x \in {T.left[T.parent[x]], T.right[T.parent[x]]} /\ x # Nil
    BY <1>1, <1>7 DEF SearchTree, Shape, Apart
  <2>2. T.right[T.parent[x]] # x
    <3>1. T.parent[x] # Nil
      BY <1>1, <2>1 DEF Apart
    <3>2. T.right[T.parent[x]] = x => lo[x] = T.parent[x]
      <4>1. T.right[T.parent[x]] # Nil => lo[T.right[T.parent[x]]] = T.parent[x]
        BY <1>2, <2>1 DEF Bounds
      <4>2. QED
        BY <2>1, <4>1
    <3>3. QED
      BY <1>7, <3>1, <3>2
  <2>3. T.left[T.parent[x]] = x
    BY <2>1, <2>2
  <2>4. lo[T.parent[x]] = lo[x]
    BY <1>2, <2>1, <2>3 DEF Bounds
  <2>5. <<x, T.parent[x]>> \in R
    BY <1>1, <2>1, <2>3 DEF Apart
  <2>6. QED
    BY <2>1, <2>3, <2>4, <2>5
<1>8. m \in K /\ Up(K)
  <2>1. m \in K
    BY <1>6
  <2>2. ASSUME NEW x \in K, x # T.root PROVE T.parent[x] \in K
    BY <1>7, <2>2
  <2>3. QED
    BY <2>1, <2>2
<1>9. T.root \in K
  <2>1. SUFFICES ASSUME T.root \notin K PROVE FALSE
    OBVIOUS
  <2> DEFINE C == A \ K
  <2>2. ASSUME NEW x \in C, NEW y \in {T.left[x], T.right[x]} PROVE y \in C \cup {Nil}
    <3>0. x \in A
      BY <2>2
    <3>1. y # Nil => y \in A /\ T.parent[y] = x /\ y # T.root
      <4>1. y # Nil => y \in A /\ T.parent[y] = x
        BY <1>4, <2>2, <3>0
      <4>2. y \in A => y # T.root
        BY <1>1, <2>2, <3>0 DEF Apart
      <4>3. QED
        BY <4>1, <4>2
    <3>2. QED
      BY <1>8, <2>2, <3>1
  <2>3. C = A
    <3>1. Closed(T, C)
      BY <2>2 DEF Closed
    <3>2. C \in SUBSET A /\ T.root \in C
      BY <1>3, <2>1
    <3> HIDE DEF C
    <3>3. QED
      BY <3>1, <3>2 DEF SearchTree, Reach
  <2>4. QED
    BY <1>5, <1>8, <2>3
<1>10. ASSUME NEW x \in K, x # m PROVE T.left[x] \in K
  <2> DEFINE P == K \ {x}
  <2>1. ~Up(P)
    <3>1. P \in SUBSET V /\ m \in P
      BY <1>8, <1>10
    <3>2. QED
      BY <1>10, <3>1
  <2>2. PICK y \in K : y # T.root /\ T.parent[y] = x
    BY <1>8, <2>1
  <2>3. QED
    BY <1>7, <2>2
<1>11. ASSUME NEW x \in K PROVE x = m \/ <<m, x>> \in R
  <2> DEFINE P == {y \in V : y = m \/ <<m, y>> \in R}
  <2>1. ASSUME NEW y \in P, y # T.root PROVE T.parent[y] \in P
    <3>1. T.parent[y] \in V /\ <<y, T.parent[y]>> \in R
      BY <1>7, <2>1
    <3>2. y = m \/ <<m, y>> \in R
      BY <2>1
    <3>3. <<m, T.parent[y]>> \in R
      BY <1>5, <3>1, <3>2 DEF StrictOrder
    <3>4. QED
      BY <3>1, <3>3
  <2>2. m \in P /\ P \in SUBSET V
    BY <1>6
  <2>3. x \in P
    BY <2>1, <2>2, <1>11
  <2>4. QED
    BY <2>3
<1>12. ASSUME NEW x \in B PROVE T.left[x] \in B \cup {Nil} /\ T.right[x] \in B \cup {Nil}
  <2>1. x \in A /\ x # Nil
    BY <1>1 DEF Apart
  <2>2. CASE x \in K
    <3>1. T.left[x] \in B \cup {Nil}
      BY <1>5, <1>10, <2>2
    <3>2. T.right[x] # Nil => T.right[x] \in A /\ lo[T.right[x]] = x
      BY <1>2, <1>4, <2>1 DEF Bounds
    <3>3. QED
      BY <1>11, <2>1, <2>2, <3>1, <3>2
  <2>3. CASE x \notin K
    <3>1. lo[x] # Nil /\ (lo[x] = m \/ <<m, lo[x]>> \in R)
      BY <2>3
    <3>2. T.left[x] # Nil => T.left[x] \in A /\ lo[T.left[x]] = lo[x]
      BY <1>2, <1>4, <2>1 DEF Bounds
    <3>3. T.right[x] # Nil => T.right[x] \in A /\ lo[T.right[x]] = x
      BY <1>2, <1>4, <2>1 DEF Bounds
    <3>4. <<lo[x], x>> \in R /\ lo[x] \in A
      <4>1. <<lo[x], x>> \in R
        BY <1>2, <2>1, <3>1 DEF Bounds
      <4>2. QED
        BY <4>1 DEF StrictOrder
    <3>5. <<m, x>> \in R
      BY <1>5, <2>1, <3>1, <3>4 DEF StrictOrder
    <3>6. QED
      BY <2>1, <3>1, <3>2, <3>3, <3>5
  <2>4. QED
    BY <2>2, <2>3
<1>13. B = A
  <2>1. Closed(T, B)
    BY <1>12 DEF Closed
  <2>2. B \in SUBSET A /\ T.root \in B
    BY <1>3, <1>9
  <2> HIDE DEF B
  <2>3. QED
    BY <2>1, <2>2 DEF SearchTree, Reach
<1>14. ASSUME NEW x \in A PROVE x = m \/ <<m, x>> \in R
  <2>1. x \in B
    BY <1>13
  <2>2. CASE x \in K
    BY <1>11, <2>2
  <2>3. CASE x \notin K
    <3>1. lo[x] # Nil /\ (lo[x] = m \/ <<m, lo[x]>> \in R)
      BY <2>1, <2>3
    <3>2. <<lo[x], x>> \in R /\ lo[x] \in A
      <4>1. <<lo[x], x>> \in R
        BY <1>2, <3>1 DEF Bounds
      <4>2. QED
        BY <4>1 DEF StrictOrder
    <3>3. QED
      BY <1>5, <3>1, <3>2 DEF StrictOrder
  <2>4. QED
    BY <2>2, <2>3
<1>15. QED
  BY <1>5, <1>14

------------------------------------------------------------------------------
(* Erasing a node that has at most one child.                              *)

OnlyChild(T, d) == IF T.left[d] # Nil THEN T.left[d] ELSE T.right[d]

(* The fields of the other nodes when d is gone and c took its place.      *)
Unlinked(T, V, A, d, c) ==
  /\ V.root = IF T.root = d THEN c ELSE T.root
  /\ \A x \in A \ {d} :
       /\ V.red[x] = T.red[x]
       /\ V.left[x] = IF x = T.parent[d] /\ T.left[x] = d THEN c ELSE T.left[x]
       /\ V.right[x] = IF x = T.parent[d] /\ T.left[x] # d THEN c ELSE T.right[x]
       /\ V.parent[x] = IF x = c THEN T.parent[d] ELSE T.parent[x]

(* What doErase does to each link.                                         *)
LEMMA EraseFields ==
  ASSUME NEW A \in SUBSET Timers, NEW T \in TreeType, NEW R, SearchTree(T, A, R),
         StrictOrder(R, A), NEW d \in A, ~TwoChildren(T, d),
         NEW c, c = OnlyChild(T, d), NEW V, V = Forget(doErase(T, d).t, d)
  PROVE  /\ V \in TreeType /\ Unlinked(T, V, A, d, c)
         /\ doErase(T, d).fix = IF T.red[d] \/ V.root = Nil THEN Nil
                                ELSE IF c # Nil THEN c ELSE T.parent[d]
<1>1. Apart(T, A, R) /\ A \subseteq Timers
  BY Edges
<1>2. /\ d \in Timers /\ d # Nil /\ c \in A \cup {Nil} /\ c # d
      /\ T.parent[d] \in Nodes /\ T.parent[d] # d
      /\ T.root = d <=> T.parent[d] = Nil
      /\ T.root # d => T.parent[d] \in A
  <2>1. T.left[d] \in A \cup {Nil} /\ T.right[d] \in A \cup {Nil}
    BY DEF SearchTree, Shape
  <2>2. /\ d \in Timers /\ d # Nil /\ d \notin {T.left[d], T.right[d]}
        /\ T.root = d <=> T.parent[d] = Nil
    BY <1>1 DEF Apart
  <2>3. T.root # d => T.parent[d] \in A /\ d \in {T.left[T.parent[d]], T.right[T.parent[d]]}
    BY DEF SearchTree, Shape
  <2>4. T.parent[d] # d
    <3>1. T.parent[d] \in A => T.parent[d] \notin {T.left[T.parent[d]], T.right[T.parent[d]]}
      BY <1>1 DEF Apart
    <3>2. QED
      BY <2>2, <2>3, <3>1
  <2>5. QED
    BY <2>1, <2>2, <2>3, <2>4 DEF OnlyChild, TreeType
<1> DEFINE sp == SetParent(T, c, T.parent[d])
           G == Relink(sp, d, c, d = T.root)
<1> HIDE DEF sp, G
<1>3. /\ sp \in TreeType /\ sp.red = T.red /\ sp.root = T.root
      /\ sp.left = T.left /\ sp.right = T.right
      /\ \A x \in Timers : sp.parent[x] = IF x = c THEN T.parent[d] ELSE T.parent[x]
  <2>1. CASE c = Nil
    BY <2>1, TreeAssumption DEF SetParent, sp
  <2>2. CASE c # Nil
    <3>1. sp = [T EXCEPT !.parent[c] = T.parent[d]] /\ c \in Timers
      BY <1>2, <2>2 DEF SetParent, sp
    <3>2. QED
      BY <1>2, <3>1 DEF TreeType
  <2>3. QED
    BY <2>1, <2>2
<1>4. /\ G \in TreeType /\ G.red = T.red /\ G.parent = sp.parent
      /\ G.root = IF T.root = d THEN c ELSE T.root
      /\ \A x \in Timers :
           /\ G.left[x] = IF x = T.parent[d] /\ T.left[x] = d THEN c ELSE T.left[x]
           /\ G.right[x] = IF x = T.parent[d] /\ T.left[x] # d THEN c ELSE T.right[x]
  <2>0. c \in Nodes /\ sp.parent[d] = T.parent[d] /\ (d = T.root => Nil \notin Timers)
    BY <1>2, <1>3, TreeAssumption DEF Nodes
  <2>1. CASE d = T.root
    <3>1. G = [sp EXCEPT !.root = c]
      BY <2>1 DEF Relink, G
    <3>2. QED
      BY <1>2, <1>3, <2>0, <2>1, <3>1 DEF TreeType
  <2>2. CASE d # T.root /\ T.left[T.parent[d]] = d
    <3>1. G = [sp EXCEPT !.left[T.parent[d]] = c] /\ T.parent[d] \in Timers
      BY <1>2, <1>3, <2>0, <2>2 DEF Relink, G
    <3>2. QED
      BY <1>2, <1>3, <2>0, <2>2, <3>1 DEF TreeType
  <2>3. CASE d # T.root /\ T.left[T.parent[d]] # d
    <3>1. G = [sp EXCEPT !.right[T.parent[d]] = c] /\ T.parent[d] \in Timers
      BY <1>2, <1>3, <2>0, <2>3 DEF Relink, G
    <3>2. QED
      BY <1>2, <1>3, <2>0, <2>3, <3>1 DEF TreeType
  <2>4. QED
    BY <2>1, <2>2, <2>3
<1>5. doErase(T, d) = Unlink(T, d, c)
  BY DEF doErase, OnlyChild
<1>6. doErase(T, d).t = G
  BY <1>5 DEF Unlink, G, sp
<1>7. doErase(T, d).fix = IF T.red[d] \/ G.root = Nil THEN Nil
                          ELSE IF c # Nil THEN c ELSE G.parent[d]
  BY <1>5 DEF Unlink, G, sp
<1>8. /\ V.root = G.root
      /\ V.left = [G.left EXCEPT ![d] = Nil] /\ V.right = [G.right EXCEPT ![d] = Nil]
      /\ V.parent = [G.parent EXCEPT ![d] = Nil] /\ V.red = [G.red EXCEPT ![d] = TRUE]
      /\ V \in TreeType
  BY <1>2, <1>4, <1>6 DEF Forget, TreeType, Nodes
<1>9. Unlinked(T, V, A, d, c)
  <2>1. V.root = IF T.root = d THEN c ELSE T.root
    BY <1>4, <1>8
  <2>2. ASSUME NEW x \in A \ {d}
        PROVE  /\ V.red[x] = T.red[x]
               /\ V.left[x] = IF x = T.parent[d] /\ T.left[x] = d THEN c ELSE T.left[x]
               /\ V.right[x] = IF x = T.parent[d] /\ T.left[x] # d THEN c ELSE T.right[x]
               /\ V.parent[x] = IF x = c THEN T.parent[d] ELSE T.parent[x]
    <3>1. x \in Timers /\ x # d
      OBVIOUS
    <3>2. /\ V.red[x] = G.red[x] /\ V.left[x] = G.left[x] /\ V.right[x] = G.right[x]
          /\ V.parent[x] = G.parent[x]
      BY <1>4, <1>8, <3>1 DEF TreeType
    <3>3. QED
      BY <1>3, <1>4, <3>1, <3>2
  <2>3. QED
    BY <2>1, <2>2 DEF Unlinked
<1>10. G.parent[d] = T.parent[d]
  BY <1>2, <1>3, <1>4
<1>11. QED
  BY <1>7, <1>8, <1>9, <1>10

(* The rest is a search tree.                                              *)
LEMMA EraseKeeps ==
  ASSUME NEW A \in SUBSET Timers, NEW T \in TreeType, NEW R, SearchTree(T, A, R),
         StrictOrder(R, A), NEW d \in A, ~TwoChildren(T, d),
         NEW V, V = Forget(doErase(T, d).t, d),
         NEW B, B = A \ {d}, NEW Q, Q = R \cap (B \X B)
  PROVE  SearchTree(V, B, Q) /\ StrictOrder(Q, B)
<1> DEFINE c == OnlyChild(T, d)
           p == T.parent[d]
<1>1. Apart(T, A, R) /\ A \subseteq Timers /\ Nil \notin A
  BY Edges, TreeAssumption
<1>2. /\ c \in A \cup {Nil} /\ {T.left[d], T.right[d]} \subseteq {c, Nil}
      /\ c \in {T.left[d], T.right[d]}
      /\ d \notin {T.left[d], T.right[d]} /\ c # d /\ d # Nil
      /\ c # Nil => T.parent[c] = d /\ c # T.root
      /\ T.root = d <=> p = Nil
  <2>1. T.left[d] \in A \cup {Nil} /\ T.right[d] \in A \cup {Nil}
    BY DEF SearchTree, Shape
  <2>2. {T.left[d], T.right[d]} \subseteq {c, Nil} /\ c \in {T.left[d], T.right[d]}
    BY DEF OnlyChild, TwoChildren
  <2> HIDE DEF c
  <2>3. /\ d \notin {T.left[d], T.right[d]} /\ d # Nil
        /\ T.root = d <=> p = Nil
    BY <1>1 DEF Apart
  <2>4. c # Nil => T.parent[c] = d /\ c # T.root
    <3>1. SUFFICES ASSUME c # Nil PROVE T.parent[c] = d /\ c # T.root
      OBVIOUS
    <3>2. c \in A
      BY <2>1, <2>2, <3>1
    <3>3. QED
      BY <1>1, <2>2, <3>2 DEF Apart
  <2>5. QED
    BY <2>1, <2>2, <2>3, <2>4
<1>3. p # Nil => /\ p \in B /\ d \in {T.left[p], T.right[p]} /\ p # c
                 /\ T.left[p] = d <=> T.right[p] # d
  <2>1. SUFFICES ASSUME p # Nil
                 PROVE  /\ p \in B /\ d \in {T.left[p], T.right[p]} /\ p # c
                        /\ T.left[p] = d <=> T.right[p] # d
    OBVIOUS
  <2>2. p \in A /\ d \in {T.left[p], T.right[p]}
    BY <1>2, <2>1 DEF SearchTree, Shape
  <2>3. p # d /\ p # c
    BY <1>1, <1>2, <2>2 DEF Apart
  <2>4. T.left[p] # Nil => T.left[p] # T.right[p]
    BY <1>1, <2>2 DEF Apart
  <2>5. QED
    BY <1>2, <2>2, <2>3, <2>4
<1> HIDE DEF c
<1>4. /\ V.root = IF T.root = d THEN c ELSE T.root
      /\ \A x \in B :
           /\ V.left[x] = IF x = p /\ T.left[x] = d THEN c ELSE T.left[x]
           /\ V.right[x] = IF x = p /\ T.left[x] # d THEN c ELSE T.right[x]
           /\ V.parent[x] = IF x = c THEN p ELSE T.parent[x]
  <2>1. Unlinked(T, V, A, d, c)
    BY EraseFields DEF c
  <2>2. QED
    BY <2>1 DEF Unlinked
<1> HIDE DEF p
<1>5. Shape(V, B)
  <2>1. V.root \in B \cup {Nil} /\ (V.root = Nil <=> B = {})
    <3>1. V.root \in B \cup {Nil}
      BY <1>2, <1>4 DEF SearchTree, Shape
    <3>2. V.root # Nil => B # {}
      BY <3>1
    <3>3. ASSUME V.root = Nil PROVE B = {}
      <4>1. T.root = d /\ c = Nil
        BY <1>2, <1>4, <3>3 DEF SearchTree, Shape
      <4>2. Closed(T, {d}) /\ T.root \in {d} /\ {d} \in SUBSET A
        BY <1>2, <4>1 DEF Closed
      <4>3. {d} = A
        BY <4>2 DEF SearchTree, Reach
      <4>4. QED
        BY <4>3
    <3>4. QED
      BY <3>1, <3>2, <3>3
  <2>2. V.root # Nil => V.parent[V.root] = Nil
    BY <1>2, <1>4, <2>1 DEF SearchTree, Shape
  <2>3. ASSUME NEW x \in B
        PROVE  /\ V.left[x] \in B \cup {Nil}
               /\ V.left[x] # Nil => V.parent[V.left[x]] = x
    <3>1. CASE x = p /\ T.left[x] = d
      BY <1>2, <1>4, <2>3, <3>1
    <3>2. CASE ~(x = p /\ T.left[x] = d)
      <4>1. /\ V.left[x] = T.left[x] /\ T.left[x] \in A \cup {Nil}
            /\ T.left[x] # Nil => T.parent[T.left[x]] = x
        BY <1>4, <2>3, <3>2 DEF SearchTree, Shape
      <4>2. T.left[x] # d
        BY <1>2, <3>2, <4>1 DEF p
      <4>3. T.left[x] # Nil => T.left[x] # c
        BY <1>2, <2>3, <4>1
      <4>4. QED
        BY <1>4, <4>1, <4>2, <4>3
    <3>3. QED
      BY <3>1, <3>2
  <2>4. ASSUME NEW x \in B
        PROVE  /\ V.right[x] \in B \cup {Nil}
               /\ V.right[x] # Nil => V.parent[V.right[x]] = x
    <3>1. CASE x = p /\ T.left[x] # d
      BY <1>2, <1>4, <2>4, <3>1
    <3>2. CASE ~(x = p /\ T.left[x] # d)
      <4>1. /\ V.right[x] = T.right[x] /\ T.right[x] \in A \cup {Nil}
            /\ T.right[x] # Nil => T.parent[T.right[x]] = x
        BY <1>4, <2>4, <3>2 DEF SearchTree, Shape
      <4>2. T.right[x] # d
        BY <1>2, <1>3, <2>4, <1>1, <3>2, <4>1 DEF p
      <4>3. T.right[x] # Nil => T.right[x] # c
        BY <1>2, <2>4, <4>1
      <4>4. QED
        BY <1>4, <4>1, <4>2, <4>3
    <3>3. QED
      BY <3>1, <3>2
  <2>5. ASSUME NEW x \in B, x # V.root
        PROVE  V.parent[x] \in B /\ x \in {V.left[V.parent[x]], V.right[V.parent[x]]}
    <3>1. CASE x = c
      <4>1. p # Nil
        BY <1>2, <1>4, <2>5, <3>1
      <4>2. QED
        BY <1>3, <1>4, <3>1, <4>1
    <3>2. CASE x # c
      <4>1. x # T.root /\ V.parent[x] = T.parent[x]
        BY <1>2, <1>4, <2>5, <3>2
      <4>2. T.parent[x] \in A /\ x \in {T.left[T.parent[x]], T.right[T.parent[x]]}
        BY <2>5, <4>1 DEF SearchTree, Shape
      <4>3. T.parent[x] # d
        <5>1. SUFFICES ASSUME T.parent[x] = d PROVE FALSE
          OBVIOUS
        <5>2. x \in {c, Nil} /\ x # Nil
          BY <1>1, <1>2, <2>5, <4>2, <5>1
        <5>3. QED
          BY <3>2, <5>2
      <4>4. T.parent[x] \in B /\ x # d
        BY <2>5, <4>2, <4>3
      <4>5. T.parent[x] = p => p # Nil
        BY <1>1, <4>2
      <4>6. QED
        BY <1>3, <1>4, <2>5, <4>1, <4>2, <4>4, <4>5
    <3>3. QED
      BY <3>1, <3>2
  <2>6. QED
    BY <2>1, <2>2, <2>3, <2>4, <2>5 DEF Shape
<1>6. Reach(V, B)
  <2>1. SUFFICES ASSUME NEW C \in SUBSET B, V.root \in C, Closed(V, C) PROVE C = B
    BY DEF Reach
  <2>2. CASE c = Nil \/ c \in C
    <3> DEFINE D == C \cup {d}
    <3>1. T.root \in D
      BY <1>4, <2>1
    <3>2. ASSUME NEW x \in D PROVE {T.left[x], T.right[x]} \subseteq D \cup {Nil}
      <4>1. CASE x = d
        BY <1>2, <2>2, <4>1
      <4>2. CASE x # d
        <5>1. x \in B /\ {V.left[x], V.right[x]} \subseteq C \cup {Nil}
          BY <2>1, <3>2, <4>2 DEF Closed
        <5>2. T.left[x] \in {V.left[x], d} /\ T.right[x] \in {V.right[x], d}
          BY <1>3, <1>4, <5>1, <1>1
        <5>3. QED
          BY <5>1, <5>2
      <4>3. QED
        BY <4>1, <4>2
    <3>3. D = A
      <4>1. D \in SUBSET A /\ Closed(T, D)
        BY <3>2 DEF Closed
      <4> HIDE DEF D
      <4>2. QED
        BY <3>1, <4>1 DEF SearchTree, Reach
    <3>4. QED
      BY <3>3
  <2>3. CASE c # Nil /\ c \notin C
    <3>1. p \notin C
      BY <1>3, <1>4, <2>1, <2>3, <1>1 DEF Closed
    <3>2. T.root \in C
      BY <1>4, <2>1, <2>3
    <3>3. Closed(T, C)
      BY <1>4, <2>1, <3>1 DEF Closed
    <3>4. C = A
      BY <3>2, <3>3 DEF SearchTree, Reach
    <3>5. QED
      BY <3>4
  <2>4. QED
    BY <2>2, <2>3
<1>7. Ordered(V, B, Q)
  <2>1. PICK lo \in [Timers -> Nodes], hi \in [Timers -> Nodes] : Bounds(T, A, R, lo, hi)
    BY DEF SearchTree, Ordered
  <2> DEFINE lo2 == [x \in Timers |-> IF lo[x] = d THEN lo[d] ELSE lo[x]]
             hi2 == [x \in Timers |-> IF hi[x] = d THEN hi[d] ELSE hi[x]]
  <2>2. lo2 \in [Timers -> Nodes] /\ hi2 \in [Timers -> Nodes]
    OBVIOUS
  <2>3. \A x \in A : /\ lo2[x] = IF lo[x] = d THEN lo[d] ELSE lo[x]
                     /\ hi2[x] = IF hi[x] = d THEN hi[d] ELSE hi[x]
    BY <1>1
  <2> HIDE DEF lo2, hi2
  <2>4. ASSUME NEW x \in A
        PROVE  /\ lo[x] # Nil => <<lo[x], x>> \in R /\ lo[x] \in A /\ lo[x] # x
               /\ hi[x] # Nil => <<x, hi[x]>> \in R /\ hi[x] \in A /\ hi[x] # x
    <3>1. /\ lo[x] # Nil => <<lo[x], x>> \in R
          /\ hi[x] # Nil => <<x, hi[x]>> \in R
      BY <2>1, <2>4 DEF Bounds
    <3>2. QED
      BY <3>1, <2>4 DEF StrictOrder
  <2>5. ASSUME NEW x \in B, lo2[x] # Nil PROVE <<lo2[x], x>> \in Q
    <3>1. CASE lo[x] = d
      <4>1. lo2[x] = lo[d] /\ <<d, x>> \in R /\ <<lo[d], d>> \in R /\ lo[d] \in B
        BY <1>2, <2>3, <2>4, <2>5, <3>1
      <4>2. <<lo[d], x>> \in R
        BY <2>5, <4>1 DEF StrictOrder
      <4>3. QED
        BY <2>5, <4>1, <4>2
    <3>2. CASE lo[x] # d
      BY <2>3, <2>4, <2>5, <3>2
    <3>3. QED
      BY <3>1, <3>2
  <2>6. ASSUME NEW x \in B, hi2[x] # Nil PROVE <<x, hi2[x]>> \in Q
    <3>1. CASE hi[x] = d
      <4>1. hi2[x] = hi[d] /\ <<x, d>> \in R /\ <<d, hi[d]>> \in R /\ hi[d] \in B
        BY <1>2, <2>3, <2>4, <2>6, <3>1
      <4>2. <<x, hi[d]>> \in R
        BY <2>6, <4>1 DEF StrictOrder
      <4>3. QED
        BY <2>6, <4>1, <4>2
    <3>2. CASE hi[x] # d
      BY <2>3, <2>4, <2>6, <3>2
    <3>3. QED
      BY <3>1, <3>2
  <2>7. c # Nil => /\ c = T.left[d] => lo[c] = lo[d] /\ hi[c] = d
                   /\ c = T.right[d] => lo[c] = d /\ hi[c] = hi[d]
    BY <2>1, <1>2 DEF Bounds
  <2>8. c # Nil => lo2[c] = lo[d] /\ hi2[c] = hi[d]
    BY <1>2, <2>3, <2>4, <2>7
  <2>9. V.root # Nil => lo2[V.root] = Nil /\ hi2[V.root] = Nil
    <3>1. T.root \in A /\ lo[T.root] = Nil /\ hi[T.root] = Nil
      BY <2>1, <1>1 DEF Bounds, SearchTree, Shape
    <3>2. QED
      BY <1>2, <1>4, <2>3, <2>8, <3>1
  <2>10. ASSUME NEW x \in B, V.left[x] # Nil
         PROVE  lo2[V.left[x]] = lo2[x] /\ hi2[V.left[x]] = x
    <3>1. CASE x = p /\ T.left[x] = d
      <4>1. V.left[x] = c /\ c # Nil
        BY <1>4, <2>10, <3>1
      <4>2. lo[d] = lo[x] /\ hi[d] = x
        BY <1>2, <2>1, <2>10, <3>1 DEF Bounds
      <4>3. lo[x] # d /\ x # d
        BY <2>4, <2>10, <4>2, <1>2
      <4>4. QED
        BY <2>3, <2>8, <2>10, <4>1, <4>2, <4>3
    <3>2. CASE ~(x = p /\ T.left[x] = d)
      <4>1. V.left[x] = T.left[x] /\ T.left[x] \in A /\ x # d
        BY <1>4, <2>10, <3>2 DEF SearchTree, Shape
      <4>2. lo[T.left[x]] = lo[x] /\ hi[T.left[x]] = x
        BY <2>1, <2>10, <4>1 DEF Bounds
      <4>3. QED
        BY <2>3, <2>10, <4>1, <4>2
    <3>3. QED
      BY <3>1, <3>2
  <2>11. ASSUME NEW x \in B, V.right[x] # Nil
         PROVE  lo2[V.right[x]] = x /\ hi2[V.right[x]] = hi2[x]
    <3>1. CASE x = p /\ T.left[x] # d
      <4>1. V.right[x] = c /\ c # Nil /\ T.right[x] = d
        BY <1>1, <1>3, <1>4, <2>11, <3>1
      <4>2. hi[d] = hi[x] /\ lo[d] = x
        BY <1>2, <2>1, <2>11, <4>1 DEF Bounds
      <4>3. hi[x] # d /\ x # d
        BY <2>4, <2>11, <4>2, <1>2
      <4>4. QED
        BY <2>3, <2>8, <2>11, <4>1, <4>2, <4>3
    <3>2. CASE ~(x = p /\ T.left[x] # d)
      <4>1. V.right[x] = T.right[x] /\ T.right[x] \in A /\ x # d
        BY <1>4, <2>11, <3>2 DEF SearchTree, Shape
      <4>2. hi[T.right[x]] = hi[x] /\ lo[T.right[x]] = x
        BY <2>1, <2>11, <4>1 DEF Bounds
      <4>3. QED
        BY <2>3, <2>11, <4>1, <4>2
    <3>3. QED
      BY <3>1, <3>2
  <2>12. Bounds(V, B, Q, lo2, hi2)
    BY <2>5, <2>6, <2>9, <2>10, <2>11 DEF Bounds
  <2>13. QED
    BY <2>2, <2>12 DEF Ordered
<1>8. StrictOrder(Q, B)
  BY DEF StrictOrder
<1>9. QED
  BY <1>5, <1>6, <1>7, <1>8 DEF SearchTree

------------------------------------------------------------------------------
(* Inserting a node.                                                       *)

(* A node hung on the left of p, between whose bounds it lies.           *)
HungLeft(T, U, A, n, p) ==
  /\ U.root = T.root
  /\ \A x \in A : /\ U.left[x] = IF x = p THEN n ELSE T.left[x]
                 /\ U.right[x] = T.right[x] /\ U.parent[x] = T.parent[x]
  /\ U.left[n] = Nil /\ U.right[n] = Nil /\ U.parent[n] = p

(* A new node below p, between its bounds, keeps the order.                *)
LEMMA HangLeftKeeps ==
  ASSUME NEW A \in SUBSET Timers, NEW T \in TreeType, NEW R, SearchTree(T, A, R),
         StrictOrder(R, A), NEW n \in Timers \ A, NEW R2, StrictOrder(R2, A \cup {n}),
         R \subseteq R2, NEW p \in A, T.left[p] = Nil, <<n, p>> \in R2,
         NEW lo \in [Timers -> Nodes], NEW hi \in [Timers -> Nodes],
         Bounds(T, A, R, lo, hi), lo[p] # Nil => <<lo[p], n>> \in R2,
         NEW U \in TreeType, HungLeft(T, U, A, n, p)
  PROVE  SearchTree(U, A \cup {n}, R2)
<1> DEFINE B == A \cup {n}
<1> USE DEF HungLeft
<1>1. Nil \notin B /\ A \subseteq Timers /\ T.root \in A /\ n \notin A
  BY TreeAssumption DEF SearchTree, Shape
<1>2. ASSUME NEW x \in A
      PROVE  /\ T.left[x] \in A \cup {Nil} /\ T.right[x] \in A \cup {Nil}
             /\ T.left[x] # Nil => T.parent[T.left[x]] = x
             /\ T.right[x] # Nil => T.parent[T.right[x]] = x
             /\ x # T.root => /\ T.parent[x] \in A
                              /\ x \in {T.left[T.parent[x]], T.right[T.parent[x]]}
  BY DEF SearchTree, Shape
<1>3. Shape(U, B)
  <2>1. U.root \in B \cup {Nil} /\ (U.root = Nil <=> B = {})
    BY <1>1
  <2>2. U.root # Nil => U.parent[U.root] = Nil
    BY <1>1 DEF SearchTree, Shape
  <2>3. ASSUME NEW x \in B
        PROVE  /\ U.left[x] \in B \cup {Nil} /\ U.right[x] \in B \cup {Nil}
               /\ U.left[x] # Nil => U.parent[U.left[x]] = x
               /\ U.right[x] # Nil => U.parent[U.right[x]] = x
    <3>1. CASE x = n
      BY <3>1
    <3>2. CASE x # n
      BY <1>1, <1>2, <2>3, <3>2
    <3>3. QED
      BY <3>1, <3>2
  <2>4. ASSUME NEW x \in B, x # U.root
        PROVE  U.parent[x] \in B /\ x \in {U.left[U.parent[x]], U.right[U.parent[x]]}
    <3>1. CASE x = n
      BY <3>1
    <3>2. CASE x # n
      <4>1. x \in A /\ x # Nil /\ U.parent[x] = T.parent[x]
        BY <1>1, <2>4, <3>2
      <4>2. T.parent[x] \in A /\ x \in {T.left[T.parent[x]], T.right[T.parent[x]]}
        BY <1>2, <2>4, <4>1
      <4>3. QED
        BY <4>1, <4>2
    <3>3. QED
      BY <3>1, <3>2
  <2>5. QED
    BY <2>1, <2>2, <2>3, <2>4 DEF Shape
<1>4. Reach(U, B)
  <2>1. SUFFICES ASSUME NEW C \in SUBSET B, U.root \in C, Closed(U, C) PROVE C = B
    BY DEF Reach
  <2> DEFINE D == C \ {n}
  <2>2. ASSUME NEW x \in D PROVE {T.left[x], T.right[x]} \subseteq D \cup {Nil}
    <3>1. x \in A /\ {U.left[x], U.right[x]} \subseteq C \cup {Nil}
      BY <2>1, <2>2 DEF Closed
    <3>2. T.left[x] \in A \cup {Nil} /\ T.right[x] \in A \cup {Nil}
      BY <1>2, <3>1
    <3>3. T.left[x] \in {U.left[x], Nil} /\ T.right[x] = U.right[x]
      BY <3>1
    <3>4. QED
      BY <1>1, <3>1, <3>2, <3>3
  <2>3. D = A
    <3>1. Closed(T, D) /\ D \in SUBSET A /\ T.root \in D
      BY <1>1, <2>1, <2>2 DEF Closed
    <3> HIDE DEF D
    <3>2. QED
      BY <3>1 DEF SearchTree, Reach
  <2>4. n \in C
    BY <1>1, <2>1, <2>3 DEF Closed
  <2>5. QED
    BY <2>1, <2>3, <2>4
<1>5. Ordered(U, B, R2)
  <2> DEFINE lo2 == [lo EXCEPT ![n] = lo[p]]
             hi2 == [hi EXCEPT ![n] = p]
  <2>1. lo2 \in [Timers -> Nodes] /\ hi2 \in [Timers -> Nodes]
    BY <1>1 DEF Nodes
  <2>2. /\ lo2[n] = lo[p] /\ hi2[n] = p
        /\ \A x \in A : lo2[x] = lo[x] /\ hi2[x] = hi[x]
    BY <1>1
  <2> HIDE DEF lo2, hi2
  <2>3. U.root # Nil => lo2[U.root] = Nil /\ hi2[U.root] = Nil
    BY <1>1, <2>2 DEF Bounds
  <2>4. ASSUME NEW x \in B
        PROVE  /\ lo2[x] # Nil => <<lo2[x], x>> \in R2
               /\ hi2[x] # Nil => <<x, hi2[x]>> \in R2
    <3>1. CASE x = n
      BY <2>2, <3>1
    <3>2. CASE x # n
      <4>1. x \in A
        BY <2>4, <3>2
      <4>2. (lo[x] # Nil => <<lo[x], x>> \in R) /\ (hi[x] # Nil => <<x, hi[x]>> \in R)
        BY <4>1 DEF Bounds
      <4>3. QED
        BY <2>2, <4>1, <4>2
    <3>3. QED
      BY <3>1, <3>2
  <2>5. ASSUME NEW x \in B
        PROVE  /\ U.left[x] # Nil => lo2[U.left[x]] = lo2[x] /\ hi2[U.left[x]] = x
               /\ U.right[x] # Nil => lo2[U.right[x]] = x /\ hi2[U.right[x]] = hi2[x]
    <3>1. CASE x = n
      BY <3>1
    <3>2. CASE x # n
      <4>1. x \in A
        BY <2>5, <3>2
      <4>2. /\ T.left[x] # Nil => lo[T.left[x]] = lo[x] /\ hi[T.left[x]] = x
            /\ T.right[x] # Nil => lo[T.right[x]] = x /\ hi[T.right[x]] = hi[x]
        BY <4>1 DEF Bounds
      <4>3. QED
        BY <1>2, <2>2, <4>1, <4>2
    <3>3. QED
      BY <3>1, <3>2
  <2>6. Bounds(U, B, R2, lo2, hi2)
    BY <2>3, <2>4, <2>5 DEF Bounds
  <2>7. QED
    BY <2>1, <2>6 DEF Ordered
<1>6. QED
  BY <1>3, <1>4, <1>5 DEF SearchTree

(* A node hung on the right of p, between whose bounds it lies.          *)
HungRight(T, U, A, n, p) ==
  /\ U.root = T.root
  /\ \A x \in A : /\ U.right[x] = IF x = p THEN n ELSE T.right[x]
                 /\ U.left[x] = T.left[x] /\ U.parent[x] = T.parent[x]
  /\ U.left[n] = Nil /\ U.right[n] = Nil /\ U.parent[n] = p

(* The same on the right of p.                                             *)
LEMMA HangRightKeeps ==
  ASSUME NEW A \in SUBSET Timers, NEW T \in TreeType, NEW R, SearchTree(T, A, R),
         StrictOrder(R, A), NEW n \in Timers \ A, NEW R2, StrictOrder(R2, A \cup {n}),
         R \subseteq R2, NEW p \in A, T.right[p] = Nil, <<p, n>> \in R2,
         NEW lo \in [Timers -> Nodes], NEW hi \in [Timers -> Nodes],
         Bounds(T, A, R, lo, hi), hi[p] # Nil => <<n, hi[p]>> \in R2,
         NEW U \in TreeType, HungRight(T, U, A, n, p)
  PROVE  SearchTree(U, A \cup {n}, R2)
<1> DEFINE B == A \cup {n}
<1> USE DEF HungRight
<1>1. Nil \notin B /\ A \subseteq Timers /\ T.root \in A /\ n \notin A
  BY TreeAssumption DEF SearchTree, Shape
<1>2. ASSUME NEW x \in A
      PROVE  /\ T.left[x] \in A \cup {Nil} /\ T.right[x] \in A \cup {Nil}
             /\ T.left[x] # Nil => T.parent[T.left[x]] = x
             /\ T.right[x] # Nil => T.parent[T.right[x]] = x
             /\ x # T.root => /\ T.parent[x] \in A
                              /\ x \in {T.right[T.parent[x]], T.left[T.parent[x]]}
  BY DEF SearchTree, Shape
<1>3. Shape(U, B)
  <2>1. U.root \in B \cup {Nil} /\ (U.root = Nil <=> B = {})
    BY <1>1
  <2>2. U.root # Nil => U.parent[U.root] = Nil
    BY <1>1 DEF SearchTree, Shape
  <2>3. ASSUME NEW x \in B
        PROVE  /\ U.left[x] \in B \cup {Nil} /\ U.right[x] \in B \cup {Nil}
               /\ U.left[x] # Nil => U.parent[U.left[x]] = x
               /\ U.right[x] # Nil => U.parent[U.right[x]] = x
    <3>1. CASE x = n
      BY <3>1
    <3>2. CASE x # n
      BY <1>1, <1>2, <2>3, <3>2
    <3>3. QED
      BY <3>1, <3>2
  <2>4. ASSUME NEW x \in B, x # U.root
        PROVE  U.parent[x] \in B /\ x \in {U.right[U.parent[x]], U.left[U.parent[x]]}
    <3>1. CASE x = n
      BY <3>1
    <3>2. CASE x # n
      <4>1. x \in A /\ x # Nil /\ U.parent[x] = T.parent[x]
        BY <1>1, <2>4, <3>2
      <4>2. T.parent[x] \in A /\ x \in {T.right[T.parent[x]], T.left[T.parent[x]]}
        BY <1>2, <2>4, <4>1
      <4>3. QED
        BY <4>1, <4>2
    <3>3. QED
      BY <3>1, <3>2
  <2>5. QED
    BY <2>1, <2>2, <2>3, <2>4 DEF Shape
<1>4. Reach(U, B)
  <2>1. SUFFICES ASSUME NEW C \in SUBSET B, U.root \in C, Closed(U, C) PROVE C = B
    BY DEF Reach
  <2> DEFINE D == C \ {n}
  <2>2. ASSUME NEW x \in D PROVE {T.left[x], T.right[x]} \subseteq D \cup {Nil}
    <3>1. x \in A /\ {U.left[x], U.right[x]} \subseteq C \cup {Nil}
      BY <2>1, <2>2 DEF Closed
    <3>2. T.left[x] \in A \cup {Nil} /\ T.right[x] \in A \cup {Nil}
      BY <1>2, <3>1
    <3>3. T.right[x] \in {U.right[x], Nil} /\ T.left[x] = U.left[x]
      BY <3>1
    <3>4. QED
      BY <1>1, <3>1, <3>2, <3>3
  <2>3. D = A
    <3>1. Closed(T, D) /\ D \in SUBSET A /\ T.root \in D
      BY <1>1, <2>1, <2>2 DEF Closed
    <3> HIDE DEF D
    <3>2. QED
      BY <3>1 DEF SearchTree, Reach
  <2>4. n \in C
    BY <1>1, <2>1, <2>3 DEF Closed
  <2>5. QED
    BY <2>1, <2>3, <2>4
<1>5. Ordered(U, B, R2)
  <2> DEFINE hi2 == [hi EXCEPT ![n] = hi[p]]
             lo2 == [lo EXCEPT ![n] = p]
  <2>1. hi2 \in [Timers -> Nodes] /\ lo2 \in [Timers -> Nodes]
    BY <1>1 DEF Nodes
  <2>2. /\ hi2[n] = hi[p] /\ lo2[n] = p
        /\ \A x \in A : hi2[x] = hi[x] /\ lo2[x] = lo[x]
    BY <1>1
  <2> HIDE DEF hi2, lo2
  <2>3. U.root # Nil => lo2[U.root] = Nil /\ hi2[U.root] = Nil
    BY <1>1, <2>2 DEF Bounds
  <2>4. ASSUME NEW x \in B
        PROVE  /\ lo2[x] # Nil => <<lo2[x], x>> \in R2
               /\ hi2[x] # Nil => <<x, hi2[x]>> \in R2
    <3>1. CASE x = n
      BY <2>2, <3>1
    <3>2. CASE x # n
      <4>1. x \in A
        BY <2>4, <3>2
      <4>2. (lo[x] # Nil => <<lo[x], x>> \in R) /\ (hi[x] # Nil => <<x, hi[x]>> \in R)
        BY <4>1 DEF Bounds
      <4>3. QED
        BY <2>2, <4>1, <4>2
    <3>3. QED
      BY <3>1, <3>2
  <2>5. ASSUME NEW x \in B
        PROVE  /\ U.right[x] # Nil => hi2[U.right[x]] = hi2[x] /\ lo2[U.right[x]] = x
               /\ U.left[x] # Nil => hi2[U.left[x]] = x /\ lo2[U.left[x]] = lo2[x]
    <3>1. CASE x = n
      BY <3>1
    <3>2. CASE x # n
      <4>1. x \in A
        BY <2>5, <3>2
      <4>2. /\ T.right[x] # Nil => hi[T.right[x]] = hi[x] /\ lo[T.right[x]] = x
            /\ T.left[x] # Nil => hi[T.left[x]] = x /\ lo[T.left[x]] = lo[x]
        BY <4>1 DEF Bounds
      <4>3. QED
        BY <1>2, <2>2, <4>1, <4>2
    <3>3. QED
      BY <3>1, <3>2
  <2>6. Bounds(U, B, R2, lo2, hi2)
    BY <2>3, <2>4, <2>5 DEF Bounds
  <2>7. QED
    BY <2>1, <2>6 DEF Ordered
<1>6. QED
  BY <1>3, <1>4, <1>5 DEF SearchTree

(* doInsert keeps the search tree: the descent ends at a node between      *)
(* whose bounds the new one lies, where the side it has to go to is free.  *)
Placed(A, n, R, R2) == R \subseteq R2 /\ \A x \in A : Before(n, x) <=> <<n, x>> \in R2

Grafted(T, U, A, n) ==
  /\ U.root = IF A = {} THEN n ELSE T.root
  /\ U.red[n] = TRUE /\ \A x \in A : U.red[x] = T.red[x]
  /\ \A x \in A : U.left[x] \in {T.left[x], n} /\ U.right[x] \in {T.right[x], n}
  /\ U.left[n] = Nil /\ U.right[n] = Nil

LEMMA InsertKeeps ==
  ASSUME NEW A \in SUBSET Timers, NEW T \in TreeType, NEW R, SearchTree(T, A, R),
         StrictOrder(R, A), NEW n \in Timers \ A, NEW R2, StrictOrder(R2, A \cup {n}),
         Placed(A, n, R, R2), NEW U, U = doInsert(T, n)
  PROVE  U \in TreeType /\ SearchTree(U, A \cup {n}, R2) /\ Grafted(T, U, A, n)
<1> SUFFICES ASSUME R \subseteq R2, \A x \in A : Before(n, x) <=> <<n, x>> \in R2
             PROVE  /\ U \in TreeType /\ SearchTree(U, A \cup {n}, R2)
                    /\ U.root = IF A = {} THEN n ELSE T.root
                    /\ U.red[n] = TRUE /\ \A x \in A : U.red[x] = T.red[x]
                    /\ \A x \in A : /\ U.left[x] \in {T.left[x], n}
                                    /\ U.right[x] \in {T.right[x], n}
                    /\ U.left[n] = Nil /\ U.right[n] = Nil
  BY DEF Placed, Grafted
<1> DEFINE fresh == [T EXCEPT !.left[n] = Nil, !.right[n] = Nil, !.red[n] = TRUE]
           p == Descend(T, n)
           hung == [fresh EXCEPT !.parent[n] = p]
           next == [cur \in Timers |-> IF Before(n, cur) THEN T.left[cur] ELSE T.right[cur]]
<1>1. /\ Nil \notin A /\ A \subseteq Timers /\ n \in Timers /\ n \notin A /\ n # Nil
      /\ T.root = Nil <=> A = {}
  BY TreeAssumption DEF SearchTree, Shape
<1>2. /\ fresh \in TreeType /\ fresh.root = T.root /\ fresh.parent = T.parent
      /\ fresh.left = [T.left EXCEPT ![n] = Nil] /\ fresh.right = [T.right EXCEPT ![n] = Nil]
      /\ fresh.red = [T.red EXCEPT ![n] = TRUE]
  BY <1>1 DEF TreeType, Nodes
<1>3. CASE T.root = Nil
  <2>1. U = [fresh EXCEPT !.parent[n] = Nil, !.root = n]
    BY <1>3 DEF doInsert
  <2> HIDE DEF fresh
  <2>2. /\ U \in TreeType /\ U.root = n /\ U.left = fresh.left /\ U.right = fresh.right
        /\ U.red = fresh.red /\ U.parent = [T.parent EXCEPT ![n] = Nil]
    <3> DEFINE H == [fresh EXCEPT !.parent[n] = Nil]
    <3>1. /\ H \in TreeType /\ H.left = fresh.left /\ H.right = fresh.right
          /\ H.red = fresh.red /\ H.parent = [T.parent EXCEPT ![n] = Nil]
      BY <1>1, <1>2 DEF TreeType, Nodes
    <3>2. U = [H EXCEPT !.root = n]
      BY <2>1
    <3> HIDE DEF H
    <3>3. QED
      BY <1>1, <3>1, <3>2 DEF TreeType, Nodes
  <2>3. /\ U.left[n] = Nil /\ U.right[n] = Nil /\ U.parent[n] = Nil /\ U.red[n] = TRUE
    BY <1>1, <1>2, <2>2 DEF TreeType
  <2>4. A = {} /\ A \cup {n} = {n}
    BY <1>1, <1>3
  <2>5. Shape(U, {n}) /\ Reach(U, {n})
    BY <1>1, <2>2, <2>3 DEF Shape, Reach
  <2>6. Ordered(U, {n}, R2)
    <3> DEFINE lo == [x \in Timers |-> Nil]
    <3>1. lo \in [Timers -> Nodes] /\ lo[n] = Nil
      BY <1>1 DEF Nodes
    <3> HIDE DEF lo
    <3>2. Bounds(U, {n}, R2, lo, lo)
      BY <2>2, <2>3, <3>1 DEF Bounds
    <3>3. QED
      BY <3>1, <3>2 DEF Ordered
  <2>7. QED
    BY <2>2, <2>3, <2>4, <2>5, <2>6 DEF SearchTree
<1>4. CASE T.root # Nil
  <2>1. PICK lo \in [Timers -> Nodes], hi \in [Timers -> Nodes] : Bounds(T, A, R, lo, hi)
    BY DEF SearchTree, Ordered
  <2>2. \A x \in A : next[x] = IF <<n, x>> \in R2 THEN T.left[x] ELSE T.right[x]
    BY <1>1
  <2>3. /\ p \in A /\ next[p] = Nil
        /\ \A C \in SUBSET A :
             T.root \in C /\ (\A x \in C : next[x] \in C \cup {Nil}) => p \in C
    <3>1. p = EndOf(next, T.root)
      BY DEF Descend
    <3> HIDE DEF next, p
    <3>2. Walk(A, T.parent, next, T.root)
      BY <1>4, <2>2 DEF Walk, SearchTree, Shape
    <3>3. QED
      BY <3>1, <3>2, WalkEnds
  <2> HIDE DEF next, p
  <2> DEFINE C == {x \in A : /\ lo[x] # Nil => <<lo[x], n>> \in R2
                             /\ hi[x] # Nil => <<n, hi[x]>> \in R2}
  <2>4. p \in C
    <3>1. T.root \in C
      BY <1>4, <2>1 DEF Bounds, SearchTree, Shape
    <3>2. ASSUME NEW x \in C PROVE next[x] \in C \cup {Nil}
      <4>1. CASE <<n, x>> \in R2
        <5>1. next[x] = T.left[x] /\ T.left[x] \in A \cup {Nil}
          BY <2>2, <4>1 DEF SearchTree, Shape
        <5>2. T.left[x] # Nil => lo[T.left[x]] = lo[x] /\ hi[T.left[x]] = x
          BY <2>1 DEF Bounds
        <5>3. QED
          BY <4>1, <5>1, <5>2
      <4>2. CASE <<n, x>> \notin R2
        <5>1. next[x] = T.right[x] /\ T.right[x] \in A \cup {Nil}
          BY <2>2, <4>2 DEF SearchTree, Shape
        <5>2. T.right[x] # Nil => lo[T.right[x]] = x /\ hi[T.right[x]] = hi[x]
          BY <2>1 DEF Bounds
        <5>3. <<x, n>> \in R2
          BY <1>1, <4>2 DEF StrictOrder
        <5>4. QED
          BY <5>1, <5>2, <5>3
      <4>3. QED
        BY <4>1, <4>2
    <3>3. QED
      BY <2>3, <3>1, <3>2
  <2>5. /\ hung \in TreeType /\ hung.root = T.root /\ hung.left = fresh.left
        /\ hung.right = fresh.right /\ hung.red = fresh.red
        /\ hung.parent = [T.parent EXCEPT ![n] = p]
    <3> HIDE DEF fresh
    <3>1. QED
      BY <1>1, <1>2, <2>3 DEF TreeType, Nodes
  <2>6. U = IF Before(n, p) THEN [hung EXCEPT !.left[p] = n] ELSE [hung EXCEPT !.right[p] = n]
    BY <1>4 DEF doInsert, p
  <2> HIDE DEF hung, fresh
  <2>7. CASE Before(n, p)
    <3>1. /\ U \in TreeType /\ U.root = T.root /\ U.left = [hung.left EXCEPT ![p] = n]
          /\ U.right = hung.right /\ U.red = hung.red /\ U.parent = hung.parent
      BY <1>1, <2>3, <2>5, <2>6, <2>7 DEF TreeType, Nodes
    <3>2. \A x \in A : /\ U.left[x] = IF x = p THEN n ELSE T.left[x]
                       /\ U.right[x] = T.right[x] /\ U.parent[x] = T.parent[x]
                       /\ U.red[x] = T.red[x]
      <4>1. ASSUME NEW x \in A
            PROVE  /\ hung.left[x] = T.left[x] /\ hung.right[x] = T.right[x]
                   /\ hung.parent[x] = T.parent[x] /\ hung.red[x] = T.red[x]
        <5>1. /\ T.left \in [Timers -> Nodes] /\ T.right \in [Timers -> Nodes]
              /\ T.parent \in [Timers -> Nodes] /\ T.red \in [Timers -> BOOLEAN]
              /\ x \in Timers /\ x # n
          BY <1>1, <4>1 DEF TreeType
        <5>2. /\ hung.left[x] = T.left[x] /\ hung.right[x] = T.right[x]
              /\ hung.parent[x] = T.parent[x]
          BY <1>2, <2>5, <5>1
        <5>3. hung.red[x] = T.red[x]
          BY <1>2, <2>5, <5>1
        <5>4. QED
          BY <5>2, <5>3
      <4>2. QED
        BY <1>1, <2>3, <2>5, <3>1, <4>1 DEF TreeType
    <3>3. U.left[n] = Nil /\ U.right[n] = Nil /\ U.parent[n] = p /\ U.red[n] = TRUE
      BY <1>1, <1>2, <2>3, <2>5, <3>1 DEF TreeType
    <3>4. <<n, p>> \in R2 /\ T.left[p] = Nil /\ (lo[p] # Nil => <<lo[p], n>> \in R2)
      BY <2>2, <2>3, <2>4, <2>7
    <3>5. SearchTree(U, A \cup {n}, R2)
      <4>1. HungLeft(T, U, A, n, p)
        BY <3>1, <3>2, <3>3 DEF HungLeft
      <4>2. QED
        BY <2>1, <2>3, <3>1, <3>4, <4>1, HangLeftKeeps
    <3>6. QED
      BY <1>1, <1>4, <3>1, <3>2, <3>3, <3>5
  <2>8. CASE ~Before(n, p)
    <3>1. /\ U \in TreeType /\ U.root = T.root /\ U.right = [hung.right EXCEPT ![p] = n]
          /\ U.left = hung.left /\ U.red = hung.red /\ U.parent = hung.parent
      BY <1>1, <2>3, <2>5, <2>6, <2>8 DEF TreeType, Nodes
    <3>2. \A x \in A : /\ U.right[x] = IF x = p THEN n ELSE T.right[x]
                       /\ U.left[x] = T.left[x] /\ U.parent[x] = T.parent[x]
                       /\ U.red[x] = T.red[x]
      <4>1. ASSUME NEW x \in A
            PROVE  /\ hung.left[x] = T.left[x] /\ hung.right[x] = T.right[x]
                   /\ hung.parent[x] = T.parent[x] /\ hung.red[x] = T.red[x]
        <5>1. /\ T.left \in [Timers -> Nodes] /\ T.right \in [Timers -> Nodes]
              /\ T.parent \in [Timers -> Nodes] /\ T.red \in [Timers -> BOOLEAN]
              /\ x \in Timers /\ x # n
          BY <1>1, <4>1 DEF TreeType
        <5>2. /\ hung.left[x] = T.left[x] /\ hung.right[x] = T.right[x]
              /\ hung.parent[x] = T.parent[x]
          BY <1>2, <2>5, <5>1
        <5>3. hung.red[x] = T.red[x]
          BY <1>2, <2>5, <5>1
        <5>4. QED
          BY <5>2, <5>3
      <4>2. QED
        BY <1>1, <2>3, <2>5, <3>1, <4>1 DEF TreeType
    <3>3. U.left[n] = Nil /\ U.right[n] = Nil /\ U.parent[n] = p /\ U.red[n] = TRUE
      BY <1>1, <1>2, <2>3, <2>5, <3>1 DEF TreeType
    <3>4. <<p, n>> \in R2 /\ T.right[p] = Nil /\ (hi[p] # Nil => <<n, hi[p]>> \in R2)
      BY <1>1, <2>2, <2>3, <2>4, <2>8 DEF StrictOrder
    <3>5. SearchTree(U, A \cup {n}, R2)
      <4>1. HungRight(T, U, A, n, p)
        BY <3>1, <3>2, <3>3 DEF HungRight
      <4>2. QED
        BY <2>1, <2>3, <3>1, <3>4, <4>1, HangRightKeeps
    <3>6. QED
      BY <1>1, <1>4, <3>1, <3>2, <3>3, <3>5
  <2>9. QED
    BY <2>7, <2>8
<1>5. QED
  BY <1>3, <1>4

------------------------------------------------------------------------------
(* Colours: at most one red node is the root or has a red parent, f.       *)

Colors(T, A, f) ==
  /\ T.root # Nil /\ T.red[T.root] => T.root = f
  /\ \A x \in A : T.red[x] => /\ Red(T, T.left[x]) => T.left[x] = f
                              /\ Red(T, T.right[x]) => T.right[x] = f

SameLinks(T, U) == /\ U.root = T.root /\ U.left = T.left /\ U.right = T.right
                   /\ U.parent = T.parent

(* A search tree whatever the colours.                                     *)
LEMMA Repaint ==
  ASSUME NEW A, NEW R, NEW T, SearchTree(T, A, R), NEW U, SameLinks(T, U)
  PROVE  SearchTree(U, A, R)
<1>1. Shape(U, A)
  BY DEF SearchTree, Shape, SameLinks
<1>2. Reach(U, A)
  BY DEF SearchTree, Reach, Closed, SameLinks
<1>3. Ordered(U, A, R)
  <2>1. PICK lo \in [Timers -> Nodes], hi \in [Timers -> Nodes] : Bounds(T, A, R, lo, hi)
    BY DEF SearchTree, Ordered
  <2>2. Bounds(U, A, R, lo, hi)
    BY <2>1 DEF Bounds, SameLinks
  <2>3. QED
    BY <2>2 DEF Ordered
<1>4. QED
  BY <1>1, <1>2, <1>3 DEF SearchTree

(* The end of fixViolation: the root is painted black.                     *)
LEMMA FixedKeeps ==
  ASSUME NEW A \in SUBSET Timers, NEW T \in TreeType, NEW R, SearchTree(T, A, R),
         StrictOrder(R, A), NEW f \in A, Colors(T, A, f), ~Violation(T, f),
         NEW U, U = [T EXCEPT !.red[T.root] = FALSE]
  PROVE  U \in TreeType /\ SearchTree(U, A, R) /\ Colors(U, A, Nil)
<1>1. Apart(T, A, R)
  BY Edges
<1>2. T.root \in A /\ T.root \in Timers
  BY DEF SearchTree, Shape
<1>3. U \in TreeType /\ SameLinks(T, U) /\ U.red = [T.red EXCEPT ![T.root] = FALSE]
  BY <1>2 DEF TreeType, SameLinks
<1>4. \A x \in Timers : U.red[x] = IF x = T.root THEN FALSE ELSE T.red[x]
  BY <1>2, <1>3 DEF TreeType
<1>5. ASSUME NEW x \in A, U.red[x], NEW c \in {T.left[x], T.right[x]}, Red(U, c)
      PROVE  FALSE
  <2>1. c \in A /\ c # Nil /\ c # T.root /\ T.parent[c] = x /\ x \in Timers
    BY <1>5, Child DEF Red
  <2>2. T.red[x] /\ T.red[c] /\ U.red[c]
    BY <1>4, <1>5, <2>1 DEF Red
  <2>3. c = f
    BY <1>5, <2>1, <2>2 DEF Colors, Red
  <2>4. QED
    BY <2>1, <2>2, <2>3 DEF Violation
<1>6. Colors(U, A, Nil)
  BY <1>2, <1>3, <1>4, <1>5 DEF Colors, SameLinks
<1>7. QED
  BY <1>3, <1>6, Repaint

(* A red uncle: the red moves to the grandparent, and so does the loop.    *)
LEMMA RecolorKeeps ==
  ASSUME NEW A \in SUBSET Timers, NEW T \in TreeType, NEW R, SearchTree(T, A, R),
         StrictOrder(R, A), NEW f \in A, Colors(T, A, f), f # T.root,
         NEW p \in A, p = T.parent[f], NEW g \in A, g = T.parent[p], NEW uncle,
         {T.left[g], T.right[g]} \subseteq {p, uncle},
         uncle \in {T.left[g], T.right[g]}, Red(T, uncle),
         NEW U, U = Recolor(T, p, g, uncle)
  PROVE  U \in TreeType /\ SearchTree(U, A, R) /\ Colors(U, A, g)
<1>1. Apart(T, A, R)
  BY Edges
<1>2. uncle \in A /\ p \in Timers /\ g \in Timers /\ uncle \in Timers
  BY DEF Red, SearchTree, Shape
<1>3. /\ U \in TreeType /\ SameLinks(T, U)
      /\ U.red = [[[T.red EXCEPT ![g] = TRUE] EXCEPT ![p] = FALSE] EXCEPT ![uncle] = FALSE]
  <2> DEFINE U1 == [T EXCEPT !.red[g] = TRUE]
             U2 == [U1 EXCEPT !.red[p] = FALSE]
             U3 == [U2 EXCEPT !.red[uncle] = FALSE]
  <2>1. U1 \in TreeType /\ SameLinks(T, U1) /\ U1.red = [T.red EXCEPT ![g] = TRUE]
    BY <1>2 DEF TreeType, SameLinks
  <2>2. U = U3
    BY DEF Recolor
  <2> HIDE DEF U1
  <2>3. U2 \in TreeType /\ SameLinks(U1, U2) /\ U2.red = [U1.red EXCEPT ![p] = FALSE]
    BY <1>2, <2>1 DEF TreeType, SameLinks
  <2> HIDE DEF U2
  <2>4. U3 \in TreeType /\ SameLinks(U2, U3) /\ U3.red = [U2.red EXCEPT ![uncle] = FALSE]
    BY <1>2, <2>3 DEF TreeType, SameLinks
  <2> HIDE DEF U3
  <2>5. SameLinks(T, U3)
    BY <2>1, <2>3, <2>4 DEF SameLinks
  <2>6. QED
    BY <2>1, <2>2, <2>3, <2>4, <2>5
<1>4. \A x \in Timers : U.red[x] = IF x \in {p, uncle} THEN FALSE
                                   ELSE IF x = g THEN TRUE ELSE T.red[x]
  <2>1. T.red \in [Timers -> BOOLEAN]
    BY DEF TreeType
  <2>2. QED
    BY <1>2, <1>3, <2>1
<1>5. U.root # Nil /\ U.red[U.root] => U.root = g
  <2>1. U.root = T.root /\ T.root \in Timers
    BY <1>3 DEF SameLinks, SearchTree, Shape
  <2>2. ~T.red[T.root]
    BY <2>1, TreeAssumption DEF Colors
  <2>3. U.red[T.root] = IF T.root \in {p, uncle} THEN FALSE
                        ELSE IF T.root = g THEN TRUE ELSE T.red[T.root]
    BY <1>4, <2>1
  <2>4. QED
    BY <2>1, <2>2, <2>3
<1>6. ASSUME NEW x \in A, U.red[x], NEW c \in {T.left[x], T.right[x]}, Red(U, c)
      PROVE  c = g
  <2>1. c \in A /\ c # Nil /\ T.parent[c] = x /\ x \in Timers
    BY <1>6, Child DEF Red
  <2>2. U.red[c] /\ c \notin {p, uncle} /\ x \notin {p, uncle}
    BY <1>4, <1>6, <2>1 DEF Red
  <2>3. x # g
    BY <1>6, <2>2
  <2>4. SUFFICES ASSUME c # g PROVE FALSE
    OBVIOUS
  <2>5. T.red[x] /\ T.red[c]
    BY <1>4, <1>6, <2>1, <2>2, <2>3, <2>4
  <2>6. c = f
    BY <1>6, <2>1, <2>5 DEF Colors, Red
  <2>7. QED
    BY <2>1, <2>2, <2>6
<1>7. Colors(U, A, g)
  <2>1. U.left = T.left /\ U.right = T.right
    BY <1>3 DEF SameLinks
  <2>2. ASSUME NEW x \in A, U.red[x]
        PROVE  /\ Red(U, U.left[x]) => U.left[x] = g
               /\ Red(U, U.right[x]) => U.right[x] = g
    BY <1>6, <2>1, <2>2
  <2>3. QED
    BY <1>5, <2>2 DEF Colors
<1>8. QED
  BY <1>3, <1>7, Repaint

(* An exchange of two colours.                                             *)
Swapped(T, U, a, b) == \A x \in Timers : U.red[x] = IF x = a THEN T.red[b]
                                                    ELSE IF x = b THEN T.red[a]
                                                    ELSE T.red[x]

(* It leaves the links alone.                                              *)
LEMMA SwapKeeps ==
  ASSUME NEW A \in SUBSET Timers, NEW T \in TreeType, NEW R, SearchTree(T, A, R),
         NEW a \in A, NEW b \in A, a # b, NEW U, U = SwapColors(T, a, b)
  PROVE  /\ U \in TreeType /\ SearchTree(U, A, R) /\ SameLinks(T, U)
         /\ Swapped(T, U, a, b)
<1> DEFINE V == [T EXCEPT !.red[a] = T.red[b]]
<1>1. a \in Timers /\ b \in Timers
  OBVIOUS
<1>2. V \in TreeType /\ SameLinks(T, V) /\ V.red = [T.red EXCEPT ![a] = T.red[b]]
  BY <1>1 DEF TreeType, SameLinks
<1>3. U = [V EXCEPT !.red[b] = T.red[a]]
  BY DEF SwapColors
<1> HIDE DEF V
<1>4. U \in TreeType /\ SameLinks(T, U) /\ U.red = [V.red EXCEPT ![b] = T.red[a]]
  BY <1>1, <1>2, <1>3 DEF TreeType, SameLinks
<1>5. Swapped(T, U, a, b)
  BY <1>1, <1>2, <1>4 DEF TreeType, Swapped
<1>6. QED
  BY <1>4, <1>5, Repaint

(* The parent p, on the left of g and with f on its own left, takes the  *)
(* place of g and its colour: no red node has a red parent any more.       *)
LEMMA OuterLeft ==
  ASSUME NEW A \in SUBSET Timers, NEW T \in TreeType, NEW R, SearchTree(T, A, R),
         StrictOrder(R, A), NEW f \in A, Colors(T, A, f), f # T.root,
         NEW p \in A, NEW g \in A, p = T.left[g], f = T.left[p], T.red[p], ~T.red[g],
         ~Red(T, T.right[g]),
         NEW U, U = SwapColors(rotateRight(T, g), p, g)
  PROVE  U \in TreeType /\ SearchTree(U, A, R) /\ Colors(U, A, p)
<1> DEFINE S == rotateRight(T, g)
<1>1. Apart(T, A, R) /\ A \subseteq Timers /\ Nil \notin A /\ p # Nil
  BY Edges, TreeAssumption
<1>2. S \in TreeType /\ p # g /\ RotatedRight(T, S, g, p) /\ SearchTree(S, A, R)
  BY <1>1, RotateRightFields, RotateRightKeeps
<1> HIDE DEF S
<1>3. /\ U \in TreeType /\ SearchTree(U, A, R) /\ SameLinks(S, U)
      /\ Swapped(S, U, p, g)
  <2>1. U = SwapColors(S, p, g)
    BY DEF S
  <2>2. QED
    BY <1>2, <2>1, SwapKeeps
<1>4. /\ U.root = IF T.root = g THEN p ELSE T.root
      /\ \A x \in A :
           /\ U.red[x] = IF x = p THEN FALSE ELSE IF x = g THEN TRUE ELSE T.red[x]
           /\ U.right[x] = IF x = p THEN g
                        ELSE IF x = T.parent[g] /\ T.right[x] = g THEN p ELSE T.right[x]
           /\ U.left[x] = IF x = g THEN T.right[p]
                       ELSE IF x = T.parent[g] /\ T.right[x] # g THEN p ELSE T.left[x]
  <2>1. T.red \in [Timers -> BOOLEAN]
    BY DEF TreeType
  <2>2. U.root = S.root /\ U.left = S.left /\ U.right = S.right /\ S.red = T.red
    BY <1>2, <1>3 DEF SameLinks, RotatedRight
  <2>3. ASSUME NEW x \in A
        PROVE  U.red[x] = IF x = p THEN FALSE ELSE IF x = g THEN TRUE ELSE T.red[x]
    <3>1. x \in Timers
      BY <1>1
    <3>2. U.red[x] = IF x = p THEN S.red[g] ELSE IF x = g THEN S.red[p] ELSE S.red[x]
      BY <1>3, <3>1 DEF Swapped
    <3>3. T.red[p] = TRUE /\ T.red[g] = FALSE
      BY <1>1, <2>1
    <3>4. QED
      BY <2>2, <3>2, <3>3
  <2>4. ASSUME NEW x \in A
        PROVE  /\ U.right[x] = IF x = p THEN g
                        ELSE IF x = T.parent[g] /\ T.right[x] = g THEN p ELSE T.right[x]
               /\ U.left[x] = IF x = g THEN T.right[p]
                       ELSE IF x = T.parent[g] /\ T.right[x] # g THEN p ELSE T.left[x]
    BY <1>1, <1>2, <2>2 DEF RotatedRight
  <2>5. U.root = IF T.root = g THEN p ELSE T.root
    BY <1>2, <2>2 DEF RotatedRight
  <2>6. QED
    BY <2>3, <2>4, <2>5
<1>5. /\ T.parent[p] = g /\ T.parent[f] = p /\ p # T.root /\ f # p /\ f # g
      /\ T.right[p] # f /\ T.right[p] \notin {p, g} /\ T.right[g] \notin {p, g}
  <2>1. /\ T.parent[p] = g /\ g \notin {T.left[p], T.right[p]} /\ p # T.root
        /\ T.left[g] # T.right[g] /\ g \notin {T.left[g], T.right[g]}
    <3>1. p \in {T.left[g], T.right[g]} /\ g \notin {T.left[g], T.right[g]}
      BY <1>1 DEF Apart
    <3>2. QED
      BY <1>1, <3>1, Child
  <2>2. /\ T.parent[f] = p /\ p \notin {T.left[p], T.right[p]} /\ T.left[p] # T.right[p]
    <3>1. f \in {T.left[p], T.right[p]} /\ p \notin {T.left[p], T.right[p]} /\ f # Nil
      BY <1>1 DEF Apart
    <3>2. QED
      BY <3>1, Child
  <2>3. QED
    BY <2>1, <2>2
<1>6. U.root # Nil /\ U.red[U.root] => U.root = p
  <2>1. T.root \in A
    BY <1>1 DEF SearchTree, Shape
  <2>2. ~T.red[T.root]
    BY <1>1, <2>1 DEF Colors
  <2>3. U.red[T.root] = IF T.root = p THEN FALSE ELSE IF T.root = g THEN TRUE
                        ELSE T.red[T.root]
    BY <1>4, <2>1
  <2>4. U.root = IF T.root = g THEN p ELSE T.root
    BY <1>4
  <2>5. QED
    BY <2>2, <2>3, <2>4
<1>7. ASSUME NEW x \in A, U.red[x], NEW c \in {U.left[x], U.right[x]}, Red(U, c)
      PROVE  FALSE
  <2>1. c \in A /\ c # Nil
    BY <1>3, <1>7, Child DEF Red
  <2>2. U.red[c] /\ c # p /\ x # p
    BY <1>4, <1>7, <2>1 DEF Red
  <2>3. CASE x = g
    <3>1. c \in {T.right[p], T.right[g]}
      BY <1>4, <1>7, <2>2, <2>3
    <3>2. c \notin {p, g} /\ T.red[c]
      BY <1>4, <1>5, <2>1, <2>2, <3>1
    <3>3. CASE c = T.right[g]
      BY <2>1, <3>2, <3>3 DEF Red
    <3>4. CASE c = T.right[p]
      BY <1>5, <2>1, <3>2, <3>4 DEF Colors, Red
    <3>5. QED
      BY <3>1, <3>3, <3>4
  <2>4. CASE x # g
    <3>1. c \in {T.left[x], T.right[x]}
      BY <1>4, <1>7, <2>2, <2>4
    <3>2. T.parent[c] = x
      BY <2>1, <3>1, Child
    <3>3. T.red[x]
      BY <1>4, <1>7, <2>2, <2>4
    <3>4. c # g
      <4>1. SUFFICES ASSUME c = g PROVE FALSE
        OBVIOUS
      <4>2. x = T.parent[g]
        BY <3>2, <4>1
      <4>3. T.left[x] # T.right[x]
        BY <2>1, <3>1, Child
      <4>4. /\ U.right[x] = IF T.right[x] = g THEN p ELSE T.right[x]
            /\ U.left[x] = IF T.right[x] # g THEN p ELSE T.left[x]
        BY <1>4, <2>2, <2>4, <4>2
      <4>5. QED
        BY <1>7, <2>2, <4>1, <4>3, <4>4
    <3>5. T.red[c]
      BY <1>4, <2>1, <2>2, <3>4
    <3>6. c = f
      BY <2>1, <3>1, <3>3, <3>5 DEF Colors, Red
    <3>7. QED
      BY <1>5, <2>2, <3>2, <3>6
  <2>5. QED
    BY <2>3, <2>4
<1>8. Colors(U, A, p)
  BY <1>6, <1>7 DEF Colors
<1>9. QED
  BY <1>3, <1>8

(* f on the other side of p takes the place of p: then p is the node with  *)
(* a red parent, and on the same side of it as f is of g.                  *)
LEMMA InnerLeft ==
  ASSUME NEW A \in SUBSET Timers, NEW T \in TreeType, NEW R, SearchTree(T, A, R),
         StrictOrder(R, A), NEW f \in A, Colors(T, A, f), f # T.root,
         NEW p \in A, NEW g \in A, p = T.left[g], f = T.right[p], T.red[p],
         T.red[f],
         NEW U, U = rotateLeft(T, p)
  PROVE  /\ U \in TreeType /\ SearchTree(U, A, R) /\ Colors(U, A, p) /\ p # U.root
         /\ f = U.left[g] /\ p = U.left[f] /\ U.right[g] = T.right[g] /\ U.red = T.red
<1>1. Apart(T, A, R) /\ A \subseteq Timers /\ Nil \notin A /\ f # Nil
  BY Edges, TreeAssumption
<1>2. U \in TreeType /\ p # f /\ RotatedLeft(T, U, p, f) /\ SearchTree(U, A, R)
  BY <1>1, RotateLeftFields, RotateLeftKeeps
<1>3. /\ T.parent[p] = g /\ T.parent[f] = p /\ p # T.root /\ f # g /\ p # g
      /\ T.left[p] # f /\ T.left[f] # f /\ T.left[f] # p
  <2>1. /\ T.parent[p] = g /\ g \notin {T.left[p], T.right[p]} /\ p # T.root
        /\ g \notin {T.left[g], T.right[g]}
    <3>1. /\ p \in {T.left[g], T.right[g]} /\ g \notin {T.left[g], T.right[g]}
          /\ p # Nil
      BY <1>1 DEF Apart
    <3>2. QED
      BY <3>1, Child
  <2>2. /\ T.parent[f] = p /\ p \notin {T.left[f], T.right[f]} /\ T.left[p] # T.right[p]
        /\ f \notin {T.left[f], T.right[f]}
    <3>1. f \in {T.left[p], T.right[p]} /\ f \notin {T.left[f], T.right[f]}
      BY <1>1 DEF Apart
    <3>2. QED
      BY <1>1, <3>1, Child
  <2>3. QED
    BY <1>1, <2>1, <2>2
<1>4. /\ U.red = T.red /\ U.root = T.root
      /\ \A x \in A :
           /\ U.left[x] = IF x = f THEN p ELSE IF x = g THEN f ELSE T.left[x]
           /\ U.right[x] = IF x = p THEN T.left[f] ELSE T.right[x]
  <2>1. U.red = T.red /\ U.root = T.root
    BY <1>2, <1>3 DEF RotatedLeft
  <2>2. ASSUME NEW x \in A
        PROVE  /\ U.left[x] = IF x = f THEN p ELSE IF x = g THEN f ELSE T.left[x]
               /\ U.right[x] = IF x = p THEN T.left[f] ELSE T.right[x]
    <3>1. x \in Timers
      BY <1>1
    <3>2. /\ U.left[x] = IF x = f THEN p
                        ELSE IF x = T.parent[p] /\ T.left[x] = p THEN f ELSE T.left[x]
          /\ U.right[x] = IF x = p THEN T.left[f]
                        ELSE IF x = T.parent[p] /\ T.left[x] # p THEN f ELSE T.right[x]
      BY <1>2, <3>1 DEF RotatedLeft
    <3>3. T.parent[p] = g /\ T.left[g] = p
      BY <1>3
    <3>4. QED
      BY <3>2, <3>3
  <2>3. QED
    BY <2>1, <2>2
<1>5. Colors(U, A, p)
  <2>1. U.root # Nil /\ U.red[U.root] => U.root = p
    BY <1>4 DEF Colors
  <2>2. ASSUME NEW x \in A, U.red[x], NEW c \in {U.left[x], U.right[x]}, Red(U, c)
        PROVE  c = p
    <3>1. c \in A /\ c # Nil
      BY <1>2, <2>2, Child DEF Red
    <3>2. T.red[x] /\ T.red[c]
      BY <1>4, <2>2 DEF Red
    <3>3. SUFFICES ASSUME c # p PROVE FALSE
      OBVIOUS
    <3>4. x # g
      <4>1. T.red[g] => p = f
        BY <1>1 DEF Colors, Red
      <4>2. QED
        BY <1>2, <3>2, <4>1
    <3>5. CASE c \in {T.left[x], T.right[x]}
      <4>0. c = f
        BY <3>1, <3>2, <3>5 DEF Colors, Red
      <4>1. c = f /\ T.parent[c] = x
        BY <3>1, <3>5, <4>0, Child
      <4>2. x = p
        BY <1>3, <4>1
      <4>3. c \in {T.left[p], T.left[f]}
        BY <1>2, <1>3, <1>4, <2>2, <4>2
      <4>4. QED
        BY <1>3, <4>1, <4>3
    <3>6. CASE c \notin {T.left[x], T.right[x]}
      <4>1. x = p /\ c = T.left[f]
        BY <1>4, <2>2, <3>3, <3>4, <3>6
      <4>2. QED
        BY <1>1, <1>3, <3>1, <3>2, <4>1 DEF Colors, Red
    <3>7. QED
      BY <3>5, <3>6
  <2>3. QED
    BY <2>1, <2>2 DEF Colors
<1>6. /\ f = U.left[g] /\ p = U.left[f] /\ U.right[g] = T.right[g]
      /\ U.red = T.red /\ p # U.root
  <2>1. U.left[g] = f
    BY <1>3, <1>4
  <2>2. U.left[f] = p
    BY <1>4
  <2>3. U.right[g] = T.right[g]
    BY <1>3, <1>4
  <2>4. U.red = T.red /\ p # U.root
    BY <1>3, <1>4
  <2>5. QED
    BY <2>1, <2>2, <2>3, <2>4
<1>7. QED
  BY <1>2, <1>5, <1>6

(* The parent p, on the right of g and with f on its own right, takes the *)
(* place of g and its colour: no red node has a red parent any more.       *)
LEMMA OuterRight ==
  ASSUME NEW A \in SUBSET Timers, NEW T \in TreeType, NEW R, SearchTree(T, A, R),
         StrictOrder(R, A), NEW f \in A, Colors(T, A, f), f # T.root,
         NEW p \in A, NEW g \in A, p = T.right[g], f = T.right[p], T.red[p], ~T.red[g],
         ~Red(T, T.left[g]),
         NEW U, U = SwapColors(rotateLeft(T, g), p, g)
  PROVE  U \in TreeType /\ SearchTree(U, A, R) /\ Colors(U, A, p)
<1> DEFINE S == rotateLeft(T, g)
<1>1. Apart(T, A, R) /\ A \subseteq Timers /\ Nil \notin A /\ p # Nil
  BY Edges, TreeAssumption
<1>2. S \in TreeType /\ p # g /\ RotatedLeft(T, S, g, p) /\ SearchTree(S, A, R)
  BY <1>1, RotateLeftFields, RotateLeftKeeps
<1> HIDE DEF S
<1>3. /\ U \in TreeType /\ SearchTree(U, A, R) /\ SameLinks(S, U)
      /\ Swapped(S, U, p, g)
  <2>1. U = SwapColors(S, p, g)
    BY DEF S
  <2>2. QED
    BY <1>2, <2>1, SwapKeeps
<1>4. /\ U.root = IF T.root = g THEN p ELSE T.root
      /\ \A x \in A :
           /\ U.red[x] = IF x = p THEN FALSE ELSE IF x = g THEN TRUE ELSE T.red[x]
           /\ U.left[x] = IF x = p THEN g
                        ELSE IF x = T.parent[g] /\ T.left[x] = g THEN p ELSE T.left[x]
           /\ U.right[x] = IF x = g THEN T.left[p]
                       ELSE IF x = T.parent[g] /\ T.left[x] # g THEN p ELSE T.right[x]
  <2>1. T.red \in [Timers -> BOOLEAN]
    BY DEF TreeType
  <2>2. U.root = S.root /\ U.left = S.left /\ U.right = S.right /\ S.red = T.red
    BY <1>2, <1>3 DEF SameLinks, RotatedLeft
  <2>3. ASSUME NEW x \in A
        PROVE  U.red[x] = IF x = p THEN FALSE ELSE IF x = g THEN TRUE ELSE T.red[x]
    <3>1. x \in Timers
      BY <1>1
    <3>2. U.red[x] = IF x = p THEN S.red[g] ELSE IF x = g THEN S.red[p] ELSE S.red[x]
      BY <1>3, <3>1 DEF Swapped
    <3>3. T.red[p] = TRUE /\ T.red[g] = FALSE
      BY <1>1, <2>1
    <3>4. QED
      BY <2>2, <3>2, <3>3
  <2>4. ASSUME NEW x \in A
        PROVE  /\ U.left[x] = IF x = p THEN g
                        ELSE IF x = T.parent[g] /\ T.left[x] = g THEN p ELSE T.left[x]
               /\ U.right[x] = IF x = g THEN T.left[p]
                       ELSE IF x = T.parent[g] /\ T.left[x] # g THEN p ELSE T.right[x]
    BY <1>1, <1>2, <2>2 DEF RotatedLeft
  <2>5. U.root = IF T.root = g THEN p ELSE T.root
    BY <1>2, <2>2 DEF RotatedLeft
  <2>6. QED
    BY <2>3, <2>4, <2>5
<1>5. /\ T.parent[p] = g /\ T.parent[f] = p /\ p # T.root /\ f # p /\ f # g
      /\ T.left[p] # f /\ T.left[p] \notin {p, g} /\ T.left[g] \notin {p, g}
  <2>1. /\ T.parent[p] = g /\ g \notin {T.left[p], T.right[p]} /\ p # T.root
        /\ T.left[g] # T.right[g] /\ g \notin {T.left[g], T.right[g]}
    <3>1. p \in {T.left[g], T.right[g]} /\ g \notin {T.left[g], T.right[g]}
      BY <1>1 DEF Apart
    <3>2. QED
      BY <1>1, <3>1, Child
  <2>2. /\ T.parent[f] = p /\ p \notin {T.left[p], T.right[p]} /\ T.left[p] # T.right[p]
    <3>1. f \in {T.left[p], T.right[p]} /\ p \notin {T.left[p], T.right[p]} /\ f # Nil
      BY <1>1 DEF Apart
    <3>2. QED
      BY <3>1, Child
  <2>3. QED
    BY <2>1, <2>2
<1>6. U.root # Nil /\ U.red[U.root] => U.root = p
  <2>1. T.root \in A
    BY <1>1 DEF SearchTree, Shape
  <2>2. ~T.red[T.root]
    BY <1>1, <2>1 DEF Colors
  <2>3. U.red[T.root] = IF T.root = p THEN FALSE ELSE IF T.root = g THEN TRUE
                        ELSE T.red[T.root]
    BY <1>4, <2>1
  <2>4. U.root = IF T.root = g THEN p ELSE T.root
    BY <1>4
  <2>5. QED
    BY <2>2, <2>3, <2>4
<1>7. ASSUME NEW x \in A, U.red[x], NEW c \in {U.left[x], U.right[x]}, Red(U, c)
      PROVE  FALSE
  <2>1. c \in A /\ c # Nil
    BY <1>3, <1>7, Child DEF Red
  <2>2. U.red[c] /\ c # p /\ x # p
    BY <1>4, <1>7, <2>1 DEF Red
  <2>3. CASE x = g
    <3>1. c \in {T.left[p], T.left[g]}
      BY <1>4, <1>7, <2>2, <2>3
    <3>2. c \notin {p, g} /\ T.red[c]
      BY <1>4, <1>5, <2>1, <2>2, <3>1
    <3>3. CASE c = T.left[g]
      BY <2>1, <3>2, <3>3 DEF Red
    <3>4. CASE c = T.left[p]
      BY <1>5, <2>1, <3>2, <3>4 DEF Colors, Red
    <3>5. QED
      BY <3>1, <3>3, <3>4
  <2>4. CASE x # g
    <3>1. c \in {T.left[x], T.right[x]}
      BY <1>4, <1>7, <2>2, <2>4
    <3>2. T.parent[c] = x
      BY <2>1, <3>1, Child
    <3>3. T.red[x]
      BY <1>4, <1>7, <2>2, <2>4
    <3>4. c # g
      <4>1. SUFFICES ASSUME c = g PROVE FALSE
        OBVIOUS
      <4>2. x = T.parent[g]
        BY <3>2, <4>1
      <4>3. T.left[x] # T.right[x]
        BY <2>1, <3>1, Child
      <4>4. /\ U.left[x] = IF T.left[x] = g THEN p ELSE T.left[x]
            /\ U.right[x] = IF T.left[x] # g THEN p ELSE T.right[x]
        BY <1>4, <2>2, <2>4, <4>2
      <4>5. QED
        BY <1>7, <2>2, <4>1, <4>3, <4>4
    <3>5. T.red[c]
      BY <1>4, <2>1, <2>2, <3>4
    <3>6. c = f
      BY <2>1, <3>1, <3>3, <3>5 DEF Colors, Red
    <3>7. QED
      BY <1>5, <2>2, <3>2, <3>6
  <2>5. QED
    BY <2>3, <2>4
<1>8. Colors(U, A, p)
  BY <1>6, <1>7 DEF Colors
<1>9. QED
  BY <1>3, <1>8

(* f on the other side of p takes the place of p: then p is the node with  *)
(* a red parent, and on the same side of it as f is of g.                  *)
LEMMA InnerRight ==
  ASSUME NEW A \in SUBSET Timers, NEW T \in TreeType, NEW R, SearchTree(T, A, R),
         StrictOrder(R, A), NEW f \in A, Colors(T, A, f), f # T.root,
         NEW p \in A, NEW g \in A, p = T.right[g], f = T.left[p], T.red[p],
         T.red[f],
         NEW U, U = rotateRight(T, p)
  PROVE  /\ U \in TreeType /\ SearchTree(U, A, R) /\ Colors(U, A, p) /\ p # U.root
         /\ f = U.right[g] /\ p = U.right[f] /\ U.left[g] = T.left[g] /\ U.red = T.red
<1>1. Apart(T, A, R) /\ A \subseteq Timers /\ Nil \notin A /\ f # Nil
  BY Edges, TreeAssumption
<1>2. U \in TreeType /\ p # f /\ RotatedRight(T, U, p, f) /\ SearchTree(U, A, R)
  BY <1>1, RotateRightFields, RotateRightKeeps
<1>3. /\ T.parent[p] = g /\ T.parent[f] = p /\ p # T.root /\ f # g /\ p # g
      /\ T.right[p] # f /\ T.right[f] # f /\ T.right[f] # p
  <2>1. /\ T.parent[p] = g /\ g \notin {T.left[p], T.right[p]} /\ p # T.root
        /\ g \notin {T.left[g], T.right[g]}
    <3>1. /\ p \in {T.left[g], T.right[g]} /\ g \notin {T.left[g], T.right[g]}
          /\ p # Nil
      BY <1>1 DEF Apart
    <3>2. QED
      BY <3>1, Child
  <2>2. /\ T.parent[f] = p /\ p \notin {T.left[f], T.right[f]} /\ T.left[p] # T.right[p]
        /\ f \notin {T.left[f], T.right[f]}
    <3>1. f \in {T.left[p], T.right[p]} /\ f \notin {T.left[f], T.right[f]}
      BY <1>1 DEF Apart
    <3>2. QED
      BY <1>1, <3>1, Child
  <2>3. QED
    BY <1>1, <2>1, <2>2
<1>4. /\ U.red = T.red /\ U.root = T.root
      /\ \A x \in A :
           /\ U.right[x] = IF x = f THEN p ELSE IF x = g THEN f ELSE T.right[x]
           /\ U.left[x] = IF x = p THEN T.right[f] ELSE T.left[x]
  <2>1. U.red = T.red /\ U.root = T.root
    BY <1>2, <1>3 DEF RotatedRight
  <2>2. ASSUME NEW x \in A
        PROVE  /\ U.right[x] = IF x = f THEN p ELSE IF x = g THEN f ELSE T.right[x]
               /\ U.left[x] = IF x = p THEN T.right[f] ELSE T.left[x]
    <3>1. x \in Timers
      BY <1>1
    <3>2. /\ U.right[x] = IF x = f THEN p
                        ELSE IF x = T.parent[p] /\ T.right[x] = p THEN f ELSE T.right[x]
          /\ U.left[x] = IF x = p THEN T.right[f]
                        ELSE IF x = T.parent[p] /\ T.right[x] # p THEN f ELSE T.left[x]
      BY <1>2, <3>1 DEF RotatedRight
    <3>3. T.parent[p] = g /\ T.right[g] = p
      BY <1>3
    <3>4. QED
      BY <3>2, <3>3
  <2>3. QED
    BY <2>1, <2>2
<1>5. Colors(U, A, p)
  <2>1. U.root # Nil /\ U.red[U.root] => U.root = p
    BY <1>4 DEF Colors
  <2>2. ASSUME NEW x \in A, U.red[x], NEW c \in {U.left[x], U.right[x]}, Red(U, c)
        PROVE  c = p
    <3>1. c \in A /\ c # Nil
      BY <1>2, <2>2, Child DEF Red
    <3>2. T.red[x] /\ T.red[c]
      BY <1>4, <2>2 DEF Red
    <3>3. SUFFICES ASSUME c # p PROVE FALSE
      OBVIOUS
    <3>4. x # g
      <4>1. T.red[g] => p = f
        BY <1>1 DEF Colors, Red
      <4>2. QED
        BY <1>2, <3>2, <4>1
    <3>5. CASE c \in {T.left[x], T.right[x]}
      <4>0. c = f
        BY <3>1, <3>2, <3>5 DEF Colors, Red
      <4>1. c = f /\ T.parent[c] = x
        BY <3>1, <3>5, <4>0, Child
      <4>2. x = p
        BY <1>3, <4>1
      <4>3. c \in {T.right[p], T.right[f]}
        BY <1>2, <1>3, <1>4, <2>2, <4>2
      <4>4. QED
        BY <1>3, <4>1, <4>3
    <3>6. CASE c \notin {T.left[x], T.right[x]}
      <4>1. x = p /\ c = T.right[f]
        BY <1>4, <2>2, <3>3, <3>4, <3>6
      <4>2. QED
        BY <1>1, <1>3, <3>1, <3>2, <4>1 DEF Colors, Red
    <3>7. QED
      BY <3>5, <3>6
  <2>3. QED
    BY <2>1, <2>2 DEF Colors
<1>6. /\ f = U.right[g] /\ p = U.right[f] /\ U.left[g] = T.left[g]
      /\ U.red = T.red /\ p # U.root
  <2>1. U.right[g] = f
    BY <1>3, <1>4
  <2>2. U.right[f] = p
    BY <1>4
  <2>3. U.left[g] = T.left[g]
    BY <1>3, <1>4
  <2>4. U.red = T.red /\ p # U.root
    BY <1>3, <1>4
  <2>5. QED
    BY <2>1, <2>2, <2>3, <2>4
<1>7. QED
  BY <1>2, <1>5, <1>6

(* One iteration of fixViolation.                                          *)
LEMMA FixKeeps ==
  ASSUME NEW A \in SUBSET Timers, NEW T \in TreeType, NEW R, SearchTree(T, A, R),
         StrictOrder(R, A), NEW f \in A, Colors(T, A, f), Violation(T, f),
         NEW E, E = fixViolation(T, f)
  PROVE  E.t \in TreeType /\ E.fix \in A /\ SearchTree(E.t, A, R) /\ Colors(E.t, A, E.fix)
<1> DEFINE p == T.parent[f]
           g == T.parent[p]
<1>1. Apart(T, A, R) /\ A \subseteq Timers /\ Nil \notin A
  BY Edges, TreeAssumption
<1>2. f # T.root /\ T.red[f] /\ T.red[p]
  BY DEF Violation
<1>3. p \in A /\ f \in {T.left[p], T.right[p]} /\ f # p
  <2>1. p \in A /\ f \in {T.left[p], T.right[p]}
    BY <1>2 DEF SearchTree, Shape
  <2>2. QED
    BY <1>1, <2>1 DEF Apart
<1>4. p # T.root
  <2>1. T.root # Nil
    BY <1>1, <1>3 DEF SearchTree, Shape
  <2>2. QED
    BY <1>2, <1>3, <2>1 DEF Colors
<1>5. g \in A /\ p \in {T.left[g], T.right[g]} /\ T.left[g] # T.right[g]
  <2>1. g \in A /\ p \in {T.left[g], T.right[g]}
    BY <1>3, <1>4 DEF SearchTree, Shape
  <2>2. QED
    BY <1>1, <1>3, <2>1 DEF Apart
<1> HIDE DEF g
<1>6. ~T.red[g]
  BY <1>1, <1>2, <1>3, <1>5 DEF Colors, Red
<1>7. p # g /\ f # g
  BY <1>1, <1>3, <1>5 DEF Apart
<1> DEFINE uncle == IF p = T.left[g] THEN T.right[g] ELSE T.left[g]
<1>8. E = IF Red(T, uncle) THEN [t |-> Recolor(T, p, g, uncle), fix |-> g]
          ELSE RotateUp(T, f, p, g)
  BY DEF fixViolation, g
<1>9. CASE Red(T, uncle)
  <2>1. E.t = Recolor(T, p, g, uncle) /\ E.fix = g
    BY <1>8, <1>9
  <2>2. /\ {T.left[g], T.right[g]} \subseteq {p, uncle}
        /\ uncle \in {T.left[g], T.right[g]}
    BY <1>5
  <2>3. g = T.parent[p] /\ p = T.parent[f]
    BY DEF g
  <2> HIDE DEF uncle, p
  <2>4. E.t \in TreeType /\ SearchTree(E.t, A, R) /\ Colors(E.t, A, g)
    BY <1>2, <1>3, <1>5, <1>9, <2>1, <2>2, <2>3, RecolorKeeps
  <2>5. QED
    BY <1>5, <2>1, <2>4
<1>10. CASE ~Red(T, uncle)
  <2>1. E = RotateUp(T, f, p, g)
    BY <1>8, <1>10
  <2>2. CASE p = T.left[g]
    <3>1. ~Red(T, T.right[g])
      BY <1>10, <2>2
    <3> HIDE DEF uncle, p
    <3>2. CASE f # T.right[p]
      <4>1. E.t = SwapColors(rotateRight(T, g), p, g) /\ E.fix = p
        BY <2>1, <2>2, <3>2 DEF RotateUp
      <4>2. f = T.left[p]
        BY <1>3, <3>2
      <4>3. E.t \in TreeType /\ SearchTree(E.t, A, R) /\ Colors(E.t, A, p)
        BY <1>2, <1>3, <1>5, <1>6, <2>2, <3>1, <4>1, <4>2, OuterLeft
      <4>4. QED
        BY <1>3, <4>1, <4>3
    <3>3. CASE f = T.right[p]
      <4> DEFINE S == rotateLeft(T, p)
      <4>1. E.t = SwapColors(rotateRight(S, g), f, g) /\ E.fix = f
        BY <2>1, <2>2, <3>3 DEF RotateUp
      <4>2. /\ S \in TreeType /\ SearchTree(S, A, R) /\ Colors(S, A, p) /\ p # S.root
            /\ f = S.left[g] /\ p = S.left[f] /\ S.right[g] = T.right[g] /\ S.red = T.red
        BY <1>2, <1>3, <1>5, <2>2, <3>3, InnerLeft
      <4> HIDE DEF S
      <4>3. S.red[f] /\ ~S.red[g] /\ ~Red(S, S.right[g])
        BY <1>2, <1>6, <3>1, <4>2 DEF Red
      <4>4. E.t \in TreeType /\ SearchTree(E.t, A, R) /\ Colors(E.t, A, f)
        BY <1>3, <1>5, <4>1, <4>2, <4>3, OuterLeft
      <4>5. QED
        BY <4>1, <4>4
    <3>4. QED
      BY <3>2, <3>3
  <2>3. CASE p # T.left[g]
    <3>1. ~Red(T, T.left[g]) /\ p = T.right[g]
      BY <1>5, <1>10, <2>3
    <3> HIDE DEF uncle, p
    <3>2. CASE f # T.left[p]
      <4>1. E.t = SwapColors(rotateLeft(T, g), p, g) /\ E.fix = p
        BY <2>1, <2>3, <3>2 DEF RotateUp
      <4>2. f = T.right[p]
        BY <1>3, <3>2
      <4>3. E.t \in TreeType /\ SearchTree(E.t, A, R) /\ Colors(E.t, A, p)
        BY <1>2, <1>3, <1>5, <1>6, <3>1, <4>1, <4>2, OuterRight
      <4>4. QED
        BY <1>3, <4>1, <4>3
    <3>3. CASE f = T.left[p]
      <4> DEFINE S == rotateRight(T, p)
      <4>1. E.t = SwapColors(rotateLeft(S, g), f, g) /\ E.fix = f
        BY <2>1, <2>3, <3>3 DEF RotateUp
      <4>2. /\ S \in TreeType /\ SearchTree(S, A, R) /\ Colors(S, A, p) /\ p # S.root
            /\ f = S.right[g] /\ p = S.right[f] /\ S.left[g] = T.left[g] /\ S.red = T.red
        BY <1>2, <1>3, <1>5, <3>1, <3>3, InnerRight
      <4> HIDE DEF S
      <4>3. S.red[f] /\ ~S.red[g] /\ ~Red(S, S.left[g])
        BY <1>2, <1>6, <3>1, <4>2 DEF Red
      <4>4. E.t \in TreeType /\ SearchTree(E.t, A, R) /\ Colors(E.t, A, f)
        BY <1>3, <1>5, <4>1, <4>2, <4>3, OuterRight
      <4>5. QED
        BY <4>1, <4>4
    <3>4. QED
      BY <3>2, <3>3
  <2>4. QED
    BY <2>2, <2>3
<1>11. QED
  BY <1>9, <1>10

(* The colours after an insertion and after an erasure.                    *)
LEMMA InsertColors ==
  ASSUME NEW A \in SUBSET Timers, NEW T, Colors(T, A, Nil), T.root # Nil <=> A # {},
         T.root \in A \cup {Nil}, NEW n \in Timers \ A, NEW U,
         U.root = IF A = {} THEN n ELSE T.root,
         \A x \in A : U.red[x] = T.red[x],
         \A x \in A : U.left[x] \in {T.left[x], n} /\ U.right[x] \in {T.right[x], n},
         \A x \in A : T.left[x] \in A \cup {Nil} /\ T.right[x] \in A \cup {Nil},
         U.left[n] = Nil, U.right[n] = Nil
  PROVE  Colors(U, A \cup {n}, n)
<1>1. U.root # Nil /\ U.red[U.root] => U.root = n
  BY TreeAssumption DEF Colors
<1>2. ASSUME NEW x \in A \cup {n}, U.red[x]
      PROVE  /\ Red(U, U.left[x]) => U.left[x] = n
             /\ Red(U, U.right[x]) => U.right[x] = n
  <2>1. CASE x = n
    BY <2>1 DEF Red
  <2>2. CASE x # n
    <3>1. x \in A /\ T.red[x] /\ Nil \notin A
      BY <1>2, <2>2, TreeAssumption
    <3>2. ~Red(T, T.left[x]) /\ ~Red(T, T.right[x])
      BY <3>1 DEF Colors, Red
    <3>3. QED
      BY <3>1, <3>2 DEF Red
  <2>3. QED
    BY <2>1, <2>2
<1>3. QED
  BY <1>1, <1>2 DEF Colors

Resumes(T, A, f) == f \in A \cup {Nil} /\ Colors(T, A, f)

(* What is left behind, and where the loop starts.                         *)
LEMMA EraseColors ==
  ASSUME NEW A \in SUBSET Timers, NEW T \in TreeType, NEW R, SearchTree(T, A, R),
         StrictOrder(R, A), Colors(T, A, Nil), NEW d \in A, ~TwoChildren(T, d),
         NEW V, V = Forget(doErase(T, d).t, d), NEW f, f = doErase(T, d).fix
  PROVE  Resumes(V, A \ {d}, f)
<1> DEFINE c == OnlyChild(T, d)
           p == T.parent[d]
<1>1. Apart(T, A, R) /\ A \subseteq Timers /\ Nil \notin A
  BY Edges, TreeAssumption
<1>2. /\ Unlinked(T, V, A, d, c)
      /\ f = IF T.red[d] \/ V.root = Nil THEN Nil ELSE IF c # Nil THEN c ELSE p
  BY EraseFields
<1>3. c \in A \cup {Nil} /\ c # d /\ d # Nil
  <2>1. T.left[d] \in A \cup {Nil} /\ T.right[d] \in A \cup {Nil}
    BY DEF SearchTree, Shape
  <2>2. d \notin {T.left[d], T.right[d]} /\ d # Nil
    BY <1>1 DEF Apart
  <2>3. QED
    BY <2>1, <2>2 DEF OnlyChild
<1>4. T.root # d => p \in A \ {d} /\ d \in {T.left[p], T.right[p]}
  <2>1. T.root # d => p \in A /\ d \in {T.left[p], T.right[p]}
    BY DEF SearchTree, Shape
  <2>2. QED
    BY <1>1, <2>1 DEF Apart
<1>5. T.root \in A /\ ~T.red[T.root]
  BY <1>1 DEF Colors, SearchTree, Shape
<1>6. T.red[d] => /\ d # T.root /\ ~T.red[p] /\ ~Red(T, c)
  <2>1. T.red[d] => d # T.root
    BY <1>5
  <2>2. T.red[d] => ~T.red[p]
    BY <1>1, <1>3, <1>4, <2>1 DEF Colors, Red
  <2>3. T.red[d] => ~Red(T, T.left[d]) /\ ~Red(T, T.right[d])
    BY <1>1 DEF Colors, Red
  <2>4. QED
    BY <2>1, <2>2, <2>3 DEF OnlyChild
<1> HIDE DEF c, p
<1>7. V.root = IF T.root = d THEN c ELSE T.root
  BY <1>2 DEF Unlinked
<1>8. f \in (A \ {d}) \cup {Nil}
  <2>1. SUFFICES ASSUME f # Nil PROVE f \in A \ {d}
    OBVIOUS
  <2>2. V.root # Nil /\ f = IF c # Nil THEN c ELSE p
    BY <1>2, <2>1
  <2>3. QED
    BY <1>3, <1>4, <1>7, <2>2
<1>9. V.root # Nil /\ V.red[V.root] => V.root = f
  <2>1. SUFFICES ASSUME V.root # Nil, V.red[V.root] PROVE V.root = f
    OBVIOUS
  <2>2. T.root # d => V.red[V.root] = T.red[T.root]
    BY <1>2, <1>5, <1>7 DEF Unlinked
  <2>3. T.root = d /\ V.root = c
    BY <1>5, <1>7, <2>1, <2>2
  <2>4. QED
    BY <1>2, <1>5, <2>1, <2>3
<1>10. ASSUME NEW x \in A \ {d}, V.red[x], NEW y \in {V.left[x], V.right[x]}, Red(V, y)
       PROVE  y = f
  <2>0. T.red[x] /\ y # Nil /\ V.red[y]
    BY <1>2, <1>10 DEF Unlinked, Red
  <2>1. CASE y \in {T.left[x], T.right[x]} /\ y # d
    <3>1. y \in A
      BY <2>0, <2>1 DEF SearchTree, Shape
    <3>2. T.red[y]
      BY <1>2, <2>0, <2>1, <3>1 DEF Unlinked
    <3>3. QED
      BY <1>1, <2>0, <2>1, <3>1, <3>2 DEF Colors, Red
  <2>2. CASE ~(y \in {T.left[x], T.right[x]} /\ y # d)
    <3>1. /\ V.left[x] = IF x = p /\ T.left[x] = d THEN c ELSE T.left[x]
          /\ V.right[x] = IF x = p /\ T.left[x] # d THEN c ELSE T.right[x]
      BY <1>2 DEF Unlinked, p
    <3>2. T.left[x] = d => x = p
      BY <1>3, <1>10, Child DEF p
    <3>3. T.right[x] = d => x = p /\ T.left[x] # d
      BY <1>3, <1>10, Child DEF p
    <3>4. x = p /\ y = c
      BY <1>10, <2>2, <3>1, <3>2, <3>3
    <3>5. V.red[c] = T.red[c]
      BY <1>2, <1>3, <2>0, <3>4 DEF Unlinked
    <3>6. ~T.red[d]
      BY <1>6, <2>0, <3>4, <3>5
    <3>7. V.root # Nil
      BY <1>3, <1>5, <1>7, <2>0, <3>4, <1>1
    <3>8. QED
      BY <1>2, <2>0, <3>4, <3>6, <3>7
  <2>3. QED
    BY <2>1, <2>2
<1>11. Colors(V, A \ {d}, f)
  BY <1>9, <1>10 DEF Colors
<1>12. QED
  BY <1>8, <1>11 DEF Resumes

------------------------------------------------------------------------------
(* The order the tree keeps: by mExpires, and as armed among equals.       *)

LessOf(e, s) ==
  {r \in SeqSet(s) \X SeqSet(s) :
     \/ e[r[1]] < e[r[2]]
     \/ /\ e[r[1]] = e[r[2]]
        /\ \E i, j \in 1..Len(s) : i < j /\ s[i] = r[1] /\ s[j] = r[2]}

(* The order in terms of positions.                                        *)
LEMMA LessAt ==
  ASSUME NEW e \in [Timers -> Nat], NEW s \in Seq(Timers), Injective(s),
         NEW i \in 1..Len(s), NEW j \in 1..Len(s)
  PROVE  <<s[i], s[j]>> \in LessOf(e, s)
           <=> e[s[i]] < e[s[j]] \/ (e[s[i]] = e[s[j]] /\ i < j)
<1>1. s[i] \in SeqSet(s) /\ s[j] \in SeqSet(s)
  BY DEF SeqSet
<1>2. (\E k, l \in 1..Len(s) : k < l /\ s[k] = s[i] /\ s[l] = s[j]) <=> i < j
  BY DEF Injective
<1>3. <<s[i], s[j]>> \in LessOf(e, s)
        <=> \/ e[s[i]] < e[s[j]]
            \/ /\ e[s[i]] = e[s[j]]
               /\ \E k, l \in 1..Len(s) : k < l /\ s[k] = s[i] /\ s[l] = s[j]
  BY <1>1 DEF LessOf
<1>4. QED
  BY <1>2, <1>3

(* It is a strict total order of the armed timers.                         *)
LEMMA LessStrict ==
  ASSUME NEW e \in [Timers -> Nat], NEW s \in Seq(Timers), Injective(s)
  PROVE  StrictOrder(LessOf(e, s), SeqSet(s))
<1>1. \A i \in 1..Len(s) : s[i] \in Timers /\ e[s[i]] \in Nat /\ i \in Nat
  OBVIOUS
<1>2. \A i, j \in 1..Len(s) : <<s[i], s[j]>> \in LessOf(e, s)
           <=> e[s[i]] < e[s[j]] \/ (e[s[i]] = e[s[j]] /\ i < j)
  BY LessAt
<1>3. LessOf(e, s) \subseteq SeqSet(s) \X SeqSet(s)
  BY DEF LessOf
<1>4. ASSUME NEW x \in SeqSet(s) PROVE <<x, x>> \notin LessOf(e, s)
  <2>1. PICK i \in 1..Len(s) : x = s[i]
    BY DEF SeqSet
  <2>2. <<s[i], s[i]>> \in LessOf(e, s)
           <=> e[s[i]] < e[s[i]] \/ (e[s[i]] = e[s[i]] /\ i < i)
    BY <1>2
  <2>3. QED
    BY <1>1, <2>1, <2>2
<1>5. ASSUME NEW x \in SeqSet(s), NEW y \in SeqSet(s), NEW z \in SeqSet(s),
             <<x, y>> \in LessOf(e, s), <<y, z>> \in LessOf(e, s)
      PROVE  <<x, z>> \in LessOf(e, s)
  <2>1. PICK i \in 1..Len(s), j \in 1..Len(s), k \in 1..Len(s) :
             x = s[i] /\ y = s[j] /\ z = s[k]
    BY DEF SeqSet
  <2>2. /\ e[s[i]] < e[s[j]] \/ (e[s[i]] = e[s[j]] /\ i < j)
        /\ e[s[j]] < e[s[k]] \/ (e[s[j]] = e[s[k]] /\ j < k)
    BY <1>2, <1>5, <2>1
  <2>3. e[s[i]] < e[s[k]] \/ (e[s[i]] = e[s[k]] /\ i < k)
    <3>1. e[s[i]] \in Nat /\ e[s[j]] \in Nat /\ e[s[k]] \in Nat
      BY <1>1
    <3>2. i \in Nat /\ j \in Nat /\ k \in Nat
      OBVIOUS
    <3>3. QED
      BY <2>2, <3>1, <3>2
  <2>4. QED
    BY <1>2, <2>1, <2>3
<1>6. ASSUME NEW x \in SeqSet(s), NEW y \in SeqSet(s)
      PROVE  x = y \/ <<x, y>> \in LessOf(e, s) \/ <<y, x>> \in LessOf(e, s)
  <2>1. PICK i \in 1..Len(s), j \in 1..Len(s) : x = s[i] /\ y = s[j]
    BY DEF SeqSet
  <2>2. \/ i = j
        \/ e[s[i]] < e[s[j]] \/ (e[s[i]] = e[s[j]] /\ i < j)
        \/ e[s[j]] < e[s[i]] \/ (e[s[j]] = e[s[i]] /\ j < i)
    <3>1. e[s[i]] \in Nat /\ e[s[j]] \in Nat
      BY <1>1
    <3>2. i \in Nat /\ j \in Nat
      OBVIOUS
    <3>3. QED
      BY <3>1, <3>2
  <2>3. QED
    BY <1>2, <2>1, <2>2
<1>7. QED
  BY <1>3, <1>4, <1>5, <1>6 DEF StrictOrder

(* A timer is armed: it comes before those that expire later.              *)
Grown(s, n, q) == /\ Len(q) = Len(s) + 1 /\ q[Len(s) + 1] = n
                  /\ \A i \in 1..Len(s) : q[i] = s[i]

SameOn(B, e, d) == \A x \in B : d[x] = e[x]

LEMMA LessGrows ==
  ASSUME NEW e \in [Timers -> Nat], NEW s \in Seq(Timers), Injective(s),
         NEW n \in Timers, n \notin SeqSet(s),
         NEW d \in [Timers -> Nat], SameOn(SeqSet(s), e, d),
         NEW q \in Seq(Timers), Grown(s, n, q)
  PROVE  /\ Injective(q) /\ SeqSet(q) = SeqSet(s) \cup {n}
         /\ LessOf(e, s) \subseteq LessOf(d, q)
         /\ \A x \in SeqSet(s) : d[n] < d[x] <=> <<n, x>> \in LessOf(d, q)
<1>0. SeqSet(s) \subseteq Timers
  BY DEF SeqSet
<1>1. Len(s) \in Nat /\ SameOn(SeqSet(s), e, d)
  OBVIOUS
<1>2. /\ Len(q) = Len(s) + 1 /\ q[Len(s) + 1] = n
      /\ \A i \in 1..Len(s) : q[i] = s[i]
  BY DEF Grown
<1>3. 1..Len(q) = 1..Len(s) \cup {Len(s) + 1} /\ Len(s) + 1 \notin 1..Len(s)
  BY <1>1, <1>2
<1>4. SeqSet(q) = SeqSet(s) \cup {n}
  <2>1. ASSUME NEW i \in 1..Len(q) PROVE q[i] \in SeqSet(s) \cup {n}
    BY <1>2, <1>3 DEF SeqSet
  <2>2. SeqSet(s) \subseteq SeqSet(q)
    BY <1>2, <1>3 DEF SeqSet
  <2>3. n \in SeqSet(q)
    BY <1>2, <1>3 DEF SeqSet
  <2>4. QED
    BY <2>1, <2>2, <2>3 DEF SeqSet
<1>5. Injective(q)
  <2>1. ASSUME NEW i \in 1..Len(q), NEW j \in 1..Len(q), q[i] = q[j] PROVE i = j
    <3>1. \A k \in 1..Len(s) : q[k] # n
      BY <1>2 DEF SeqSet
    <3>2. CASE i \in 1..Len(s) /\ j \in 1..Len(s)
      BY <1>2, <2>1, <3>2 DEF Injective
    <3>3. CASE ~(i \in 1..Len(s) /\ j \in 1..Len(s))
      BY <1>2, <1>3, <2>1, <3>1, <3>3
    <3>4. QED
      BY <3>2, <3>3
  <2>2. QED
    BY <2>1 DEF Injective
<1>6. ASSUME NEW r \in LessOf(e, s) PROVE r \in LessOf(d, q)
  <2>1. r \in SeqSet(s) \X SeqSet(s)
    BY DEF LessOf
  <2>2. PICK i \in 1..Len(s), j \in 1..Len(s) : r = <<s[i], s[j]>>
    <3>1. PICK x \in SeqSet(s), y \in SeqSet(s) : r = <<x, y>>
      BY <2>1
    <3>2. QED
      BY <3>1 DEF SeqSet
  <2>3. e[s[i]] < e[s[j]] \/ (e[s[i]] = e[s[j]] /\ i < j)
    BY <1>6, <2>2, LessAt
  <2>4. /\ i \in 1..Len(q) /\ j \in 1..Len(q) /\ q[i] = s[i] /\ q[j] = s[j]
        /\ d[q[i]] = e[s[i]] /\ d[q[j]] = e[s[j]]
    BY <1>1, <1>2, <1>3 DEF SeqSet, SameOn
  <2>5. <<q[i], q[j]>> \in LessOf(d, q)
    <3>1. <<q[i], q[j]>> \in LessOf(d, q)
            <=> d[q[i]] < d[q[j]] \/ (d[q[i]] = d[q[j]] /\ i < j)
      BY <1>5, <2>4, LessAt
    <3>2. QED
      BY <2>3, <2>4, <3>1
  <2>6. QED
    BY <2>2, <2>4, <2>5
<1>7. ASSUME NEW x \in SeqSet(s) PROVE d[n] < d[x] <=> <<n, x>> \in LessOf(d, q)
  <2>1. PICK j \in 1..Len(s) : x = s[j]
    BY DEF SeqSet
  <2>2. Len(s) + 1 \in 1..Len(q) /\ j \in 1..Len(q) /\ ~(Len(s) + 1 < j) /\ q[j] = x
    <3>1. q[j] = x
      BY <1>2, <2>1
    <3>2. Len(s) + 1 \in 1..Len(q) /\ j \in 1..Len(q)
      BY <1>3
    <3>3. j \in Nat /\ j <= Len(s)
      BY <1>1
    <3>4. QED
      BY <1>1, <3>1, <3>2, <3>3
  <2>3. <<q[Len(s) + 1], q[j]>> \in LessOf(d, q)
           <=> d[q[Len(s) + 1]] < d[q[j]] \/ (d[q[Len(s) + 1]] = d[q[j]] /\ Len(s) + 1 < j)
    BY <1>5, <2>2, LessAt
  <2>4. QED
    BY <1>2, <2>2, <2>3
<1>8. QED
  BY <1>4, <1>5, <1>6, <1>7

Shrunk(s, k, q) == /\ Len(q) = Len(s) - 1
                   /\ \A i \in 1..Len(q) : q[i] = IF i < k THEN s[i] ELSE s[i + 1]

(* What is left when the k-th of a sequence is removed.                    *)
LEMMA RemovedAt ==
  ASSUME NEW D, NEW s \in Seq(D), NEW k \in 1..Len(s), NEW t, t = Ext!RemoveAt(s, k)
  PROVE  t \in Seq(D) /\ Shrunk(s, k, t)
<1> DEFINE a == SubSeq(s, 1, k - 1)
           b == SubSeq(s, k + 1, Len(s))
<1>1. Len(s) \in Nat /\ k \in Nat
  OBVIOUS
<1>2. a \in Seq(D) /\ Len(a) = k - 1 /\ \A i \in 1..(k - 1) : a[i] = s[i]
  <2>1. 1 \in Int /\ k - 1 \in Int /\ \A i \in 1..(k - 1) : s[i] \in D
    BY <1>1
  <2>2. /\ a \in Seq(D) /\ Len(a) = IF 1 <= k - 1 THEN k - 1 - 1 + 1 ELSE 0
        /\ \A i \in 1..(k - 1 - 1 + 1) : a[i] = s[1 + i - 1]
    BY <2>1, SubSeqProperties
  <2>3. \A i \in 1..(k - 1) : i \in 1..(k - 1 - 1 + 1) /\ 1 + i - 1 = i
    BY <1>1
  <2> HIDE DEF a
  <2>4. QED
    BY <1>1, <2>2, <2>3
<1>3. b \in Seq(D) /\ Len(b) = Len(s) - k /\ \A i \in 1..(Len(s) - k) : b[i] = s[k + i]
  <2>1. k + 1 \in Int /\ Len(s) \in Int /\ \A i \in (k + 1)..Len(s) : s[i] \in D
    BY <1>1
  <2>2. /\ b \in Seq(D)
        /\ Len(b) = IF k + 1 <= Len(s) THEN Len(s) - (k + 1) + 1 ELSE 0
        /\ \A i \in 1..(Len(s) - (k + 1) + 1) : b[i] = s[k + 1 + i - 1]
    BY <2>1, SubSeqProperties
  <2>3. \A i \in 1..(Len(s) - k) : i \in 1..(Len(s) - (k + 1) + 1) /\ k + 1 + i - 1 = k + i
    BY <1>1
  <2> HIDE DEF b
  <2>4. QED
    BY <1>1, <2>2, <2>3
<1>4. t = a \o b
  BY DEF Ext!RemoveAt
<1> HIDE DEF a, b
<1>5. /\ t \in Seq(D) /\ Len(t) = Len(a) + Len(b)
      /\ \A i \in 1..Len(t) : t[i] = IF i <= Len(a) THEN a[i] ELSE b[i - Len(a)]
  <2>1. /\ a \o b \in Seq(D) /\ Len(a \o b) = Len(a) + Len(b)
        /\ \A i \in 1..(Len(a) + Len(b)) :
             (a \o b)[i] = IF i <= Len(a) THEN a[i] ELSE b[i - Len(a)]
    BY <1>2, <1>3, ConcatProperties, Zenon
  <2>2. QED
    BY <1>4, <2>1, Zenon
<1>6. ASSUME NEW i \in 1..Len(t) PROVE t[i] = IF i < k THEN s[i] ELSE s[i + 1]
  <2>1. CASE i < k
    BY <1>1, <1>2, <1>5, <2>1
  <2>2. CASE ~(i < k)
    <3>1. /\ i - (k - 1) \in 1..(Len(s) - k) /\ k + (i - (k - 1)) = i + 1
          /\ ~(i <= Len(a))
      BY <1>1, <1>2, <1>3, <1>5, <2>2
    <3>2. t[i] = b[i - (k - 1)]
      BY <1>2, <1>5, <3>1
    <3>3. QED
      BY <1>3, <2>2, <3>1, <3>2
  <2>3. QED
    BY <2>1, <2>2
<1>7. QED
  BY <1>1, <1>2, <1>3, <1>5, <1>6 DEF Shrunk

(* A timer is taken out: the order of the others stays.                    *)
Minus(A, n, B) == B \subseteq A /\ n \notin B /\ A \subseteq B \cup {n}

Thinned(e, s, d, q, B) == /\ Injective(q) /\ SeqSet(q) = B
                          /\ LessOf(d, q) = LessOf(e, s) \cap (B \X B)

(* The timers that are left keep their order.                              *)
LEMMA LessShrinks ==
  ASSUME NEW e \in [Timers -> Nat], NEW s \in Seq(Timers), Injective(s),
         NEW k \in 1..Len(s), NEW B, Minus(SeqSet(s), s[k], B),
         NEW d \in [Timers -> Nat], SameOn(B, e, d),
         NEW q \in Seq(Timers), Shrunk(s, k, q)
  PROVE  Thinned(e, s, d, q, B)
<1> DEFINE n == s[k]
<1>a. B \subseteq SeqSet(s) /\ n \notin B /\ SeqSet(s) \subseteq B \cup {n}
  BY DEF Minus
<1> DEFINE at(i) == IF i < k THEN i ELSE i + 1
<1>1. /\ Len(q) = Len(s) - 1
      /\ \A i \in 1..Len(q) : q[i] = IF i < k THEN s[i] ELSE s[i + 1]
  BY DEF Shrunk
<1>2. Len(s) \in Nat /\ k \in Nat /\ Len(q) \in Nat
  OBVIOUS
<1>3. \A i \in 1..Len(q) : at(i) \in 1..Len(s) /\ at(i) # k /\ q[i] = s[at(i)]
  <2>1. ASSUME NEW i \in 1..Len(q)
        PROVE  at(i) \in 1..Len(s) /\ at(i) # k /\ q[i] = s[at(i)]
    <3>1. i \in Nat /\ 1 <= i /\ i <= Len(s) - 1
      BY <1>1, <1>2
    <3>2. q[i] = IF i < k THEN s[i] ELSE s[i + 1]
      BY <1>1
    <3>3. CASE i < k
      BY <1>2, <3>1, <3>2, <3>3
    <3>4. CASE ~(i < k)
      BY <1>2, <3>1, <3>2, <3>4
    <3>5. QED
      BY <3>3, <3>4
  <2>2. QED
    BY <2>1
<1>4. \A j \in 1..Len(s) : j # k => \E i \in 1..Len(q) : j = at(i)
  <2>1. ASSUME NEW j \in 1..Len(s), j # k PROVE \E i \in 1..Len(q) : j = at(i)
    <3>1. CASE j < k
      <4>1. j \in 1..Len(q) /\ at(j) = j
        BY <1>1, <1>2, <3>1
      <4>2. QED
        BY <4>1
    <3>2. CASE j > k
      <4>1. j - 1 \in 1..Len(q) /\ at(j - 1) = j
        BY <1>1, <1>2, <3>2
      <4>2. QED
        BY <4>1
    <3>3. QED
      BY <1>2, <2>1, <3>1, <3>2
  <2>2. QED
    BY <2>1
<1>5. \A i, j \in 1..Len(q) : (at(i) < at(j) <=> i < j) /\ (at(i) = at(j) => i = j)
  <2>1. ASSUME NEW i \in 1..Len(q), NEW j \in 1..Len(q)
        PROVE  (at(i) < at(j) <=> i < j) /\ (at(i) = at(j) => i = j)
    <3>1. i \in Nat /\ j \in Nat
      BY <1>2
    <3>2. CASE i < k /\ j < k
      BY <3>2
    <3>3. CASE i < k /\ ~(j < k)
      BY <1>2, <3>1, <3>3
    <3>4. CASE ~(i < k) /\ j < k
      BY <1>2, <3>1, <3>4
    <3>5. CASE ~(i < k) /\ ~(j < k)
      BY <1>2, <3>1, <3>5
    <3>6. QED
      BY <3>2, <3>3, <3>4, <3>5
  <2>2. QED
    BY <2>1
<1> HIDE DEF at
<1>6. Injective(q)
  <2>1. ASSUME NEW i \in 1..Len(q), NEW j \in 1..Len(q), q[i] = q[j] PROVE i = j
    <3>1. s[at(i)] = s[at(j)] /\ at(i) \in 1..Len(s) /\ at(j) \in 1..Len(s)
      BY <1>3, <2>1
    <3>2. at(i) = at(j)
      BY <3>1 DEF Injective
    <3>3. QED
      BY <1>5, <3>2
  <2>2. QED
    BY <2>1 DEF Injective
<1>7. SeqSet(q) = B
  <2>1. ASSUME NEW x \in SeqSet(q) PROVE x \in B
    <3>1. PICK i \in 1..Len(q) : x = q[i]
      BY DEF SeqSet
    <3>2. x = s[at(i)] /\ at(i) \in 1..Len(s) /\ at(i) # k
      BY <1>3, <3>1
    <3>3. x # n
      BY <3>2 DEF Injective
    <3>4. QED
      BY <1>a, <3>2, <3>3 DEF SeqSet
  <2>2. ASSUME NEW x \in B PROVE x \in SeqSet(q)
    <3>1. PICK j \in 1..Len(s) : x = s[j]
      BY <1>a DEF SeqSet
    <3>2. j # k
      BY <1>a, <3>1
    <3>3. PICK i \in 1..Len(q) : j = at(i)
      BY <1>4, <3>2
    <3>4. x = q[i]
      BY <1>3, <3>1, <3>3
    <3>5. QED
      BY <3>4 DEF SeqSet
  <2>3. QED
    BY <2>1, <2>2
<1>8. ASSUME NEW i \in 1..Len(q), NEW j \in 1..Len(q)
      PROVE  <<q[i], q[j]>> \in LessOf(d, q) <=> <<q[i], q[j]>> \in LessOf(e, s)
  <2>1. <<q[i], q[j]>> \in LessOf(d, q)
          <=> d[q[i]] < d[q[j]] \/ (d[q[i]] = d[q[j]] /\ i < j)
    BY <1>6, LessAt
  <2>2. at(i) \in 1..Len(s) /\ at(j) \in 1..Len(s) /\ q[i] = s[at(i)] /\ q[j] = s[at(j)]
    BY <1>3
  <2>3. <<s[at(i)], s[at(j)]>> \in LessOf(e, s)
          <=> e[s[at(i)]] < e[s[at(j)]] \/ (e[s[at(i)]] = e[s[at(j)]] /\ at(i) < at(j))
    BY <2>2, LessAt
  <2>4. d[q[i]] = e[q[i]] /\ d[q[j]] = e[q[j]]
    BY <1>2, <1>7 DEF SeqSet, SameOn
  <2>5. at(i) < at(j) <=> i < j
    BY <1>5
  <2>6. QED
    BY <2>1, <2>2, <2>3, <2>4, <2>5
<1>9. ASSUME NEW r PROVE r \in LessOf(d, q) <=> r \in LessOf(e, s) \cap (B \X B)
  <2>1. r \in LessOf(d, q) => r \in B \X B
    BY <1>7 DEF LessOf
  <2>2. ASSUME r \in B \X B PROVE r \in LessOf(d, q) <=> r \in LessOf(e, s)
    <3>1. PICK x \in B, y \in B : r = <<x, y>>
      BY <2>2
    <3>2. x \in SeqSet(q) /\ y \in SeqSet(q)
      BY <1>7
    <3>3. PICK i \in 1..Len(q), j \in 1..Len(q) : x = q[i] /\ y = q[j]
      BY <3>2 DEF SeqSet
    <3>4. QED
      BY <1>8, <3>1, <3>3
  <2>3. QED
    BY <2>1, <2>2
<1>10. QED
  BY <1>6, <1>7, <1>9 DEF Thinned

------------------------------------------------------------------------------
(* The inductive invariant: the nodes of the tree are the active timers,   *)
(* in search order, with a red node under a red one only where the loop of *)
(* fixViolation stands.                                                    *)

Less == LessOf(mExpires, order)

TreeInv ==
  /\ tree \in TreeType /\ mExpires \in [Timers -> Nat]
  /\ mCancelled \in [Timers -> BOOLEAN] /\ fault = FALSE /\ spoiled = FALSE
  /\ order \in Seq(Timers) /\ Injective(order)
  /\ fixing \in Active \cup {Nil}
  /\ SearchTree(tree, Active, Less)
  /\ Colors(tree, Active, fixing)
  /\ \A t \in Active : mCancelled[t] = FALSE

(* What it says at once.                                                   *)
LEMMA TreeFacts ==
  ASSUME TreeInv
  PROVE  /\ Active = SeqSet(order) /\ Active \in SUBSET Timers /\ Nil \notin Active
         /\ StrictOrder(Less, Active)
         /\ tree.root \in Active \cup {Nil} /\ (tree.root = Nil <=> Active = {})
<1>1. Active = SeqSet(order) /\ Active \in SUBSET Timers /\ Nil \notin Active
  BY TreeAssumption DEF TreeInv, Active, SeqSet
<1>2. StrictOrder(Less, Active)
  <2>1. StrictOrder(LessOf(mExpires, order), SeqSet(order))
    BY LessStrict DEF TreeInv
  <2>2. QED
    BY <1>1, <2>1 DEF Less
<1>3. QED
  BY <1>1, <1>2 DEF TreeInv, SearchTree, Shape

(* It holds of the empty tree.                                             *)
LEMMA TreeInvInit == TreeInit => TreeInv
<1> SUFFICES ASSUME TreeInit PROVE TreeInv
  OBVIOUS
<1>1. /\ mExpires \in [Timers -> Nat] /\ mCancelled \in [Timers -> BOOLEAN]
      /\ fault = FALSE /\ spoiled = FALSE /\ order = << >> /\ fixing = Nil
  BY DEF TreeInit
<1>2. order \in Seq(Timers) /\ Injective(order) /\ Active = {}
  <2>1. Len(order) = 0 /\ 1..Len(order) = {}
    BY <1>1
  <2>2. QED
    BY <1>1, <2>1 DEF Injective, Active
<1>3. tree \in TreeType /\ tree.root = Nil /\ tree.left \in [Timers -> Nodes]
  BY DEF TreeInit, TreeType, Nodes
<1>4. SearchTree(tree, {}, Less)
  <2>1. Nil \notin {} /\ Shape(tree, {})
    BY <1>3 DEF Shape
  <2>2. Reach(tree, {})
    BY DEF Reach
  <2>3. Bounds(tree, {}, Less, tree.left, tree.left)
    BY <1>3 DEF Bounds
  <2>4. Ordered(tree, {}, Less)
    BY <1>3, <2>3 DEF Ordered
  <2>5. QED
    BY <2>1, <2>2, <2>4 DEF SearchTree
<1>5. Colors(tree, {}, Nil)
  BY <1>3 DEF Colors
<1>6. QED
  BY <1>1, <1>2, <1>3, <1>4, <1>5 DEF TreeInv

(* A timer is armed.                                                       *)
LEMMA ArmKeeps ==
  ASSUME TreeInv, NEW t \in Timers, NEW e \in Times, Arm(t, e)
  PROVE  TreeInv'
<1>1. /\ Active = SeqSet(order) /\ Active \in SUBSET Timers /\ Nil \notin Active
      /\ StrictOrder(Less, Active)
      /\ tree.root \in Active \cup {Nil} /\ (tree.root = Nil <=> Active = {})
  BY TreeFacts
<1>2. /\ t \notin Active /\ fixing = Nil /\ fixing' = t /\ UNCHANGED <<fault, spoiled>>
      /\ mExpires' = [mExpires EXCEPT ![t] = e] /\ order' = Append(order, t)
      /\ mCancelled' = [mCancelled EXCEPT ![t] = FALSE] /\ tree' = doInsert(tree, t)
  BY DEF Arm, Idle
<1>3. /\ mExpires' \in [Timers -> Nat] /\ SameOn(SeqSet(order), mExpires, mExpires')
      /\ mExpires \in [Timers -> Nat]
  BY <1>1, <1>2, TreeAssumption DEF TreeInv, SameOn
<1>4. order' \in Seq(Timers) /\ Grown(order, t, order') /\ order \in Seq(Timers)
  BY <1>2 DEF TreeInv, Grown
<1>5. /\ Injective(order') /\ SeqSet(order') = SeqSet(order) \cup {t}
      /\ LessOf(mExpires, order) \subseteq LessOf(mExpires', order')
      /\ \A x \in SeqSet(order) :
           mExpires'[t] < mExpires'[x] <=> <<t, x>> \in LessOf(mExpires', order')
  <2>1. Injective(order) /\ t \notin SeqSet(order)
    BY <1>1, <1>2 DEF TreeInv
  <2>2. QED
    BY <1>3, <1>4, <2>1, LessGrows
<1>6. /\ Active' = Active \cup {t} /\ Less \subseteq Less'
      /\ \A x \in Active : Before(t, x) <=> <<t, x>> \in Less'
  BY <1>1, <1>5 DEF Active, SeqSet, Less, Before
<1>7. StrictOrder(Less', Active \cup {t})
  <2>1. StrictOrder(LessOf(mExpires', order'), SeqSet(order'))
    BY <1>3, <1>4, <1>5, LessStrict
  <2>2. QED
    BY <1>1, <1>5, <2>1 DEF Less
<1>8. /\ tree' \in TreeType /\ SearchTree(tree', Active \cup {t}, Less')
      /\ tree'.root = IF Active = {} THEN t ELSE tree.root
      /\ \A x \in Active : tree'.red[x] = tree.red[x]
      /\ \A x \in Active : /\ tree'.left[x] \in {tree.left[x], t}
                          /\ tree'.right[x] \in {tree.right[x], t}
      /\ tree'.left[t] = Nil /\ tree'.right[t] = Nil
  <2>1. tree \in TreeType /\ SearchTree(tree, Active, Less) /\ t \in Timers \ Active
    BY <1>2 DEF TreeInv
  <2>2. /\ Active \in SUBSET Timers /\ StrictOrder(Less, Active)
        /\ StrictOrder(Less', Active \cup {t}) /\ Less \subseteq Less'
        /\ Placed(Active, t, Less, Less')
    BY <1>1, <1>6, <1>7 DEF Placed
  <2>3. tree' = doInsert(tree, t)
    BY <1>2
  <2>4. /\ tree' \in TreeType /\ SearchTree(tree', Active \cup {t}, Less')
        /\ Grafted(tree, tree', Active, t)
    BY <2>1, <2>2, <2>3, InsertKeeps
  <2>5. QED
    BY <2>4 DEF Grafted
<1>9. Colors(tree', Active \cup {t}, t)
  <2>1. /\ Colors(tree, Active, Nil) /\ t \in Timers \ Active
        /\ \A x \in Active : tree.left[x] \in Active \cup {Nil}
                           /\ tree.right[x] \in Active \cup {Nil}
    BY <1>2 DEF TreeInv, SearchTree, Shape
  <2>2. QED
    BY <1>1, <1>8, <2>1, InsertColors
<1>10. mCancelled' \in [Timers -> BOOLEAN] /\ \A x \in Active \cup {t} : mCancelled'[x] = FALSE
  BY <1>1, <1>2 DEF TreeInv
<1>11. fault' = FALSE /\ spoiled' = FALSE /\ fixing' \in Active' \cup {Nil}
  BY <1>2, <1>6 DEF TreeInv
<1>12. QED
  BY <1>2, <1>3, <1>4, <1>5, <1>6, <1>8, <1>9, <1>10, <1>11 DEF TreeInv

(* A node without two children is taken out, whichever it is.              *)
LEMMA TakeOutKeeps ==
  ASSUME TreeInv, NEW t \in Active, ~TwoChildren(tree, t), Idle, TakeOut(t), Drop(t),
         fault' = FALSE, spoiled' = FALSE, mCancelled' \in [Timers -> BOOLEAN],
         \A x \in Active \ {t} : mCancelled'[x] = mCancelled[x]
  PROVE  TreeInv'
<1>1. /\ Active = SeqSet(order) /\ Active \in SUBSET Timers /\ Nil \notin Active
      /\ StrictOrder(Less, Active) /\ t \in Timers
  BY TreeFacts
<1>2. /\ tree' = Forget(doErase(tree, t).t, t) /\ fixing' = doErase(tree, t).fix
      /\ mExpires' = [mExpires EXCEPT ![t] = 0] /\ fixing = Nil
  BY DEF TakeOut, Idle
<1>3. PICK k \in 1..Len(order) : order[k] = t /\ order' = Ext!RemoveAt(order, k)
  BY DEF Drop
<1> DEFINE B == Active \ {t}
<1>4. /\ mExpires' \in [Timers -> Nat] /\ SameOn(B, mExpires, mExpires')
      /\ mExpires \in [Timers -> Nat]
  BY <1>1, <1>2 DEF TreeInv, SameOn
<1>5. order' \in Seq(Timers) /\ Shrunk(order, k, order') /\ order \in Seq(Timers)
  <2>1. order \in Seq(Timers)
    BY DEF TreeInv
  <2>2. QED
    BY <1>3, <2>1, RemovedAt
<1>6. /\ Injective(order') /\ SeqSet(order') = B
      /\ LessOf(mExpires', order') = LessOf(mExpires, order) \cap (B \X B)
  <2>1. /\ Injective(order) /\ t = order[k] /\ B = SeqSet(order) \ {t}
        /\ SameOn(SeqSet(order) \ {t}, mExpires, mExpires')
    BY <1>1, <1>3, <1>4 DEF TreeInv
  <2>2. Minus(SeqSet(order), order[k], B)
    BY <2>1 DEF Minus
  <2> HIDE DEF B
  <2>3. Thinned(mExpires, order, mExpires', order', B)
    BY <1>4, <1>5, <2>1, <2>2, LessShrinks
  <2>4. QED
    BY <2>3 DEF Thinned
<1>7. Active' = B /\ Less' = Less \cap (B \X B)
  BY <1>6 DEF Active, SeqSet, Less
<1>8. tree \in TreeType /\ SearchTree(tree, Active, Less) /\ Colors(tree, Active, Nil)
  BY <1>2 DEF TreeInv
<1>9. tree' \in TreeType
  BY <1>1, <1>2, <1>8, EraseFields
<1>10. SearchTree(tree', B, Less')
  <2>1. B = Active \ {t}
    OBVIOUS
  <2>2. /\ Active \in SUBSET Timers /\ StrictOrder(Less, Active)
        /\ Less' = Less \cap (B \X B) /\ tree' = Forget(doErase(tree, t).t, t)
        /\ tree \in TreeType /\ SearchTree(tree, Active, Less)
    BY <1>1, <1>2, <1>7, <1>8
  <2> DEFINE Q == Less \cap (B \X B)
  <2>3. SearchTree(tree', B, Q)
    BY <2>2, EraseKeeps
  <2> HIDE DEF B
  <2>4. Q = Less'
    BY <2>2
  <2> HIDE DEF Q
  <2>5. QED
    BY <2>3, <2>4
<1>11. fixing' \in B \cup {Nil} /\ Colors(tree', B, fixing')
  <2>1. Active \in SUBSET Timers /\ StrictOrder(Less, Active)
    BY <1>1
  <2>2. tree' = Forget(doErase(tree, t).t, t) /\ fixing' = doErase(tree, t).fix
    BY <1>2
  <2>3. Resumes(tree', Active \ {t}, fixing')
    BY <1>8, <2>1, <2>2, EraseColors
  <2>4. QED
    BY <2>3 DEF Resumes
<1>12. \A x \in B : mCancelled'[x] = FALSE
  BY DEF TreeInv
<1>13. QED
  BY <1>4, <1>5, <1>6, <1>7, <1>9, <1>10, <1>11, <1>12 DEF TreeInv

(* The front of the tree is the earliest of the active timers.             *)
LEMMA Front ==
  ASSUME TreeInv, tree.root # Nil, NEW t, t = getFront(tree)
  PROVE  /\ t \in Active /\ ~TwoChildren(tree, t)
         /\ \A x \in Active : x = t \/ <<t, x>> \in Less
<1>1. Active \in SUBSET Timers /\ StrictOrder(Less, Active)
  BY TreeFacts
<1>2. tree \in TreeType /\ SearchTree(tree, Active, Less)
  BY DEF TreeInv
<1>3. t \in Active /\ tree.left[t] = Nil /\ \A x \in Active : x = t \/ <<t, x>> \in Less
  BY <1>1, <1>2, FrontEarliest
<1>4. QED
  BY <1>3 DEF TwoChildren

(* The front is taken out when it fires.                                   *)
LEMMA FireKeeps ==
  ASSUME TreeInv, Fire
  PROVE  TreeInv'
<1> DEFINE t == getFront(tree)
<1>1. /\ Idle /\ tree.root # Nil /\ mCancelled' = [mCancelled EXCEPT ![t] = FALSE]
      /\ TakeOut(t) /\ Drop(t) /\ UNCHANGED <<fault, spoiled>>
  BY DEF Fire
<1> HIDE DEF t
<1>2. t \in Active /\ ~TwoChildren(tree, t)
  BY <1>1, Front DEF t
<1>3. /\ fault' = FALSE /\ spoiled' = FALSE /\ mCancelled' \in [Timers -> BOOLEAN]
      /\ \A x \in Active \ {t} : mCancelled'[x] = mCancelled[x]
  BY <1>1, <1>2, TreeFacts DEF TreeInv
<1>4. QED
  BY <1>1, <1>2, <1>3, TakeOutKeeps

(* A cancelled timer whose node has at most one child is taken out.        *)
LEMMA CancelKeeps ==
  ASSUME TreeInv, NEW t \in Timers, Cancel(t), ~TwoChildren(tree, t)
  PROVE  TreeInv'
<1>1. /\ Idle /\ t \in Active /\ fault' = FALSE /\ spoiled' = FALSE
      /\ mCancelled' = [mCancelled EXCEPT ![t] = TRUE] /\ TakeOut(t) /\ Drop(t)
  BY DEF Cancel, NullParent
<1>2. /\ mCancelled' \in [Timers -> BOOLEAN]
      /\ \A x \in Active \ {t} : mCancelled'[x] = mCancelled[x]
  BY <1>1, TreeFacts DEF TreeInv
<1>3. QED
  BY <1>1, <1>2, TakeOutKeeps

(* The loop of fixViolation goes round, or ends.                           *)
LEMMA LoopKeeps ==
  ASSUME TreeInv, Fix \/ Fixed
  PROVE  TreeInv'
<1>1. /\ fixing # Nil /\ UNCHANGED <<mExpires, mCancelled, order, fault, spoiled>>
      /\ Active' = Active /\ Less' = Less
  BY DEF Fix, Fixed, Active, Less
<1>2. Active \in SUBSET Timers /\ StrictOrder(Less, Active) /\ fixing \in Active
  BY <1>1, TreeFacts DEF TreeInv
<1>3. tree \in TreeType /\ SearchTree(tree, Active, Less) /\ Colors(tree, Active, fixing)
  BY DEF TreeInv
<1>4. /\ tree' \in TreeType /\ SearchTree(tree', Active, Less)
      /\ fixing' \in Active \cup {Nil} /\ Colors(tree', Active, fixing')
  <2>1. CASE Fix
    <3>1. /\ Violation(tree, fixing) /\ tree' = fixViolation(tree, fixing).t
          /\ fixing' = fixViolation(tree, fixing).fix
      BY <2>1 DEF Fix
    <3>2. QED
      BY <1>2, <1>3, <3>1, FixKeeps
  <2>2. CASE Fixed
    <3>1. /\ ~Violation(tree, fixing) /\ tree' = [tree EXCEPT !.red[tree.root] = FALSE]
          /\ fixing' = Nil
      BY <2>2 DEF Fixed
    <3>2. tree' \in TreeType /\ SearchTree(tree', Active, Less) /\ Colors(tree', Active, Nil)
      BY <1>2, <1>3, <3>1, FixedKeeps
    <3>3. QED
      BY <3>1, <3>2
  <2>3. QED
    BY <2>1, <2>2
<1>5. QED
  BY <1>1, <1>4 DEF TreeInv

------------------------------------------------------------------------------
(* The cancellation of a node with two children.                           *)

(* Where the successor of a node is: after it, under another node than the *)
(* root, and not above it.                                                 *)
LEMMA SuccessorPlace ==
  ASSUME NEW A \in SUBSET Timers, NEW T \in TreeType, NEW R, SearchTree(T, A, R),
         StrictOrder(R, A), NEW c \in A, TwoChildren(T, c), NEW r, r = Successor(T, c)
  PROVE  /\ r \in A /\ r # c /\ r # T.root /\ r # T.parent[c] /\ r # T.left[c]
         /\ T.parent[r] \in A /\ T.parent[r] # r /\ T.right[r] # r
         /\ T.left[c] # T.right[c] /\ (T.parent[r] # c => r # T.right[c])
<1> DEFINE n == T.right[c]
           up == [T.parent EXCEPT ![n] = Nil]
<1>1. Apart(T, A, R)
  BY Edges
<1>2. PICK lo \in [Timers -> Nodes], hi \in [Timers -> Nodes] : Bounds(T, A, R, lo, hi)
  BY DEF SearchTree, Ordered
<1>3. /\ n \in A /\ n # Nil /\ n \in Timers /\ T.left[c] \in A /\ T.left[c] # n
      /\ T.parent[n] = c /\ T.parent[T.left[c]] = c /\ T.parent \in [Timers -> Nodes]
  BY <1>1 DEF TwoChildren, SearchTree, Shape, Apart, TreeType
<1>4. Walk(A, up, T.left, n)
  <2>1. n \in A /\ up[n] = Nil
    BY <1>3
  <2>2. ASSUME NEW x \in A, T.left[x] # Nil PROVE T.left[x] \in A /\ up[T.left[x]] = x
    <3>1. T.left[x] \in A /\ T.parent[T.left[x]] = x
      BY <2>2 DEF SearchTree, Shape
    <3>2. T.left[x] # n
      BY <1>3, <3>1
    <3>3. QED
      BY <1>3, <3>1, <3>2
  <2>3. QED
    BY <2>1, <2>2 DEF Walk
<1>5. /\ r \in A /\ T.left[r] = Nil
      /\ \A C \in SUBSET A : n \in C /\ (\A x \in C : T.left[x] \in C \cup {Nil}) => r \in C
  <2>1. r = EndOf(T.left, n)
    BY DEF Successor
  <2> HIDE DEF n, up
  <2>2. QED
    BY <1>4, <2>1, WalkEnds
<1>6. lo[r] = c /\ <<c, r>> \in R
  <2> DEFINE C == {x \in A : lo[x] = c}
  <2>1. n \in C
    BY <1>2, <1>3 DEF Bounds
  <2>2. ASSUME NEW x \in C PROVE T.left[x] \in C \cup {Nil}
    BY <1>2 DEF Bounds, SearchTree, Shape
  <2>3. r \in C
    BY <1>5, <2>1, <2>2
  <2>4. lo[r] # Nil => <<lo[r], r>> \in R
    BY <1>2, <1>5 DEF Bounds
  <2>5. c # Nil
    BY <1>1 DEF Apart
  <2>6. QED
    BY <2>3, <2>4, <2>5
<1>7. r # c
  BY <1>5, <1>6 DEF StrictOrder
<1>8. r # T.root
  <2>1. c # Nil /\ r # Nil
    BY <1>1, <1>5 DEF Apart
  <2>2. T.root # Nil => lo[T.root] = Nil
    BY <1>2 DEF Bounds
  <2>3. QED
    BY <1>6, <2>1, <2>2
<1>9. r # T.left[c]
  <2>1. T.left[c] # Nil => <<T.left[c], c>> \in R
    BY <1>1 DEF Apart
  <2>2. ~(<<c, r>> \in R /\ <<r, c>> \in R)
    BY <1>5 DEF StrictOrder
  <2>3. QED
    BY <1>6, <2>1, <2>2 DEF TwoChildren
<1>10. r # T.parent[c]
  <2>1. SUFFICES ASSUME r = T.parent[c] PROVE FALSE
    OBVIOUS
  <2>2. c \in {T.left[r], T.right[r]} /\ c # Nil
    <3>1. c # T.root
      BY <1>1, <1>5, <2>1 DEF Apart
    <3>2. QED
      BY <1>1, <2>1, <3>1 DEF SearchTree, Shape, Apart
  <2>3. c = T.right[r]
    BY <1>5, <2>2
  <2>4. lo[c] = r
    BY <1>2, <1>5, <2>2, <2>3 DEF Bounds
  <2>5. r # Nil /\ <<r, c>> \in R
    <3>1. r # Nil
      BY <1>1, <1>5 DEF Apart
    <3>2. QED
      BY <1>2, <2>4, <3>1 DEF Bounds
  <2>6. QED
    BY <1>5, <1>6, <2>5 DEF StrictOrder
<1>11. /\ T.parent[r] \in A /\ T.parent[r] # r /\ T.right[r] # r
  <2>1. T.parent[r] \in A /\ r \in {T.left[T.parent[r]], T.right[T.parent[r]]}
    BY <1>5, <1>8 DEF SearchTree, Shape
  <2>2. QED
    BY <1>1, <1>5, <2>1 DEF Apart
<1>12. T.left[c] # T.right[c] /\ (T.parent[r] # c => r # T.right[c])
  BY <1>3
<1>13. QED
  BY <1>5, <1>7, <1>8, <1>9, <1>10, <1>11, <1>12

(* What the parts of an erasure change.                                    *)
LEMMA LinkFacts ==
  \A T \in TreeType, p \in Timers, m \in Nodes :
    /\ [T EXCEPT !.left[p] = m] \in TreeType /\ [T EXCEPT !.left[p] = m].parent = T.parent
    /\ [T EXCEPT !.right[p] = m] \in TreeType /\ [T EXCEPT !.right[p] = m].parent = T.parent
<1>1. SUFFICES ASSUME NEW T \in TreeType, NEW p \in Timers, NEW m \in Nodes
               PROVE  /\ [T EXCEPT !.left[p] = m] \in TreeType
                      /\ [T EXCEPT !.left[p] = m].parent = T.parent
                      /\ [T EXCEPT !.right[p] = m] \in TreeType
                      /\ [T EXCEPT !.right[p] = m].parent = T.parent
  OBVIOUS
<1>2. [T EXCEPT !.left[p] = m] \in TreeType /\ [T EXCEPT !.left[p] = m].parent = T.parent
  BY DEF TreeType
<1>3. [T EXCEPT !.right[p] = m] \in TreeType /\ [T EXCEPT !.right[p] = m].parent = T.parent
  BY DEF TreeType
<1>4. QED
  BY <1>2, <1>3

LEMMA SetParentFacts ==
  \A T \in TreeType, n \in Nodes, q \in Nodes :
    /\ SetParent(T, n, q) \in TreeType
    /\ \A y \in Timers : SetParent(T, n, q).parent[y] = IF y = n THEN q ELSE T.parent[y]
<1>1. SUFFICES ASSUME NEW T \in TreeType, NEW n \in Nodes, NEW q \in Nodes,
                      NEW V, V = SetParent(T, n, q)
               PROVE  /\ V \in TreeType
                      /\ \A y \in Timers : V.parent[y] = IF y = n THEN q ELSE T.parent[y]
  OBVIOUS
<1>2. CASE n = Nil
  BY <1>1, <1>2, TreeAssumption DEF SetParent, Nodes
<1>3. CASE n # Nil
  <2>1. n \in Timers /\ V = [T EXCEPT !.parent[n] = q]
    BY <1>1, <1>3 DEF SetParent, Nodes
  <2>2. QED
    BY <2>1 DEF TreeType
<1>4. QED
  BY <1>2, <1>3

LEMMA RelinkBelow ==
  \A T \in TreeType, n \in Timers, m \in Nodes :
    T.parent[n] \in Timers => /\ Relink(T, n, m, FALSE) \in TreeType
                              /\ Relink(T, n, m, FALSE).parent = T.parent
<1>1. SUFFICES ASSUME NEW T \in TreeType, NEW n \in Timers, NEW m \in Nodes, T.parent[n] \in Timers
               PROVE  /\ Relink(T, n, m, FALSE) \in TreeType
                      /\ Relink(T, n, m, FALSE).parent = T.parent
  OBVIOUS
<1>2. PICK p \in Timers : p = T.parent[n]
  BY <1>1
<1>3. Relink(T, n, m, FALSE) \in {[T EXCEPT !.left[p] = m], [T EXCEPT !.right[p] = m]}
  BY <1>2 DEF Relink
<1>4. /\ [T EXCEPT !.left[p] = m] \in TreeType /\ [T EXCEPT !.left[p] = m].parent = T.parent
      /\ [T EXCEPT !.right[p] = m] \in TreeType /\ [T EXCEPT !.right[p] = m].parent = T.parent
  BY LinkFacts
<1>5. PICK K, L : K = [T EXCEPT !.left[p] = m] /\ L = [T EXCEPT !.right[p] = m]
  OBVIOUS
<1>6. /\ K \in TreeType /\ K.parent = T.parent /\ L \in TreeType /\ L.parent = T.parent
      /\ Relink(T, n, m, FALSE) \in {K, L}
  BY <1>3, <1>4, <1>5, Zenon
<1>7. QED
  BY <1>6

LEMMA ForgetFacts ==
  ASSUME NEW T \in TreeType, NEW c \in Timers, NEW U, U = Forget(T, c)
  PROVE  /\ U.root = T.root
         /\ \A y \in Timers : y # c => /\ U.left[y] = T.left[y] /\ U.right[y] = T.right[y]
                                      /\ U.parent[y] = T.parent[y]
BY DEF Forget, TreeType, Nodes

(* When the successor is the right child of the root, its own right child  *)
(* becomes the root, with the erased node for a parent.                    *)
LEMMA ErasedRoot ==
  ASSUME NEW A \in SUBSET Timers, NEW T \in TreeType, NEW R, SearchTree(T, A, R),
         StrictOrder(R, A), NEW c \in A, TwoChildren(T, c), NEW r, r = Successor(T, c),
         T.parent[r] = c, c = T.root, NEW U, U = Forget(doErase(T, c).t, c)
  PROVE  /\ U.root = T.right[r]
         /\ T.right[r] # Nil => U.parent[T.right[r]] = c
<1>1. /\ r \in A /\ r # c /\ r # T.root /\ r # T.parent[c] /\ r # T.left[c]
      /\ T.parent[r] \in A /\ T.parent[r] # r /\ T.right[r] # r
      /\ T.left[c] # T.right[c] /\ (T.parent[r] # c => r # T.right[c])
  BY SuccessorPlace
<1>2. /\ A \subseteq Timers /\ Nil \notin A /\ T.root \in Nodes /\ T.left \in [Timers -> Nodes]
      /\ T.right \in [Timers -> Nodes] /\ T.parent \in [Timers -> Nodes]
      /\ T.left[c] \in A /\ T.right[c] \in A /\ T.left[c] # Nil /\ T.right[c] # Nil
      /\ T.right[r] \in A \cup {Nil}
  BY <1>1, TreeAssumption DEF TwoChildren, SearchTree, Shape, TreeType
<1> DEFINE M == Replaced(T, c)
<1>3. doErase(T, c).t = Relink(SetParent(M, M.right[r], M.parent[r]), r, M.right[r], r = M.root)
  BY DEF doErase, Unlink
<1>4. T = [root |-> T.root, left |-> T.left, right |-> T.right, parent |-> T.parent, red |-> T.red]
  BY DEF TreeType
<1>5. /\ M.root = r /\ M.right[r] = T.right[r] /\ M.parent[r] = c
      /\ M.parent = [T.parent EXCEPT ![T.left[c]] = r]
  BY <1>1, <1>2, <1>4 DEF Replaced, Relink
<1>6. M \in TreeType
  <2>1. M = [Relink(T, c, r, TRUE) EXCEPT !.left[r] = T.left[c], !.parent[T.left[c]] = r]
    BY <1>1, <1>2 DEF Replaced
  <2>2. Relink(T, c, r, TRUE) = [T EXCEPT !.root = r]
    BY DEF Relink
  <2> HIDE DEF M
  <2>3. Relink(T, c, r, TRUE) \in TreeType
    BY <1>1, <1>2, <2>2 DEF TreeType, Nodes
  <2>4. PICK N \in TreeType : N = Relink(T, c, r, TRUE)
    BY <2>3
  <2>5. M = [N EXCEPT !.left[r] = T.left[c], !.parent[T.left[c]] = r]
    BY <2>1, <2>4
  <2>6. r \in Timers /\ r \in Nodes /\ T.left[c] \in Timers /\ T.left[c] \in Nodes
    BY <1>1, <1>2 DEF Nodes
  <2>7. QED
    <3>1. PICK K \in TreeType : K = [N EXCEPT !.left[r] = T.left[c]]
      BY <2>4, <2>6 DEF TreeType
    <3>2. M = [K EXCEPT !.parent[T.left[c]] = r]
      BY <2>4, <2>5, <3>1 DEF TreeType
    <3>3. QED
      BY <2>6, <3>1, <3>2 DEF TreeType
<1> HIDE DEF M
<1>7. PICK V, W : V = SetParent(M, M.right[r], M.parent[r]) /\ W = Relink(V, r, M.right[r], TRUE)
  OBVIOUS
<1>8. /\ V \in TreeType
      /\ \A y \in Timers : V.parent[y] = IF y = M.right[r] THEN c ELSE M.parent[y]
  <2>1. M.right[r] \in Nodes /\ M.parent[r] = c /\ c \in Nodes
    BY <1>2, <1>5 DEF Nodes
  <2>2. V = SetParent(M, M.right[r], c)
    BY <1>7, <2>1
  <2>3. QED
    BY <1>6, <2>1, <2>2, SetParentFacts
<1>9. W \in TreeType /\ W.parent = V.parent /\ W.root = T.right[r]
  <2>1. M.right[r] \in Nodes
    BY <1>1, <1>2, <1>5 DEF Nodes
  <2>2. W \in TreeType /\ W.parent = V.parent /\ W.root = M.right[r]
    <3>1. W = [V EXCEPT !.root = M.right[r]]
      BY <1>7 DEF Relink
    <3>2. QED
      BY <1>8, <2>1, <3>1 DEF TreeType
  <2>3. QED
    BY <1>5, <2>2
<1>10. U = Forget(W, c)
  BY <1>3, <1>5, <1>7
<1>11. U.root = T.right[r]
  BY <1>9, <1>10, ForgetFacts
<1>12. ASSUME T.right[r] # Nil PROVE U.parent[T.right[r]] = c
  <2>1. T.right[r] \in A /\ T.right[r] \in Timers
    BY <1>2, <1>12
  <2>3. T.right[r] # c
    BY <1>1, Edges DEF Apart
  <2>2. QED
    BY <1>5, <1>8, <1>9, <1>10, <2>1, <2>3, ForgetFacts
<1>13. QED
  BY <1>11, <1>12

(* When it is the right child of another node, the place of the erased     *)
(* node gets it, and it keeps the erased node for a parent.                *)
LEMMA ErasedShallow ==
  ASSUME NEW A \in SUBSET Timers, NEW T \in TreeType, NEW R, SearchTree(T, A, R),
         StrictOrder(R, A), NEW c \in A, TwoChildren(T, c), NEW r, r = Successor(T, c),
         T.parent[r] = c, c # T.root, NEW U, U = Forget(doErase(T, c).t, c)
  PROVE  /\ r \in {U.left[T.parent[c]], U.right[T.parent[c]]}
         /\ U.parent[r] = c
<1>1. /\ r \in A /\ r # c /\ r # T.root /\ r # T.parent[c] /\ r # T.left[c]
      /\ T.parent[r] \in A /\ T.parent[r] # r /\ T.right[r] # r
      /\ T.left[c] # T.right[c] /\ (T.parent[r] # c => r # T.right[c])
  BY SuccessorPlace
<1>2. /\ A \subseteq Timers /\ Nil \notin A /\ T.root \in Nodes /\ T.left \in [Timers -> Nodes]
      /\ T.right \in [Timers -> Nodes] /\ T.parent \in [Timers -> Nodes]
      /\ T.left[c] \in A /\ T.right[c] \in A /\ T.left[c] # Nil /\ T.right[c] # Nil
      /\ T.right[r] \in A \cup {Nil}
  BY <1>1, TreeAssumption DEF TwoChildren, SearchTree, Shape, TreeType
<1> DEFINE M == Replaced(T, c)
<1>3. doErase(T, c).t = Relink(SetParent(M, M.right[r], M.parent[r]), r, M.right[r], r = M.root)
  BY DEF doErase, Unlink
<1>4. T = [root |-> T.root, left |-> T.left, right |-> T.right, parent |-> T.parent, red |-> T.red]
  BY DEF TreeType
<1>5. T.parent[c] \in A /\ T.parent[c] # c
  BY <1>1, Edges DEF SearchTree, Shape, Apart
<1>6. /\ M.root = T.root /\ M.right[r] = T.right[r] /\ M.parent[r] = c
      /\ M.parent = [T.parent EXCEPT ![T.left[c]] = r]
      /\ r \in {M.left[T.parent[c]], M.right[T.parent[c]]} /\ M.left[c] # r
      /\ M.left \in [Timers -> Nodes] /\ M.right \in [Timers -> Nodes]
  BY <1>1, <1>2, <1>4, <1>5 DEF Replaced, Relink, Nodes
<1>7. M \in TreeType
  <2> DEFINE D == T
  <2>1. D \in TreeType
    OBVIOUS
  <2>2. M = [Relink(D, c, r, FALSE) EXCEPT !.left[r] = T.left[c], !.parent[T.left[c]] = r]
    BY <1>1 DEF Replaced
  <2> HIDE DEF M, D
  <2>3. Relink(D, c, r, FALSE) \in TreeType
    BY <1>1, <1>2, <2>1 DEF Relink, TreeType, Nodes, D
  <2>4. QED
    BY <1>1, <1>2, <2>2, <2>3 DEF TreeType, Nodes
<1> HIDE DEF M
<1>8. U.parent[r] = c
  <2>1. PICK V, W : /\ V = SetParent(M, M.right[r], M.parent[r])
                    /\ W = Relink(V, r, M.right[r], FALSE)
    OBVIOUS
  <2>6. M.right[r] \in Nodes /\ M.parent[r] = c /\ c \in Nodes /\ r \in Timers /\ c \in Timers
    BY <1>1, <1>2, <1>6 DEF Nodes
  <2>2. V \in TreeType /\ V.parent[r] = c
    <3>1. M.right[r] \in Nodes /\ c \in Nodes /\ V = SetParent(M, M.right[r], c)
      BY <2>1, <2>6
    <3>2. /\ V \in TreeType
          /\ \A y \in Timers : V.parent[y] = IF y = M.right[r] THEN c ELSE M.parent[y]
      BY <1>7, <3>1, SetParentFacts
    <3>3. QED
      BY <2>6, <3>2
  <2>3. W \in TreeType /\ W.parent = V.parent
    <3>1. PICK n \in Nodes : n = M.right[r] /\ W = Relink(V, r, n, FALSE)
      BY <2>1, <2>6
    <3>2. QED
      BY <2>2, <2>6, <3>1, RelinkBelow
  <2>4. U = Forget(W, c)
    BY <1>1, <1>3, <1>6, <2>1
  <2>5. QED
    BY <1>1, <2>2, <2>3, <2>4, ForgetFacts
<1>9. r \in {U.left[T.parent[c]], U.right[T.parent[c]]}
  <2> DEFINE V == SetParent(M, M.right[r], M.parent[r])
             W == Relink(V, r, M.right[r], FALSE)
  <2>1. V \in TreeType /\ V.left = M.left /\ V.right = M.right /\ V.parent[r] = c
    BY <1>1, <1>2, <1>6, <1>7 DEF SetParent, TreeType, Nodes
  <2>2. doErase(T, c).t = W
    BY <1>1, <1>3, <1>6
  <2> HIDE DEF V
  <2>3. W = [V EXCEPT !.right[c] = M.right[r]]
    BY <1>6, <2>1 DEF Relink
  <2> HIDE DEF W
  <2>4. W.left = M.left /\ W.right = [M.right EXCEPT ![c] = M.right[r]]
    BY <2>1, <2>3 DEF TreeType
  <2>5. U.left[T.parent[c]] = M.left[T.parent[c]] /\ U.right[T.parent[c]] = M.right[T.parent[c]]
    BY <1>2, <1>5, <1>6, <2>1, <2>2, <2>3, <2>4 DEF Forget, TreeType
  <2>6. QED
    BY <1>6, <2>5
<1>10. QED
  BY <1>8, <1>9

(* When it is deeper, it gets the right child of the erased node, whose    *)
(* parent is then the former parent of the successor.                      *)
LEMMA ErasedDeep ==
  ASSUME NEW A \in SUBSET Timers, NEW T \in TreeType, NEW R, SearchTree(T, A, R),
         StrictOrder(R, A), NEW c \in A, TwoChildren(T, c), NEW r, r = Successor(T, c),
         T.parent[r] # c, c # T.root, NEW U, U = Forget(doErase(T, c).t, c)
  PROVE  /\ U.right[r] = T.right[c]
         /\ U.parent[T.right[c]] = T.parent[r]
<1>1. /\ r \in A /\ r # c /\ r # T.root /\ r # T.parent[c] /\ r # T.left[c]
      /\ T.parent[r] \in A /\ T.parent[r] # r /\ T.right[r] # r
      /\ T.left[c] # T.right[c] /\ (T.parent[r] # c => r # T.right[c])
  BY SuccessorPlace
<1>2. /\ A \subseteq Timers /\ Nil \notin A /\ T.root \in Nodes /\ T.left \in [Timers -> Nodes]
      /\ T.right \in [Timers -> Nodes] /\ T.parent \in [Timers -> Nodes]
      /\ T.left[c] \in A /\ T.right[c] \in A /\ T.left[c] # Nil /\ T.right[c] # Nil
      /\ T.right[r] \in A \cup {Nil}
  BY <1>1, TreeAssumption DEF TwoChildren, SearchTree, Shape, TreeType
<1> DEFINE M == Replaced(T, c)
<1>3. doErase(T, c).t = Relink(SetParent(M, M.right[r], M.parent[r]), r, M.right[r], r = M.root)
  BY DEF doErase, Unlink
<1>4. T = [root |-> T.root, left |-> T.left, right |-> T.right, parent |-> T.parent, red |-> T.red]
  BY DEF TreeType
<1>5. T.parent[c] \in A /\ T.parent[c] # c /\ T.right[c] # c /\ T.right[c] # T.left[c]
  BY <1>1, Edges DEF SearchTree, Shape, Apart
<1>6. M.root = T.root /\ M.right[r] = T.right[c] /\ M.parent[r] = T.parent[r]
  BY <1>1, <1>2, <1>4, <1>5 DEF Replaced, Relink, Nodes
<1>7. M \in TreeType
  <2> DEFINE D == [T EXCEPT !.left[T.parent[c]] = T.right[r], !.right[r] = T.right[c],
                            !.parent[T.right[c]] = r]
  <2>1. D \in TreeType
    BY <1>1, <1>2, <1>5 DEF TreeType, Nodes
  <2>2. M = [Relink(D, c, r, FALSE) EXCEPT !.left[r] = T.left[c], !.parent[T.left[c]] = r]
    BY <1>1 DEF Replaced
  <2> HIDE DEF M, D
  <2>3. Relink(D, c, r, FALSE) \in TreeType
    <3>1. D.parent[c] = T.parent[c] /\ T.parent[c] \in Timers /\ r \in Nodes /\ c \in Timers
      BY <1>1, <1>2, <1>5 DEF D, Nodes
    <3>2. QED
      BY <2>1, <3>1, RelinkBelow
  <2>4. QED
    BY <1>1, <1>2, <2>2, <2>3 DEF TreeType, Nodes
<1> HIDE DEF M
<1>8. U.parent[T.right[c]] = T.parent[r]
  BY <1>1, <1>2, <1>3, <1>5, <1>6, <1>7 DEF Relink, SetParent, Forget, TreeType
<1>9. U.right[r] = T.right[c]
  BY <1>1, <1>2, <1>3, <1>5, <1>6, <1>7 DEF Relink, SetParent, Forget, TreeType
<1>10. QED
  BY <1>8, <1>9

(* However deep the successor is, the tree is not whole any more.          *)
LEMMA InnerSpoils ==
  ASSUME TreeInv, NEW c \in Timers, Cancel(c), TwoChildren(tree, c)
  PROVE  ~Whole'
<1> DEFINE r == Successor(tree, c)
           p == tree.parent[c]
<1>1. SUFFICES ASSUME Whole' PROVE FALSE
  OBVIOUS
<1>2. /\ Active \in SUBSET Timers /\ Nil \notin Active /\ StrictOrder(Less, Active)
      /\ tree \in TreeType /\ SearchTree(tree, Active, Less)
  BY TreeFacts DEF TreeInv
<1>3. c \in Active /\ ~NullParent(tree, c) /\ TakeOut(c) /\ Drop(c)
  BY <1>1 DEF Cancel, Whole
<1>4. tree' = Forget(doErase(tree, c).t, c)
  BY <1>3 DEF TakeOut
<1>5. InTree' = Active' /\ Linked'
  BY <1>1 DEF Whole
<1>6. \A x \in Active : x # c => x \in InTree'
  <2>1. PICK k \in 1..Len(order) : order[k] = c /\ order' = Ext!RemoveAt(order, k)
    BY <1>3 DEF Drop
  <2>2. order \in Seq(Timers)
    BY DEF TreeInv
  <2>3. Shrunk(order, k, order')
    BY <2>1, <2>2, RemovedAt
  <2>4. ASSUME NEW x \in Active, x # c PROVE x \in Active'
    <3>1. PICK i \in 1..Len(order) : order[i] = x
      BY DEF Active
    <3>2. i # k
      BY <2>1, <2>4, <3>1
    <3>3. Len(order) \in Nat /\ Len(order') = Len(order) - 1 /\ i \in Nat /\ k \in Nat
      BY <2>2, <2>3 DEF Shrunk
    <3> DEFINE j == IF i < k THEN i ELSE i - 1
    <3>4. j \in 1..Len(order') /\ order'[j] = order[i]
      BY <2>3, <3>2, <3>3 DEF Shrunk
    <3>5. QED
      BY <3>1, <3>4 DEF Active
  <2>5. QED
    BY <1>5, <2>4
<1>7. /\ r \in Active /\ r # c /\ r # tree.root /\ r # p
      /\ tree.parent[r] # r /\ tree.right[c] # Nil
      /\ tree.right[r] \in Active \cup {Nil}
  BY <1>2, <1>3, SuccessorPlace DEF TwoChildren, SearchTree, Shape
<1>8. /\ tree'.root # Nil => tree'.parent[tree'.root] = Nil
      /\ \A t \in InTree' : \A n \in {tree'.left[t], tree'.right[t]} :
           n # Nil => tree'.parent[n] = t
  BY <1>5 DEF Linked
<1> HIDE DEF r
<1>9. CASE tree.parent[r] = c /\ c = tree.root
  <2>1. /\ tree'.root = tree.right[r]
        /\ tree.right[r] # Nil => tree'.parent[tree.right[r]] = c
    BY <1>2, <1>3, <1>4, <1>9, ErasedRoot DEF r
  <2>2. tree.right[r] = Nil
    BY <1>2, <1>3, <1>8, <2>1
  <2>3. r \in InTree' /\ tree'.root = Nil
    BY <1>6, <1>7, <2>1, <2>2
  <2>4. r \notin InTree'
    <3>1. r \in InTree' => r \in {}
      <4>1. {} \in SUBSET Timers /\ tree'.root \in {} \cup {Nil}
        BY <2>3
      <4>2. QED
        BY <4>1 DEF InTree
    <3>2. QED
      BY <3>1
  <2>5. QED
    BY <2>3, <2>4
<1>10. CASE tree.parent[r] = c /\ c # tree.root
  <2>1. r \in {tree'.left[p], tree'.right[p]} /\ tree'.parent[r] = c
    BY <1>2, <1>3, <1>4, <1>10, ErasedShallow DEF r
  <2>2. p \in Active /\ p # c /\ r # Nil
    BY <1>2, <1>3, <1>7, <1>10, Edges DEF SearchTree, Shape, Apart
  <2>3. QED
    BY <1>6, <1>8, <2>1, <2>2
<1>11. CASE tree.parent[r] # c
  <2>1. c # tree.root
    BY <1>2, <1>3, <1>11 DEF NullParent, r, SearchTree, Shape
  <2>2. tree'.right[r] = tree.right[c] /\ tree'.parent[tree.right[c]] = tree.parent[r]
    BY <1>2, <1>3, <1>4, <1>11, <2>1, ErasedDeep DEF r
  <2>3. QED
    BY <1>6, <1>7, <1>8, <2>2
<1>12. QED
  BY <1>9, <1>10, <1>11

(* It is enough for Whole.                                                 *)
LEMMA TreeInvWhole == TreeInv => Whole
<1> SUFFICES ASSUME TreeInv PROVE Whole
  OBVIOUS
<1>1. /\ tree \in TreeType /\ fault = FALSE /\ Shape(tree, Active) /\ Reach(tree, Active)
      /\ Colors(tree, Active, fixing)
  BY DEF TreeInv, SearchTree
<1>2. /\ Active \in SUBSET Timers /\ Nil \notin Active
      /\ tree.root \in Active \cup {Nil} /\ (tree.root = Nil <=> Active = {})
  BY TreeFacts
<1>3. \A x \in Active : {tree.left[x], tree.right[x]} \subseteq Active \cup {Nil}
  BY <1>1 DEF Shape
<1>4. InTree \subseteq Active
  BY <1>2, <1>3 DEF InTree
<1>5. ASSUME NEW t \in Active PROVE t \in InTree
  <2>1. SUFFICES ASSUME NEW C \in SUBSET Timers, tree.root \in C \cup {Nil},
                        \A u \in C : {tree.left[u], tree.right[u]} \subseteq C \cup {Nil}
                 PROVE  t \in C
    BY <1>2 DEF InTree
  <2> DEFINE D == C \cap Active
  <2>2. tree.root \in D
    BY <1>2, <2>1
  <2>3. Closed(tree, D)
    BY <1>3, <2>1 DEF Closed
  <2>4. D = Active
    BY <1>1, <2>2, <2>3 DEF Reach
  <2>5. QED
    BY <2>4
<1>6. InTree = Active
  BY <1>4, <1>5
<1>7. Linked
  BY <1>1, <1>6 DEF Linked, Shape
<1>8. NoRedRed
  <2>1. SUFFICES ASSUME fixing = Nil
                 PROVE  /\ tree.root # Nil => ~tree.red[tree.root]
                        /\ \A t \in InTree : tree.red[t] =>
                             ~Red(tree, tree.left[t]) /\ ~Red(tree, tree.right[t])
    BY DEF NoRedRed
  <2>2. QED
    BY <1>1, <1>6, <2>1 DEF Colors, Red
<1>9. QED
  BY <1>1, <1>6, <1>7, <1>8 DEF Whole, TreeType, Nodes

(* What it says when the tree is spoiled.                                  *)
TreeSafe == TreeInv \/ (spoiled = TRUE /\ ~Whole)

(* A cancellation spoils the tree exactly when the node has two children.  *)
LEMMA CancelSafe ==
  ASSUME TreeInv, NEW t \in Timers, Cancel(t)
  PROVE  TreeSafe'
<1>1. CASE TwoChildren(tree, t)
  <2>1. spoiled' = TRUE
    BY <1>1 DEF Cancel
  <2>2. ~Whole'
    BY <1>1, InnerSpoils
  <2>3. QED
    BY <2>1, <2>2 DEF TreeSafe
<1>2. CASE ~TwoChildren(tree, t)
  BY <1>2, CancelKeeps DEF TreeSafe
<1>3. QED
  BY <1>1, <1>2

(* It is kept by every step.                                               *)
LEMMA TreeSafeNext ==
  ASSUME TreeSafe, [TreeNext]_treeVars
  PROVE  TreeSafe'
<1>1. CASE UNCHANGED treeVars
  <2>1. TreeInv' <=> TreeInv
    BY <1>1 DEF TreeInv, treeVars, Active, Less
  <2>2. Whole' <=> Whole
    BY <1>1 DEF Whole, treeVars, Active, InTree, Linked, NoRedRed
  <2>3. spoiled' = spoiled
    BY <1>1 DEF treeVars
  <2>4. QED
    BY <2>1, <2>2, <2>3 DEF TreeSafe
<1>2. CASE TreeNext /\ spoiled = TRUE
  BY <1>1, <1>2 DEF TreeNext, Arm, Cancel, Fire, Fix, Fixed, Spoilt, Idle
<1>3. CASE TreeNext /\ spoiled # TRUE
  <2>1. TreeInv
    BY <1>3 DEF TreeSafe
  <2>2. ASSUME NEW t \in Timers, NEW e \in Times, Arm(t, e) PROVE TreeSafe'
    BY <2>1, <2>2, ArmKeeps DEF TreeSafe
  <2>3. ASSUME NEW t \in Timers, Cancel(t) PROVE TreeSafe'
    BY <2>1, <2>3, CancelSafe
  <2>4. CASE Fire
    BY <2>1, <2>4, FireKeeps DEF TreeSafe
  <2>5. CASE Fix \/ Fixed
    BY <2>1, <2>5, LoopKeeps DEF TreeSafe
  <2>6. CASE Spoilt
    BY <1>1, <2>6 DEF Spoilt
  <2>7. QED
    BY <1>3, <2>2, <2>3, <2>4, <2>5, <2>6 DEF TreeNext
<1>4. QED
  BY <1>1, <1>2, <1>3

------------------------------------------------------------------------------
(* The timer set that the tree stands for.                                 *)

ArmedOf(s, e) == [i \in 1..Len(s) |-> [timer |-> s[i], at |-> e[s[i]]]]

TimerEntry == [timer : Timers, at : Nat]

(* The armed timers as TimerSet has them.                                  *)
LEMMA ArmedSeq ==
  ASSUME NEW s \in Seq(Timers), NEW e \in [Timers -> Nat]
  PROVE  /\ ArmedOf(s, e) \in Seq(TimerEntry) /\ Len(ArmedOf(s, e)) = Len(s)
         /\ \A i \in 1..Len(s) : ArmedOf(s, e)[i] = [timer |-> s[i], at |-> e[s[i]]]
<1>1. \A i \in 1..Len(s) : [timer |-> s[i], at |-> e[s[i]]] \in TimerEntry
  BY DEF TimerEntry
<1>2. Len(s) \in Nat
  OBVIOUS
<1>3. QED
  BY <1>1, <1>2 DEF ArmedOf

(* Arming appends.                                                         *)
LEMMA ArmedGrows ==
  ASSUME NEW s \in Seq(Timers), NEW e \in [Timers -> Nat], NEW n \in Timers,
         NEW q \in Seq(Timers), Grown(s, n, q), NEW d \in [Timers -> Nat],
         SameOn(SeqSet(s), e, d)
  PROVE  ArmedOf(q, d) = Append(ArmedOf(s, e), [timer |-> n, at |-> d[n]])
<1> DEFINE a == ArmedOf(s, e)
           b == ArmedOf(q, d)
           r == [timer |-> n, at |-> d[n]]
<1>1. /\ a \in Seq(TimerEntry) /\ Len(a) = Len(s) /\ r \in TimerEntry
      /\ \A i \in 1..Len(s) : a[i] = [timer |-> s[i], at |-> e[s[i]]]
  BY ArmedSeq DEF TimerEntry
<1>2. /\ b \in Seq(TimerEntry) /\ Len(b) = Len(q)
      /\ \A i \in 1..Len(q) : b[i] = [timer |-> q[i], at |-> d[q[i]]]
  BY ArmedSeq
<1>3. Len(q) = Len(s) + 1 /\ q[Len(s) + 1] = n /\ \A i \in 1..Len(s) : q[i] = s[i]
  BY DEF Grown
<1>4. Len(s) \in Nat /\ 1..Len(q) = 1..Len(s) \cup {Len(s) + 1}
  BY <1>3
<1>5. ASSUME NEW i \in 1..Len(s) PROVE b[i] = a[i]
  <2>1. d[s[i]] = e[s[i]]
    BY DEF SameOn, SeqSet
  <2>2. i \in 1..Len(q) /\ q[i] = s[i]
    BY <1>3, <1>4
  <2>3. a[i] = [timer |-> s[i], at |-> e[s[i]]] /\ b[i] = [timer |-> q[i], at |-> d[q[i]]]
    BY <1>1, <1>2, <2>2
  <2> HIDE DEF a, b
  <2>4. QED
    BY <2>1, <2>2, <2>3
<1>6. b[Len(s) + 1] = r
  BY <1>2, <1>3, <1>4
<1> HIDE DEF a, b, r
<1>7. /\ Append(a, r) \in Seq(TimerEntry) /\ Len(Append(a, r)) = Len(s) + 1
      /\ Append(a, r)[Len(s) + 1] = r
      /\ \A i \in 1..Len(s) : Append(a, r)[i] = a[i]
  BY <1>1
<1> DEFINE c == Append(a, r)
<1>8. c \in Seq(TimerEntry) /\ Len(c) = Len(b) /\ \A i \in 1..Len(c) : c[i] = b[i]
  BY <1>2, <1>3, <1>4, <1>5, <1>6, <1>7
<1> HIDE DEF c
<1>9. b = c
  BY <1>2, <1>8, SeqEqual
<1>10. QED
  BY <1>9 DEF a, b, c, r

(* Taking out removes.                                                     *)
WithoutOne(s, e, q, d, k) == ArmedOf(q, d) = Ext!RemoveAt(ArmedOf(s, e), k)

LEMMA ArmedShrinks ==
  ASSUME NEW s \in Seq(Timers), NEW e \in [Timers -> Nat], Injective(s),
         NEW k \in 1..Len(s), NEW q \in Seq(Timers), Shrunk(s, k, q),
         NEW d \in [Timers -> Nat], NEW B, Minus(SeqSet(s), s[k], B), SameOn(B, e, d)
  PROVE  WithoutOne(s, e, q, d, k)
<1> DEFINE a == ArmedOf(s, e)
           b == ArmedOf(q, d)
           c == Ext!RemoveAt(a, k)
<1>1. /\ a \in Seq(TimerEntry) /\ Len(a) = Len(s)
      /\ \A i \in 1..Len(s) : a[i] = [timer |-> s[i], at |-> e[s[i]]]
  BY ArmedSeq
<1>2. /\ b \in Seq(TimerEntry) /\ Len(b) = Len(q)
      /\ \A i \in 1..Len(q) : b[i] = [timer |-> q[i], at |-> d[q[i]]]
  BY ArmedSeq
<1>3. /\ Len(q) = Len(s) - 1 /\ Len(s) \in Nat /\ k \in Nat
      /\ \A i \in 1..Len(q) : q[i] = IF i < k THEN s[i] ELSE s[i + 1]
  BY DEF Shrunk
<1> HIDE DEF a, b
<1>4. c \in Seq(TimerEntry) /\ Shrunk(a, k, c)
  <2>1. k \in 1..Len(a)
    BY <1>1
  <2>2. QED
    BY <1>1, <2>1, RemovedAt
<1> HIDE DEF c
<1>5. ASSUME NEW i \in 1..Len(q) PROVE c[i] = b[i]
  <2> DEFINE j == IF i < k THEN i ELSE i + 1
  <2>1. j \in 1..Len(s) /\ j # k /\ q[i] = s[j]
    <3>0. q[i] = IF i < k THEN s[i] ELSE s[i + 1]
      BY <1>3
    <3>1. i \in Nat /\ 1 <= i /\ i <= Len(s) - 1
      <4>1. Len(q) \in Nat /\ i \in 1..Len(q)
        OBVIOUS
      <4>2. QED
        BY <1>3, <4>1
    <3>2. CASE i < k
      BY <1>3, <3>0, <3>1, <3>2
    <3>3. CASE ~(i < k)
      BY <1>3, <3>0, <3>1, <3>3
    <3>4. QED
      BY <3>2, <3>3
  <2>2. c[i] = a[j]
    BY <1>1, <1>3, <1>4 DEF Shrunk
  <2> HIDE DEF j
  <2>3. s[j] \in B
    BY <2>1 DEF Injective, SeqSet, Minus
  <2>4. d[s[j]] = e[s[j]]
    BY <2>3 DEF SameOn
  <2>5. a[j] = [timer |-> s[j], at |-> e[s[j]]] /\ b[i] = [timer |-> q[i], at |-> d[q[i]]]
    BY <1>1, <1>2, <2>1
  <2>6. QED
    BY <2>1, <2>2, <2>4, <2>5
<1>6. Len(c) = Len(b)
  BY <1>1, <1>2, <1>3, <1>4 DEF Shrunk
<1>7. b = c
  BY <1>2, <1>4, <1>5, <1>6, SeqEqual
<1>8. QED
  BY <1>7 DEF a, b, c, WithoutOne

(* The empty tree is the empty set.                                        *)
LEMMA MapInit == TreeInit => TimersOf!Init
BY DEF TreeInit, TimersOf!Init

(* Arm is Arm.                                                             *)
LEMMA MapArm ==
  ASSUME TreeInv, NEW t \in Timers, NEW e \in Times, Arm(t, e)
  PROVE  TimersOf!Arm(t, e)
<1>1. /\ t \notin Active /\ mExpires' = [mExpires EXCEPT ![t] = e]
      /\ order' = Append(order, t) /\ mCancelled' = [mCancelled EXCEPT ![t] = FALSE]
  BY DEF Arm
<1>2. Active = SeqSet(order)
  BY TreeFacts
<1>3. /\ mExpires \in [Timers -> Nat] /\ mExpires' \in [Timers -> Nat] /\ mExpires'[t] = e
      /\ SameOn(SeqSet(order), mExpires, mExpires')
  BY <1>1, <1>2, TreeAssumption DEF TreeInv, SameOn
<1>4. order \in Seq(Timers) /\ order' \in Seq(Timers) /\ Grown(order, t, order')
  BY <1>1 DEF TreeInv, Grown
<1>5. ArmedOf(order', mExpires')
        = Append(ArmedOf(order, mExpires), [timer |-> t, at |-> e])
  BY <1>3, <1>4, ArmedGrows
<1>6. \A i \in 1..Len(ArmedOf(order, mExpires)) : ArmedOf(order, mExpires)[i].timer # t
  <2>1. /\ Len(ArmedOf(order, mExpires)) = Len(order)
        /\ \A i \in 1..Len(order) :
             ArmedOf(order, mExpires)[i] = [timer |-> order[i], at |-> mExpires[order[i]]]
    BY <1>3, <1>4, ArmedSeq
  <2>2. \A i \in 1..Len(order) : order[i] # t
    BY <1>1, <1>2 DEF SeqSet
  <2>3. ASSUME NEW i \in 1..Len(ArmedOf(order, mExpires))
        PROVE  ArmedOf(order, mExpires)[i].timer # t
    <3>1. i \in 1..Len(order)
      BY <2>1
    <3>2. ArmedOf(order, mExpires)[i] = [timer |-> order[i], at |-> mExpires[order[i]]]
      BY <2>1, <3>1
    <3>3. QED
      BY <2>2, <3>1, <3>2
  <2>4. QED
    BY <2>3
<1>7. QED
  BY <1>1, <1>5, <1>6 DEF TimersOf!Arm, ArmedOf

(* Taking a node out removes its entry.                                    *)
LEMMA MapTakeOut ==
  ASSUME TreeInv, NEW t \in Active, TakeOut(t), NEW k \in 1..Len(order), order[k] = t,
         order' = Ext!RemoveAt(order, k)
  PROVE  /\ ArmedOf(order', mExpires') = Ext!RemoveAt(ArmedOf(order, mExpires), k)
         /\ k \in 1..Len(ArmedOf(order, mExpires))
         /\ ArmedOf(order, mExpires)[k].timer = t
<1> DEFINE B == Active \ {t}
<1>1. Active = SeqSet(order) /\ t \in Timers
  BY TreeFacts
<1>2. mExpires' = [mExpires EXCEPT ![t] = 0]
  BY DEF TakeOut
<1>3. /\ mExpires \in [Timers -> Nat] /\ mExpires' \in [Timers -> Nat]
      /\ SameOn(B, mExpires, mExpires') /\ Minus(SeqSet(order), order[k], B)
  BY <1>1, <1>2 DEF TreeInv, SameOn, Minus
<1> HIDE DEF B
<1>4. order \in Seq(Timers) /\ Injective(order)
  BY DEF TreeInv
<1>5. order' \in Seq(Timers) /\ Shrunk(order, k, order')
  BY <1>4, RemovedAt
<1>6. ArmedOf(order', mExpires') = Ext!RemoveAt(ArmedOf(order, mExpires), k)
  <2>1. WithoutOne(order, mExpires, order', mExpires', k)
    BY <1>3, <1>4, <1>5, ArmedShrinks
  <2>2. QED
    BY <2>1 DEF WithoutOne
<1>7. /\ Len(ArmedOf(order, mExpires)) = Len(order)
      /\ ArmedOf(order, mExpires)[k] = [timer |-> order[k], at |-> mExpires[order[k]]]
  BY <1>3, <1>4, ArmedSeq
<1>8. QED
  BY <1>6, <1>7

(* Fire takes out the earliest.                                            *)
LEMMA MapFire ==
  ASSUME TreeInv, Fire
  PROVE  TimersOf!Fire
<1> DEFINE t == getFront(tree)
           a == ArmedOf(order, mExpires)
<1>1. /\ tree.root # Nil /\ mCancelled' = [mCancelled EXCEPT ![t] = FALSE]
      /\ TakeOut(t) /\ Drop(t)
  BY DEF Fire
<1>2. t \in Active /\ \A x \in Active : x = t \/ <<t, x>> \in Less
  BY <1>1, Front
<1> HIDE DEF t
<1>3. PICK k \in 1..Len(order) : order[k] = t /\ order' = Ext!RemoveAt(order, k)
  BY <1>1 DEF Drop
<1>4. ArmedOf(order', mExpires') = Ext!RemoveAt(a, k) /\ k \in 1..Len(a)
  BY <1>1, <1>2, <1>3, MapTakeOut
<1>5. mCancelled' = mCancelled
  BY <1>1, <1>2, TreeFacts DEF TreeInv
<1>6. /\ order \in Seq(Timers) /\ Injective(order) /\ mExpires \in [Timers -> Nat]
      /\ Active = SeqSet(order)
  BY TreeFacts DEF TreeInv
<1>7. /\ Len(a) = Len(order)
      /\ \A i \in 1..Len(order) : a[i] = [timer |-> order[i], at |-> mExpires[order[i]]]
  BY <1>6, ArmedSeq
<1>8. ASSUME NEW j \in 1..Len(a)
      PROVE  a[k].at <= a[j].at /\ (j < k => a[k].at < a[j].at)
  <2>1. /\ j \in 1..Len(order) /\ a[j].at = mExpires[order[j]] /\ a[k].at = mExpires[order[k]]
        /\ order[j] \in Active /\ mExpires[order[j]] \in Nat /\ mExpires[order[k]] \in Nat
    <3>1. j \in 1..Len(order)
      BY <1>7
    <3> HIDE DEF a
    <3>2. a[j] = [timer |-> order[j], at |-> mExpires[order[j]]]
      BY <1>7, <3>1
    <3>3. a[k] = [timer |-> order[k], at |-> mExpires[order[k]]]
      BY <1>7
    <3>4. order[j] \in Timers /\ order[k] \in Timers /\ order[j] \in Active
      BY <1>6, <3>1 DEF SeqSet
    <3>5. QED
      BY <1>6, <3>1, <3>2, <3>3, <3>4
  <2>2. CASE order[j] = t
    <3>1. j = k
      BY <1>3, <1>6, <2>1, <2>2 DEF Injective
    <3>2. QED
      BY <2>1, <3>1
  <2>3. CASE order[j] # t
    <3>1. <<order[k], order[j]>> \in LessOf(mExpires, order)
      BY <1>2, <1>3, <2>1, <2>3 DEF Less
    <3>2. \/ mExpires[order[k]] < mExpires[order[j]]
          \/ mExpires[order[k]] = mExpires[order[j]] /\ k < j
      BY <1>6, <2>1, <3>1, LessAt
    <3>3. j \in Nat /\ k \in Nat
      OBVIOUS
    <3>4. QED
      BY <2>1, <3>2, <3>3
  <2>4. QED
    BY <2>2, <2>3
<1>9. QED
  BY <1>4, <1>5, <1>8
     DEF TimersOf!Fire, TimersOf!Earliest, TimersOf!Without, Ext!RemoveAt, ArmedOf

(* Cancel is Cancel, wherever the node is; when a null pointer is          *)
(* dereferenced nothing of it has happened yet.                            *)
LEMMA MapCancel ==
  ASSUME TreeInv, NEW t \in Timers, Cancel(t)
  PROVE  TimersOf!Cancel(t) \/ UNCHANGED TimersOf!vars
<1>1. CASE fault'
  <2>1. UNCHANGED <<order, mExpires, mCancelled>>
    BY <1>1 DEF Cancel
  <2>2. QED
    BY <2>1 DEF TimersOf!vars
<1>2. CASE ~fault'
  <2>1. /\ t \in Active /\ mCancelled' = [mCancelled EXCEPT ![t] = TRUE]
        /\ TakeOut(t) /\ Drop(t)
    BY <1>2 DEF Cancel
  <2>2. PICK k \in 1..Len(order) : order[k] = t /\ order' = Ext!RemoveAt(order, k)
    BY <2>1 DEF Drop
  <2> DEFINE a == ArmedOf(order, mExpires)
  <2>3. /\ ArmedOf(order', mExpires') = Ext!RemoveAt(a, k) /\ k \in 1..Len(a)
        /\ a[k].timer = t
    BY <2>1, <2>2, MapTakeOut
  <2>4. QED
    BY <2>1, <2>3 DEF TimersOf!Cancel, TimersOf!Without, Ext!RemoveAt, ArmedOf
<1>3. QED
  BY <1>1, <1>2

(* Every step is one of TimerSet, or a stutter.                            *)
LEMMA MapStep ==
  ASSUME TreeSafe, [TreeNext]_treeVars
  PROVE  [TimersOf!Next]_TimersOf!vars
<1>1. CASE UNCHANGED treeVars
  BY <1>1 DEF treeVars, TimersOf!vars
<1>2. CASE TreeNext /\ spoiled = TRUE
  BY <1>1, <1>2 DEF TreeNext, Arm, Cancel, Fire, Fix, Fixed, Spoilt, Idle
<1>3. CASE TreeNext /\ spoiled # TRUE
  <2>1. TreeInv
    BY <1>3 DEF TreeSafe
  <2>2. ASSUME NEW t \in Timers, NEW e \in Times, Arm(t, e) PROVE TimersOf!Next
    BY <2>1, <2>2, MapArm DEF TimersOf!Next
  <2>3. ASSUME NEW t \in Timers, Cancel(t) PROVE [TimersOf!Next]_TimersOf!vars
    BY <2>1, <2>3, MapCancel DEF TimersOf!Next
  <2>4. CASE Fire
    BY <2>1, <2>4, MapFire DEF TimersOf!Next
  <2>5. CASE Fix \/ Fixed \/ Spoilt
    <3>1. UNCHANGED <<order, mExpires, mCancelled>>
      BY <2>5 DEF Fix, Fixed, Spoilt, treeVars
    <3>2. QED
      BY <3>1 DEF TimersOf!vars
  <2>6. QED
    BY <1>3, <2>2, <2>3, <2>4, <2>5 DEF TreeNext
<1>4. QED
  BY <1>1, <1>2, <1>3

(* mTimers is a red-black tree of the active timers (generic_io.cpp, and   *)
(* rbtree.hpp), for any number of them and any expiry times, exactly until *)
(* a timer is cancelled whose node has two children: no other operation    *)
(* harms it, and every such cancellation does.                             *)
THEOREM TimersActive == TreeSpec => []AllActive
<1>1. TreeInit => TreeSafe
  BY TreeInvInit DEF TreeSafe
<1>2. TreeSafe /\ [TreeNext]_treeVars => TreeSafe'
  BY TreeSafeNext
<1>3. TreeSafe => AllActive
  BY TreeInvWhole DEF TreeSafe, AllActive, TreeInv
<1>4. QED
  BY <1>1, <1>2, <1>3, PTL DEF TreeSpec

(* Until then, and in that cancellation, it is the timer set of TimerSet:  *)
(* the one taken out is the earliest, the first armed among equals, and    *)
(* none is lost or fires twice.                                            *)
THEOREM TreeIsTimerSet == TreeSpec => ImplementsTimerSet
<1>1. TreeInit => TreeSafe
  BY TreeInvInit DEF TreeSafe
<1>2. TreeSafe /\ [TreeNext]_treeVars => TreeSafe'
  BY TreeSafeNext
<1>3. TreeInit => TimersOf!Init
  BY MapInit
<1>4. TreeSafe /\ [TreeNext]_treeVars => [TimersOf!Next]_TimersOf!vars
  BY MapStep
<1>5. QED
  BY <1>1, <1>2, <1>3, <1>4, PTL DEF TreeSpec, ImplementsTimerSet, TimersOf!Spec
==============================================================================
