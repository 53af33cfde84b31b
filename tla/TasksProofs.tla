------------------------------ MODULE TasksProofs ------------------------------
(***************************************************************************)
(* Proofs about Tasks, for any number of frames and any cancel tokens:     *)
(* each frame has one owner, control always has one place, and co_await    *)
(* behaves as a call.                                                      *)
(***************************************************************************)
EXTENDS Tasks, FiniteSetTheorems, SequenceTheorems, WellFoundedInduction, TLAPS

Coroutines == {Main} \cup Frames

Alive(f) == st[f] \notin {"none", "destroyed"}
Busy(f)  == st[f] \in {"running", "waiting"}
Told(f)  == st[f] \in {"yielded", "returned", "final"}

Awaits(f, g) == awaiter[f] # None /\ awaiter[f].mCallee = g

Types == /\ kind \in [Frames -> {"none", "starter", "task", "gen"}]
         /\ st \in [Frames -> {"none", "suspended", "running", "waiting", "yielded",
                               "returned", "final", "destroyed"}]
         /\ tasks \in [Coroutines -> SUBSET Frames]
         /\ awaiter \in [Frames -> Awaiters \cup {None}]
         /\ mAwaiter \in [Frames -> Frames \cup {None}]
         /\ current \in Coroutines /\ io \subseteq Frames

(* A frame that is not there holds nothing; a starter always awaits its    *)
(* task, a frame in the event loop none.                                   *)
FrameOK(f) == /\ st[f] = "none" <=> kind[f] = "none"
              /\ ~Alive(f) => tasks[f] = {} /\ awaiter[f] = None
              /\ kind[f] = "starter" /\ Alive(f) => /\ tasks[f] = {} /\ st[f] = "waiting"
                                                    /\ awaiter[f] # None /\ awaiter[f].owned
              /\ f \in io => st[f] = "waiting" /\ awaiter[f] = None

(* The awaited frame answers to the awaiting one, which owns it; it has    *)
(* spoken exactly when the awaiting one has control again.                 *)
Answers(f, g) == /\ st[f] = "waiting" /\ awaiter[f].mCaller = f
                 /\ kind[g] \in {"task", "gen"} /\ mAwaiter[g] = f
                 /\ awaiter[f].owned => \A h \in Coroutines : g \notin tasks[h]
                 /\ ~awaiter[f].owned => g \in tasks[f]
                 /\ current = f => Told(g)
                 /\ current # f => Busy(g)

AwaitOK(f) == \A g : Awaits(f, g) => Answers(f, g)

(* A frame in progress, but a starter's, is awaited.                       *)
CalleeOK(g) == Busy(g) /\ kind[g] # "starter" => mAwaiter[g] \in Frames /\ Awaits(mAwaiter[g], g)

Owns(f, g) == g \in tasks[f] \/ (f \in Frames /\ Awaits(f, g) /\ awaiter[f].owned)

Held(g) == /\ \A f \in Coroutines : g \in tasks[f] => Alive(g) /\ kind[g] # "starter"
           /\ \A f, h \in Coroutines : g \in tasks[f] /\ g \in tasks[h] => f = h
           /\ Alive(g) /\ kind[g] # "starter" => \E f \in Coroutines : Owns(f, g)

Executes == current # Main => \/ awaiter[current] # None
                              \/ st[current] = "running" /\ kind[current] # "starter"

(* Those inside a resume(): the thread, then the frames that spawned.      *)
ResumerOK(i) == /\ resumers[i] = Main <=> i = 1
                /\ resumers[i] \in Frames => /\ st[resumers[i]] = "running"
                                             /\ awaiter[resumers[i]] = None
                /\ resumers[i] # current
                /\ \A j \in 1..Len(resumers) : resumers[i] = resumers[j] => i = j

Control == /\ Executes
           /\ resumers \in Seq(Coroutines)
           /\ current = Main <=> resumers = << >>
           /\ \A i \in 1..Len(resumers) : ResumerOK(i)

Inv == /\ Types /\ Control
       /\ \A f \in Frames : FrameOK(f) /\ AwaitOK(f) /\ CalleeOK(f) /\ Held(f)
------------------------------------------------------------------------------
LEMMA Basics ==
  /\ Main \notin Frames /\ Frames \subseteq Nat \ {0} /\ Main \in Coroutines
  /\ Frames \subseteq Coroutines /\ None \notin Awaiters /\ None \notin Outcomes
  BY TasksAssumption DEF Main, Frames, Coroutines

LEMMA Least == ASSUME NEW S, S \subseteq Nat, S # {} PROVE \E x \in S : \A y \in S : x <= y
<1> DEFINE R == OpToRel(<, Nat)
<1>1. IsWellFoundedOn(R, Nat)
  BY NatLessThanWellFounded
<1>2. PICK x \in S : \A y \in S : ~(<<y, x>> \in R)
  <2> HIDE DEF R
  <2> QED
    BY <1>1, WFMin, Zenon
<1>3. \A y \in S : y < x => <<y, x>> \in R
  BY DEF OpToRel
<1>4. \A y \in S : ~(y < x)
  BY <1>2, <1>3, Zenon
<1>5. \A y \in S : x \in Nat /\ y \in Nat
  OBVIOUS
<1>6. \A y \in S : x <= y
  BY <1>4, <1>5
<1>7. QED
  BY <1>6

(* Frames are allocated in order.                                          *)
LEMMA NewFrame ==
  ASSUME \E g \in Frames : st[g] = "none"
  PROVE  New \in Frames /\ st[New] = "none"
<1> DEFINE S == {g \in Frames : st[g] = "none"}
<1>1. S \subseteq Nat /\ S # {}
  BY Basics
<1>2. PICK f \in S : \A g \in S : f <= g
  BY <1>1, Least
<1>3. f \in Frames /\ st[f] = "none" /\ \A g \in 1..f - 1 : st[g] # "none"
  <2>1. f \in Frames /\ st[f] = "none"
    OBVIOUS
  <2>2. ASSUME NEW g \in 1..f - 1, st[g] = "none" PROVE FALSE
    <3>1. f \in Nat /\ f <= MaxFrames /\ MaxFrames \in Nat
      BY <2>1, TasksAssumption DEF Frames
    <3>2. g \in Frames
      BY <3>1 DEF Frames
    <3>3. g \in S /\ g < f
      BY <2>2, <3>1, <3>2
    <3>4. QED
      BY <1>2, <3>1, <3>3
  <2>3. QED
    BY <2>1, <2>2
<1>4. QED
  BY <1>3 DEF New
------------------------------------------------------------------------------
(* Destruction.                                                            *)

(* What a frame owns: its task variables, and the frame awaited as a       *)
(* temporary.                                                              *)
LEMMA OwnedIs ==
  ASSUME Types, NEW f \in Frames
  PROVE  /\ \A g : g \in Owned(f) <=> Owns(f, g)
         /\ Owned(f) \subseteq Frames
<1>1. awaiter[f] \in Awaiters \cup {None} /\ tasks[f] \subseteq Frames /\ f \in Coroutines
  BY Basics DEF Types
<1>2. awaiter[f] # None => awaiter[f].mCallee \in Frames
  BY <1>1 DEF Awaiters
<1>3. ASSUME NEW g PROVE g \in Owned(f) <=> Owns(f, g)
  BY DEF Owned, Freed, Owns, Awaits
<1>4. QED
  BY <1>1, <1>2, <1>3 DEF Owns, Awaits

(* OwnedWith is the least closed set.                                      *)
LEMMA Closure ==
  ASSUME NEW S \in SUBSET Frames, \A f \in Frames : Owned(f) \subseteq Frames
  PROVE  /\ S \subseteq OwnedWith(S) /\ OwnedWith(S) \subseteq Frames
         /\ \A f \in OwnedWith(S) : Owned(f) \subseteq OwnedWith(S)
         /\ \A T \in SUBSET Frames :
              S \subseteq T /\ (\A f \in T : Owned(f) \subseteq T) => OwnedWith(S) \subseteq T
         /\ \A g \in OwnedWith(S) : g \in S \/ \E f \in OwnedWith(S) : g \in Owned(f)
<1>1. S \subseteq OwnedWith(S) /\ OwnedWith(S) \subseteq Frames
  BY DEF OwnedWith
<1>2. ASSUME NEW f \in OwnedWith(S), NEW g \in Owned(f) PROVE g \in OwnedWith(S)
  BY <1>1, <1>2 DEF OwnedWith
<1>3. \A T \in SUBSET Frames :
        S \subseteq T /\ (\A f \in T : Owned(f) \subseteq T) => OwnedWith(S) \subseteq T
  BY DEF OwnedWith
<1> DEFINE D == OwnedWith(S)
           T == {g \in D : g \in S \/ \E f \in D : g \in Owned(f)}
<1> HIDE DEF D
<1>4. T \in SUBSET Frames /\ S \subseteq T
  BY <1>1 DEF D
<1>5. \A f \in T : Owned(f) \subseteq T
  BY <1>2 DEF D
<1>6. D \subseteq T
  <2> HIDE DEF T
  <2> QED
    BY <1>3, <1>4, <1>5 DEF D
<1>7. QED
  BY <1>1, <1>2, <1>3, <1>6 DEF D

(* Nobody is executing or awaiting in the frame, and nobody awaits it.     *)
Loose(g) == /\ g \in Frames /\ Alive(g) /\ kind[g] # "starter" /\ ~Busy(g)
            /\ \A f \in Frames : ~Awaits(f, g)

(* What is in the task variables of a frame that awaits nothing is loose:  *)
(* a frame in progress, or that has just spoken, is owned by its caller.   *)
LEMMA LooseTasks ==
  ASSUME Inv, NEW f \in Coroutines, f \in Frames => awaiter[f] = None, NEW g \in tasks[f]
  PROVE  Loose(g)
<1>1. g \in Frames /\ Alive(g) /\ kind[g] # "starter"
  BY DEF Inv, Types, Held
<1>2. ASSUME NEW h \in Frames, Awaits(h, g) PROVE FALSE
  <2>1. g \in tasks[h]
    BY <1>2 DEF Inv, AwaitOK, Answers
  <2>2. f = h
    BY <1>1, <2>1, Basics DEF Inv, Held
  <2>3. QED
    BY <1>2, <2>2 DEF Awaits
<1>3. ~Busy(g)
  BY <1>1, <1>2 DEF Inv, CalleeOK
<1>4. QED
  BY <1>1, <1>2, <1>3 DEF Loose

LEMMA LooseFacts ==
  ASSUME Inv, NEW g, Loose(g) PROVE awaiter[g] = None
  BY DEF Inv, AwaitOK, Answers, Loose, Awaits, Busy

(* What is destroyed with the frames of S.                                 *)
LEMMA Fall ==
  ASSUME Inv, NEW S \in SUBSET Frames, NEW R \in SUBSET Frames, S \subseteq R,
         \A x \in R : \A y : Owns(x, y) => y \in R \/ Loose(y)
  PROVE  \A x \in OwnedWith(S) : x \in R \/ Loose(x)
<1> DEFINE T == R \cup {x \in Frames : Loose(x)}
<1>1. Types /\ \A x \in Frames : Owned(x) \subseteq Frames
  BY OwnedIs DEF Inv
<1>2. T \in SUBSET Frames /\ S \subseteq T
  OBVIOUS
<1>3. ASSUME NEW x \in T PROVE Owned(x) \subseteq T
  <2>1. x \in Frames /\ x \in Coroutines
    BY Basics
  <2>2. CASE x \in R
    BY <1>1, <2>1, <2>2, OwnedIs
  <2>3. CASE Loose(x)
    <3>1. awaiter[x] = None
      BY <2>3, LooseFacts
    <3>2. Owned(x) \subseteq tasks[x]
      BY <1>1, <2>1, <3>1, OwnedIs DEF Owns, Awaits
    <3>3. \A y \in tasks[x] : Loose(y)
      BY <2>1, <3>1, LooseTasks
    <3>4. QED
      BY <3>2, <3>3 DEF Loose
  <2>4. QED
    BY <2>2, <2>3
<1>4. OwnedWith(S) \subseteq T
  <2> HIDE DEF T
  <2> QED
    BY <1>1, <1>2, <1>3, Closure
<1>5. QED
  BY <1>4

(* A destroyed frame takes with it the only handle of each frame that it   *)
(* owns; the others keep their owner.                                      *)
LEMMA DestroyHeld ==
  ASSUME Inv, NEW f \in Coroutines, NEW S \in SUBSET Frames, NEW kept, Destroy(S, f, kept),
         kind' = kind, \A y \in S : \A h \in Coroutines : y \in tasks[h] => h = f,
         \A x \in Frames : kept[x] \in {"none", "destroyed"} => ~Alive(x),
         \A x \in Frames : ~Alive(x) => kept[x] \in {"none", "destroyed"},
         \A x \in Frames \ OwnedWith(S) : \A y \in Frames \ OwnedWith(S) :
           Awaits(x, y) /\ awaiter[x].owned => Awaits(x, y)' /\ awaiter'[x].owned,
         NEW g \in Frames
  PROVE  Held(g)'
<1> DEFINE D == OwnedWith(S)
<1>1. Types /\ (\A x \in Frames : Owned(x) \subseteq Frames) /\ Held(g)
  BY OwnedIs DEF Inv
<1>2. /\ S \subseteq D /\ D \subseteq Frames
      /\ \A x \in D : Owned(x) \subseteq D
      /\ \A y \in D : y \in S \/ \E x \in D : y \in Owned(x)
  BY <1>1, Closure
<1>3. /\ \A x \in Frames : st'[x] = IF x \in D THEN "destroyed" ELSE kept[x]
      /\ \A x \in Coroutines : tasks'[x] = IF x \in D THEN {} ELSE IF x = f THEN tasks[f] \ S
                                            ELSE tasks[x]
  BY DEF Destroy, Coroutines
<1> HIDE DEF D
<1>4. ASSUME NEW h \in Coroutines, g \in tasks'[h] PROVE g \notin D /\ g \in tasks[h]
  <2>1. h \notin D /\ g \in tasks[h] /\ (h = f => g \notin S)
    BY <1>3, <1>4
  <2>2. g \notin S
    BY <2>1
  <2>3. ASSUME NEW x \in D, g \in Owned(x) PROVE FALSE
    <3>1. x \in Frames /\ x \in Coroutines /\ Owns(x, g)
      BY <1>1, <1>2, <2>3, OwnedIs, Basics
    <3>2. CASE g \in tasks[x]
      BY <1>1, <2>1, <3>1, <3>2 DEF Held
    <3>3. CASE Awaits(x, g) /\ awaiter[x].owned
      BY <2>1, <3>1, <3>3 DEF Inv, AwaitOK, Answers
    <3>4. QED
      BY <3>1, <3>2, <3>3 DEF Owns
  <2>4. QED
    BY <1>2, <2>1, <2>2, <2>3
<1>5. ASSUME NEW h \in Coroutines, g \in tasks'[h] PROVE Alive(g)' /\ kind'[g] # "starter"
  <2>1. g \notin D /\ Alive(g) /\ kind[g] # "starter"
    BY <1>1, <1>4, <1>5 DEF Held
  <2>2. QED
    BY <1>3, <2>1 DEF Alive
<1>6. ASSUME Alive(g)', kind[g] # "starter" PROVE \E h \in Coroutines : Owns(h, g)'
  <2>1. g \notin D /\ Alive(g)
    BY <1>3, <1>6 DEF Alive
  <2>2. PICK h \in Coroutines : Owns(h, g)
    BY <1>1, <1>6, <2>1 DEF Held
  <2>3. h \in Frames => h \notin D
    BY <1>1, <1>2, <2>1, <2>2, OwnedIs
  <2>4. h \notin D
    BY <1>2, <2>3
  <2>5. CASE g \in tasks[h]
    BY <1>2, <1>3, <2>1, <2>4, <2>5 DEF Owns
  <2>6. CASE h \in Frames /\ Awaits(h, g) /\ awaiter[h].owned
    BY <2>1, <2>4, <2>6 DEF Owns, D
  <2>7. QED
    BY <2>2, <2>5, <2>6 DEF Owns
<1>7. QED
  BY <1>1, <1>4, <1>5, <1>6 DEF Held
------------------------------------------------------------------------------
(* Steps.                                                                  *)

LEMMA RunFacts ==
  ASSUME Inv, NEW f \in Frames, Running(f)
  PROVE  /\ current = f /\ awaiter[f] = None /\ st[f] = "running" /\ Alive(f)
         /\ kind[f] \in {"task", "gen"} /\ f \notin io
         /\ mAwaiter[f] \in Frames /\ mAwaiter[f] # f /\ Awaits(mAwaiter[f], f)
         /\ st[mAwaiter[f]] = "waiting" /\ awaiter[mAwaiter[f]].mCaller = mAwaiter[f]
<1>1. Types /\ FrameOK(f) /\ CalleeOK(f) /\ Control /\ f # Main
  BY Basics DEF Inv
<1>2. current = f /\ awaiter[f] = None /\ kind[f] # "starter"
  BY <1>1 DEF Running
<1>3. st[f] = "running"
  BY <1>1, <1>2 DEF Control, Executes
<1>4. Alive(f) /\ f \notin io /\ kind[f] # "none"
  BY <1>1, <1>3 DEF FrameOK, Alive
<1>5. kind[f] \in {"task", "gen"}
  BY <1>1, <1>2, <1>4 DEF Types
<1>6. mAwaiter[f] \in Frames /\ Awaits(mAwaiter[f], f)
  BY <1>1, <1>2, <1>3 DEF CalleeOK, Busy
<1>7. mAwaiter[f] # f /\ st[mAwaiter[f]] = "waiting" /\ awaiter[mAwaiter[f]].mCaller = mAwaiter[f]
  BY <1>2, <1>6 DEF Inv, AwaitOK, Answers, Awaits
<1>8. QED
  BY <1>2, <1>3, <1>4, <1>5, <1>6, <1>7

(* Whoever runs holds loose frames only.                                   *)
LEMMA RunHolds ==
  ASSUME Inv, NEW f \in Coroutines, Running(f)
  PROVE  /\ f \in Frames => awaiter[f] = None
         /\ \A g \in tasks[f] : Loose(g) /\ g # f /\ awaiter[g] = None
<1>1. f \in Frames => awaiter[f] = None /\ st[f] = "running"
  BY RunFacts
<1>2. ASSUME NEW g \in tasks[f] PROVE Loose(g) /\ g # f /\ awaiter[g] = None
  <2>1. Loose(g)
    BY <1>1, LooseTasks
  <2>2. QED
    BY <1>1, <2>1, LooseFacts, Basics DEF Loose, Busy
<1>3. QED
  BY <1>1, <1>2

(* Control stays where it is.                                              *)
LEMMA ControlSame ==
  ASSUME Inv, UNCHANGED <<current, resumers>>,
         \A x \in Frames : Busy(x) => st'[x] = st[x] /\ kind'[x] = kind[x] /\ awaiter'[x] = awaiter[x]
  PROVE  Control'
<1>1. Types /\ Control
  BY DEF Inv
<1>2. current \in Frames => Busy(current)
  <2>1. ASSUME current \in Frames, awaiter[current] # None PROVE Busy(current)
    BY <2>1 DEF Inv, AwaitOK, Answers, Awaits, Busy
  <2>2. QED
    BY <1>1, <2>1, Basics DEF Control, Executes, ResumerOK, Busy
<1>3. current # Main => current \in Frames
  BY <1>1 DEF Types, Coroutines
<1>4. \A i \in 1..Len(resumers) : resumers[i] \in Frames => Busy(resumers[i])
  BY <1>1 DEF Control, Executes, ResumerOK, Busy
<1>5. Executes'
  BY <1>1, <1>2, <1>3 DEF Control, Executes
<1>6. ASSUME NEW i \in 1..Len(resumers) PROVE ResumerOK(i)'
  <2>1. ResumerOK(i)
    BY <1>1 DEF Control
  <2>2. resumers[i] \in Frames => Busy(resumers[i])
    BY <1>4
  <2>3. QED
    BY <2>1, <2>2 DEF ResumerOK
<1>7. QED
  BY <1>1, <1>5, <1>6 DEF Control

(* A new frame is held by its caller, and holds its arguments.             *)
LEMMA CreateInv ==
  ASSUME Inv, NEW f \in Coroutines, NEW k \in {"task", "gen"}, Create(f, k) PROVE Inv'
<1> DEFINE n == New
<1>1. /\ n \in Frames /\ n \in Coroutines /\ st[n] = "none" /\ Running(f)
      /\ kind' = [kind EXCEPT ![n] = k] /\ st' = [st EXCEPT ![n] = "suspended"]
      /\ UNCHANGED <<awaiter, mAwaiter, current, resumers, io>>
  BY NewFrame, Basics DEF Create
<1>2. PICK args \in SUBSET tasks[f] :
             tasks' = [tasks EXCEPT ![f] = (@ \ args) \cup {n}, ![n] = args]
  BY DEF Create
<1> HIDE DEF n
<1>3. Types /\ Control /\ FrameOK(n) /\ (\A x \in Frames : Held(x))
  BY <1>1 DEF Inv
<1>4. kind[n] = "none" /\ ~Alive(n) /\ ~Busy(n) /\ tasks[n] = {} /\ awaiter[n] = None /\ n \notin io
  BY <1>1, <1>3 DEF FrameOK, Alive, Busy
<1>5. n # f
  BY <1>1, <1>4, RunFacts
<1>6. /\ tasks[f] \subseteq Frames /\ tasks'[n] = args /\ tasks'[f] = (tasks[f] \ args) \cup {n}
      /\ \A x \in Coroutines \ {f, n} : tasks'[x] = tasks[x]
      /\ \A x \in Coroutines : n \notin tasks[x]
  BY <1>1, <1>2, <1>3, <1>4, <1>5 DEF Types, Held
<1>7. /\ st'[n] = "suspended" /\ kind'[n] = k
      /\ \A x \in Frames \ {n} : st'[x] = st[x] /\ kind'[x] = kind[x]
  BY <1>1, <1>3 DEF Types
<1>8. Types'
  BY <1>1, <1>2, <1>3, <1>6 DEF Types
<1>9. Control'
  BY <1>1, <1>4, <1>7, ControlSame
<1>10. ASSUME NEW x \in Frames PROVE FrameOK(x)'
  <2>1. FrameOK(x) /\ x \in Coroutines
    BY Basics DEF Inv
  <2>2. CASE x = n
    BY <1>1, <1>4, <1>7, <2>2 DEF FrameOK, Alive
  <2>3. CASE x # n
    <3>1. x = f => Alive(x) /\ kind[x] # "starter"
      BY <1>1, RunFacts
    <3>2. QED
      BY <1>1, <1>6, <1>7, <2>1, <2>3, <3>1 DEF FrameOK, Alive
  <2>4. QED
    BY <2>2, <2>3
<1>11. ASSUME NEW x \in Frames, NEW g, Awaits(x, g)'
       PROVE  /\ Awaits(x, g) /\ g \in Frames /\ g # n /\ x # f /\ x # n /\ AwaitOK(x)
  <2>1. Awaits(x, g) /\ AwaitOK(x) /\ x # n
    BY <1>1, <1>4, <1>11 DEF Awaits, Inv
  <2>2. g \in Frames
    BY <1>3, <2>1 DEF Types, Awaits, Awaiters
  <2>3. g # n
    BY <1>1, <1>4, <2>1 DEF AwaitOK, Answers
  <2>4. x # f
    BY <1>1, <2>1, RunFacts DEF Awaits
  <2>5. QED
    BY <2>1, <2>2, <2>3, <2>4
<1>12. ASSUME NEW x \in Frames PROVE AwaitOK(x)'
  <2> SUFFICES ASSUME NEW y, Awaits(x, y)' PROVE Answers(x, y)'
    BY DEF AwaitOK
  <2> QED
    BY <1>1, <1>6, <1>7, <1>11, Basics DEF AwaitOK, Answers, Told, Busy
<1>13. ASSUME NEW g \in Frames PROVE CalleeOK(g)'
  <2>1. CalleeOK(g)
    BY DEF Inv
  <2>2. QED
    BY <1>1, <1>7, <2>1 DEF CalleeOK, Busy, Awaits
<1>14. ASSUME NEW g \in Frames PROVE Held(g)'
  <2>1. CASE g = n
    BY <1>1, <1>5, <1>6, <1>7, <2>1 DEF Held, Alive, Owns
  <2>2. CASE g \in args
    BY <1>1, <1>3, <1>5, <1>6, <1>7, <2>2 DEF Held, Alive, Owns
  <2>3. CASE g # n /\ g \notin args
    <3>1. Held(g)
      BY <1>3
    <3>2. \A x \in Coroutines : g \in tasks'[x] <=> g \in tasks[x]
      BY <1>1, <1>2, <1>4, <1>5, <1>6, <2>3
    <3>3. \A x \in Coroutines : Owns(x, g)' <=> Owns(x, g)
      BY <1>1, <3>2 DEF Owns, Awaits
    <3>4. QED
      BY <1>7, <2>3, <3>1, <3>2, <3>3 DEF Held, Alive
  <2>4. QED
    BY <2>1, <2>2, <2>3
<1>15. QED
  BY <1>8, <1>9, <1>10, <1>12, <1>13, <1>14 DEF Inv

LEMMA BindInv ==
  ASSUME Inv, NEW f \in Coroutines, NEW g \in Frames, NEW t \in Tokens, bind(f, g, t) PROVE Inv'
<1>1. UNCHANGED <<kind, st, tasks, awaiter, mAwaiter, current, resumers, io>>
  BY DEF bind
<1>2. Types' /\ Control'
  BY <1>1, ControlSame DEF Inv, Types
<1>3. ASSUME NEW x \in Frames PROVE FrameOK(x)' /\ AwaitOK(x)' /\ CalleeOK(x)' /\ Held(x)'
  <2>1. FrameOK(x) /\ AwaitOK(x) /\ CalleeOK(x) /\ Held(x)
    BY DEF Inv
  <2>2. FrameOK(x)'
    BY <1>1, <2>1 DEF FrameOK, Alive
  <2>3. AwaitOK(x)' /\ CalleeOK(x)'
    BY <1>1, <2>1 DEF AwaitOK, Answers, CalleeOK, Awaits, Told, Busy
  <2>4. Held(x)'
    BY <1>1, <2>1 DEF Held, Owns, Alive, Awaits
  <2>5. QED
    BY <2>2, <2>3, <2>4
<1>4. QED
  BY <1>2, <1>3 DEF Inv

(* What the frames that are left have to show when loose frames, and those *)
(* of R, are destroyed.                                                    *)
LEMMA DestroyTypes ==
  ASSUME Inv, NEW f \in Coroutines, NEW S \in SUBSET Frames,
         NEW kept \in [Frames -> {"none", "suspended", "running", "waiting", "yielded",
                                  "returned", "final", "destroyed"}],
         Destroy(S, f, kept)
  PROVE  /\ st' \in [Frames -> {"none", "suspended", "running", "waiting", "yielded",
                                "returned", "final", "destroyed"}]
         /\ tasks' \in [Coroutines -> SUBSET Frames]
         /\ \A x \in Frames : st'[x] = IF x \in OwnedWith(S) THEN "destroyed" ELSE kept[x]
         /\ \A x \in Coroutines : tasks'[x] = IF x \in OwnedWith(S) THEN {}
                                              ELSE IF x = f THEN tasks[f] \ S ELSE tasks[x]
<1>1. Types
  BY DEF Inv
<1> DEFINE D == OwnedWith(S)
<1>2. /\ st' = [x \in Frames |-> IF x \in D THEN "destroyed" ELSE kept[x]]
      /\ tasks' = [x \in Coroutines |-> IF x \in D THEN {} ELSE IF x = f THEN tasks[f] \ S ELSE tasks[x]]
  BY DEF Destroy, Coroutines
<1> HIDE DEF D
<1>3. QED
  BY <1>1, <1>2 DEF Types, D

LEMMA DropInv ==
  ASSUME Inv, NEW f \in Coroutines, NEW g \in Frames, DropTask(f, g) PROVE Inv'
<1> DEFINE D == OwnedWith({g})
<1>1. /\ Running(f) /\ g \in tasks[f] /\ Destroy({g}, f, st)
      /\ UNCHANGED <<kind, awaiter, mAwaiter, current, resumers, io>>
  BY DEF DropTask, promises
<1>2. Types /\ Control
  BY DEF Inv
<1>3. Loose(g) /\ awaiter[g] = None
  BY <1>1, RunHolds
<1>4. \A x \in D : Loose(x)
  <2>1. \A y : Owns(g, y) => Loose(y)
    BY <1>3, LooseTasks, Basics DEF Owns, Awaits
  <2>2. \A x \in OwnedWith({g}) : x \in {g} \/ Loose(x)
    BY <2>1, Fall
  <2>3. QED
    BY <1>3, <2>2
<1>5. /\ Types'
      /\ \A x \in Frames : st'[x] = IF x \in D THEN "destroyed" ELSE st[x]
      /\ \A x \in Coroutines : tasks'[x] = IF x \in D THEN {} ELSE IF x = f THEN tasks[f] \ {g} ELSE tasks[x]
  <2>1. st \in [Frames -> {"none", "suspended", "running", "waiting", "yielded",
                           "returned", "final", "destroyed"}]
    BY <1>2 DEF Types
  <2>2. {g} \in SUBSET Frames
    OBVIOUS
  <2> HIDE DEF D
  <2>3. /\ st' \in [Frames -> {"none", "suspended", "running", "waiting", "yielded",
                                "returned", "final", "destroyed"}]
        /\ tasks' \in [Coroutines -> SUBSET Frames]
        /\ \A x \in Frames : st'[x] = IF x \in D THEN "destroyed" ELSE st[x]
        /\ \A x \in Coroutines : tasks'[x] = IF x \in D THEN {} ELSE IF x = f THEN tasks[f] \ {g} ELSE tasks[x]
    BY <1>1, <2>1, <2>2, DestroyTypes DEF D
  <2>4. QED
    BY <1>1, <1>2, <2>3 DEF Types
<1>6. \A x \in Frames : Held(x)'
  <2>1. \A h \in Coroutines : g \in tasks[h] => h = f
    BY <1>1 DEF Inv, Held
  <2>2. \A x \in Frames : st[x] \in {"none", "destroyed"} <=> ~Alive(x)
    BY DEF Alive
  <2>3. \A x, y \in Frames : Awaits(x, y) /\ awaiter[x].owned => Awaits(x, y)' /\ awaiter'[x].owned
    BY <1>1 DEF Awaits
  <2>4. QED
    BY <1>1, <2>1, <2>2, <2>3, DestroyHeld
<1> HIDE DEF D
<1>7. \A x \in Frames : Busy(x) => x \notin D
  BY <1>4 DEF Loose
<1>8. Control'
  BY <1>1, <1>5, <1>7, ControlSame
<1>9. ASSUME NEW x \in Frames PROVE FrameOK(x)'
  <2>1. FrameOK(x) /\ x \in Coroutines
    BY Basics DEF Inv
  <2>2. CASE x \in D
    <3>1. Loose(x) /\ awaiter[x] = None
      BY <1>4, <2>2, LooseFacts
    <3>2. QED
      BY <1>1, <1>5, <2>1, <2>2, <3>1 DEF FrameOK, Alive, Loose, Busy
  <2>3. CASE x \notin D
    <3>1. x = f => Alive(x) /\ kind[x] # "starter"
      BY <1>1, RunFacts
    <3>2. QED
      BY <1>1, <1>5, <2>1, <2>3, <3>1 DEF FrameOK, Alive
  <2>4. QED
    BY <2>2, <2>3
<1>10. ASSUME NEW x \in Frames PROVE AwaitOK(x)'
  <2> SUFFICES ASSUME NEW y, Awaits(x, y)' PROVE Answers(x, y)'
    BY DEF AwaitOK
  <2> Awaits(x, y)
    BY <1>1 DEF Awaits
  <2>1. AwaitOK(x) /\ x \in Coroutines
    BY Basics DEF Inv
  <2>2. y \in Frames /\ y \notin D /\ x \notin D
    BY <1>2, <1>4, LooseFacts DEF Loose, Awaits, Types, Awaiters
  <2>3. x # f
    BY <1>1, RunFacts DEF Awaits
  <2>4. \A h \in Coroutines : y \in tasks'[h] => y \in tasks[h]
    BY <1>5
  <2>5. QED
    BY <1>1, <1>5, <2>1, <2>2, <2>3, <2>4 DEF AwaitOK, Answers, Awaits, Told, Busy
<1>11. ASSUME NEW y \in Frames PROVE CalleeOK(y)'
  <2>1. CalleeOK(y)
    BY DEF Inv
  <2>2. QED
    BY <1>1, <1>5, <2>1 DEF CalleeOK, Busy, Awaits
<1>12. QED
  BY <1>5, <1>6, <1>8, <1>9, <1>10, <1>11 DEF Inv

LEMMA HeldSame ==
  ASSUME NEW g, Held(g), \A h \in Coroutines : g \in tasks'[h] <=> g \in tasks[h],
         \A h \in Frames : Awaits(h, g) /\ awaiter[h].owned => Awaits(h, g)' /\ awaiter'[h].owned,
         Alive(g)' <=> Alive(g), kind'[g] = kind[g]
  PROVE  Held(g)'
<1>1. \A h \in Coroutines : Owns(h, g) => Owns(h, g)'
  BY DEF Owns
<1>2. QED
  BY <1>1 DEF Held

(* The awaited frame runs, and answers to the one that awaits it.          *)
LEMMA AwaitInv ==
  ASSUME Inv, NEW f \in Frames, NEW g \in Frames, NEW owned \in BOOLEAN, AwaitTask(f, g, owned)
  PROVE  Inv'
<1> DEFINE r == [mCallee |-> g, mCaller |-> f, owned |-> owned, mResult |-> None]
<1>1. /\ Running(f) /\ g \in tasks[f] /\ f \in Coroutines /\ g \in Coroutines
      /\ awaiter' = [awaiter EXCEPT ![f] = r] /\ mAwaiter' = [mAwaiter EXCEPT ![g] = f]
      /\ tasks' = [tasks EXCEPT ![f] = IF owned THEN @ \ {g} ELSE @]
      /\ st' = [st EXCEPT ![f] = "waiting", ![g] = "running"] /\ current' = g
      /\ UNCHANGED <<kind, resumers, io>>
  BY Basics DEF AwaitTask, MoveHandle, MakeAwaiter
<1>2. Types /\ Control /\ FrameOK(g) /\ Held(g)
  BY DEF Inv
<1>3. r \in Awaiters /\ r # None /\ r.mCallee = g /\ r.mCaller = f /\ r.owned = owned
  BY Basics DEF Awaiters
<1>4. /\ current = f /\ awaiter[f] = None /\ st[f] = "running" /\ f \notin io
      /\ kind[f] \in {"task", "gen"} /\ mAwaiter[f] \in Frames /\ mAwaiter[f] # f
      /\ Awaits(mAwaiter[f], f)
  BY <1>1, RunFacts
<1>5. Loose(g) /\ g # f /\ awaiter[g] = None
  BY <1>1, RunHolds
<1>6. kind[g] \in {"task", "gen"} /\ st[g] # "running" /\ st[g] # "waiting" /\ Alive(g) /\ g \notin io
  BY <1>2, <1>5 DEF Loose, FrameOK, Alive, Busy, Types
<1> HIDE DEF r
<1>7. /\ awaiter'[f] = r /\ \A x \in Frames \ {f} : awaiter'[x] = awaiter[x]
      /\ mAwaiter'[g] = f /\ \A x \in Frames \ {g} : mAwaiter'[x] = mAwaiter[x]
      /\ st'[f] = "waiting" /\ st'[g] = "running"
      /\ \A x \in Frames \ {f, g} : st'[x] = st[x]
  BY <1>1, <1>2, <1>5 DEF Types
<1>8. /\ \A x \in Coroutines : tasks'[x] = IF x = f /\ owned THEN tasks[f] \ {g} ELSE tasks[x]
      /\ tasks' \in [Coroutines -> SUBSET Frames]
  BY <1>1, <1>2 DEF Types
<1>9. Types'
  BY <1>1, <1>2, <1>3, <1>8 DEF Types
<1>10. Control'
  <2>1. current # Main /\ current' # Main /\ resumers # << >>
    BY <1>1, <1>2, <1>4, Basics DEF Control
  <2>2. Executes'
    BY <1>1, <1>6, <1>7 DEF Executes
  <2>3. ASSUME NEW i \in 1..Len(resumers) PROVE ResumerOK(i)'
    <3>1. ResumerOK(i) /\ resumers[i] # f /\ resumers[i] # g
      BY <1>2, <1>4, <1>6 DEF Control, ResumerOK
    <3>2. resumers[i] \in Frames => st'[resumers[i]] = "running" /\ awaiter'[resumers[i]] = None
      BY <1>7, <3>1 DEF ResumerOK
    <3>3. resumers' = resumers /\ current' = g
      BY <1>1
    <3>4. QED
      BY <3>1, <3>2, <3>3 DEF ResumerOK
  <2>4. QED
    BY <1>1, <1>2, <2>1, <2>2, <2>3 DEF Control
<1>11. ASSUME NEW x \in Frames PROVE FrameOK(x)'
  <2>1. FrameOK(x) /\ x \in Coroutines
    BY Basics DEF Inv
  <2>2. CASE x \in {f, g}
    BY <1>1, <1>4, <1>6, <1>7, <2>2 DEF FrameOK, Alive
  <2>3. CASE x \notin {f, g}
    BY <1>1, <1>7, <1>8, <2>1, <2>3 DEF FrameOK, Alive
  <2>4. QED
    BY <2>2, <2>3
<1>12. ASSUME NEW x \in Frames PROVE AwaitOK(x)'
  <2> SUFFICES ASSUME NEW y, Awaits(x, y)' PROVE Answers(x, y)'
    BY DEF AwaitOK
  <2>1. CASE x = f
    <3>1. y = g
      BY <1>3, <1>7, <2>1 DEF Awaits
    <3>2. owned => \A h \in Coroutines : g \notin tasks'[h]
      BY <1>1, <1>2, <1>8 DEF Held
    <3>3. ~owned => g \in tasks'[f]
      BY <1>1, <1>8
    <3>4. QED
      BY <1>1, <1>3, <1>5, <1>6, <1>7, <2>1, <3>1, <3>2, <3>3 DEF Answers, Busy
  <2>2. CASE x # f
    <3>1. Awaits(x, y) /\ AwaitOK(x) /\ x # g /\ y \in Frames /\ y # g /\ x \in Coroutines
      <4>1. Awaits(x, y)
        BY <1>7, <2>2 DEF Awaits
      <4>2. y \in Frames
        BY <1>2, <4>1 DEF Awaits, Types, Awaiters
      <4>3. QED
        BY <1>5, <4>1, <4>2, Basics DEF Awaits, Loose, Inv
    <3>2. Answers(x, y)
      BY <3>1 DEF AwaitOK
    <3>3. Busy(y)'
      BY <1>4, <1>7, <2>2, <3>1, <3>2 DEF Answers, Busy
    <3>4. \A h \in Coroutines : y \in tasks'[h] => y \in tasks[h]
      BY <1>8
    <3>5. tasks'[x] = tasks[x] /\ st'[x] = st[x] /\ awaiter'[x] = awaiter[x] /\ mAwaiter'[y] = mAwaiter[y]
      BY <1>7, <1>8, <2>2, <3>1
    <3>6. QED
      BY <1>1, <3>1, <3>2, <3>3, <3>4, <3>5 DEF Answers
  <2>3. QED
    BY <2>1, <2>2
<1>13. ASSUME NEW y \in Frames PROVE CalleeOK(y)'
  <2>1. CASE y = g
    BY <1>1, <1>3, <1>7, <2>1, Basics DEF CalleeOK, Awaits
  <2>2. CASE y # g
    <3>1. Busy(y)' => Busy(y)
      BY <1>4, <1>7, <2>2 DEF Busy
    <3>2. mAwaiter'[y] = mAwaiter[y] /\ kind'[y] = kind[y] /\ CalleeOK(y)
      BY <1>1, <1>7, <2>2 DEF Inv
    <3>3. \A x \in Frames : Awaits(x, y) => Awaits(x, y)'
      BY <1>4, <1>7 DEF Awaits
    <3>4. QED
      BY <3>1, <3>2, <3>3 DEF CalleeOK
  <2>3. QED
    BY <2>1, <2>2
<1>14. ASSUME NEW y \in Frames PROVE Held(y)'
  <2>1. CASE y = g /\ owned
    <3>1. \A h \in Coroutines : g \notin tasks'[h]
      BY <1>1, <1>2, <1>8, <2>1 DEF Held
    <3>2. Owns(f, g)'
      BY <1>3, <1>7, <2>1 DEF Owns, Awaits
    <3>3. QED
      BY <1>1, <2>1, <3>1, <3>2 DEF Held
  <2>2. CASE ~(y = g /\ owned)
    <3>1. \A h \in Coroutines : y \in tasks'[h] <=> y \in tasks[h]
      BY <1>8, <2>2
    <3>2. \A h \in Frames : Awaits(h, y) /\ awaiter[h].owned => Awaits(h, y)' /\ awaiter'[h].owned
      BY <1>4, <1>7 DEF Awaits
    <3>3. Alive(y)' <=> Alive(y)
      BY <1>4, <1>6, <1>7 DEF Alive
    <3>4. Held(y)
      BY DEF Inv
    <3>5. QED
      BY <1>1, <3>1, <3>2, <3>3, <3>4, HeldSame
  <2>3. QED
    BY <2>1, <2>2
<1>15. QED
  BY <1>9, <1>10, <1>11, <1>12, <1>13, <1>14 DEF Inv

(* Speaking writes to the caller's awaiter and gives the caller control.   *)
LEMMA TellFacts ==
  ASSUME Inv, NEW f \in Frames, Running(f), NEW o \in Outcomes, Tell(f, o)
  PROVE  /\ current' = mAwaiter[f] /\ UNCHANGED <<kind, mAwaiter, resumers, io>>
         /\ awaiter' \in [Frames -> Awaiters \cup {None}]
         /\ awaiter'[mAwaiter[f]].mResult = o
         /\ \A x \in Frames \ {mAwaiter[f]} : awaiter'[x] = awaiter[x]
         /\ \A x \in Frames :
              /\ awaiter'[x] # None <=> awaiter[x] # None
              /\ awaiter[x] # None => /\ awaiter'[x].mCallee = awaiter[x].mCallee
                                      /\ awaiter'[x].mCaller = awaiter[x].mCaller
                                      /\ awaiter'[x].owned = awaiter[x].owned
<1> DEFINE c == mAwaiter[f]
           r == [awaiter[c] EXCEPT !.mResult = o]
<1>1. c \in Frames /\ Awaits(c, f) /\ awaiter[c].mCaller = c
  BY RunFacts
<1>2. awaiter \in [Frames -> Awaiters \cup {None}]
  BY DEF Inv, Types
<1>3. awaiter' = [awaiter EXCEPT ![c] = r] /\ current' = c /\ UNCHANGED <<kind, mAwaiter, resumers, io>>
  BY <1>1 DEF Tell, emplace, promises
<1>4. awaiter[c] \in Awaiters
  BY <1>1, <1>2 DEF Awaits
<1>5. /\ r \in Awaiters /\ r.mResult = o /\ r.mCallee = awaiter[c].mCallee
      /\ r.mCaller = awaiter[c].mCaller /\ r.owned = awaiter[c].owned
  BY <1>4 DEF Awaiters
<1>6. r # None
  BY <1>5, Basics
<1> HIDE DEF r
<1>7. awaiter'[c] = r /\ \A x \in Frames \ {c} : awaiter'[x] = awaiter[x]
  BY <1>1, <1>2, <1>3
<1>8. awaiter' \in [Frames -> Awaiters \cup {None}]
  BY <1>1, <1>2, <1>3, <1>5
<1>9. QED
  BY <1>1, <1>3, <1>5, <1>6, <1>7, <1>8 DEF Awaits

(* D is what is destroyed with the variables of the frame that speaks.     *)
LEMMA SpeakInv ==
  ASSUME Inv, NEW f \in Frames, Running(f), NEW o \in Outcomes, Tell(f, o),
         NEW D \in SUBSET Frames, \A x \in D : Loose(x),
         st' \in [Frames -> {"none", "suspended", "running", "waiting", "yielded",
                             "returned", "final", "destroyed"}],
         tasks' \in [Coroutines -> SUBSET Frames],
         Told(f)', \A x \in Frames \ {f} : st'[x] = IF x \in D THEN "destroyed" ELSE st[x],
         \A x \in D : tasks'[x] = {},
         \A x \in Coroutines : tasks'[x] \subseteq tasks[x],
         \A x \in Coroutines \ {f} : x \notin D => tasks'[x] = tasks[x],
         \A g \in Frames : Held(g)'
  PROVE  Inv'
<1> DEFINE c == mAwaiter[f]
<1>1. Types /\ Control
  BY DEF Inv
<1>2. /\ current = f /\ awaiter[f] = None /\ st[f] = "running" /\ f \notin io
      /\ kind[f] \in {"task", "gen"} /\ c \in Frames /\ c # f /\ Awaits(c, f)
  BY RunFacts
<1>3. /\ current' = c /\ UNCHANGED <<kind, mAwaiter, resumers, io>>
      /\ awaiter' \in [Frames -> Awaiters \cup {None}]
      /\ \A x \in Frames : awaiter'[x] # None <=> awaiter[x] # None
      /\ \A x \in Frames : awaiter[x] # None =>
           /\ awaiter'[x].mCallee = awaiter[x].mCallee
           /\ awaiter'[x].mCaller = awaiter[x].mCaller /\ awaiter'[x].owned = awaiter[x].owned
  BY TellFacts
<1> HIDE DEF c
<1>4. \A x \in Frames : \A y : Awaits(x, y)' <=> Awaits(x, y)
  BY <1>3 DEF Awaits
<1>5. Types'
  BY <1>1, <1>2, <1>3, Basics DEF Types, Coroutines
<1>6. Control'
  <2>1. current # Main /\ current' # Main /\ resumers # << >>
    BY <1>1, <1>2, <1>3, Basics DEF Control
  <2>2. Executes'
    BY <1>2, <1>3 DEF Executes, Awaits
  <2>3. ASSUME NEW i \in 1..Len(resumers) PROVE ResumerOK(i)'
    <3>1. ResumerOK(i)
      BY <1>1 DEF Control
    <3>2. ASSUME resumers[i] \in Frames PROVE st'[resumers[i]] = "running" /\ awaiter'[resumers[i]] = None
      <4>1. st[resumers[i]] = "running" /\ awaiter[resumers[i]] = None /\ resumers[i] # f
        BY <1>2, <3>1, <3>2 DEF ResumerOK
      <4>2. resumers[i] \notin D
        BY <4>1 DEF Loose, Busy
      <4>3. QED
        BY <1>3, <3>2, <4>1, <4>2
    <3>3. resumers[i] # c
      BY <1>2, <3>1 DEF ResumerOK, Awaits
    <3>4. resumers' = resumers /\ current' = c
      BY <1>3
    <3>5. QED
      BY <3>1, <3>2, <3>3, <3>4 DEF ResumerOK
  <2>4. QED
    BY <1>1, <1>3, <2>1, <2>2, <2>3 DEF Control
<1>7. ASSUME NEW x \in Frames PROVE FrameOK(x)'
  <2>1. FrameOK(x) /\ x \in Coroutines
    BY Basics DEF Inv
  <2>2. CASE x = f
    BY <1>2, <1>3, <2>2 DEF FrameOK, Alive, Told
  <2>3. CASE x \in D /\ x # f
    <3>1. Loose(x) /\ awaiter[x] = None
      BY <2>3, LooseFacts
    <3>2. QED
      BY <1>3, <2>1, <2>3, <3>1 DEF FrameOK, Alive, Loose, Busy
  <2>4. CASE x \notin D /\ x # f
    BY <1>3, <2>1, <2>4 DEF FrameOK, Alive
  <2>5. QED
    BY <2>2, <2>3, <2>4
<1>8. ASSUME NEW x \in Frames PROVE AwaitOK(x)'
  <2> SUFFICES ASSUME NEW y, Awaits(x, y)' PROVE Answers(x, y)'
    BY DEF AwaitOK
  <2>1. Awaits(x, y) /\ Answers(x, y) /\ awaiter[x] # None /\ x \in Coroutines
    BY <1>4, Basics DEF Inv, AwaitOK, Awaits
  <2>2. y \in Frames
    BY <1>1, <2>1 DEF Awaits, Types, Awaiters
  <2>3. x # f /\ x \notin D /\ y \notin D
    BY <1>2, <2>1, LooseFacts DEF Loose
  <2>4. st'[x] = st[x] /\ tasks'[x] = tasks[x]
    BY <2>1, <2>3
  <2>5. \A h \in Coroutines : y \notin tasks[h] => y \notin tasks'[h]
    OBVIOUS
  <2>6. CASE x = c
    <3>1. y = f
      BY <1>2, <2>1, <2>6 DEF Awaits
    <3>2. QED
      BY <1>3, <2>1, <2>4, <2>5, <2>6, <3>1 DEF Answers
  <2>7. CASE x # c
    <3>1. y # f
      BY <2>1, <2>7 DEF Answers, c
    <3>2. Busy(y)'
      BY <1>2, <2>1, <2>2, <2>3, <3>1 DEF Answers, Busy
    <3>3. QED
      BY <1>3, <2>1, <2>4, <2>5, <2>7, <3>2 DEF Answers
  <2>8. QED
    BY <2>6, <2>7
<1>9. ASSUME NEW y \in Frames PROVE CalleeOK(y)'
  <2>1. Busy(y)' => Busy(y)
    BY <1>2 DEF Busy
  <2>2. CalleeOK(y)
    BY DEF Inv
  <2>3. QED
    BY <1>3, <1>4, <2>1, <2>2 DEF CalleeOK
<1>10. QED
  BY <1>5, <1>6, <1>7, <1>8, <1>9 DEF Inv

LEMMA FinishInv ==
  ASSUME Inv, NEW f \in Frames, NEW o \in {"value", "exception"}, Finish(f, o) PROVE Inv'
<1> DEFINE S == tasks[f]
           D == OwnedWith(S)
           kept == [st EXCEPT ![f] = "final"]
<1>1. Running(f) /\ Tell(f, o) /\ Destroy(S, f, kept) /\ o \in Outcomes /\ f \in Coroutines
  BY Basics DEF Finish, Outcomes
<1>2. Types /\ S \in SUBSET Frames
  BY <1>1 DEF Inv, Types
<1>3. /\ kept \in [Frames -> {"none", "suspended", "running", "waiting", "yielded",
                              "returned", "final", "destroyed"}]
      /\ kept[f] = "final" /\ \A x \in Frames \ {f} : kept[x] = st[x]
  BY <1>2 DEF Types
<1>4. Alive(f) /\ \A x \in S : Loose(x)
  BY <1>1, RunFacts, RunHolds
<1>5. \A x \in D : Loose(x)
  <2>1. ASSUME NEW x \in S, NEW y, Owns(x, y) PROVE Loose(y)
    <3>1. x \in Frames /\ x \in Coroutines /\ awaiter[x] = None
      BY <1>2, <1>4, LooseFacts, Basics
    <3>2. y \in tasks[x]
      BY <2>1, <3>1 DEF Owns, Awaits
    <3>3. QED
      BY <3>1, <3>2, LooseTasks
  <2>2. \A x \in D : x \in S \/ Loose(x)
    BY <1>2, <2>1, Fall
  <2>3. QED
    BY <1>4, <2>2
<1>6. D \in SUBSET Frames /\ f \notin D
  BY <1>1, <1>5, RunFacts DEF Loose, Busy
<1> HIDE DEF S, kept
<1>7. /\ st' \in [Frames -> {"none", "suspended", "running", "waiting", "yielded",
                             "returned", "final", "destroyed"}]
      /\ tasks' \in [Coroutines -> SUBSET Frames]
      /\ \A x \in Frames : st'[x] = IF x \in D THEN "destroyed" ELSE kept[x]
      /\ \A x \in Coroutines : tasks'[x] = IF x \in D THEN {} ELSE IF x = f THEN tasks[f] \ S ELSE tasks[x]
  BY <1>1, <1>2, <1>3, DestroyTypes
<1>8. ASSUME NEW g \in Frames PROVE Held(g)'
  <2>1. \A y \in S : \A h \in Coroutines : y \in tasks[h] => h = f
    BY <1>1, <1>2 DEF Inv, Held, S
  <2>2. \A x \in Frames : kept[x] \in {"none", "destroyed"} <=> ~Alive(x)
    BY <1>3, <1>4 DEF Alive
  <2>3. \A x, y \in Frames : Awaits(x, y) /\ awaiter[x].owned => Awaits(x, y)' /\ awaiter'[x].owned
    BY <1>1, TellFacts DEF Awaits
  <2>4. kind' = kind
    BY <1>1, TellFacts
  <2>5. QED
    BY <1>1, <1>2, <2>1, <2>2, <2>3, <2>4, DestroyHeld
<1> HIDE DEF D
<1>9. /\ Told(f)' /\ \A x \in Frames \ {f} : st'[x] = IF x \in D THEN "destroyed" ELSE st[x]
      /\ \A x \in D : tasks'[x] = {}
  BY <1>3, <1>6, <1>7, Basics DEF Told
<1>10. /\ \A x \in Coroutines : tasks'[x] \subseteq tasks[x]
       /\ \A x \in Coroutines \ {f} : x \notin D => tasks'[x] = tasks[x]
  BY <1>7
<1>11. QED
  BY <1>1, <1>5, <1>6, <1>7, <1>8, <1>9, <1>10, SpeakInv

(* Speaking without an end: the variables live on.                         *)
LEMMA GoOnInv ==
  ASSUME Inv, NEW f \in Frames, Running(f), NEW o \in Outcomes, Tell(f, o),
         NEW s \in {"returned", "yielded"}, st' = [st EXCEPT ![f] = s], tasks' = tasks
  PROVE  Inv'
<1>1. Types /\ Alive(f)
  BY RunFacts DEF Inv
<1>2. /\ st' \in [Frames -> {"none", "suspended", "running", "waiting", "yielded",
                             "returned", "final", "destroyed"}]
      /\ tasks' \in [Coroutines -> SUBSET Frames]
      /\ st'[f] = s /\ \A x \in Frames \ {f} : st'[x] = st[x]
  BY <1>1 DEF Types
<1>3. ASSUME NEW g \in Frames PROVE Held(g)'
  <2>1. Held(g)
    BY DEF Inv
  <2>2. kind' = kind /\ \A x \in Frames : Awaits(x, g) /\ awaiter[x].owned => Awaits(x, g)' /\ awaiter'[x].owned
    BY TellFacts DEF Awaits
  <2>3. Alive(g)' <=> Alive(g)
    BY <1>1, <1>2 DEF Alive
  <2>4. QED
    BY <2>1, <2>2, <2>3, HeldSame
<1>4. Told(f)'
  BY <1>2 DEF Told
<1> DEFINE D == {}
<1>5. /\ D \in SUBSET Frames /\ \A x \in D : Loose(x) /\ tasks'[x] = {}
      /\ \A x \in Frames \ {f} : st'[x] = IF x \in D THEN "destroyed" ELSE st[x]
      /\ \A x \in Coroutines : tasks'[x] \subseteq tasks[x]
      /\ \A x \in Coroutines \ {f} : x \notin D => tasks'[x] = tasks[x]
  BY <1>2
<1> HIDE DEF D
<1>6. QED
  BY <1>2, <1>3, <1>4, <1>5, SpeakInv

LEMMA ReturnErrorInv == ASSUME Inv, NEW f \in Frames, ReturnError(f) PROVE Inv'
<1>1. /\ Running(f) /\ Tell(f, "error") /\ st' = [st EXCEPT ![f] = "returned"] /\ tasks' = tasks
      /\ "error" \in Outcomes /\ "returned" \in {"returned", "yielded"}
  BY DEF ReturnError, ValueOrReturnAwaiter, Outcomes
<1>2. QED
  BY <1>1, GoOnInv

LEMMA YieldInv == ASSUME Inv, NEW f \in Frames, yield_value(f) PROVE Inv'
<1>1. /\ Running(f) /\ Tell(f, "yield") /\ st' = [st EXCEPT ![f] = "yielded"] /\ tasks' = tasks
      /\ "yield" \in Outcomes /\ "yielded" \in {"returned", "yielded"}
  BY DEF yield_value, Outcomes
<1>2. QED
  BY <1>1, GoOnInv

(* The caller takes what was said; the frame it owns is destroyed.         *)
LEMMA ResumeInv == ASSUME Inv, NEW f \in Frames, await_resume(f) PROVE Inv'
<1> DEFINE S == Freed({f})
           D == OwnedWith(S)
           kept == [st EXCEPT ![f] = "running"]
           g == awaiter[f].mCallee
<1>1. /\ current = f /\ Awaits(f, g) /\ kind[f] # "starter" /\ f \in Coroutines
      /\ awaiter' = [awaiter EXCEPT ![f] = None] /\ Destroy(S, f, kept)
      /\ UNCHANGED <<kind, mAwaiter, current, resumers, io>>
  BY Basics DEF await_resume, promises, Awaits
<1>2. Types /\ Control /\ FrameOK(f) /\ Answers(f, g)
  BY <1>1 DEF Inv, AwaitOK
<1>3. /\ kept \in [Frames -> {"none", "suspended", "running", "waiting", "yielded",
                              "returned", "final", "destroyed"}]
      /\ kept[f] = "running" /\ \A x \in Frames \ {f} : kept[x] = st[x]
  BY <1>2 DEF Types
<1>4. /\ st[f] = "waiting" /\ Alive(f) /\ kind[g] \in {"task", "gen"} /\ mAwaiter[g] = f
      /\ Told(g) /\ g \in Frames /\ g # f /\ f \notin io
  <2>1. g \in Frames
    BY <1>1, <1>2 DEF Awaits, Types, Awaiters
  <2>2. QED
    BY <1>1, <1>2, <2>1 DEF Answers, Told, Alive, FrameOK, Awaits
<1>5. S = IF awaiter[f].owned THEN {g} ELSE {}
  BY DEF Freed
<1>6. awaiter[g] = None
  BY <1>4 DEF Inv, AwaitOK, Awaits, Answers, Told
<1>7. \A x : ~Awaits(x, g) \/ x = f \/ x \notin Frames
  BY <1>4 DEF Inv, AwaitOK, Answers
<1>8. \A x \in D : x = g \/ Loose(x)
  <2>1. \A y : Owns(g, y) => Loose(y)
    BY <1>4, <1>6, LooseTasks, Basics DEF Owns, Awaits
  <2>2. S \in SUBSET Frames /\ {g} \in SUBSET Frames /\ S \subseteq {g}
    BY <1>4, <1>5
  <2> HIDE DEF S, g
  <2>3. \A x \in D : x \in {g} \/ Loose(x)
    BY <2>1, <2>2, Fall
  <2>4. QED
    BY <2>3
<1>9. /\ awaiter'[f] = None /\ \A x \in Frames \ {f} : awaiter'[x] = awaiter[x]
      /\ awaiter' \in [Frames -> Awaiters \cup {None}]
  BY <1>1, <1>2 DEF Types
<1>10. S \in SUBSET Frames
  BY <1>4, <1>5
<1>11. f \notin D
  BY <1>4, <1>8 DEF Loose, Busy
<1> HIDE DEF kept
<1>12. /\ st' \in [Frames -> {"none", "suspended", "running", "waiting", "yielded",
                              "returned", "final", "destroyed"}]
       /\ tasks' \in [Coroutines -> SUBSET Frames]
       /\ \A x \in Frames : st'[x] = IF x \in D THEN "destroyed" ELSE kept[x]
       /\ \A x \in Coroutines : tasks'[x] = IF x \in D THEN {} ELSE IF x = f THEN tasks[f] \ S ELSE tasks[x]
  <2> HIDE DEF S
  <2> QED
    BY <1>1, <1>3, <1>10, DestroyTypes
<1>13. ASSUME NEW x \in Frames PROVE Held(x)'
  <2>1. \A y \in S : \A h \in Coroutines : y \in tasks[h] => h = f
    BY <1>2, <1>5 DEF Answers
  <2>2. \A y \in Frames : kept[y] \in {"none", "destroyed"} <=> ~Alive(y)
    BY <1>3, <1>4 DEF Alive
  <2>3. ASSUME NEW h \in Frames \ D, NEW y \in Frames \ D, Awaits(h, y), awaiter[h].owned
        PROVE  Awaits(h, y)' /\ awaiter'[h].owned
    <3>1. S \subseteq D
      <4> HIDE DEF S
      <4> QED
        BY <1>10, <1>2, OwnedIs, Closure
    <3>2. h # f
      BY <1>5, <2>3, <3>1 DEF Awaits
    <3>3. QED
      BY <1>9, <2>3, <3>2 DEF Awaits
  <2> HIDE DEF S
  <2>4. QED
    BY <1>1, <1>10, <2>1, <2>2, <2>3, DestroyHeld
<1>14. \A x \in Coroutines : tasks'[x] \subseteq tasks[x]
  BY <1>12
<1>15. \A x \in Coroutines : x \notin D => tasks'[x] = tasks[x]
  <2>1. tasks[f] \ S = tasks[f]
    BY <1>2, <1>1, <1>5 DEF Answers
  <2> HIDE DEF S
  <2>2. QED
    BY <1>12, <2>1
<1>16. /\ st'[f] = "running"
       /\ \A x \in Frames \ {f} : st'[x] = IF x \in D THEN "destroyed" ELSE st[x]
       /\ \A x \in D : x \in Frames /\ tasks'[x] = {} /\ ~Busy(x) /\ kind[x] # "starter"
                     /\ Alive(x) /\ awaiter[x] = None
  <2>1. D \subseteq Frames
    <3> HIDE DEF S
    <3> QED
      BY <1>10, <1>2, OwnedIs, Closure
  <2>2. ~Busy(g) /\ kind[g] # "starter" /\ Alive(g)
    BY <1>4 DEF Told, Busy, Alive
  <2> HIDE DEF D, S, g
  <2>3. QED
    BY <1>3, <1>6, <1>8, <1>11, <1>12, <2>1, <2>2, LooseFacts, Basics DEF Loose
<1> HIDE DEF D, S
<1>17. Types'
  BY <1>1, <1>2, <1>9, <1>12 DEF Types
<1>18. Control'
  <2>1. Executes'
    BY <1>1, <1>16 DEF Executes
  <2>2. ASSUME NEW i \in 1..Len(resumers) PROVE ResumerOK(i)'
    <3>1. ResumerOK(i)
      BY <1>2 DEF Control
    <3>2. ASSUME resumers[i] \in Frames PROVE st'[resumers[i]] = "running" /\ awaiter'[resumers[i]] = None
      BY <1>1, <1>9, <1>16, <3>1, <3>2 DEF ResumerOK, Busy
    <3>3. QED
      BY <1>1, <3>1, <3>2 DEF ResumerOK
  <2>3. QED
    BY <1>1, <1>2, <2>1, <2>2 DEF Control
<1>19. ASSUME NEW x \in Frames PROVE FrameOK(x)'
  <2>1. FrameOK(x) /\ x \in Coroutines
    BY Basics DEF Inv
  <2>2. CASE x = f
    BY <1>1, <1>2, <1>4, <1>9, <1>16, <2>2 DEF FrameOK, Alive
  <2>3. CASE x \in D /\ x # f
    BY <1>1, <1>9, <1>16, <2>1, <2>3 DEF FrameOK, Alive, Busy
  <2>4. CASE x \notin D /\ x # f
    BY <1>1, <1>9, <1>15, <1>16, <2>1, <2>4 DEF FrameOK, Alive
  <2>5. QED
    BY <2>2, <2>3, <2>4
<1>20. ASSUME NEW x \in Frames PROVE AwaitOK(x)'
  <2> SUFFICES ASSUME NEW y, Awaits(x, y)' PROVE Answers(x, y)'
    BY DEF AwaitOK
  <2>1. x # f /\ Awaits(x, y) /\ Answers(x, y) /\ awaiter[x] # None /\ x \in Coroutines
        /\ awaiter'[x] = awaiter[x]
    BY <1>9, Basics DEF Inv, AwaitOK, Awaits
  <2>2. y \in Frames
    BY <1>2, <2>1 DEF Awaits, Types, Awaiters
  <2>3. Busy(y) /\ y \notin D /\ x \notin D
    BY <1>1, <1>16, <2>1 DEF Answers
  <2>4. st'[x] = st[x] /\ tasks'[x] = tasks[x] /\ Busy(y)'
    BY <1>15, <1>16, <2>1, <2>2, <2>3 DEF Busy
  <2>5. \A h \in Coroutines : y \notin tasks[h] => y \notin tasks'[h]
    BY <1>14
  <2>6. QED
    BY <1>1, <2>1, <2>4, <2>5 DEF Answers
<1>21. ASSUME NEW y \in Frames PROVE CalleeOK(y)'
  <2>1. CalleeOK(y) /\ (Busy(y)' => Busy(y))
    BY <1>4, <1>16 DEF Inv, Busy
  <2>2. ASSUME Busy(y), kind[y] # "starter" PROVE Awaits(mAwaiter[y], y)'
    <3>1. mAwaiter[y] \in Frames /\ Awaits(mAwaiter[y], y)
      BY <2>1, <2>2 DEF CalleeOK
    <3>2. mAwaiter[y] # f
      BY <1>1, <1>4, <2>2, <3>1 DEF Awaits, Busy, Told
    <3>3. QED
      BY <1>1, <1>9, <3>1, <3>2 DEF Awaits
  <2>3. QED
    BY <1>1, <2>1, <2>2 DEF CalleeOK
<1>22. QED
  BY <1>13, <1>17, <1>18, <1>19, <1>20, <1>21 DEF Inv

------------------------------------------------------------------------------
(* Entering and leaving resume().                                          *)

LEMMA PushControl ==
  ASSUME Inv, Running(current), resumers' = Append(resumers, current), current' \in Frames,
         current' # current, st[current'] # "running",
         st'[current'] = "running", kind'[current'] # "starter",
         \A x \in Frames : st[x] = "running" => st'[x] = st[x] /\ awaiter'[x] = awaiter[x]
  PROVE  Control'
<1>1. Types /\ Control
  BY DEF Inv
<1>0. PICK n \in Nat : n = Len(resumers)
  BY <1>1 DEF Control
<1>2. /\ n = Len(resumers) /\ Len(resumers') = n + 1 /\ resumers'[n + 1] = current
      /\ \A i \in 1..n : resumers'[i] = resumers[i]
      /\ resumers' \in Seq(Coroutines) /\ resumers' # << >>
  <2>1. current \in Coroutines /\ resumers \in Seq(Coroutines)
    BY <1>1 DEF Control, Types
  <2>2. QED
    BY <1>0, <2>1
<1>3. current = Main <=> n = 0
  BY <1>1, <1>2 DEF Control
<1>4. current \in Frames => st[current] = "running" /\ awaiter[current] = None
  BY RunFacts
<1>5. current' # Main
  BY Basics
<1>6. ASSUME NEW i \in 1..n PROVE ResumerOK(i) /\ resumers[i] # current /\ i \in 1..(n + 1) /\ i # n + 1
  BY <1>1, <1>2 DEF Control, ResumerOK
<1>7. ASSUME NEW i \in 1..n PROVE ResumerOK(i)'
  <2>1. resumers'[i] = resumers[i] /\ i \in 1..n /\ ResumerOK(i) /\ resumers[i] # current
    BY <1>2, <1>6
  <2>2. resumers[i] \in Frames => st[resumers[i]] = "running"
    BY <2>1 DEF ResumerOK
  <2>3. resumers'[i] \in Frames => st'[resumers'[i]] = "running" /\ awaiter'[resumers'[i]] = None
    BY <2>1, <2>2 DEF ResumerOK
  <2>4. resumers'[i] # current'
    BY <2>1, <2>2
  <2>5. ASSUME NEW j \in 1..(n + 1), resumers'[i] = resumers'[j] PROVE i = j
    <3>1. CASE j = n + 1
      BY <1>2, <2>1, <2>5, <3>1
    <3>2. CASE j # n + 1
      <4>1. j \in 1..n
        BY <1>2, <3>2
      <4>2. resumers[i] = resumers[j]
        BY <1>2, <2>1, <2>5, <4>1
      <4>3. QED
        BY <1>2, <2>1, <4>1, <4>2 DEF ResumerOK
    <3>3. QED
      BY <3>1, <3>2
  <2>6. resumers'[i] = Main <=> i = 1
    BY <2>1 DEF ResumerOK
  <2>7. QED
    BY <1>2, <2>3, <2>4, <2>5, <2>6 DEF ResumerOK
<1>8. ResumerOK(n + 1)'
  <2>1. ASSUME NEW j \in 1..(n + 1), resumers'[n + 1] = resumers'[j] PROVE n + 1 = j
    <3>1. CASE j \in 1..n
      BY <1>2, <1>6, <2>1, <3>1
    <3>2. QED
      BY <1>2, <3>1
  <2>2. resumers'[n + 1] = Main <=> n + 1 = 1
    BY <1>2, <1>3
  <2>3. current \in Frames => st'[current] = "running" /\ awaiter'[current] = None
    BY <1>4
  <2>4. QED
    BY <1>2, <2>1, <2>2, <2>3 DEF ResumerOK
<1>9. Executes'
  BY DEF Executes
<1>10. \A i \in 1..(n + 1) : ResumerOK(i)'
  <2> TAKE i \in 1..(n + 1)
  <2>1. i \in 1..n \/ i = n + 1
    BY <1>2
  <2>2. QED
    BY <1>7, <1>8, <2>1
<1>11. QED
  BY <1>2, <1>5, <1>9, <1>10 DEF Control

(* The frame that leaves gives control to the last one that spawned, or to *)
(* the thread.                                                             *)
LEMMA PopControl ==
  ASSUME Inv, current # Main, LeaveResume,
         \A x \in Frames \ {current} :
           st[x] = "running" => st'[x] = st[x] /\ awaiter'[x] = awaiter[x] /\ kind'[x] = kind[x]
  PROVE  /\ Control' /\ current' \in Coroutines /\ current' # current
         /\ current' \in Frames => st[current'] = "running" /\ awaiter[current'] = None
<1>1. Types /\ Control
  BY DEF Inv
<1> DEFINE n == Len(resumers)
<1>2. resumers \in Seq(Coroutines) /\ n \in Nat \ {0} /\ current' = resumers[n]
  BY <1>1 DEF Control, LeaveResume
<1>3. /\ resumers' \in Seq(Coroutines) /\ Len(resumers') = n - 1
      /\ \A i \in 1..(n - 1) : resumers'[i] = resumers[i]
  <2>1. n - 1 \in Int /\ 1 \in Int /\ \A i \in 1..(n - 1) : resumers[i] \in Coroutines
    BY <1>2
  <2>2. /\ SubSeq(resumers, 1, n - 1) \in Seq(Coroutines)
        /\ Len(SubSeq(resumers, 1, n - 1)) = IF 1 <= n - 1 THEN n - 1 - 1 + 1 ELSE 0
        /\ \A i \in 1..(n - 1 - 1 + 1) : SubSeq(resumers, 1, n - 1)[i] = resumers[1 + i - 1]
    BY <2>1, SubSeqProperties
  <2>3. (\A i \in 1..(n - 1) : 1 + i - 1 = i) /\ n - 1 - 1 + 1 = n - 1
    BY <1>2
  <2>4. resumers' = SubSeq(resumers, 1, n - 1)
    BY DEF LeaveResume
  <2>5. QED
    BY <1>2, <2>2, <2>3, <2>4
<1> HIDE DEF n
<1>4. \A i \in 1..n : ResumerOK(i)
  BY <1>1 DEF Control, n
<1>5. n \in 1..n /\ ResumerOK(n) /\ current' \in Coroutines
  BY <1>2, <1>4 DEF n
<1>6. /\ current' # current
      /\ current' \in Frames => st[current'] = "running" /\ awaiter[current'] = None
  BY <1>2, <1>5 DEF ResumerOK
<1>7. Executes'
  <2>1. current' # Main => current' \in Frames
    BY <1>5 DEF Coroutines
  <2>2. current' \in Frames => kind[current'] # "starter"
    BY <1>6 DEF Inv, FrameOK, Alive
  <2>3. QED
    BY <1>6, <2>1, <2>2 DEF Executes
<1>8. ASSUME NEW i \in 1..(n - 1) PROVE ResumerOK(i)'
  <2>1. i \in 1..n /\ i # n /\ ResumerOK(i) /\ resumers'[i] = resumers[i]
    BY <1>2, <1>3, <1>4
  <2>2. resumers[i] \in Frames => st'[resumers[i]] = "running" /\ awaiter'[resumers[i]] = None
    BY <2>1 DEF ResumerOK
  <2>3. resumers[i] # current'
    BY <1>2, <1>5, <2>1 DEF ResumerOK, n
  <2>4. ASSUME NEW j \in 1..(n - 1), resumers'[i] = resumers'[j] PROVE i = j
    <3>1. j \in 1..n /\ resumers[i] = resumers[j]
      BY <1>2, <1>3, <2>1, <2>4
    <3>2. QED
      BY <2>1, <3>1 DEF ResumerOK, n
  <2>5. resumers'[i] = Main <=> i = 1
    BY <2>1 DEF ResumerOK
  <2>6. QED
    BY <1>3, <2>1, <2>2, <2>3, <2>4, <2>5 DEF ResumerOK
<1>9. current' = Main <=> n = 1
  BY <1>2, <1>5 DEF ResumerOK
<1>10. resumers' = << >> <=> n = 1
  <2>1. resumers' = << >> <=> Len(resumers') = 0
    BY <1>3, EmptySeq
  <2>2. QED
    BY <1>2, <1>3, <2>1
<1>11. QED
  BY <1>3, <1>5, <1>6, <1>7, <1>8, <1>9, <1>10 DEF Control

(* To the event loop and back: nothing but control changes.                *)
LEMMA LoopKeeps ==
  ASSUME Inv, NEW f \in Frames, Busy(f), awaiter[f] = None, kind[f] # "starter",
         UNCHANGED <<kind, mAwaiter, tasks, awaiter>>, Control',
         NEW s \in {"running", "waiting"}, st' = [st EXCEPT ![f] = s],
         io' \in SUBSET Frames, \A x \in io' : IF x = f THEN s = "waiting" ELSE x \in io,
         current \in Frames => awaiter[current] = None,
         current' \in Coroutines, current' \in Frames => awaiter[current'] = None
  PROVE  Inv'
<1>1. Types
  BY DEF Inv
<1>2. st'[f] = s /\ \A x \in Frames \ {f} : st'[x] = st[x]
  BY <1>1 DEF Types
<1>3. Types'
  BY <1>1 DEF Types
<1>4. ASSUME NEW x \in Frames PROVE (Busy(x)' <=> Busy(x)) /\ (Alive(x)' <=> Alive(x))
  BY <1>2 DEF Busy, Alive
<1>5. ASSUME NEW x \in Frames PROVE FrameOK(x)'
  <2>1. FrameOK(x)
    BY DEF Inv
  <2>2. CASE x = f
    BY <1>2, <2>1, <2>2 DEF FrameOK, Alive, Busy
  <2>3. CASE x # f
    BY <1>2, <2>1, <2>3 DEF FrameOK, Alive
  <2>4. QED
    BY <2>2, <2>3
<1>6. ASSUME NEW x \in Frames PROVE AwaitOK(x)'
  <2> SUFFICES ASSUME NEW y, Awaits(x, y)' PROVE Answers(x, y)'
    BY DEF AwaitOK
  <2>1. Awaits(x, y) /\ Answers(x, y) /\ x # f /\ x # current /\ x # current'
    BY DEF Awaits, Inv, AwaitOK
  <2>2. y \in Frames
    BY <1>1, <2>1 DEF Awaits, Types, Awaiters
  <2>3. QED
    BY <1>2, <1>4, <2>1, <2>2 DEF Answers
<1>7. ASSUME NEW y \in Frames PROVE CalleeOK(y)' /\ Held(y)'
  <2>1. CalleeOK(y) /\ Held(y)
    BY DEF Inv
  <2>2. CalleeOK(y)'
    BY <1>4, <2>1 DEF CalleeOK, Awaits
  <2>3. Held(y)'
    BY <1>4, <2>1, HeldSame DEF Awaits
  <2>4. QED
    BY <2>2, <2>3
<1>8. QED
  BY <1>3, <1>5, <1>6, <1>7 DEF Inv

LEMMA SuspendInv == ASSUME Inv, NEW f \in Frames, Suspend(f) PROVE Inv'
<1>1. /\ Running(f) /\ io' = io \cup {f} /\ st' = [st EXCEPT ![f] = "waiting"]
      /\ LeaveResume /\ UNCHANGED <<kind, mAwaiter, tasks, awaiter>>
  BY DEF Suspend, promises
<1>2. current = f /\ awaiter[f] = None /\ st[f] = "running" /\ kind[f] # "starter"
  BY <1>1, RunFacts
<1>3. Types
  BY DEF Inv
<1>4. current # Main /\ \A x \in Frames \ {f} : st'[x] = st[x]
  BY <1>1, <1>2, <1>3, Basics DEF Types
<1>5. /\ Control' /\ current' \in Coroutines
      /\ current' \in Frames => awaiter[current'] = None
  BY <1>1, <1>2, <1>4, PopControl
<1>6. io' \in SUBSET Frames /\ \A x \in io' : IF x = f THEN "waiting" = "waiting" ELSE x \in io
  BY <1>1, <1>3 DEF Types
<1>7. Busy(f)
  BY <1>2 DEF Busy
<1>8. QED
  BY <1>1, <1>2, <1>5, <1>6, <1>7, LoopKeeps

LEMMA ResumeFrameInv == ASSUME Inv, NEW f \in Frames, Resume(f) PROVE Inv'
<1>1. /\ current = Main /\ f \in io /\ io' = io \ {f} /\ st' = [st EXCEPT ![f] = "running"]
      /\ resumers' = Append(resumers, current) /\ current' = f
      /\ UNCHANGED <<kind, mAwaiter, tasks, awaiter>>
  BY DEF Resume, promises
<1>2. Types /\ FrameOK(f)
  BY DEF Inv
<1>3. awaiter[f] = None /\ st[f] = "waiting" /\ kind[f] # "starter"
  BY <1>1, <1>2 DEF FrameOK, Alive
<1>4. st'[f] = "running" /\ \A x \in Frames \ {f} : st'[x] = st[x]
  BY <1>1, <1>2 DEF Types
<1>5. Running(current) /\ current # f /\ current \notin Frames /\ f \in Coroutines
  BY <1>1, Basics DEF Running
<1>6. Control'
  BY <1>1, <1>3, <1>4, <1>5, PushControl
<1>7. io' \in SUBSET Frames /\ \A x \in io' : IF x = f THEN "running" = "waiting" ELSE x \in io
  BY <1>1, <1>2 DEF Types
<1>8. Busy(f)
  BY <1>3 DEF Busy
<1>9. QED
  BY <1>1, <1>3, <1>5, <1>6, <1>7, <1>8, LoopKeeps

(* The starter's awaiter owns the spawned task.                            *)
LEMMA SpawnInv ==
  ASSUME Inv, NEW f \in Coroutines, NEW g \in Frames, co_spawn(f, g) PROVE Inv'
<1>00. PICK n \in Frames :
      /\ n \in Coroutines /\ g \in Coroutines /\ st[n] = "none"
      /\ Running(f) /\ g \in tasks[f] /\ st[g] = "suspended" /\ kind[g] = "task"
      /\ kind' = [kind EXCEPT ![n] = "starter"] /\ tasks' = [tasks EXCEPT ![f] = @ \ {g}]
      /\ awaiter' = [awaiter EXCEPT ![n] = [mCallee |-> g, mCaller |-> n, owned |-> TRUE,
                                            mResult |-> None]]
      /\ mAwaiter' = [mAwaiter EXCEPT ![g] = n]
      /\ st' = [st EXCEPT ![n] = "waiting", ![g] = "running"]
      /\ resumers' = Append(resumers, f) /\ current' = g /\ UNCHANGED io
  BY NewFrame, Basics DEF co_spawn, MakeAwaiter
<1>0. PICK r \in Awaiters : r = [mCallee |-> g, mCaller |-> n, owned |-> TRUE, mResult |-> None]
  BY DEF Awaiters
<1>2. r \in Awaiters /\ r # None /\ r.mCallee = g /\ r.mCaller = n /\ r.owned
  BY <1>0, Basics
<1>1. /\ n \in Coroutines /\ g \in Coroutines /\ st[n] = "none"
      /\ Running(f) /\ g \in tasks[f] /\ st[g] = "suspended" /\ kind[g] = "task"
      /\ kind' = [kind EXCEPT ![n] = "starter"] /\ tasks' = [tasks EXCEPT ![f] = @ \ {g}]
      /\ awaiter' = [awaiter EXCEPT ![n] = r] /\ mAwaiter' = [mAwaiter EXCEPT ![g] = n]
      /\ st' = [st EXCEPT ![n] = "waiting", ![g] = "running"]
      /\ resumers' = Append(resumers, f) /\ current' = g /\ UNCHANGED io
  BY <1>00, <1>0
<1>3. Types /\ Control /\ FrameOK(n) /\ FrameOK(g) /\ Held(g) /\ Held(n)
  BY <1>1 DEF Inv
<1>4. kind[n] = "none" /\ ~Alive(n) /\ ~Busy(n) /\ tasks[n] = {} /\ awaiter[n] = None /\ n \notin io
  BY <1>1, <1>3 DEF FrameOK, Alive, Busy
<1>5. current = f /\ n # f /\ g # n /\ (f \in Frames => st[f] = "running" /\ awaiter[f] = None)
  BY <1>1, <1>4, RunFacts DEF Running
<1>6. Loose(g) /\ g # f /\ awaiter[g] = None /\ g \notin io
  BY <1>1, <1>3, RunHolds DEF FrameOK
<1>7. /\ awaiter'[n] = r /\ \A x \in Frames \ {n} : awaiter'[x] = awaiter[x]
      /\ mAwaiter'[g] = n /\ \A x \in Frames \ {g} : mAwaiter'[x] = mAwaiter[x]
      /\ st'[n] = "waiting" /\ st'[g] = "running"
      /\ \A x \in Frames \ {n, g} : st'[x] = st[x]
      /\ kind'[n] = "starter" /\ \A x \in Frames \ {n} : kind'[x] = kind[x]
  BY <1>1, <1>3, <1>5 DEF Types
<1>8. /\ \A x \in Coroutines : tasks'[x] = IF x = f THEN tasks[f] \ {g} ELSE tasks[x]
      /\ tasks' \in [Coroutines -> SUBSET Frames]
      /\ \A x \in Coroutines : n \notin tasks[x]
  BY <1>1, <1>3, <1>4 DEF Types, Held
<1>9. Types'
  BY <1>1, <1>2, <1>3, <1>8, Basics DEF Types
<1>10. Control'
  <2>1. \A x \in Frames : st[x] = "running" => st'[x] = st[x] /\ awaiter'[x] = awaiter[x]
    BY <1>1, <1>7
  <2>2. st[g] # "running" /\ kind'[g] # "starter"
    BY <1>1, <1>5, <1>7
  <2>3. QED
    BY <1>1, <1>5, <1>6, <1>7, <2>1, <2>2, PushControl
<1>11. ASSUME NEW x \in Frames PROVE FrameOK(x)'
  <2>1. FrameOK(x) /\ x \in Coroutines
    BY Basics DEF Inv
  <2>2. CASE x = n
    BY <1>1, <1>2, <1>4, <1>5, <1>7, <1>8, <2>1, <2>2 DEF FrameOK, Alive
  <2>3. CASE x = g
    BY <1>1, <1>5, <1>6, <1>7, <2>3 DEF FrameOK, Alive
  <2>4. CASE x \notin {n, g}
    <3>1. /\ st'[x] = st[x] /\ kind'[x] = kind[x] /\ awaiter'[x] = awaiter[x] /\ io' = io
          /\ tasks[x] = {} => tasks'[x] = {}
      BY <1>1, <1>7, <1>8, <2>1, <2>4
    <3>2. QED
      BY <2>1, <3>1 DEF FrameOK, Alive
  <2>5. QED
    BY <2>2, <2>3, <2>4
<1>12. ASSUME NEW x \in Frames PROVE AwaitOK(x)'
  <2> SUFFICES ASSUME NEW y, Awaits(x, y)' PROVE Answers(x, y)'
    BY DEF AwaitOK
  <2>1. CASE x = n
    <3>1. y = g
      BY <1>2, <1>7, <2>1 DEF Awaits
    <3>2. \A h \in Coroutines : g \notin tasks'[h]
      BY <1>1, <1>3, <1>8 DEF Held
    <3>3. QED
      BY <1>1, <1>2, <1>5, <1>7, <2>1, <3>1, <3>2 DEF Answers, Busy
  <2>2. CASE x # n
    <3>1. Awaits(x, y) /\ Answers(x, y) /\ y \in Frames /\ y # g /\ y # n /\ x # g /\ x # f
          /\ x \in Coroutines /\ x # current
      <4>1. Awaits(x, y) /\ Answers(x, y) /\ awaiter[x] # None
        BY <1>7, <2>2 DEF Awaits, Inv, AwaitOK
      <4>2. y \in Frames
        BY <1>3, <4>1 DEF Awaits, Types, Awaiters
      <4>3. y # n
        BY <1>4, <4>1 DEF Answers
      <4>4. QED
        BY <1>5, <1>6, <4>1, <4>2, <4>3, Basics DEF Loose
    <3>2. Busy(y)'
      BY <1>7, <3>1 DEF Answers, Busy
    <3>3. \A h \in Coroutines : y \in tasks'[h] => y \in tasks[h]
      BY <1>8
    <3>4. /\ tasks'[x] = tasks[x] /\ st'[x] = st[x] /\ awaiter'[x] = awaiter[x]
          /\ mAwaiter'[y] = mAwaiter[y] /\ kind'[y] = kind[y]
      BY <1>7, <1>8, <2>2, <3>1
    <3>5. QED
      BY <1>1, <3>1, <3>2, <3>3, <3>4 DEF Answers
  <2>3. QED
    BY <2>1, <2>2
<1>13. ASSUME NEW y \in Frames PROVE CalleeOK(y)'
  <2>1. CASE y = g
    BY <1>1, <1>2, <1>7, <2>1 DEF CalleeOK, Awaits
  <2>2. CASE y = n
    BY <1>7, <2>2 DEF CalleeOK
  <2>3. CASE y \notin {g, n}
    <3>1. mAwaiter'[y] = mAwaiter[y] /\ kind'[y] = kind[y] /\ st'[y] = st[y] /\ CalleeOK(y)
      BY <1>7, <2>3 DEF Inv
    <3>2. \A x \in Frames : Awaits(x, y) => Awaits(x, y)'
      BY <1>4, <1>7 DEF Awaits
    <3>3. QED
      BY <3>1, <3>2 DEF CalleeOK, Busy
  <2>4. QED
    BY <2>1, <2>2, <2>3
<1>14. ASSUME NEW y \in Frames PROVE Held(y)'
  <2>1. CASE y = g
    <3>1. \A h \in Coroutines : g \notin tasks'[h]
      BY <1>1, <1>3, <1>8 DEF Held
    <3>2. Owns(n, g)'
      BY <1>1, <1>2, <1>7 DEF Owns, Awaits
    <3>3. QED
      BY <1>1, <2>1, <3>1, <3>2 DEF Held
  <2>2. CASE y = n
    BY <1>7, <1>8, <2>2 DEF Held
  <2>3. CASE y \notin {g, n}
    <3>1. \A h \in Coroutines : y \in tasks'[h] <=> y \in tasks[h]
      BY <1>8, <2>3
    <3>2. \A h \in Frames : Awaits(h, y) /\ awaiter[h].owned => Awaits(h, y)' /\ awaiter'[h].owned
      BY <1>4, <1>7 DEF Awaits
    <3>3. (Alive(y)' <=> Alive(y)) /\ kind'[y] = kind[y]
      BY <1>7, <2>3 DEF Alive
    <3>4. Held(y)
      BY DEF Inv
    <3>5. QED
      BY <3>1, <3>2, <3>3, <3>4, HeldSame
  <2>4. QED
    BY <2>1, <2>2, <2>3
<1>15. QED
  BY <1>9, <1>10, <1>11, <1>12, <1>13, <1>14 DEF Inv

(* The starter is destroyed, and the task that it owned with it.           *)
LEMMA StarterEndsInv == ASSUME Inv, NEW f \in Frames, StarterEnds(f) PROVE Inv'
<1>1. /\ current = f /\ kind[f] = "starter" /\ f \in Coroutines /\ {f} \in SUBSET Frames
      /\ awaiter' = [awaiter EXCEPT ![f] = None] /\ Destroy({f}, f, st) /\ LeaveResume
      /\ UNCHANGED <<kind, mAwaiter, io>>
  BY Basics DEF StarterEnds, promises
<1>2. Types /\ Control /\ FrameOK(f) /\ AwaitOK(f) /\ f # Main
  BY Basics DEF Inv
<1>3. PICK g \in Frames : Awaits(f, g)
  BY <1>1, <1>2 DEF Control, Executes, Types, Awaiters, Awaits
<1>4. /\ st[f] = "waiting" /\ Alive(f) /\ tasks[f] = {} /\ kind[g] \in {"task", "gen"}
      /\ Told(g) /\ mAwaiter[g] = f /\ g # f /\ f \notin io
  BY <1>1, <1>2, <1>3 DEF AwaitOK, Answers, FrameOK, Alive, Awaits
<1>5. awaiter[g] = None
  BY <1>4 DEF Inv, AwaitOK, Awaits, Answers, Told
<1> DEFINE D == OwnedWith({f})
<1>6. \A x \in D : x = f \/ x = g \/ Loose(x)
  <2>1. \A y : Owns(g, y) => Loose(y)
    BY <1>4, <1>5, LooseTasks, Basics DEF Owns, Awaits
  <2>2. \A y : Owns(f, y) => y = g
    BY <1>3, <1>4 DEF Owns, Awaits
  <2>3. \A x \in {f, g} : \A y : Owns(x, y) => y \in {f, g} \/ Loose(y)
    BY <2>1, <2>2
  <2>4. {f} \in SUBSET Frames /\ {f, g} \in SUBSET Frames /\ {f} \subseteq {f, g}
    BY <1>1
  <2>5. \A x \in OwnedWith({f}) : x \in {f, g} \/ Loose(x)
    BY <2>3, <2>4, Fall
  <2>6. QED
    BY <2>5
<1>7. {f} \subseteq D /\ D \subseteq Frames
  BY <1>1, <1>2, OwnedIs, Closure
<1>8. /\ st' \in [Frames -> {"none", "suspended", "running", "waiting", "yielded",
                             "returned", "final", "destroyed"}]
      /\ tasks' \in [Coroutines -> SUBSET Frames]
      /\ \A x \in Frames : st'[x] = IF x \in D THEN "destroyed" ELSE st[x]
      /\ \A x \in Coroutines : tasks'[x] = IF x \in D THEN {} ELSE IF x = f THEN tasks[f] \ {f} ELSE tasks[x]
  <2>1. st \in [Frames -> {"none", "suspended", "running", "waiting", "yielded",
                           "returned", "final", "destroyed"}]
    BY <1>2 DEF Types
  <2> HIDE DEF D
  <2> QED
    BY <1>1, <2>1, DestroyTypes DEF D
<1>9. /\ awaiter'[f] = None /\ \A x \in Frames \ {f} : awaiter'[x] = awaiter[x]
      /\ awaiter' \in [Frames -> Awaiters \cup {None}]
  BY <1>1, <1>2 DEF Types
<1>10. ASSUME NEW x \in Frames PROVE Held(x)'
  <2>1. \A y \in {f} : \A h \in Coroutines : y \in tasks[h] => h = f
    BY <1>1 DEF Inv, Held
  <2>2. \A y \in Frames : st[y] \in {"none", "destroyed"} <=> ~Alive(y)
    BY DEF Alive
  <2>3. \A h \in Frames \ D : \A y \in Frames \ D :
          Awaits(h, y) /\ awaiter[h].owned => Awaits(h, y)' /\ awaiter'[h].owned
    BY <1>7, <1>9 DEF Awaits
  <2>4. QED
    BY <1>1, <2>1, <2>2, <2>3, DestroyHeld
<1> HIDE DEF D
<1>11. /\ \A x \in Coroutines : tasks'[x] \subseteq tasks[x]
       /\ \A x \in Coroutines : x \notin D => tasks'[x] = tasks[x]
  BY <1>4, <1>8
<1>12. ASSUME NEW x \in D
       PROVE  /\ x \in Frames /\ x \in Coroutines /\ tasks'[x] = {} /\ awaiter'[x] = None
              /\ Alive(x) /\ st'[x] = "destroyed" /\ (x # f => ~Busy(x)) /\ x \notin io
              /\ kind[x] # "none" /\ (x # f => awaiter[x] = None)
  <2>1. x \in Frames /\ x \in Coroutines /\ tasks'[x] = {} /\ st'[x] = "destroyed"
    BY <1>7, <1>8, Basics
  <2>2. Alive(x) /\ (x # f => ~Busy(x) /\ awaiter[x] = None)
    BY <1>4, <1>5, <1>6, LooseFacts DEF Loose, Told, Alive, Busy
  <2>3. FrameOK(x)
    BY <2>1 DEF Inv
  <2>4. kind[x] # "none" /\ x \notin io
    BY <1>4, <2>2, <2>3 DEF FrameOK, Alive, Busy
  <2>5. QED
    BY <1>9, <2>1, <2>2, <2>4
<1>13. Types'
  <2>1. current' \in Coroutines
    BY <1>1, <1>2, <1>4, <1>8, <1>9, <1>12, PopControl DEF Busy
  <2>2. QED
    BY <1>1, <1>2, <1>8, <1>9, <2>1 DEF Types
<1>14. Control' /\ current' # f /\ (current' \in Frames => awaiter[current'] = None)
  <2>1. \A x \in Frames \ {f} :
          st[x] = "running" => st'[x] = st[x] /\ awaiter'[x] = awaiter[x] /\ kind'[x] = kind[x]
    BY <1>1, <1>8, <1>9, <1>12 DEF Busy
  <2>2. QED
    BY <1>1, <1>2, <2>1, PopControl
<1>15. ASSUME NEW x \in Frames PROVE FrameOK(x)'
  <2>1. FrameOK(x) /\ x \in Coroutines
    BY Basics DEF Inv
  <2>2. CASE x \in D
    BY <1>1, <1>12, <2>2 DEF FrameOK, Alive
  <2>3. CASE x \notin D
    BY <1>1, <1>7, <1>8, <1>9, <1>11, <2>1, <2>3 DEF FrameOK, Alive
  <2>4. QED
    BY <2>2, <2>3
<1>16. ASSUME NEW x \in Frames PROVE AwaitOK(x)'
  <2> SUFFICES ASSUME NEW y, Awaits(x, y)' PROVE Answers(x, y)'
    BY DEF AwaitOK
  <2>1. x # f /\ Awaits(x, y) /\ Answers(x, y) /\ awaiter[x] # None /\ x \in Coroutines
        /\ awaiter'[x] = awaiter[x]
    BY <1>9, Basics DEF Inv, AwaitOK, Awaits
  <2>2. y \in Frames
    BY <1>2, <2>1 DEF Awaits, Types, Awaiters
  <2>3. Busy(y) /\ y # f /\ y \notin D /\ x \notin D
    BY <1>1, <1>12, <2>1 DEF Answers
  <2>4. st'[x] = st[x] /\ tasks'[x] = tasks[x] /\ Busy(y)'
    BY <1>8, <1>11, <2>1, <2>2, <2>3 DEF Busy
  <2>5. \A h \in Coroutines : y \notin tasks[h] => y \notin tasks'[h]
    BY <1>11
  <2>6. current' # x
    BY <1>14, <2>1
  <2>7. QED
    BY <1>1, <2>1, <2>4, <2>5, <2>6 DEF Answers
<1>17. ASSUME NEW y \in Frames PROVE CalleeOK(y)'
  <2>1. CalleeOK(y) /\ (Busy(y)' => Busy(y))
    BY <1>8 DEF Inv, Busy
  <2>2. ASSUME Busy(y), kind[y] # "starter" PROVE mAwaiter[y] \in Frames /\ Awaits(mAwaiter[y], y)'
    <3>1. mAwaiter[y] \in Frames /\ Awaits(mAwaiter[y], y)
      BY <2>1, <2>2 DEF CalleeOK
    <3>2. mAwaiter[y] # f
      BY <1>3, <1>4, <2>2, <3>1 DEF Awaits, Busy, Told
    <3>3. QED
      BY <1>1, <1>9, <3>1, <3>2 DEF Awaits
  <2>3. QED
    BY <1>1, <2>1, <2>2 DEF CalleeOK
<1>18. QED
  BY <1>10, <1>13, <1>14, <1>15, <1>16, <1>17 DEF Inv

LEMMA InitInv == Init => Inv
<1> SUFFICES ASSUME Init PROVE Inv
  OBVIOUS
<1>1. \A f \in Frames : kind[f] = "none" /\ st[f] = "none" /\ awaiter[f] = None
  BY DEF Init
<1>2. \A f \in Coroutines : tasks[f] = {}
  BY DEF Init, Coroutines
<1>3. current = Main /\ resumers = << >> /\ io = {}
  BY DEF Init
<1>4. Types
  BY Basics DEF Init, Types, Coroutines
<1>5. Control
  BY <1>3 DEF Control, Executes
<1>6. ASSUME NEW f \in Frames PROVE FrameOK(f) /\ AwaitOK(f) /\ CalleeOK(f) /\ Held(f)
  BY <1>1, <1>2, <1>3, Basics DEF FrameOK, AwaitOK, CalleeOK, Held, Alive, Awaits, Busy
<1>7. QED
  BY <1>4, <1>5, <1>6 DEF Inv

LEMMA NextInv == Inv /\ [Next]_vars => Inv'
<1>1. Inv /\ UNCHANGED vars => Inv'
  <2> SUFFICES ASSUME Inv, UNCHANGED vars PROVE Inv'
    OBVIOUS
  <2>1. UNCHANGED <<kind, st, tasks, awaiter, mAwaiter, current, resumers, io>>
    BY DEF vars
  <2>2. Types' /\ Control'
    BY <2>1, ControlSame DEF Inv, Types
  <2>3. ASSUME NEW x \in Frames PROVE FrameOK(x)' /\ AwaitOK(x)' /\ CalleeOK(x)' /\ Held(x)'
    <3>1. FrameOK(x) /\ AwaitOK(x) /\ CalleeOK(x) /\ Held(x)
      BY DEF Inv
    <3>2. FrameOK(x)'
      BY <2>1, <3>1 DEF FrameOK, Alive
    <3>3. AwaitOK(x)' /\ CalleeOK(x)'
      BY <2>1, <3>1 DEF AwaitOK, Answers, CalleeOK, Awaits, Told, Busy
    <3>4. Held(x)'
      BY <2>1, <3>1 DEF Held, Owns, Alive, Awaits
    <3>5. QED
      BY <3>2, <3>3, <3>4
  <2>4. QED
    BY <2>2, <2>3 DEF Inv
<1>2. ASSUME Inv, NEW f \in Coroutines, NEW k \in {"task", "gen"} PROVE Create(f, k) => Inv'
  BY <1>2, CreateInv
<1>3. ASSUME Inv, NEW f \in Coroutines, NEW g \in Frames
      PROVE  /\ (DropTask(f, g) => Inv') /\ (co_spawn(f, g) => Inv')
             /\ \A t \in Tokens : bind(f, g, t) => Inv'
  BY <1>3, DropInv, SpawnInv, BindInv
<1>4. ASSUME Inv, NEW f \in Frames, NEW g \in Frames, NEW owned \in BOOLEAN
      PROVE  AwaitTask(f, g, owned) => Inv'
  BY <1>4, AwaitInv
<1>5. ASSUME Inv, NEW f \in Frames
      PROVE  /\ (\A o \in {"value", "exception"} : Finish(f, o) => Inv')
             /\ (await_resume(f) => Inv') /\ (ReturnError(f) => Inv')
             /\ (yield_value(f) => Inv') /\ (StarterEnds(f) => Inv')
             /\ (Suspend(f) => Inv') /\ (Resume(f) => Inv')
  BY <1>5, FinishInv, ResumeInv, ReturnErrorInv, YieldInv, StarterEndsInv, SuspendInv, ResumeFrameInv
<1>6. QED
  BY <1>1, <1>2, <1>3, <1>4, <1>5, Zenon DEF Next, Coroutines

LEMMA Invariance == Spec => []Inv
<1>1. Init => Inv
  BY InitInv
<1>2. Inv /\ [Next]_vars => Inv'
  BY NextInv
<1>3. QED
  BY <1>1, <1>2, PTL DEF Spec
------------------------------------------------------------------------------
(* Types.                                                                  *)

Histories == /\ mLocals \in [Frames -> Tokens \cup {None}]
             /\ bound \in [Frames -> Tokens \cup {None}]
             /\ said \in [Frames -> Outcomes \cup {None}]
             /\ got \in [Frames -> Outcomes \cup {None, "garbage"}]

LEMMA HistoriesInv == Inv /\ Histories /\ [Next]_vars => Histories'
<1> SUFFICES ASSUME Inv, Histories, [Next]_vars PROVE Histories'
  OBVIOUS
<1>1. Types
  BY DEF Inv
<1>2. ASSUME NEW f \in Frames, NEW o \in Outcomes, Tell(f, o) PROVE Histories'
  <2>1. UNCHANGED <<mLocals, bound, got>> /\ said' = [said EXCEPT ![f] = o]
    BY <1>2 DEF Tell, promises
  <2>2. QED
    BY <2>1 DEF Histories
<1>3. ASSUME NEW f \in Frames, await_resume(f) PROVE Histories'
  <2>1. awaiter[f] # None
    BY <1>3 DEF await_resume
  <2>2. awaiter[f].mResult \in Outcomes \cup {None} /\ awaiter[f].mCallee \in Frames
    BY <1>1, <2>1 DEF Types, Awaiters
  <2>3. Taken(awaiter[f]) \in Outcomes \cup {None, "garbage"}
    BY <2>2 DEF Taken, move, Outcomes
  <2>4. /\ UNCHANGED <<mLocals, bound>> /\ got' = [got EXCEPT ![f] = Taken(awaiter[f])]
        /\ said' = [said EXCEPT ![awaiter[f].mCallee] = None]
    BY <1>3 DEF await_resume, promises
  <2>5. QED
    BY <2>2, <2>3, <2>4 DEF Histories
<1>4. ASSUME NEW f \in Frames, StarterEnds(f) PROVE Histories'
  <2>1. UNCHANGED <<mLocals, bound, got>> /\ said' = [said EXCEPT ![awaiter[f].mCallee] = None]
    BY <1>4 DEF StarterEnds, promises
  <2>2. QED
    BY <2>1 DEF Histories
<1>5. ASSUME NEW f \in Frames, NEW g \in Frames, NEW owned \in BOOLEAN, AwaitTask(f, g, owned)
      PROVE  Histories'
  BY <1>5 DEF AwaitTask, await_transform, Histories
<1>6. ASSUME NEW f, NEW g \in Frames, NEW t \in Tokens, bind(f, g, t) PROVE Histories'
  BY <1>6 DEF bind, Histories
<1>7. ASSUME UNCHANGED <<mLocals, bound, said, got>> PROVE Histories'
  BY <1>7 DEF Histories
<1>8. ASSUME NEW f \in {Main} \cup Frames PROVE
        /\ \A k \in {"task", "gen"} : Create(f, k) => Histories'
        /\ \A g \in Frames : DropTask(f, g) \/ co_spawn(f, g) => Histories'
  BY <1>7 DEF Create, DropTask, co_spawn, promises
<1>9. ASSUME NEW f \in Frames PROVE
        /\ \A o \in {"value", "exception"} : Finish(f, o) => Histories'
        /\ ReturnError(f) \/ yield_value(f) \/ Suspend(f) \/ Resume(f) => Histories'
  <2>1. "error" \in Outcomes /\ "yield" \in Outcomes /\ {"value", "exception"} \subseteq Outcomes
    BY DEF Outcomes
  <2>2. Suspend(f) \/ Resume(f) => Histories'
    BY <1>7 DEF Suspend, Resume, promises
  <2>3. QED
    BY <1>2, <2>1, <2>2 DEF Finish, ReturnError, yield_value
<1>10. UNCHANGED vars => Histories'
  BY <1>7 DEF vars
<1>11. QED
  BY <1>3, <1>4, <1>5, <1>6, <1>8, <1>9, <1>10, Zenon DEF Next

(* Every frame, handle, token and result of the model stays in its set,    *)
(* and somebody is inside resume() exactly when a coroutine runs.          *)
THEOREM TypeCorrect == Spec => []TypeOK
<1>1. Init => Inv /\ Histories
  BY InitInv DEF Init, Histories
<1>2. Inv /\ Histories /\ [Next]_vars => Inv' /\ Histories'
  BY NextInv, HistoriesInv
<1>3. Inv /\ Histories => TypeOK
  <2> SUFFICES ASSUME Inv, Histories PROVE TypeOK
    OBVIOUS
  <2>1. (resumers = << >>) = (current = Main)
    BY DEF Inv, Control
  <2>2. QED
    BY <2>1 DEF Inv, Types, Control, Histories, TypeOK, Coroutines
<1>4. QED
  BY <1>1, <1>2, <1>3, PTL DEF Spec
------------------------------------------------------------------------------
(* Ownership.                                                              *)

LEMMA Owner ==
  ASSUME Inv, NEW f \in Coroutines, NEW g, Owns(f, g)
  PROVE  /\ g \in Frames /\ Alive(g) /\ kind[g] # "starter"
         /\ f \in Frames => Alive(f)
<1>1. Types
  BY DEF Inv
<1>2. CASE g \in tasks[f]
  BY <1>1, <1>2 DEF Inv, Types, Held, FrameOK
<1>3. CASE f \in Frames /\ Awaits(f, g) /\ awaiter[f].owned
  <2>1. Answers(f, g) /\ g \in Frames
    BY <1>1, <1>3 DEF Inv, AwaitOK, Types, Awaits, Awaiters
  <2>2. QED
    BY <1>3, <2>1 DEF Answers, Told, Busy, Alive
<1>4. QED
  BY <1>2, <1>3 DEF Owns

(* While it lives a frame has one owner: a task variable, or the awaiter   *)
(* of one frame.                                                           *)
LEMMA OneHolder ==
  ASSUME Inv, NEW g \in Live \ Starters
  PROVE  Cardinality({f \in {Main} \cup Live : g \in tasks[f]})
           + Cardinality({f \in Live : g \in Freed({f} \cap Awaiting)}) = 1
<1> DEFINE A == {f \in {Main} \cup Live : g \in tasks[f]}
           B == {f \in Live : g \in Freed({f} \cap Awaiting)}
<1>1. g \in Frames /\ Alive(g) /\ kind[g] # "starter" /\ Live = {f \in Frames : Alive(f)}
  BY DEF Live, Starters, Alive
<1>2. PICK f \in Coroutines : Owns(f, g)
  BY <1>1 DEF Inv, Held
<1>3. f = Main \/ f \in Live
  BY <1>1, <1>2, Owner DEF Coroutines
<1>4. \A h \in B : h \in Frames /\ Awaits(h, g) /\ awaiter[h].owned
  BY <1>1 DEF Freed, Awaiting, Awaits
<1>5. \A h \in B : Answers(h, g)
  BY <1>4 DEF Inv, AwaitOK
<1>6. {Main} \cup Live \subseteq Coroutines
  BY <1>1 DEF Coroutines
<1>7. CASE g \in tasks[f]
  <2>1. B = {}
    BY <1>4, <1>5, <1>7 DEF Answers
  <2>2. A = {f}
    BY <1>1, <1>3, <1>6, <1>7 DEF Inv, Held
  <2> HIDE DEF A, B
  <2>3. Cardinality(A) = 1 /\ Cardinality(B) = 0
    BY <2>1, <2>2, FS_Singleton, FS_EmptySet
  <2>4. QED
    BY <2>3 DEF A, B
<1>8. CASE f \in Frames /\ Awaits(f, g) /\ awaiter[f].owned
  <2>1. Answers(f, g)
    BY <1>8 DEF Inv, AwaitOK
  <2>2. A = {}
    BY <1>6, <1>8, <2>1 DEF Answers
  <2>3. f \in B
    <3>1. f \in Live /\ f \in Awaiting
      BY <1>3, <1>8, Basics DEF Awaiting, Awaits
    <3>2. QED
      BY <1>8, <3>1 DEF Freed, Awaits
  <2>4. B = {f}
    BY <1>5, <2>1, <2>3 DEF Answers
  <2> HIDE DEF A, B
  <2>5. Cardinality(A) = 0 /\ Cardinality(B) = 1
    BY <2>2, <2>4, FS_Singleton, FS_EmptySet
  <2>6. QED
    BY <2>5 DEF A, B
<1>9. QED
  BY <1>2, <1>7, <1>8 DEF Owns

(* Every coroutine frame but a starter's is destroyed exactly once, by its *)
(* one owner (~Task or ~TaskOwnedAwaiter), and no handle of a destroyed    *)
(* frame is left in a task variable, an awaiter or the event loop.         *)
THEOREM OneOwnerHolds == Spec => []OneOwner
<1>1. Inv => OneOwner
  <2> SUFFICES ASSUME Inv PROVE OneOwner
    OBVIOUS
  <2>1. /\ Live = {f \in Frames : Alive(f)} /\ Types /\ Control
        /\ \A g : g \in Live \ Starters <=> g \in Frames /\ Alive(g) /\ kind[g] # "starter"
    BY DEF Live, Starters, Alive, Inv
  <2>2. ASSUME NEW f \in {Main} \cup Live PROVE Owned(f) \subseteq Live \ Starters
    <3>1. CASE f = Main
      <4>1. Owned(f) = tasks[f] /\ f \in Coroutines
        BY <3>1, Basics DEF Owned, Freed
      <4>2. QED
        BY <2>1, <4>1, Owner DEF Owns
    <3>2. CASE f \in Frames
      BY <2>1, <3>2, OwnedIs, Owner, Basics
    <3>3. QED
      BY <2>1, <3>1, <3>2
  <2>3. ASSUME NEW f \in Awaiting PROVE awaiter[f].mCallee \in Live
    <3>1. f \in Frames /\ awaiter[f] # None
      BY <2>1 DEF Awaiting
    <3>2. awaiter[f].mCallee \in Frames /\ Answers(f, awaiter[f].mCallee)
      BY <2>1, <3>1 DEF Types, Awaiters, Inv, AwaitOK, Awaits
    <3>3. QED
      BY <2>1, <3>2 DEF Answers, Told, Busy, Alive
  <2>4. io \cup {current} \subseteq {Main} \cup Live
    <3>1. \A f \in io : f \in Live
      BY <2>1 DEF Inv, FrameOK, Types, Alive
    <3>2. current # Main => current \in Live
      <4>1. current # Main => current \in Frames
        BY <2>1 DEF Types, Coroutines
      <4>2. current \in Frames => Alive(current)
        BY <2>1, Basics DEF Control, Executes, Inv, AwaitOK, Answers, Awaits, Alive
      <4>3. QED
        BY <2>1, <4>1, <4>2
    <3>3. QED
      BY <3>1, <3>2
  <2>5. QED
    BY <2>2, <2>3, <2>4, OneHolder DEF OneOwner
<1>2. QED
  BY <1>1, Invariance, PTL
------------------------------------------------------------------------------
(* Chains of calls.                                                        *)

End(s)     == s[Len(s)]
Members(s) == {s[i] : i \in 1..Len(s)}
Front(s)   == SubSeq(s, 1, Len(s) - 1)

(* chain is the one function with this property, if calls never go around. *)
Chains(ch) == /\ ch \in [Frames -> Seq(Frames)]
              /\ \A f \in Frames : ch[f] = IF awaiter[f] = None THEN <<f>>
                                           ELSE <<f>> \o ch[awaiter[f].mCallee]

LEMMA One ==
  ASSUME NEW f \in Frames
  PROVE  /\ <<f>> \in Seq(Frames) /\ Len(<<f>>) = 1 /\ <<f>> # << >> /\ <<f>>[1] = f
         /\ End(<<f>>) = f /\ Members(<<f>>) = {f}
<1>1. <<f>> \in Seq(Frames) /\ Len(<<f>>) = 1 /\ <<f>>[1] = f
  OBVIOUS
<1>2. <<f>> # << >>
  BY <1>1, EmptySeq
<1>3. Members(<<f>>) = {<<f>>[i] : i \in {1}}
  BY <1>1 DEF Members
<1>4. QED
  BY <1>1, <1>2, <1>3 DEF End

LEMMA Cons ==
  ASSUME NEW f \in Frames, NEW s \in Seq(Frames), s # << >>
  PROVE  /\ <<f>> \o s \in Seq(Frames) /\ Len(<<f>> \o s) = Len(s) + 1 /\ Len(s) \in Nat \ {0}
         /\ (<<f>> \o s)[1] = f /\ End(<<f>> \o s) = End(s)
         /\ \A i \in 1..Len(s) : (<<f>> \o s)[i + 1] = s[i]
         /\ Members(<<f>> \o s) = {f} \cup Members(s)
<1> DEFINE t == <<f>> \o s
<1>1. <<f>> \in Seq(Frames) /\ Len(<<f>>) = 1 /\ <<f>>[1] = f /\ Len(s) \in Nat \ {0}
  BY EmptySeq
<1>2. /\ t \in Seq(Frames) /\ Len(t) = Len(s) + 1
      /\ \A i \in 1..(Len(s) + 1) : t[i] = IF i <= 1 THEN f ELSE s[i - 1]
  BY <1>1, ConcatProperties
<1> HIDE DEF t
<1>3. t[1] = f /\ \A i \in 1..Len(s) : t[i + 1] = s[i]
  BY <1>1, <1>2
<1>4. End(t) = End(s)
  BY <1>1, <1>2, <1>3 DEF End
<1>5. Members(t) = {f} \cup Members(s)
  <2>1. ASSUME NEW i \in 1..Len(t) PROVE t[i] \in {f} \cup Members(s)
    <3>1. i = 1 \/ i - 1 \in 1..Len(s)
      BY <1>1, <1>2
    <3>2. t[i] = IF i <= 1 THEN f ELSE s[i - 1]
      BY <1>2
    <3>3. QED
      BY <3>1, <3>2 DEF Members
  <2>2. f \in Members(t)
    BY <1>1, <1>2, <1>3 DEF Members
  <2>3. ASSUME NEW i \in 1..Len(s) PROVE s[i] \in Members(t)
    <3>1. i + 1 \in 1..Len(t) /\ t[i + 1] = s[i]
      BY <1>1, <1>2, <1>3
    <3>2. QED
      BY <3>1 DEF Members
  <2>4. QED
    BY <2>1, <2>2, <2>3 DEF Members
<1>6. QED
  BY <1>1, <1>2, <1>3, <1>4, <1>5 DEF t

LEMMA ChainShape ==
  ASSUME Types, NEW ch, Chains(ch), NEW f \in Frames
  PROVE  /\ ch[f] \in Seq(Frames) /\ Len(ch[f]) \in Nat \ {0} /\ ch[f][1] = f /\ ch[f] # << >>
         /\ awaiter[f] = None => ch[f] = <<f>> /\ Len(ch[f]) = 1 /\ End(ch[f]) = f
                                 /\ Members(ch[f]) = {f}
<1>1. \A x \in Frames : ch[x] \in Seq(Frames)
  BY DEF Chains
<1>2. \A x \in Frames : ch[x] = IF awaiter[x] = None THEN <<x>>
                                ELSE <<x>> \o ch[awaiter[x].mCallee]
  BY DEF Chains
<1>3. ASSUME NEW x \in Frames, awaiter[x] # None
      PROVE  awaiter[x].mCallee \in Frames
  BY <1>3 DEF Types, Awaiters
<1>4. ASSUME NEW x \in Frames PROVE ch[x] # << >>
  <2>1. CASE awaiter[x] = None
    BY <1>2, <2>1, One
  <2>2. CASE awaiter[x] # None
    <3>1. ch[x] = <<x>> \o ch[awaiter[x].mCallee] /\ ch[awaiter[x].mCallee] \in Seq(Frames)
      BY <1>1, <1>2, <1>3, <2>2
    <3>2. <<x>> \in Seq(Frames) /\ <<x>> # << >>
      BY One
    <3>3. QED
      BY <3>1, <3>2, ConcatEqualIffEmpty
  <2>3. QED
    BY <2>1, <2>2
<1>5. ASSUME awaiter[f] # None PROVE ch[f][1] = f
  <2>1. PICK s \in Seq(Frames) : ch[f] = <<f>> \o s /\ s # << >>
    BY <1>1, <1>2, <1>3, <1>4, <1>5
  <2>2. QED
    BY <2>1, Cons
<1>6. awaiter[f] = None => /\ ch[f] = <<f>> /\ ch[f][1] = f /\ Len(ch[f]) = 1
                           /\ End(ch[f]) = f /\ Members(ch[f]) = {f}
  BY <1>2, One
<1>8. ch[f] \in Seq(Frames) /\ Len(ch[f]) \in Nat \ {0} /\ ch[f] # << >>
  BY <1>1, <1>4, EmptySeq
<1>9. QED
  BY <1>5, <1>6, <1>8

LEMMA Longer ==
  ASSUME Types, NEW ch, Chains(ch), NEW f \in Frames, NEW g \in Frames, Awaits(f, g)
  PROVE  /\ ch[f] = <<f>> \o ch[g] /\ Len(ch[f]) = Len(ch[g]) + 1 /\ Len(ch[g]) \in Nat
         /\ End(ch[f]) = End(ch[g]) /\ Members(ch[f]) = {f} \cup Members(ch[g])
<1>1. ch[f] = <<f>> \o ch[g]
  BY DEF Chains, Awaits
<1>2. ch[g] \in Seq(Frames) /\ ch[g] # << >>
  BY ChainShape
<1>3. QED
  BY <1>1, <1>2, Cons

(* What a frame inherits from the one it awaits holds of all.              *)
LEMMA Downward ==
  ASSUME Types, NEW ch, Chains(ch), NEW S,
         \A f \in Frames : (\A g \in Frames : Awaits(f, g) => g \in S) => f \in S
  PROVE  \A f \in Frames : f \in S
<1> SUFFICES ASSUME NEW x \in Frames, x \notin S PROVE FALSE
  OBVIOUS
<1> DEFINE L == {Len(ch[f]) : f \in {h \in Frames : h \notin S}}
<1>1. \A f \in Frames : Len(ch[f]) \in Nat
  BY ChainShape
<1>2. L \subseteq Nat /\ Len(ch[x]) \in L
  BY <1>1
<1>3. PICK m \in L : \A k \in L : m <= k
  BY <1>2, Least
<1>4. PICK f \in Frames : f \notin S /\ Len(ch[f]) = m
  OBVIOUS
<1>5. PICK g \in Frames : Awaits(f, g) /\ g \notin S
  BY <1>4
<1>6. Len(ch[f]) = Len(ch[g]) + 1 /\ Len(ch[g]) \in Nat
  BY <1>5, Longer
<1>7. m <= Len(ch[g])
  BY <1>3, <1>5
<1>8. QED
  BY <1>4, <1>6, <1>7

(* And what it inherits from the one that awaits it, if chains are bounded. *)
LEMMA Upward ==
  ASSUME Types, NEW ch, Chains(ch), NEW b \in Nat, \A f \in Frames : Len(ch[f]) <= b, NEW S,
         \A g \in Frames : (\A f \in Frames : Awaits(f, g) => f \in S) => g \in S
  PROVE  \A g \in Frames : g \in S
<1> SUFFICES ASSUME NEW x \in Frames, x \notin S PROVE FALSE
  OBVIOUS
<1> DEFINE L == {b - Len(ch[g]) : g \in {h \in Frames : h \notin S}}
<1>1. \A f \in Frames : Len(ch[f]) \in Nat /\ b - Len(ch[f]) \in Nat
  BY ChainShape
<1>2. L \subseteq Nat /\ b - Len(ch[x]) \in L
  BY <1>1
<1>3. PICK m \in L : \A k \in L : m <= k
  BY <1>2, Least
<1>4. PICK g \in Frames : g \notin S /\ b - Len(ch[g]) = m
  OBVIOUS
<1>5. PICK f \in Frames : Awaits(f, g) /\ f \notin S
  BY <1>4
<1>6. Len(ch[f]) = Len(ch[g]) + 1 /\ Len(ch[g]) \in Nat
  BY <1>5, Longer
<1>7. m <= b - Len(ch[f])
  BY <1>3, <1>5
<1>8. QED
  BY <1>1, <1>4, <1>6, <1>7

LEMMA ChainUnique == ASSUME Types, NEW ch, Chains(ch) PROVE chain = ch
<1> DEFINE eq(c) == c = [f \in Frames |-> IF awaiter[f] = None THEN <<f>>
                                         ELSE <<f>> \o c[awaiter[f].mCallee]]
<1>1. eq(ch)
  BY DEF Chains
<1>2. chain = CHOOSE c : eq(c)
  BY DEF chain
<1>3. eq(chain)
  <2> HIDE DEF eq
  <2> QED
    BY <1>1, <1>2
<1>4. \A f \in Frames : chain[f] = IF awaiter[f] = None THEN <<f>>
                                   ELSE <<f>> \o chain[awaiter[f].mCallee]
  BY <1>3, Zenon
<1> DEFINE S == {f \in Frames : chain[f] = ch[f]}
<1>5. ASSUME NEW f \in Frames, \A g \in Frames : Awaits(f, g) => g \in S PROVE f \in S
  <2>1. awaiter[f] # None => awaiter[f].mCallee \in S
    BY <1>5 DEF Types, Awaiters, Awaits
  <2>2. chain[f] = ch[f]
    BY <1>4, <2>1 DEF Chains
  <2>3. QED
    BY <2>2
<1>6. \A f \in Frames : f \in S
  <2> HIDE DEF S
  <2> QED
    BY <1>5, Downward
<1>7. ch = [f \in Frames |-> ch[f]] /\ chain = [f \in Frames |-> chain[f]]
  BY <1>3 DEF Chains
<1>8. QED
  BY <1>6, <1>7

LEMMA Ends ==
  ASSUME Types, NEW ch, Chains(ch)
  PROVE  \A f \in Frames : End(ch[f]) \in Frames /\ awaiter[End(ch[f])] = None
<1> DEFINE S == {f \in Frames : End(ch[f]) \in Frames /\ awaiter[End(ch[f])] = None}
<1>1. ASSUME NEW f \in Frames, \A g \in Frames : Awaits(f, g) => g \in S PROVE f \in S
  <2>1. CASE awaiter[f] = None
    BY <2>1, ChainShape
  <2>2. CASE awaiter[f] # None
    <3>1. PICK g \in Frames : Awaits(f, g)
      BY <2>2 DEF Types, Awaiters, Awaits
    <3>2. g \in S /\ End(ch[f]) = End(ch[g])
      BY <1>1, <3>1, Longer
    <3>3. QED
      BY <3>2
  <2>3. QED
    BY <2>1, <2>2
<1> HIDE DEF S
<1>2. \A f \in Frames : f \in S
  BY <1>1, Downward
<1>3. QED
  BY <1>2 DEF S

SameCall(x) == /\ awaiter'[x] # None <=> awaiter[x] # None
               /\ awaiter[x] # None => awaiter'[x].mCallee = awaiter[x].mCallee

LEMMA SameChains ==
  ASSUME Types, NEW ch, Chains(ch), \A x \in Frames : SameCall(x) PROVE Chains(ch)'
BY DEF Chains, SameCall

LEMMA AppendCons ==
  ASSUME NEW x \in Frames, NEW g \in Frames, NEW s \in Seq(Frames)
  PROVE  Append(<<x>> \o s, g) = <<x>> \o Append(s, g)
<1>1. PICK a \in Seq(Frames) : a = <<x>>
  BY One
<1>2. PICK b \in Seq(Frames) : b = <<g>>
  BY One
<1>3. a \o s \in Seq(Frames)
  BY ConcatProperties
<1>4. Append(a \o s, g) = (a \o s) \o b
  BY <1>2, <1>3, AppendIsConcat
<1>5. Append(s, g) = s \o b
  BY <1>2, AppendIsConcat
<1>6. (a \o s) \o b = a \o (s \o b)
  BY ConcatAssociative
<1>7. QED
  BY <1>1, <1>4, <1>5, <1>6

(* A call is added to the chain of its caller.                             *)
Linked(ch, f, g) == [x \in Frames |-> IF End(ch[x]) = f THEN Append(ch[x], g) ELSE ch[x]]

LEMMA Link ==
  ASSUME Types, NEW ch, Chains(ch), NEW f \in Frames, NEW g \in Frames, f # g,
         awaiter[f] = None, awaiter[g] = None, Awaits(f, g)',
         \A x \in Frames \ {f} : SameCall(x)
  PROVE  Chains(Linked(ch, f, g))'
<1> DEFINE c == Linked(ch, f, g)
<1>1. \A x \in Frames : /\ ch[x] \in Seq(Frames) /\ ch[x] # << >>
                        /\ c[x] = IF End(ch[x]) = f THEN Append(ch[x], g) ELSE ch[x]
  BY ChainShape DEF Linked
<1>2. c \in [Frames -> Seq(Frames)]
  BY <1>1, AppendProperties DEF Linked
<1>3. /\ ch[f] = <<f>> /\ End(ch[f]) = f /\ ch[g] = <<g>> /\ End(ch[g]) = g
      /\ <<f>> \in Seq(Frames) /\ <<g>> \in Seq(Frames)
  BY ChainShape, One
<1> HIDE DEF c
<1>4. ASSUME NEW x \in Frames
      PROVE  c[x] = IF awaiter'[x] = None THEN <<x>> ELSE <<x>> \o c[awaiter'[x].mCallee]
  <2>1. CASE x = f
    <3>1. c[x] = Append(<<f>>, g) /\ c[g] = <<g>>
      BY <1>1, <1>3, <2>1
    <3>2. Append(<<f>>, g) = <<f>> \o <<g>>
      BY <1>3, AppendIsConcat
    <3>3. awaiter'[x] # None /\ awaiter'[x].mCallee = g
      BY <2>1 DEF Awaits
    <3>4. QED
      BY <2>1, <3>1, <3>2, <3>3
  <2>2. CASE x # f /\ awaiter[x] = None
    <3>1. awaiter'[x] = None
      BY <2>2 DEF SameCall
    <3>2. ch[x] = <<x>> /\ End(ch[x]) = x
      BY <2>2, ChainShape
    <3>3. QED
      BY <1>1, <2>2, <3>1, <3>2
  <2>3. CASE x # f /\ awaiter[x] # None
    <3>1. PICK y \in Frames : Awaits(x, y)
      BY <2>3 DEF Types, Awaiters, Awaits
    <3>2. ch[x] = <<x>> \o ch[y] /\ End(ch[x]) = End(ch[y])
      BY <3>1, Longer
    <3>3. Append(<<x>> \o ch[y], g) = <<x>> \o Append(ch[y], g)
      BY <1>1, AppendCons
    <3>4. c[x] = <<x>> \o c[y]
      BY <1>1, <3>2, <3>3
    <3>5. awaiter'[x] # None /\ awaiter'[x].mCallee = y
      BY <2>3, <3>1 DEF SameCall, Awaits
    <3>6. QED
      BY <3>4, <3>5
  <2>4. QED
    BY <2>1, <2>2, <2>3
<1>5. QED
  BY <1>2, <1>4 DEF Chains, c

LEMMA FrontShape ==
  ASSUME NEW s \in Seq(Frames), s # << >>
  PROVE  /\ Front(s) \in Seq(Frames) /\ Len(Front(s)) = Len(s) - 1 /\ Len(s) \in Nat \ {0}
         /\ \A i \in 1..(Len(s) - 1) : Front(s)[i] = s[i]
<1>1. Len(s) \in Nat \ {0} /\ \A i \in 1..Len(s) : s[i] \in Frames
  BY EmptySeq
<1>2. PICK n \in Nat : n = Len(s) - 1
  BY <1>1
<1>3. \A i \in 1..n : s[i] \in Frames
  BY <1>1, <1>2
<1>4. /\ SubSeq(s, 1, n) \in Seq(Frames)
      /\ Len(SubSeq(s, 1, n)) = IF 1 <= n THEN n - 1 + 1 ELSE 0
      /\ \A i \in 1..(n - 1 + 1) : SubSeq(s, 1, n)[i] = s[1 + i - 1]
  BY <1>3, SubSeqProperties
<1>5. (\A i \in 1..n : 1 + i - 1 = i) /\ n - 1 + 1 = n /\ (~(1 <= n) => n = 0)
  OBVIOUS
<1>6. Front(s) = SubSeq(s, 1, n)
  BY <1>2 DEF Front
<1>7. QED
  BY <1>1, <1>2, <1>4, <1>5, <1>6

LEMMA FrontCons ==
  ASSUME NEW x \in Frames, NEW s \in Seq(Frames), s # << >>, Front(s) # << >>
  PROVE  Front(<<x>> \o s) = <<x>> \o Front(s)
<1> DEFINE t == <<x>> \o s
           u == <<x>> \o Front(s)
<1>1. /\ t \in Seq(Frames) /\ Len(t) = Len(s) + 1 /\ Len(s) \in Nat \ {0} /\ t[1] = x
      /\ \A i \in 1..Len(s) : t[i + 1] = s[i]
  BY Cons
<1>2. /\ Front(s) \in Seq(Frames) /\ Len(Front(s)) = Len(s) - 1
      /\ \A i \in 1..(Len(s) - 1) : Front(s)[i] = s[i]
  BY FrontShape
<1>3. /\ u \in Seq(Frames) /\ Len(u) = Len(Front(s)) + 1 /\ u[1] = x
      /\ \A i \in 1..Len(Front(s)) : u[i + 1] = Front(s)[i]
  BY <1>2, Cons
<1> HIDE DEF t, u
<1>4. t # << >>
  BY <1>1, EmptySeq
<1>5. /\ Front(t) \in Seq(Frames) /\ Len(Front(t)) = Len(t) - 1
      /\ \A i \in 1..(Len(t) - 1) : Front(t)[i] = t[i]
  BY <1>1, <1>4, FrontShape
<1>6. Len(Front(t)) = Len(u)
  BY <1>1, <1>2, <1>3, <1>5
<1>7. ASSUME NEW i \in 1..Len(Front(t)) PROVE Front(t)[i] = u[i]
  <2>1. Front(t)[i] = t[i] /\ i \in 1..Len(s)
    BY <1>1, <1>5
  <2>2. CASE i = 1
    BY <1>1, <1>3, <2>1, <2>2
  <2>3. CASE i # 1
    <3>1. PICK j \in 1..(Len(s) - 1) : i = j + 1
      BY <1>1, <2>1, <2>3
    <3>2. t[j + 1] = s[j] /\ u[j + 1] = Front(s)[j] /\ Front(s)[j] = s[j]
      BY <1>1, <1>2, <1>3
    <3>3. QED
      BY <2>1, <3>1, <3>2
  <2>4. QED
    BY <2>2, <2>3
<1>8. Front(t) = u
  BY <1>3, <1>5, <1>6, <1>7, SeqEqual
<1>9. QED
  BY <1>8 DEF t, u

(* The call that returns is taken off the chain of its caller.             *)
Unlinked(ch, g) == [x \in Frames |-> IF x # g /\ End(ch[x]) = g THEN Front(ch[x]) ELSE ch[x]]

LEMMA Unlink ==
  ASSUME Types, NEW ch, Chains(ch), NEW f \in Frames, NEW g \in Frames, Awaits(f, g),
         awaiter[g] = None, \A x \in Frames : Awaits(x, g) => x = f, awaiter'[f] = None,
         \A x \in Frames \ {f} : SameCall(x)
  PROVE  Chains(Unlinked(ch, g))'
<1> DEFINE c == Unlinked(ch, g)
<1>1. \A x \in Frames :
        /\ ch[x] \in Seq(Frames) /\ ch[x] # << >> /\ Len(ch[x]) \in Nat \ {0}
        /\ c[x] = IF x # g /\ End(ch[x]) = g THEN Front(ch[x]) ELSE ch[x]
  BY ChainShape DEF Unlinked
<1>2. c \in [Frames -> Seq(Frames)]
  BY <1>1, FrontShape DEF Unlinked
<1>3. ch[g] = <<g>> /\ f # g
  BY ChainShape DEF Awaits
<1> HIDE DEF c
<1>4. ASSUME NEW x \in Frames
      PROVE  c[x] = IF awaiter'[x] = None THEN <<x>> ELSE <<x>> \o c[awaiter'[x].mCallee]
  <2>1. CASE x = f
    <3>1. ch[f] = <<f>> \o ch[g] /\ Len(ch[f]) = 2 /\ End(ch[f]) = g /\ ch[f][1] = f
      <4>1. ch[f] = <<f>> \o ch[g] /\ Len(ch[f]) = Len(ch[g]) + 1 /\ End(ch[f]) = End(ch[g])
        BY Longer
      <4>2. Len(ch[g]) = 1 /\ End(ch[g]) = g /\ ch[f][1] = f
        BY ChainShape
      <4>3. QED
        BY <4>1, <4>2
    <3>2. c[f] = Front(ch[f])
      BY <1>1, <1>3, <3>1
    <3>3. Front(ch[f]) \in Seq(Frames) /\ Len(Front(ch[f])) = 1 /\ Front(ch[f])[1] = f
      <4>1. /\ Front(ch[f]) \in Seq(Frames) /\ Len(Front(ch[f])) = Len(ch[f]) - 1
            /\ \A i \in 1..(Len(ch[f]) - 1) : Front(ch[f])[i] = ch[f][i]
        BY <1>1, FrontShape
      <4>2. QED
        BY <3>1, <4>1
    <3>4. Front(ch[f]) = <<f>>
      BY <3>3, One, SeqEqual
    <3>5. QED
      BY <2>1, <3>2, <3>4
  <2>2. CASE x # f /\ awaiter[x] = None
    <3>1. awaiter'[x] = None
      BY <2>2 DEF SameCall
    <3>2. ch[x] = <<x>> /\ End(ch[x]) = x
      BY <2>2, ChainShape
    <3>3. QED
      BY <1>1, <3>1, <3>2
  <2>3. CASE x # f /\ awaiter[x] # None
    <3>1. PICK y \in Frames : Awaits(x, y)
      BY <2>3 DEF Types, Awaiters, Awaits
    <3>2. ch[x] = <<x>> \o ch[y] /\ End(ch[x]) = End(ch[y])
      BY <3>1, Longer
    <3>3. x # g /\ y # g
      BY <2>3, <3>1
    <3>4. ASSUME End(ch[y]) = g PROVE c[x] = <<x>> \o c[y]
      <4>1. awaiter[y] # None
        BY <3>3, <3>4, ChainShape
      <4>2. PICK z \in Frames : Awaits(y, z)
        BY <4>1 DEF Types, Awaiters, Awaits
      <4>3. Len(ch[y]) = Len(ch[z]) + 1 /\ Len(ch[z]) \in Nat \ {0}
        <5>1. Len(ch[y]) = Len(ch[z]) + 1
          BY <4>2, Longer
        <5>2. QED
          BY <1>1, <5>1
      <4>4. Len(Front(ch[y])) = Len(ch[y]) - 1
        BY <1>1, FrontShape
      <4>5. Front(ch[y]) # << >>
        BY <4>3, <4>4, EmptySeq
      <4>6. Front(<<x>> \o ch[y]) = <<x>> \o Front(ch[y])
        BY <1>1, <4>5, FrontCons
      <4>7. QED
        BY <1>1, <3>2, <3>3, <3>4, <4>6
    <3>5. ASSUME End(ch[y]) # g PROVE c[x] = <<x>> \o c[y]
      BY <1>1, <3>2, <3>3, <3>5
    <3>6. c[x] = <<x>> \o c[y]
      BY <3>4, <3>5
    <3>7. awaiter'[x] # None /\ awaiter'[x].mCallee = y
      BY <2>3, <3>1 DEF SameCall, Awaits
    <3>8. QED
      BY <3>6, <3>7
  <2>4. QED
    BY <2>1, <2>2, <2>3
<1>5. QED
  BY <1>2, <1>4 DEF Chains, c

(* Calls never go around.                                                  *)
Nested == \E ch, b : /\ Chains(ch) /\ b \in Nat
                     /\ \A f \in Frames : Len(ch[f]) <= b

LEMMA NestedSame ==
  ASSUME Types, Nested, \A x \in Frames : SameCall(x) PROVE Nested'
<1>1. PICK ch, b : Chains(ch) /\ b \in Nat /\ \A f \in Frames : Len(ch[f]) <= b
  BY DEF Nested
<1>2. Chains(ch)'
  BY <1>1, SameChains
<1>3. QED
  BY <1>1, <1>2 DEF Nested

LEMMA NestedLink ==
  ASSUME Types, Nested, NEW f \in Frames, NEW g \in Frames, f # g,
         awaiter[f] = None, awaiter[g] = None, Awaits(f, g)',
         \A x \in Frames \ {f} : SameCall(x)
  PROVE  Nested'
<1>1. PICK ch, b : Chains(ch) /\ b \in Nat /\ \A x \in Frames : Len(ch[x]) <= b
  BY DEF Nested
<1>2. PICK c : c = Linked(ch, f, g)
  OBVIOUS
<1>3. Chains(c)'
  BY <1>1, <1>2, Link
<1>4. ASSUME NEW x \in Frames PROVE Len(c[x]) <= b + 1
  <2>1. ch[x] \in Seq(Frames) /\ Len(ch[x]) <= b /\ Len(ch[x]) \in Nat
    BY <1>1, ChainShape
  <2>2. Len(Append(ch[x], g)) = Len(ch[x]) + 1
    BY <2>1, AppendProperties
  <2>3. c[x] = Append(ch[x], g) \/ c[x] = ch[x]
    BY <1>2 DEF Linked
  <2>4. QED
    BY <1>1, <2>1, <2>2, <2>3
<1>5. b + 1 \in Nat
  BY <1>1
<1>6. QED
  BY <1>3, <1>4, <1>5 DEF Nested

LEMMA NestedUnlink ==
  ASSUME Types, Nested, NEW f \in Frames, NEW g \in Frames, Awaits(f, g),
         awaiter[g] = None, \A x \in Frames : Awaits(x, g) => x = f, awaiter'[f] = None,
         \A x \in Frames \ {f} : SameCall(x)
  PROVE  Nested'
<1>1. PICK ch, b : Chains(ch) /\ b \in Nat /\ \A x \in Frames : Len(ch[x]) <= b
  BY DEF Nested
<1>2. PICK c : c = Unlinked(ch, g)
  OBVIOUS
<1>3. Chains(c)'
  BY <1>1, <1>2, Unlink
<1>4. ASSUME NEW x \in Frames PROVE Len(c[x]) <= b
  <2>1. ch[x] \in Seq(Frames) /\ ch[x] # << >> /\ Len(ch[x]) <= b /\ Len(ch[x]) \in Nat
    BY <1>1, ChainShape
  <2>2. Len(Front(ch[x])) = Len(ch[x]) - 1
    BY <2>1, FrontShape
  <2>3. c[x] = Front(ch[x]) \/ c[x] = ch[x]
    BY <1>2 DEF Unlinked
  <2>4. QED
    BY <1>1, <2>1, <2>2, <2>3
<1>5. QED
  BY <1>1, <1>3, <1>4 DEF Nested

(* What the actions do to the calls in progress.                           *)
Links(f, g) == /\ f # g /\ awaiter[f] = None /\ awaiter[g] = None /\ Awaits(f, g)'
               /\ \A x \in Frames \ {f} : SameCall(x)

Unlinks(f, g) == /\ Awaits(f, g) /\ f # g /\ awaiter[g] = None /\ awaiter'[f] = None
                 /\ \A x \in Frames : Awaits(x, g) => x = f
                 /\ \A x \in Frames \ {f} : SameCall(x)

LEMMA AwaitLinks ==
  ASSUME Inv, NEW f \in Frames, NEW g \in Frames, NEW owned \in BOOLEAN, AwaitTask(f, g, owned)
  PROVE  Links(f, g) /\ Loose(g)
<1>1. PICK r \in Awaiters : r = [mCallee |-> g, mCaller |-> f, owned |-> owned, mResult |-> None]
  BY DEF Awaiters
<1>2. Running(f) /\ g \in tasks[f] /\ f \in Coroutines /\ awaiter' = [awaiter EXCEPT ![f] = r]
  BY <1>1, Basics DEF AwaitTask, MakeAwaiter
<1>3. r.mCallee = g /\ r # None
  BY <1>1, Basics
<1>4. awaiter[f] = None /\ Loose(g) /\ g # f /\ awaiter[g] = None
  BY <1>2, RunFacts, RunHolds
<1>5. awaiter'[f] = r /\ \A x \in Frames \ {f} : awaiter'[x] = awaiter[x]
  BY <1>2 DEF Inv, Types
<1>6. QED
  BY <1>3, <1>4, <1>5 DEF Links, SameCall, Awaits

LEMMA SpawnLinks ==
  ASSUME Inv, NEW f \in Coroutines, NEW g \in Frames, co_spawn(f, g)
  PROVE  /\ Links(New, g) /\ Loose(g) /\ New \in Frames /\ ~Alive(New) /\ New # f
         /\ kind' = [kind EXCEPT ![New] = "starter"]
<1>1. PICK n \in Frames : n = New /\ st[n] = "none"
  BY NewFrame DEF co_spawn
<1>2. PICK r \in Awaiters : r = [mCallee |-> g, mCaller |-> n, owned |-> TRUE, mResult |-> None]
  BY DEF Awaiters
<1>3. /\ Running(f) /\ g \in tasks[f] /\ st[g] = "suspended"
      /\ awaiter' = [awaiter EXCEPT ![n] = r] /\ kind' = [kind EXCEPT ![n] = "starter"]
  BY <1>1, <1>2 DEF co_spawn, MakeAwaiter
<1>4. r.mCallee = g /\ r # None
  BY <1>2, Basics
<1>5. Loose(g) /\ awaiter[g] = None /\ g # n /\ ~Alive(n) /\ awaiter[n] = None
  BY <1>1, <1>3, RunHolds DEF Inv, FrameOK, Alive
<1>6. n # f
  BY <1>3, <1>5, RunFacts
<1>7. awaiter'[n] = r /\ \A x \in Frames \ {n} : awaiter'[x] = awaiter[x]
  BY <1>3 DEF Inv, Types
<1>8. Links(n, g)
  BY <1>4, <1>5, <1>7 DEF Links, SameCall, Awaits
<1>9. QED
  BY <1>1, <1>3, <1>5, <1>6, <1>8

LEMMA ReturnUnlinks ==
  ASSUME Inv, NEW f \in Frames, current = f, awaiter[f] # None,
         awaiter' = [awaiter EXCEPT ![f] = None]
  PROVE  \E g \in Frames : /\ Unlinks(f, g) /\ Told(g) /\ kind[g] \in {"task", "gen"}
                           /\ st[f] = "waiting"
<1>1. PICK g \in Frames : Awaits(f, g)
  BY DEF Inv, Types, Awaiters, Awaits
<1>2. Answers(f, g)
  BY <1>1 DEF Inv, AwaitOK
<1>3. Told(g) /\ mAwaiter[g] = f /\ st[f] = "waiting" /\ kind[g] \in {"task", "gen"}
  BY <1>2 DEF Answers
<1>4. awaiter[g] = None /\ f # g
  BY <1>3 DEF Inv, AwaitOK, Awaits, Answers, Told
<1>5. \A x \in Frames : Awaits(x, g) => x = f
  BY <1>3 DEF Inv, AwaitOK, Answers
<1>6. awaiter'[f] = None /\ \A x \in Frames \ {f} : awaiter'[x] = awaiter[x]
  BY DEF Inv, Types
<1>7. Unlinks(f, g)
  BY <1>1, <1>4, <1>5, <1>6 DEF Unlinks, SameCall
<1>8. QED
  BY <1>3, <1>7

LEMMA Moves ==
  ASSUME Inv, [Next]_vars
  PROVE  \/ \A x \in Frames : SameCall(x)
         \/ \E f, g \in Frames : Links(f, g)
         \/ \E f, g \in Frames : Unlinks(f, g)
<1> DEFINE Goal == \/ \A x \in Frames : SameCall(x)
                   \/ \E f, g \in Frames : Links(f, g)
                   \/ \E f, g \in Frames : Unlinks(f, g)
<1>1. ASSUME awaiter' = awaiter PROVE Goal
  BY <1>1 DEF SameCall
<1>2. ASSUME NEW f \in Frames, Running(f), NEW o \in Outcomes, Tell(f, o) PROVE Goal
  BY <1>2, TellFacts DEF SameCall
<1>3. ASSUME NEW f \in Frames, await_resume(f) \/ StarterEnds(f) PROVE Goal
  <2>1. current = f /\ awaiter' = [awaiter EXCEPT ![f] = None]
    BY <1>3 DEF await_resume, StarterEnds
  <2>2. awaiter[f] # None
    BY <1>3, <2>1, Basics DEF await_resume, StarterEnds, Inv, Control, Executes
  <2>3. QED
    BY <2>1, <2>2, ReturnUnlinks
<1>4. ASSUME NEW f \in Frames, NEW g \in Frames, NEW owned \in BOOLEAN, AwaitTask(f, g, owned)
      PROVE  Goal
  BY <1>4, AwaitLinks
<1>5. ASSUME NEW f \in Coroutines, NEW g \in Frames, co_spawn(f, g) PROVE Goal
  BY <1>5, SpawnLinks
<1> HIDE DEF Goal
<1>6. ASSUME NEW f \in Coroutines
      PROVE  /\ \A k \in {"task", "gen"} : Create(f, k) => Goal
             /\ \A g \in Frames : DropTask(f, g) \/ co_spawn(f, g) => Goal
             /\ \A g \in Frames, t \in Tokens : bind(f, g, t) => Goal
  BY <1>1, <1>5 DEF Create, DropTask, bind
<1>7. ASSUME NEW f \in Frames
      PROVE  /\ \A o \in {"value", "exception"} : Finish(f, o) => Goal
             /\ ReturnError(f) \/ yield_value(f) \/ Suspend(f) \/ Resume(f) => Goal
  <2>1. "error" \in Outcomes /\ "yield" \in Outcomes /\ {"value", "exception"} \subseteq Outcomes
    BY DEF Outcomes
  <2>2. Suspend(f) \/ Resume(f) => Goal
    BY <1>1 DEF Suspend, Resume
  <2>3. QED
    BY <1>2, <2>1, <2>2 DEF Finish, ReturnError, yield_value
<1>8. UNCHANGED vars => Goal
  BY <1>1 DEF vars
<1>9. Goal
  BY <1>3, <1>4, <1>6, <1>7, <1>8, Zenon DEF Next, Coroutines
<1>10. QED
  BY <1>9 DEF Goal

LEMMA NestedInv == Inv /\ Nested /\ [Next]_vars => Nested'
<1> SUFFICES ASSUME Inv, Nested, [Next]_vars PROVE Nested'
  OBVIOUS
<1>1. Types
  BY DEF Inv
<1>2. CASE \A x \in Frames : SameCall(x)
  BY <1>1, <1>2, NestedSame
<1>3. CASE \E f, g \in Frames : Links(f, g)
  BY <1>1, <1>3, NestedLink DEF Links
<1>4. CASE \E f, g \in Frames : Unlinks(f, g)
  BY <1>1, <1>4, NestedUnlink DEF Unlinks
<1>5. QED
  BY <1>2, <1>3, <1>4, Moves

(* Chains start out as single frames.                                      *)
LEMMA NestedInit == Init => Nested
<1> SUFFICES ASSUME Init PROVE Nested
  OBVIOUS
<1> DEFINE c == [f \in Frames |-> <<f>>]
<1>1. \A f \in Frames : awaiter[f] = None /\ c[f] = <<f>> /\ Len(c[f]) = 1 /\ c[f] \in Seq(Frames)
  BY One DEF Init
<1>2. Chains(c) /\ 1 \in Nat /\ \A f \in Frames : Len(c[f]) <= 1
  BY <1>1 DEF Chains
<1>3. QED
  BY <1>2 DEF Nested
------------------------------------------------------------------------------
(* Tokens.                                                                 *)

(* A call runs under its caller's token.                                   *)
Passed(f) == awaiter[f] # None /\ kind[f] # "starter" =>
               mLocals[awaiter[f].mCallee] = mLocals[f]

LEMMA PassedInv ==
  ASSUME Inv, Histories, [Next]_vars, \A f \in Frames : Passed(f), NEW x \in Frames
  PROVE  Passed(x)'
<1>1. Types /\ Passed(x)
  BY DEF Inv
<1>2. ASSUME SameCall(x), UNCHANGED mLocals, kind'[x] = kind[x] PROVE Passed(x)'
  BY <1>1, <1>2 DEF Passed, SameCall
<1>3. ASSUME NEW f \in Coroutines, NEW k \in {"task", "gen"}, Create(f, k) PROVE Passed(x)'
  <2>1. PICK n \in Frames : n = New /\ st[n] = "none"
    BY <1>3, NewFrame DEF Create
  <2>2. awaiter' = awaiter /\ mLocals' = mLocals /\ kind' = [kind EXCEPT ![n] = k]
    BY <1>3, <2>1 DEF Create
  <2>3. awaiter[n] = None
    BY <2>1 DEF Inv, FrameOK, Alive
  <2>4. CASE x = n
    BY <2>2, <2>3, <2>4 DEF Passed
  <2>5. CASE x # n
    BY <1>1, <1>2, <2>2, <2>5 DEF SameCall, Types
  <2>6. QED
    BY <2>4, <2>5
<1>4. ASSUME NEW f \in Coroutines, NEW g \in Frames, NEW t \in Tokens, bind(f, g, t) PROVE Passed(x)'
  <2>1. /\ Running(f) /\ g \in tasks[f] /\ awaiter' = awaiter /\ kind' = kind
        /\ mLocals' = [mLocals EXCEPT ![g] = t]
    BY <1>4 DEF bind
  <2>2. Loose(g) /\ awaiter[g] = None
    BY <2>1, RunHolds
  <2>3. ASSUME awaiter[x] # None PROVE x # g /\ awaiter[x].mCallee # g /\ awaiter[x].mCallee \in Frames
    BY <1>1, <2>2, <2>3 DEF Loose, Awaits, Types, Awaiters
  <2>4. QED
    BY <1>1, <2>1, <2>3 DEF Passed, Histories
<1>5. ASSUME NEW f \in Frames, NEW g \in Frames, NEW owned \in BOOLEAN, AwaitTask(f, g, owned)
      PROVE  Passed(x)'
  <2>1. Links(f, g) /\ Loose(g)
    BY <1>5, AwaitLinks
  <2>2. mLocals' = [mLocals EXCEPT ![g] = mLocals[f]] /\ kind' = kind
    BY <1>5 DEF AwaitTask, await_transform
  <2>3. mLocals'[g] = mLocals[f] /\ \A y \in Frames \ {g} : mLocals'[y] = mLocals[y]
    BY <2>2 DEF Histories
  <2>4. CASE x = f
    BY <2>1, <2>3, <2>4 DEF Links, Awaits, Passed
  <2>5. CASE x # f
    <3>1. SameCall(x)
      BY <2>1, <2>5 DEF Links
    <3>2. ASSUME awaiter[x] # None
          PROVE  x # g /\ awaiter[x].mCallee # g /\ awaiter[x].mCallee \in Frames
      BY <1>1, <2>1, <3>2 DEF Loose, Awaits, Types, Awaiters, Links
    <3>3. QED
      BY <1>1, <2>2, <2>3, <3>1, <3>2 DEF Passed, SameCall
  <2>6. QED
    BY <2>4, <2>5
<1>6. ASSUME NEW f \in Coroutines, NEW g \in Frames, co_spawn(f, g) PROVE Passed(x)'
  <2>1. PICK n \in Frames : n = New /\ Links(n, g) /\ kind' = [kind EXCEPT ![n] = "starter"]
    BY <1>6, SpawnLinks
  <2>2. mLocals' = mLocals
    BY <1>6 DEF co_spawn
  <2>3. CASE x = n
    BY <1>1, <2>1, <2>3 DEF Passed, Types
  <2>4. CASE x # n
    <3>1. SameCall(x) /\ kind'[x] = kind[x]
      BY <1>1, <2>1, <2>4 DEF Links, Types
    <3>2. QED
      BY <1>2, <2>2, <3>1
  <2>5. QED
    BY <2>3, <2>4
<1>7. ASSUME NEW f \in Frames, Running(f), NEW o \in Outcomes, Tell(f, o) PROVE Passed(x)'
  <2>1. SameCall(x) /\ kind' = kind
    BY <1>7, TellFacts DEF SameCall
  <2>2. mLocals' = mLocals
    BY <1>7 DEF Tell, promises
  <2>3. QED
    BY <1>2, <2>1, <2>2
<1>8. ASSUME NEW f \in Frames, awaiter' = [awaiter EXCEPT ![f] = None], UNCHANGED <<mLocals, kind>>
      PROVE  Passed(x)'
  <2>1. CASE x = f
    BY <1>1, <1>8, <2>1 DEF Passed, Types
  <2>2. CASE x # f
    BY <1>1, <1>2, <1>8, <2>2 DEF SameCall, Types
  <2>3. QED
    BY <2>1, <2>2
<1>9. ASSUME UNCHANGED <<awaiter, mLocals, kind>> PROVE Passed(x)'
  BY <1>2, <1>9 DEF SameCall
<1>10. ASSUME NEW f \in Frames
       PROVE  /\ \A o \in {"value", "exception"} : Finish(f, o) => Passed(x)'
              /\ ReturnError(f) \/ yield_value(f) => Passed(x)'
              /\ Suspend(f) \/ Resume(f) => Passed(x)'
              /\ await_resume(f) \/ StarterEnds(f) => Passed(x)'
  <2>1. "error" \in Outcomes /\ "yield" \in Outcomes /\ {"value", "exception"} \subseteq Outcomes
    BY DEF Outcomes
  <2>2. Suspend(f) \/ Resume(f) => Passed(x)'
    BY <1>9 DEF Suspend, Resume, promises
  <2>3. await_resume(f) \/ StarterEnds(f) => Passed(x)'
    BY <1>8 DEF await_resume, StarterEnds, promises
  <2>4. QED
    BY <1>7, <2>1, <2>2, <2>3 DEF Finish, ReturnError, yield_value
<1>11. ASSUME NEW f \in Coroutines, NEW g \in Frames PROVE DropTask(f, g) => Passed(x)'
  BY <1>9 DEF DropTask, promises
<1>12. UNCHANGED vars => Passed(x)'
  BY <1>9 DEF vars
<1>13. QED
  BY <1>3, <1>4, <1>5, <1>6, <1>10, <1>11, <1>12, Zenon DEF Next, Coroutines

(* And so does every call under it.                                        *)
LEMMA TokensDown ==
  ASSUME Inv, \A f \in Frames : Passed(f), NEW ch, Chains(ch)
  PROVE  \A f \in Frames : kind[f] # "starter" =>
           \A x \in Members(ch[f]) : x \in Frames /\ mLocals[x] = mLocals[f]
<1> DEFINE S == {f \in Frames : kind[f] # "starter" =>
                   \A x \in Members(ch[f]) : x \in Frames /\ mLocals[x] = mLocals[f]}
<1>1. Types
  BY DEF Inv
<1>2. ASSUME NEW f \in Frames, \A g \in Frames : Awaits(f, g) => g \in S PROVE f \in S
  <2>1. CASE awaiter[f] = None
    <3>1. Members(ch[f]) = {f}
      BY <1>1, <2>1, ChainShape
    <3>2. QED
      BY <3>1
  <2>2. CASE awaiter[f] # None
    <3>1. PICK g \in Frames : Awaits(f, g)
      BY <1>1, <2>2 DEF Types, Awaiters, Awaits
    <3>2. g \in S /\ Members(ch[f]) = {f} \cup Members(ch[g])
      BY <1>1, <1>2, <3>1, Longer
    <3>3. kind[g] # "starter"
      BY <3>1 DEF Inv, AwaitOK, Answers
    <3>4. kind[f] # "starter" => mLocals[g] = mLocals[f]
      BY <3>1 DEF Passed, Awaits
    <3>5. QED
      BY <3>2, <3>3, <3>4
  <2>3. QED
    BY <2>1, <2>2
<1> HIDE DEF S
<1>3. \A f \in Frames : f \in S
  BY <1>1, <1>2, Downward
<1>4. QED
  BY <1>3 DEF S

LEMMA TokensHold == Inv /\ Nested /\ (\A f \in Frames : Passed(f)) => OneToken
<1> SUFFICES ASSUME Inv, Nested, \A f \in Frames : Passed(f),
                    NEW r \in Starters, NEW f \in InChain(r) \ {r}
             PROVE  mLocals[f] = mLocals[awaiter[r].mCallee]
  BY DEF OneToken
<1>1. Types /\ FrameOK(r) /\ r \in Frames /\ Alive(r) /\ kind[r] = "starter"
  BY DEF Inv, Starters, Live, Alive
<1>2. PICK ch, b : Chains(ch) /\ b \in Nat
  BY DEF Nested
<1>3. InChain(r) = Members(ch[r])
  BY <1>1, <1>2, ChainUnique DEF InChain, Members
<1>4. PICK g \in Frames : Awaits(r, g) /\ g = awaiter[r].mCallee
  BY <1>1 DEF FrameOK, Types, Awaiters, Awaits
<1>5. Members(ch[r]) = {r} \cup Members(ch[g])
  <2>1. Types /\ Chains(ch) /\ r \in Frames /\ g \in Frames /\ Awaits(r, g)
    BY <1>1, <1>2, <1>4
  <2>2. QED
    BY <2>1, Longer
<1>6. kind[g] # "starter"
  BY <1>1, <1>4 DEF Inv, AwaitOK, Answers
<1>7. QED
  BY <1>2, <1>3, <1>4, <1>5, <1>6, TokensDown

(* A coroutine runs under the token of the task it was spawned in, however *)
(* it came to be awaited there (TaskPromiseTransforms::await_transform).   *)
THEOREM TokenKept == Spec => []OneToken
<1> DEFINE I == Inv /\ Histories /\ Nested /\ \A f \in Frames : Passed(f)
<1>1. Init => I
  <2>1. Init => \A f \in Frames : Passed(f)
    BY DEF Init, Passed
  <2>2. QED
    BY <2>1, InitInv, NestedInit DEF Init, Histories
<1>2. I /\ [Next]_vars => I'
  BY NextInv, HistoriesInv, NestedInv, PassedInv
<1>3. I => OneToken
  BY TokensHold
<1> HIDE DEF I
<1>4. QED
  BY <1>1, <1>2, <1>3, PTL DEF Spec
------------------------------------------------------------------------------
(* Control.                                                                *)

(* A frame in progress that awaits nothing runs, waits in the event loop   *)
(* or is inside a co_spawn of its own.                                     *)
Placed(f) == Busy(f) /\ awaiter[f] = None => f \in Driving

LEMMA Driven ==
  ASSUME Inv
  PROVE  /\ Main \notin Frames /\ Driving \subseteq Coroutines
         /\ \A f \in Driving \cap Frames : Busy(f) /\ (awaiter[f] # None => f = current)
         /\ current \in Driving
<1>1. Types /\ Control
  BY DEF Inv
<1>2. ASSUME NEW f \in io PROVE f \in Frames /\ Busy(f) /\ awaiter[f] = None
  BY <1>1 DEF Inv, FrameOK, Types, Busy
<1>3. ASSUME NEW i \in 1..Len(resumers), resumers[i] \in Frames
      PROVE  Busy(resumers[i]) /\ awaiter[resumers[i]] = None
  BY <1>1, <1>3 DEF Control, ResumerOK, Busy
<1>4. ASSUME current \in Frames PROVE Busy(current)
  <2>1. CASE awaiter[current] # None
    BY <1>4, <2>1 DEF Inv, AwaitOK, Awaits, Answers, Busy
  <2>2. CASE awaiter[current] = None
    BY <1>1, <1>4, <2>2, Basics DEF Control, Executes, Busy
  <2>3. QED
    BY <2>1, <2>2
<1>5. \A i \in 1..Len(resumers) : resumers[i] \in Coroutines
  BY <1>1 DEF Control
<1>6. ASSUME NEW f \in Driving
      PROVE  f \in Coroutines /\ (f \in Frames => Busy(f) /\ (awaiter[f] # None => f = current))
  <2>1. CASE f \in io
    BY <1>2, <2>1, Basics
  <2>2. CASE f = current
    BY <1>1, <1>4, <2>2 DEF Types
  <2>3. CASE \E i \in 1..Len(resumers) : f = resumers[i]
    BY <1>3, <1>5, <2>3
  <2>4. QED
    BY <2>1, <2>2, <2>3 DEF Driving
<1>7. current \in Driving
  BY DEF Driving
<1>8. QED
  BY <1>6, <1>7, Basics

LEMMA PlacedKeeps ==
  ASSUME NEW x, Placed(x), Busy(x)' /\ awaiter'[x] = None => Busy(x) /\ awaiter[x] = None,
         x \in Driving => x \in Driving'
  PROVE  Placed(x)'
BY DEF Placed

(* Whoever pushes stays inside resume(), and who is popped has control.    *)
LEMMA DrivingMoves ==
  ASSUME Inv, NEW x \in Frames, x \in Driving
  PROVE  /\ UNCHANGED <<resumers, io>> /\ x # current => x \in Driving'
         /\ resumers' = Append(resumers, current) /\ (x \in io => x \in io' \cup {current'})
              => x \in Driving'
         /\ LeaveResume /\ current # Main /\ io \subseteq io' /\ (x = current => x \in io')
              => x \in Driving'
<1>1. resumers \in Seq(Coroutines) /\ current \in Coroutines /\ Control
  BY DEF Inv, Control, Types
<1>2. PICK n \in Nat : n = Len(resumers)
  BY <1>1
<1>3. x \in io \/ x = current \/ \E i \in 1..n : x = resumers[i]
  BY <1>2 DEF Driving
<1>4. ASSUME resumers' = Append(resumers, current)
      PROVE  /\ current \in Driving'
             /\ \A i \in 1..n : resumers[i] \in Driving'
  <2>1. /\ Len(resumers') = n + 1 /\ resumers'[n + 1] = current
        /\ \A i \in 1..n : resumers'[i] = resumers[i]
    BY <1>1, <1>2, <1>4, AppendProperties
  <2>2. n + 1 \in 1..(n + 1) /\ \A i \in 1..n : i \in 1..(n + 1)
    BY <1>2
  <2>3. QED
    BY <2>1, <2>2 DEF Driving
<1>5. ASSUME LeaveResume, current # Main
      PROVE  \A i \in 1..n : resumers[i] \in Driving'
  <2>1. n \in Nat \ {0}
    BY <1>1, <1>2, <1>5, EmptySeq DEF Control
  <2>2. \A i \in 1..(n - 1) : resumers[i] \in Coroutines
    BY <1>1, <1>2
  <2>3. /\ Len(resumers') = IF 1 <= n - 1 THEN n - 1 - 1 + 1 ELSE 0
        /\ \A i \in 1..(n - 1 - 1 + 1) : resumers'[i] = resumers[1 + i - 1]
    BY <1>2, <1>5, <2>1, <2>2, SubSeqProperties DEF LeaveResume
  <2>4. Len(resumers') = n - 1 /\ \A i \in 1..(n - 1) : resumers'[i] = resumers[i]
    <3>1. (\A i \in 1..(n - 1) : 1 + i - 1 = i) /\ n - 1 - 1 + 1 = n - 1 /\ (~(1 <= n - 1) => n - 1 = 0)
      BY <2>1
    <3>2. QED
      BY <2>3, <3>1
  <2>5. TAKE i \in 1..n
  <2>6. CASE i = n
    BY <1>2, <1>5, <2>6 DEF LeaveResume, Driving
  <2>7. CASE i # n
    <3>1. i \in 1..Len(resumers') /\ resumers'[i] = resumers[i]
      BY <2>1, <2>4, <2>7
    <3>2. QED
      BY <3>1 DEF Driving
  <2>8. QED
    BY <2>6, <2>7
<1>6. ASSUME UNCHANGED <<resumers, io>>, x # current PROVE x \in Driving'
  BY <1>6, <1>3, <1>2 DEF Driving
<1>7. ASSUME resumers' = Append(resumers, current), x \in io => x \in io' \cup {current'}
      PROVE  x \in Driving'
  <2>1. x \in io => x \in Driving'
    BY <1>7 DEF Driving
  <2>2. QED
    BY <1>3, <1>4, <1>7, <2>1
<1>8. ASSUME LeaveResume, current # Main, io \subseteq io', x = current => x \in io'
      PROVE  x \in Driving'
  <2>1. x \in io' => x \in Driving'
    BY DEF Driving
  <2>2. QED
    BY <1>3, <1>5, <1>8, <2>1
<1>9. QED
  BY <1>6, <1>7, <1>8

LEMMA PlacedInv ==
  ASSUME Inv, [Next]_vars, NEW x \in Frames, Placed(x)
  PROVE  Placed(x)'
<1>1. Types
  BY DEF Inv
<1>2. x \in Coroutines
  BY Basics
<1>3. ASSUME UNCHANGED <<current, resumers, io>> PROVE x \in Driving => x \in Driving'
  BY <1>3 DEF Driving
<1>4. ASSUME UNCHANGED <<st, awaiter, current, resumers, io>> PROVE Placed(x)'
  BY <1>3, <1>4, PlacedKeeps DEF Busy
<1>5. ASSUME NEW f \in Coroutines, NEW k \in {"task", "gen"}, Create(f, k) PROVE Placed(x)'
  <2>1. PICK n \in Frames : n = New
    BY <1>5, NewFrame DEF Create
  <2>2. st' = [st EXCEPT ![n] = "suspended"] /\ UNCHANGED <<awaiter, current, resumers, io>>
    BY <1>5, <2>1 DEF Create
  <2>3. Busy(x)' => Busy(x)
    BY <1>1, <2>2 DEF Busy, Types
  <2>4. QED
    BY <1>3, <2>2, <2>3, PlacedKeeps
<1>6. ASSUME NEW f \in Coroutines, NEW g \in Frames, DropTask(f, g) PROVE Placed(x)'
  <2>1. Destroy({g}, f, st) /\ UNCHANGED <<awaiter, current, resumers, io>>
    BY <1>6 DEF DropTask
  <2>2. Busy(x)' => Busy(x)
    BY <2>1 DEF Busy, Destroy
  <2>3. QED
    BY <1>3, <2>1, <2>2, PlacedKeeps
<1>7. ASSUME NEW f \in Frames, NEW g \in Frames, NEW owned \in BOOLEAN, AwaitTask(f, g, owned)
      PROVE  Placed(x)'
  <2>1. /\ Links(f, g) /\ current = f /\ current' = g /\ UNCHANGED <<resumers, io>>
        /\ st' = [st EXCEPT ![f] = "waiting", ![g] = "running"]
    BY <1>7, AwaitLinks DEF AwaitTask, Running
  <2>2. CASE x = f
    BY <2>1, <2>2 DEF Placed, Links, Awaits
  <2>3. CASE x = g
    BY <2>1, <2>3 DEF Placed, Driving
  <2>4. CASE x \notin {f, g}
    <3>1. st'[x] = st[x] /\ (awaiter'[x] = None <=> awaiter[x] = None)
      BY <1>1, <2>1, <2>4 DEF Types, Links, SameCall
    <3>2. x \in Driving => x \in Driving'
      BY <2>1, <2>4, DrivingMoves
    <3>3. QED
      BY <3>1, <3>2, PlacedKeeps DEF Busy
  <2>5. QED
    BY <2>2, <2>3, <2>4
<1>8. ASSUME NEW f \in Frames, Running(f), NEW o \in Outcomes, Tell(f, o), ~Busy(f)',
             x # f => st'[x] \in {"destroyed", st[x]}
      PROVE  Placed(x)'
  <2>1. /\ current = f /\ UNCHANGED <<resumers, io>>
        /\ awaiter'[x] # None <=> awaiter[x] # None
    BY <1>8, TellFacts DEF Running
  <2>2. CASE x = f
    BY <1>8, <2>2 DEF Placed
  <2>3. CASE x # f
    <3>1. Busy(x)' => Busy(x)
      BY <1>8, <2>3 DEF Busy
    <3>2. x \in Driving => x \in Driving'
      BY <2>1, <2>3, DrivingMoves
    <3>3. QED
      BY <2>1, <3>1, <3>2, PlacedKeeps
  <2>4. QED
    BY <2>2, <2>3
<1>9. ASSUME NEW f \in Frames, NEW o \in {"value", "exception"}, Finish(f, o) PROVE Placed(x)'
  <2>1. Running(f) /\ Tell(f, o) /\ o \in Outcomes /\ Destroy(tasks[f], f, [st EXCEPT ![f] = "final"])
    BY <1>9 DEF Finish, Outcomes
  <2>2. ~Busy(f)' /\ (x # f => st'[x] \in {"destroyed", st[x]})
    BY <1>1, <2>1 DEF Destroy, Busy, Types
  <2>3. QED
    BY <1>8, <2>1, <2>2
<1>10. ASSUME NEW f \in Frames, ReturnError(f) \/ yield_value(f) PROVE Placed(x)'
  <2>1. PICK o \in Outcomes : Running(f) /\ Tell(f, o)
    BY <1>10 DEF ReturnError, yield_value, Outcomes
  <2>2. \E s \in {"returned", "yielded"} : st' = [st EXCEPT ![f] = s]
    BY <1>10 DEF ReturnError, yield_value, ValueOrReturnAwaiter
  <2>3. ~Busy(f)' /\ (x # f => st'[x] \in {"destroyed", st[x]})
    BY <1>1, <2>2 DEF Busy, Types
  <2>4. QED
    BY <1>8, <2>1, <2>3
<1>11. ASSUME NEW f \in Frames, await_resume(f) PROVE Placed(x)'
  <2>1. /\ current = f /\ UNCHANGED <<current, resumers, io>> /\ awaiter' = [awaiter EXCEPT ![f] = None]
        /\ Destroy(Freed({f}), f, [st EXCEPT ![f] = "running"])
    BY <1>11 DEF await_resume
  <2>2. CASE x = f
    BY <2>1, <2>2 DEF Placed, Driving
  <2>3. CASE x # f
    <3>1. (Busy(x)' => Busy(x)) /\ awaiter'[x] = awaiter[x]
      BY <1>1, <2>1, <2>3 DEF Destroy, Busy, Types
    <3>2. QED
      BY <1>3, <2>1, <3>1, PlacedKeeps
  <2>4. QED
    BY <2>2, <2>3
<1>12. ASSUME NEW f \in Frames, StarterEnds(f) PROVE Placed(x)'
  <2>1. /\ current = f /\ current # Main /\ UNCHANGED io /\ LeaveResume
        /\ awaiter' = [awaiter EXCEPT ![f] = None] /\ Destroy({f}, f, st)
    BY <1>12 DEF StarterEnds
  <2>2. CASE x = f
    <3>1. f \in OwnedWith({f})
      BY DEF OwnedWith
    <3>2. QED
      BY <2>1, <2>2, <3>1 DEF Placed, Busy, Destroy
  <2>3. CASE x # f
    <3>1. (Busy(x)' => Busy(x)) /\ awaiter'[x] = awaiter[x]
      BY <1>1, <2>1, <2>3 DEF Destroy, Busy, Types
    <3>2. x \in Driving => x \in Driving'
      BY <2>1, <2>3, DrivingMoves
    <3>3. QED
      BY <3>1, <3>2, PlacedKeeps
  <2>4. QED
    BY <2>2, <2>3
<1>13. ASSUME NEW f \in Frames, Suspend(f) PROVE Placed(x)'
  <2>1. /\ current = f /\ current # Main /\ io' = io \cup {f} /\ LeaveResume /\ awaiter' = awaiter
        /\ st' = [st EXCEPT ![f] = "waiting"]
    BY <1>13 DEF Suspend, Running
  <2>2. x = f => x \in Driving'
    BY <2>1 DEF Driving
  <2>3. x # f => st'[x] = st[x]
    BY <1>1, <2>1 DEF Types
  <2>4. x \in Driving => x \in Driving'
    BY <2>1, DrivingMoves
  <2>5. QED
    BY <2>1, <2>2, <2>3, <2>4 DEF Placed, Busy
<1>14. ASSUME NEW f \in Frames, Resume(f) PROVE Placed(x)'
  <2>1. /\ current = Main /\ io' = io \ {f} /\ resumers' = Append(resumers, current) /\ current' = f
        /\ st' = [st EXCEPT ![f] = "running"] /\ awaiter' = awaiter
    BY <1>14 DEF Resume
  <2>2. x = f => x \in Driving'
    BY <2>1 DEF Driving
  <2>3. x # f => st'[x] = st[x]
    BY <1>1, <2>1 DEF Types
  <2>4. x \in Driving => x \in Driving'
    BY <2>1, DrivingMoves
  <2>5. QED
    BY <2>1, <2>2, <2>3, <2>4 DEF Placed, Busy
<1>15. ASSUME NEW f \in Coroutines, NEW g \in Frames, co_spawn(f, g) PROVE Placed(x)'
  <2>1. PICK n \in Frames : n = New /\ Links(n, g)
    BY <1>15, SpawnLinks
  <2>2. /\ resumers' = Append(resumers, current) /\ current' = g /\ UNCHANGED io
        /\ st' = [st EXCEPT ![n] = "waiting", ![g] = "running"]
    BY <1>15, <2>1 DEF co_spawn, Running
  <2>3. CASE x = n
    BY <2>1, <2>3 DEF Placed, Links, Awaits
  <2>4. CASE x = g
    BY <2>2, <2>4 DEF Placed, Driving
  <2>5. CASE x \notin {n, g}
    <3>1. st'[x] = st[x] /\ (awaiter'[x] = None <=> awaiter[x] = None)
      BY <1>1, <2>1, <2>2, <2>5 DEF Types, Links, SameCall
    <3>2. x \in Driving => x \in Driving'
      BY <2>2, DrivingMoves
    <3>3. QED
      BY <3>1, <3>2, PlacedKeeps DEF Busy
  <2>6. QED
    BY <2>3, <2>4, <2>5
<1>16. ASSUME NEW f \in Coroutines, NEW g \in Frames, NEW t \in Tokens PROVE bind(f, g, t) => Placed(x)'
  BY <1>4 DEF bind
<1>17. UNCHANGED vars => Placed(x)'
  BY <1>4 DEF vars
<1>18. QED
  BY <1>5, <1>6, <1>7, <1>9, <1>10, <1>11, <1>12, <1>13, <1>14, <1>15, <1>16, <1>17, Zenon
     DEF Next, Coroutines

LEMMA SelfIn == ASSUME Types, NEW ch, Chains(ch), NEW f \in Frames PROVE f \in Members(ch[f])
<1>1. Len(ch[f]) \in Nat \ {0} /\ ch[f][1] = f
  BY ChainShape
<1>2. QED
  BY <1>1 DEF Members

LEMMA OnePlace ==
  ASSUME Inv, \A f \in Frames : Placed(f), NEW ch, Chains(ch)
  PROVE  \A f \in Frames : Busy(f) => \E d : Members(ch[f]) \cap Driving = {d}
<1> DEFINE S == {f \in Frames : Busy(f) => \E d : Members(ch[f]) \cap Driving = {d}}
<1>1. Types
  BY DEF Inv
<1>2. ASSUME NEW f \in Frames, \A g \in Frames : Awaits(f, g) => g \in S PROVE f \in S
  <2> SUFFICES ASSUME Busy(f) PROVE \E d : Members(ch[f]) \cap Driving = {d}
    OBVIOUS
  <2>1. CASE awaiter[f] = None
    <3>1. Members(ch[f]) = {f} /\ f \in Driving
      BY <1>1, <2>1, ChainShape DEF Placed
    <3>2. QED
      BY <3>1
  <2>2. CASE awaiter[f] # None
    <3>1. PICK g \in Frames : Awaits(f, g)
      BY <1>1, <2>2 DEF Types, Awaiters, Awaits
    <3>2. Answers(f, g) /\ g \in S /\ Members(ch[f]) = {f} \cup Members(ch[g])
      BY <1>1, <1>2, <3>1, Longer DEF Inv, AwaitOK
    <3>3. CASE current = f
      <4>1. Told(g) /\ f \in Driving
        BY <3>2, <3>3, Driven DEF Answers
      <4>2. awaiter[g] = None /\ ~Busy(g)
        BY <4>1 DEF Told, Busy, Inv, AwaitOK, Answers, Awaits
      <4>3. Members(ch[g]) = {g}
        BY <1>1, <4>2, ChainShape
      <4>4. g \notin Driving
        BY <4>2, Driven
      <4>5. Members(ch[f]) \cap Driving = {f}
        BY <3>2, <4>1, <4>3, <4>4
      <4>6. QED
        BY <4>5
    <3>4. CASE current # f
      <4>1. Busy(g)
        BY <3>2, <3>4 DEF Answers
      <4>2. f \notin Driving
        BY <2>2, <3>4, Driven
      <4>3. Members(ch[f]) \cap Driving = Members(ch[g]) \cap Driving
        BY <3>2, <4>2
      <4>4. QED
        BY <3>2, <4>1, <4>3
    <3>5. QED
      BY <3>3, <3>4
  <2>3. QED
    BY <2>1, <2>2
<1> HIDE DEF S
<1>3. \A f \in Frames : f \in S
  BY <1>1, <1>2, Downward
<1>4. QED
  BY <1>3 DEF S

LEMMA ChainClosed ==
  ASSUME Types, NEW ch, Chains(ch)
  PROVE  \A f \in Frames : \A x \in Members(ch[f]) : \A y \in Frames :
           Awaits(x, y) => y \in Members(ch[f])
<1> DEFINE S == {f \in Frames : \A x \in Members(ch[f]) : \A y \in Frames :
                   Awaits(x, y) => y \in Members(ch[f])}
<1>1. ASSUME NEW f \in Frames, \A g \in Frames : Awaits(f, g) => g \in S PROVE f \in S
  <2>1. CASE awaiter[f] = None
    <3>1. Members(ch[f]) = {f}
      BY <2>1, ChainShape
    <3>2. QED
      BY <2>1, <3>1 DEF Awaits
  <2>2. CASE awaiter[f] # None
    <3>1. PICK g \in Frames : Awaits(f, g)
      BY <2>2 DEF Types, Awaiters, Awaits
    <3>2. g \in S /\ Members(ch[f]) = {f} \cup Members(ch[g])
      BY <1>1, <3>1, Longer
    <3>3. g \in Members(ch[g])
      BY SelfIn
    <3>4. \A y : Awaits(f, y) => y = g
      BY <3>1 DEF Awaits
    <3>5. QED
      BY <3>2, <3>4, <3>3
  <2>3. QED
    BY <2>1, <2>2
<1> HIDE DEF S
<1>2. \A f \in Frames : f \in S
  BY <1>1, Downward
<1>3. QED
  BY <1>2 DEF S

(* Whatever is in progress was called, directly or not, by a spawned task. *)
LEMMA Rooted ==
  ASSUME Inv, NEW ch, NEW b \in Nat, Chains(ch), \A f \in Frames : Len(ch[f]) <= b
  PROVE  \A g \in Frames : Busy(g) => \E r \in Starters : g \in Members(ch[r])
<1> DEFINE S == {g \in Frames : Busy(g) => \E r \in Starters : g \in Members(ch[r])}
<1>1. Types
  BY DEF Inv
<1>2. ASSUME NEW g \in Frames, \A f \in Frames : Awaits(f, g) => f \in S PROVE g \in S
  <2> SUFFICES ASSUME Busy(g) PROVE \E r \in Starters : g \in Members(ch[r])
    OBVIOUS
  <2>1. CASE kind[g] = "starter"
    <3>1. g \in Starters /\ g \in Members(ch[g])
      BY <1>1, <2>1, SelfIn DEF Starters, Live, Busy
    <3>2. QED
      BY <3>1
  <2>2. CASE kind[g] # "starter"
    <3>1. PICK p \in Frames : Awaits(p, g)
      BY <2>2 DEF Inv, CalleeOK
    <3>2. p \in S /\ Busy(p)
      BY <1>2, <3>1 DEF Inv, AwaitOK, Answers, Busy
    <3>3. PICK r \in Starters : p \in Members(ch[r])
      BY <3>2
    <3>4. r \in Frames
      BY DEF Starters, Live
    <3>5. g \in Members(ch[r])
      BY <1>1, <3>1, <3>3, <3>4, ChainClosed
    <3>6. QED
      BY <3>5
  <2>3. QED
    BY <2>1, <2>2
<1> HIDE DEF S
<1>3. \A g \in Frames : g \in S
  BY <1>1, <1>2, Upward
<1>4. QED
  BY <1>3 DEF S

LEMMA NeverLost == Inv /\ Nested /\ (\A f \in Frames : Placed(f)) => NotLost
<1> SUFFICES ASSUME Inv, Nested, \A f \in Frames : Placed(f) PROVE NotLost
  OBVIOUS
<1>1. Types
  BY DEF Inv
<1>2. PICK ch, b : Chains(ch) /\ b \in Nat /\ \A f \in Frames : Len(ch[f]) <= b
  BY DEF Nested
<1>3. \A r : InChain(r) = Members(ch[r])
  BY <1>1, <1>2, ChainUnique DEF InChain, Members
<1>4. \A r \in Starters : r \in Frames /\ Busy(r)
  BY DEF Starters, Live, Inv, FrameOK, Alive, Busy
<1>5. ASSUME NEW r \in Starters PROVE Cardinality(InChain(r) \cap Driving) = 1
  <2>1. PICK d : Members(ch[r]) \cap Driving = {d}
    BY <1>2, <1>4, OnePlace
  <2>2. QED
    BY <1>3, <2>1, FS_Singleton
<1>6. ASSUME NEW f \in Driving, f # Main PROVE f \in UNION {InChain(r) : r \in Starters}
  <2>1. f \in Frames /\ Busy(f)
    BY <1>6, Driven DEF Coroutines
  <2>2. PICK r \in Starters : f \in Members(ch[r])
    BY <1>2, <2>1, Rooted
  <2>3. QED
    BY <1>3, <2>2
<1>7. QED
  BY <1>5, <1>6 DEF NotLost

(* Of the calls of each spawned task one and only one runs, waits in the   *)
(* event loop or is inside a co_spawn, and nothing else ever runs: control *)
(* is neither lost nor forked by the symmetric transfers of task.hpp.      *)
THEOREM ControlKept == Spec => []NotLost
<1> DEFINE I == Inv /\ Nested /\ \A f \in Frames : Placed(f)
<1>1. Init => I
  <2>1. Init => \A f \in Frames : Placed(f)
    BY DEF Init, Placed, Busy
  <2>2. QED
    BY <2>1, InitInv, NestedInit
<1>2. I /\ [Next]_vars => I'
  BY NextInv, NestedInv, PlacedInv
<1>3. I => NotLost
  BY NeverLost
<1> HIDE DEF I
<1>4. QED
  BY <1>1, <1>2, <1>3, PTL DEF Spec
------------------------------------------------------------------------------
(* What is said.                                                           *)

(* A frame has said something that nobody got while its caller has control *)
(* and is still at the co_await; the awaiter holds what was said.          *)
Said(g) == /\ said[g] # None <=> current \in Frames /\ Awaits(current, g)
           /\ \A f \in Frames : Awaits(f, g) => awaiter[f].mResult = said[g]
           /\ GenThrows \/ kind[g] = "task" \/ said[g] # "exception"

LEMMA SaidSame ==
  ASSUME NEW x, Said(x), UNCHANGED awaiter, said'[x] = said[x], kind'[x] = kind[x],
         current = current' \/ /\ current \in Frames => awaiter[current] = None
                               /\ current' \in Frames => awaiter[current'] = None
  PROVE  Said(x)'
BY DEF Said, Awaits

(* A call begins.                                                          *)
LEMMA SaidLink ==
  ASSUME Inv, Histories, NEW x \in Frames, Said(x), NEW f \in Frames, NEW g \in Frames,
         Links(f, g), Loose(g), awaiter'[f].mResult = None, UNCHANGED said, kind'[x] = kind[x] \/ x = f,
         \A y \in Frames \ {f} : awaiter'[y] = awaiter[y],
         current \in Frames => awaiter[current] = None, current' = g
  PROVE  Said(x)'
<1>1. said[x] = None
  BY DEF Said, Awaits
<1>2. ~Awaits(g, x)'
  BY DEF Links, SameCall, Awaits
<1>3. ASSUME NEW h \in Frames, Awaits(h, x)' PROVE awaiter'[h].mResult = None
  <2>1. CASE h = f
    BY <2>1
  <2>2. CASE h # f
    BY <1>1, <1>3, <2>2 DEF Said, Awaits
  <2>3. QED
    BY <2>1, <2>2
<1>4. said'[x] # "exception"
  BY <1>1, TasksAssumption DEF Outcomes
<1>5. QED
  BY <1>1, <1>2, <1>3, <1>4 DEF Said

(* A call returns.                                                         *)
LEMMA SaidUnlink ==
  ASSUME Inv, Histories, NEW x \in Frames, Said(x), NEW f \in Frames, current = f, awaiter[f] # None,
         awaiter' = [awaiter EXCEPT ![f] = None], said' = [said EXCEPT ![awaiter[f].mCallee] = None],
         kind' = kind, current' \in Frames => awaiter'[current'] = None
  PROVE  Said(x)'
<1>1. PICK g \in Frames : Unlinks(f, g)
  BY ReturnUnlinks
<1>2. g = awaiter[f].mCallee /\ Awaits(f, g) /\ \A h \in Frames : Awaits(h, g) => h = f
  BY <1>1 DEF Unlinks, Awaits
<1>3. said'[x] = None
  BY <1>2 DEF Said, Awaits, Histories
<1>4. \A h \in Frames : awaiter'[h] = IF h = f THEN None ELSE awaiter[h]
  BY DEF Inv, Types
<1>5. ASSUME NEW h \in Frames, Awaits(h, x)' PROVE awaiter'[h].mResult = None
  <2>1. h # f /\ Awaits(h, x) /\ awaiter'[h] = awaiter[h]
    BY <1>4, <1>5 DEF Awaits
  <2>2. x # g
    BY <1>2, <2>1
  <2>3. said[x] = None
    BY <1>2, <2>2 DEF Said, Awaits
  <2>4. QED
    BY <2>1, <2>3 DEF Said
<1>6. said'[x] # "exception"
  BY <1>3, TasksAssumption DEF Outcomes
<1>7. ~(current' \in Frames /\ Awaits(current, x)')
  BY DEF Awaits
<1>8. QED
  BY <1>3, <1>5, <1>6, <1>7 DEF Said

(* A frame speaks.                                                         *)
LEMMA SaidTell ==
  ASSUME Inv, Histories, NEW x \in Frames, Said(x), NEW f \in Frames, Running(f), NEW o \in Outcomes,
         Tell(f, o), o = "exception" => GenThrows \/ kind[f] = "task"
  PROVE  Said(x)'
<1>1. PICK c \in Frames : c = mAwaiter[f]
  BY RunFacts
<1>2. /\ current = f /\ awaiter[f] = None /\ Awaits(c, f) /\ c # f
      /\ \A h \in Frames : Awaits(h, f) => h = c
  BY <1>1, RunFacts DEF Inv, AwaitOK, Answers
<1>3. /\ current' = c /\ kind' = kind /\ awaiter'[c].mResult = o
      /\ \A h \in Frames \ {c} : awaiter'[h] = awaiter[h]
      /\ \A h \in Frames : \A y : Awaits(h, y)' <=> Awaits(h, y)
  BY <1>1, TellFacts DEF Awaits
<1>4. said'[f] = o /\ \A y \in Frames \ {f} : said'[y] = said[y]
  BY DEF Tell, Histories
<1>5. said[x] = None /\ o # None
  BY <1>2, TasksAssumption DEF Said, Awaits
<1>6. CASE x = f
  BY <1>2, <1>3, <1>4, <1>5, <1>6 DEF Said
<1>7. CASE x # f
  <2>1. said'[x] = None /\ ~Awaits(c, x)' /\ None # "exception"
    BY <1>2, <1>3, <1>4, <1>5, <1>7, TasksAssumption DEF Awaits, Outcomes
  <2>2. \A h \in Frames : Awaits(h, x)' => awaiter'[h].mResult = None
    BY <1>3, <1>5, <2>1 DEF Said
  <2>3. QED
    BY <1>3, <2>1, <2>2 DEF Said
<1>8. QED
  BY <1>6, <1>7

LEMMA SaidInv ==
  ASSUME Inv, Inv', Histories, [Next]_vars, NEW x \in Frames, Said(x)
  PROVE  Said(x)'
<1>1. Types /\ Control
  BY DEF Inv
<1>2. ASSUME UNCHANGED <<awaiter, said, kind, current>> PROVE Said(x)'
  BY <1>2, SaidSame
<1>3. ASSUME NEW f \in Coroutines, NEW k \in {"task", "gen"}, Create(f, k) PROVE Said(x)'
  <2>1. PICK n \in Frames : n = New /\ st[n] = "none"
    BY <1>3, NewFrame DEF Create
  <2>2. UNCHANGED <<awaiter, said, current>> /\ kind' = [kind EXCEPT ![n] = k]
    BY <1>3, <2>1 DEF Create
  <2>3. CASE x = n
    <3>1. kind[x] = "none"
      BY <2>1, <2>3 DEF Inv, FrameOK
    <3>2. \A h \in Frames : ~Awaits(h, x)
      BY <3>1 DEF Inv, AwaitOK, Answers
    <3>3. said[x] = None
      BY <3>2 DEF Said
    <3>4. said'[x] = None /\ \A h \in Frames : ~Awaits(h, x)'
      BY <2>2, <3>2, <3>3 DEF Awaits
    <3>7. current' \in Frames => ~Awaits(current, x)'
      BY <2>2, <3>2 DEF Awaits
    <3>5. None # "exception"
      BY TasksAssumption DEF Outcomes
    <3>6. QED
      BY <3>4, <3>5, <3>7 DEF Said
  <2>4. CASE x # n
    <3>1. kind'[x] = kind[x]
      BY <1>1, <2>2, <2>4 DEF Types
    <3>2. QED
      BY <2>2, <3>1, SaidSame
  <2>5. QED
    BY <2>3, <2>4
<1>4. ASSUME NEW f \in Frames, NEW g \in Frames, NEW owned \in BOOLEAN, AwaitTask(f, g, owned)
      PROVE  Said(x)'
  <2>1. PICK r \in Awaiters : r = [mCallee |-> g, mCaller |-> f, owned |-> owned, mResult |-> None]
    BY DEF Awaiters
  <2>2. /\ Running(f) /\ awaiter' = [awaiter EXCEPT ![f] = r] /\ current' = g
        /\ UNCHANGED <<kind, said>>
    BY <1>4, <2>1 DEF AwaitTask, MakeAwaiter
  <2>3. Links(f, g) /\ Loose(g) /\ current = f /\ awaiter[f] = None
    BY <1>4, <2>2, AwaitLinks, RunFacts
  <2>4. r.mResult = None
    BY <2>1
  <2>5. awaiter'[f].mResult = None /\ \A y \in Frames \ {f} : awaiter'[y] = awaiter[y]
    BY <1>1, <2>2, <2>4 DEF Types
  <2>6. QED
    BY <2>2, <2>3, <2>5, SaidLink
<1>5. ASSUME NEW f \in Coroutines, NEW g \in Frames, co_spawn(f, g) PROVE Said(x)'
  <2>1. PICK n \in Frames : n = New /\ Links(n, g) /\ Loose(g) /\ kind' = [kind EXCEPT ![n] = "starter"]
    BY <1>5, SpawnLinks
  <2>2. PICK r \in Awaiters : r = [mCallee |-> g, mCaller |-> n, owned |-> TRUE, mResult |-> None]
    BY DEF Awaiters
  <2>3. /\ Running(f) /\ awaiter' = [awaiter EXCEPT ![n] = r] /\ current' = g /\ UNCHANGED said
    BY <1>5, <2>1, <2>2 DEF co_spawn, MakeAwaiter
  <2>4. r.mResult = None
    BY <2>2
  <2>5. /\ awaiter'[n].mResult = None /\ (kind'[x] = kind[x] \/ x = n)
        /\ \A y \in Frames \ {n} : awaiter'[y] = awaiter[y]
    BY <1>1, <2>1, <2>3, <2>4 DEF Types
  <2>6. current \in Frames => awaiter[current] = None
    BY <2>3, RunHolds DEF Running
  <2>7. QED
    BY <2>1, <2>3, <2>5, <2>6, SaidLink
<1>6. ASSUME NEW f \in Frames, Suspend(f) PROVE Said(x)'
  <2>1. Running(f) /\ LeaveResume /\ UNCHANGED <<kind, awaiter, said>> /\ st' = [st EXCEPT ![f] = "waiting"]
    BY <1>6 DEF Suspend, promises
  <2>2. current = f /\ awaiter[f] = None
    BY <2>1, RunFacts
  <2>3. \A y \in Frames \ {f} : st'[y] = st[y]
    BY <1>1, <2>1 DEF Types
  <2>4. current' \in Frames => awaiter[current'] = None
    BY <2>1, <2>2, <2>3, PopControl, Basics
  <2>5. QED
    BY <2>1, <2>2, <2>4, SaidSame
<1>7. ASSUME NEW f \in Frames, Resume(f) PROVE Said(x)'
  <2>1. current = Main /\ f \in io /\ current' = f /\ UNCHANGED <<kind, awaiter, said>>
    BY <1>7 DEF Resume, promises
  <2>2. awaiter[f] = None
    BY <2>1 DEF Inv, FrameOK
  <2>3. QED
    BY <2>1, <2>2, SaidSame, Basics
<1>8. ASSUME NEW f \in Frames, await_resume(f) PROVE Said(x)'
  <2>1. /\ current = f /\ current' = f /\ awaiter[f] # None /\ awaiter' = [awaiter EXCEPT ![f] = None]
        /\ said' = [said EXCEPT ![awaiter[f].mCallee] = None] /\ kind' = kind
    BY <1>8 DEF await_resume, promises
  <2>2. awaiter'[f] = None
    BY <1>1, <2>1 DEF Types
  <2>3. QED
    BY <2>1, <2>2, SaidUnlink
<1>9. ASSUME NEW f \in Frames, StarterEnds(f) PROVE Said(x)'
  <2>1. /\ current = f /\ awaiter' = [awaiter EXCEPT ![f] = None] /\ LeaveResume /\ f # Main
        /\ said' = [said EXCEPT ![awaiter[f].mCallee] = None] /\ kind' = kind
        /\ kind[f] = "starter" /\ Destroy({f}, f, st)
    BY <1>9 DEF StarterEnds, promises
  <2>2. awaiter[f] # None
    BY <1>1, <2>1 DEF Control, Executes
  <2>3. resumers \in Seq(Coroutines) /\ resumers # << >>
    BY <1>1, <2>1 DEF Control
  <2>4. Len(resumers) \in 1..Len(resumers)
    BY <2>3, EmptySeq
  <2>5. current' \in Frames => awaiter[current'] = None
    BY <1>1, <2>1, <2>4 DEF Control, ResumerOK, LeaveResume
  <2>6. current' \in Frames => awaiter'[current'] = None
    BY <1>1, <2>1, <2>5 DEF Types
  <2>7. QED
    BY <2>1, <2>2, <2>6, SaidUnlink
<1>10. ASSUME NEW f \in Frames
       PROVE  /\ \A o \in {"value", "exception"} : Finish(f, o) => Said(x)'
              /\ ReturnError(f) \/ yield_value(f) => Said(x)'
  <2>1. "error" \in Outcomes /\ "yield" \in Outcomes /\ {"value", "exception"} \subseteq Outcomes
    BY DEF Outcomes
  <2>2. QED
    BY <2>1, SaidTell DEF Finish, ReturnError, yield_value
<1>11. ASSUME NEW f \in Coroutines, NEW g \in Frames
       PROVE  DropTask(f, g) \/ (\E t \in Tokens : bind(f, g, t)) => Said(x)'
  BY <1>2 DEF DropTask, bind, promises
<1>12. UNCHANGED vars => Said(x)'
  BY <1>2 DEF vars
<1>13. QED
  BY <1>3, <1>4, <1>5, <1>6, <1>7, <1>8, <1>9, <1>10, <1>11, <1>12, Zenon DEF Next, Coroutines
------------------------------------------------------------------------------
(* Calls and returns.                                                      *)

Whole == Inv /\ Histories /\ Nested /\ \A f \in Frames : Said(f)

LEMMA WholeInv == Whole /\ [Next]_vars => Whole'
<1> SUFFICES ASSUME Whole, [Next]_vars PROVE Whole'
  OBVIOUS
<1>1. Inv' /\ Histories' /\ Nested'
  BY NextInv, HistoriesInv, NestedInv DEF Whole
<1>2. \A f \in Frames : Said(f)'
  BY <1>1, SaidInv DEF Whole
<1>3. QED
  BY <1>1, <1>2 DEF Whole

LEMMA WholeInit == Init => Whole
<1> SUFFICES ASSUME Init PROVE Whole
  OBVIOUS
<1>1. Inv /\ Nested /\ Histories
  BY InitInv, NestedInit DEF Init, Histories
<1>2. \A f \in Frames : awaiter[f] = None /\ said[f] = None
  BY DEF Init
<1>3. None # "exception"
  BY TasksAssumption DEF Outcomes
<1>4. \A f \in Frames : Said(f)
  BY <1>2, <1>3 DEF Said, Awaits
<1>5. QED
  BY <1>1, <1>4 DEF Whole
------------------------------------------------------------------------------
(* The chains of spawned tasks.                                            *)

LEMMA ChainFacts ==
  ASSUME Types, Nested
  PROVE  Chains(chain) /\ \E b \in Nat : \A f \in Frames : Len(chain[f]) <= b
BY ChainUnique DEF Nested

LEMMA Unique == Types => \A ch : Chains(ch) => chain = ch
BY ChainUnique

LEMMA UniqueNext == Types' => \A ch : Chains(ch)' => chain' = ch
<1>1. (Types => \A ch : Chains(ch) => chain = ch)'
  BY Unique, PTL
<1>2. QED
  BY <1>1

(* Every call but the first is awaited by one in the chain; the one that   *)
(* awaits nothing is the last.                                             *)
LEMMA Preceded ==
  ASSUME Types, NEW ch, Chains(ch)
  PROVE  \A f \in Frames : \A x \in Members(ch[f]) :
           /\ x \in Frames /\ (awaiter[x] = None => x = End(ch[f]))
           /\ x = f \/ \E y \in Members(ch[f]) : y \in Frames /\ Awaits(y, x)
<1> DEFINE Good(f) == \A x \in Members(ch[f]) :
                        /\ x \in Frames /\ (awaiter[x] = None => x = End(ch[f]))
                        /\ x = f \/ \E y \in Members(ch[f]) : y \in Frames /\ Awaits(y, x)
           S == {f \in Frames : Good(f)}
<1>1. ASSUME NEW f \in Frames, \A g \in Frames : Awaits(f, g) => g \in S PROVE f \in S
  <2>1. CASE awaiter[f] = None
    <3>1. Members(ch[f]) = {f} /\ End(ch[f]) = f
      BY <2>1, ChainShape
    <3>2. QED
      BY <3>1
  <2>2. CASE awaiter[f] # None
    <3>1. PICK g \in Frames : Awaits(f, g)
      BY <2>2 DEF Types, Awaiters, Awaits
    <3>2. g \in S /\ Members(ch[f]) = {f} \cup Members(ch[g]) /\ End(ch[f]) = End(ch[g])
      BY <1>1, <3>1, Longer
    <3>3. ASSUME NEW x \in Members(ch[f])
          PROVE  /\ x \in Frames /\ (awaiter[x] = None => x = End(ch[f]))
                 /\ x = f \/ \E y \in Members(ch[f]) : y \in Frames /\ Awaits(y, x)
      <4>1. CASE x = f
        BY <2>2, <4>1
      <4>2. CASE x = g
        BY <3>1, <3>2, <3>3, <4>2
      <4>3. CASE x \in Members(ch[g]) /\ x # g
        BY <3>2, <4>3
      <4>4. QED
        BY <3>2, <3>3, <4>1, <4>2, <4>3
    <3>4. QED
      BY <3>3
  <2>3. QED
    BY <2>1, <2>2
<1> HIDE DEF S
<1>2. \A f \in Frames : f \in S
  BY <1>1, Downward
<1>3. QED
  BY <1>2 DEF S

(* The last call but one awaits the last.                                  *)
LEMMA LastButOne ==
  ASSUME Types, NEW ch, Chains(ch), NEW g \in Frames, awaiter[g] = None
  PROVE  \A f \in Frames : End(ch[f]) = g /\ f # g =>
           Len(ch[f]) > 1 /\ Awaits(ch[f][Len(ch[f]) - 1], g)
<1> DEFINE S == {f \in Frames : End(ch[f]) = g /\ f # g =>
                   Len(ch[f]) > 1 /\ Awaits(ch[f][Len(ch[f]) - 1], g)}
<1>1. ASSUME NEW f \in Frames, \A h \in Frames : Awaits(f, h) => h \in S PROVE f \in S
  <2> SUFFICES ASSUME End(ch[f]) = g, f # g
               PROVE  Len(ch[f]) > 1 /\ Awaits(ch[f][Len(ch[f]) - 1], g)
    OBVIOUS
  <2>1. awaiter[f] # None
    BY ChainShape
  <2>2. PICK h \in Frames : Awaits(f, h)
    BY <2>1 DEF Types, Awaiters, Awaits
  <2>3. h \in S /\ End(ch[h]) = g
    BY <1>1, <2>2, Longer
  <2>4. PICK s \in Seq(Frames) : s = ch[h] /\ s # << >> /\ Len(s) \in Nat \ {0}
    BY ChainShape
  <2>5. PICK t : t = ch[f]
    OBVIOUS
  <2>6. t = <<f>> \o s
    BY <2>2, <2>4, <2>5, Longer
  <2>7. Len(t) = Len(s) + 1 /\ t[1] = f /\ \A i \in 1..Len(s) : t[i + 1] = s[i]
    BY <2>4, <2>6, Cons
  <2>8. CASE h = g
    <3>1. Len(s) = 1
      BY <2>4, <2>8, ChainShape
    <3>2. Len(t) > 1 /\ t[Len(t) - 1] = f
      BY <2>7, <3>1
    <3>3. QED
      BY <2>2, <2>5, <2>8, <3>2
  <2>9. CASE h # g
    <3>1. Len(s) > 1 /\ Awaits(s[Len(s) - 1], g)
      BY <2>3, <2>4, <2>9
    <3>2. Len(t) > 1 /\ t[Len(t) - 1] = s[Len(s) - 1]
      <4>1. Len(s) - 1 \in 1..Len(s) /\ Len(t) - 1 = (Len(s) - 1) + 1 /\ Len(t) > 1
        BY <2>4, <2>7, <3>1
      <4>2. QED
        BY <2>7, <4>1
    <3>3. QED
      BY <2>5, <3>1, <3>2
  <2>10. QED
    BY <2>8, <2>9
<1> HIDE DEF S
<1>2. \A f \in Frames : f \in S
  BY <1>1, Downward
<1>3. QED
  BY <1>2 DEF S

(* Nobody awaits a starter.                                                *)
LEMMA StarterFirst ==
  ASSUME Inv, NEW r \in Starters
  PROVE  r \in Frames /\ Alive(r) /\ kind[r] = "starter" /\ awaiter[r] # None
         /\ st[r] = "waiting" /\ \A f \in Frames : ~Awaits(f, r)
BY DEF Starters, Live, Alive, Inv, FrameOK, AwaitOK, Answers

(* No call is in the chains of two spawned tasks.                          *)
LEMMA OneRoot ==
  ASSUME Inv, NEW ch, NEW b \in Nat, Chains(ch), \A f \in Frames : Len(ch[f]) <= b
  PROVE  \A x \in Frames : \A r, s \in Starters :
           x \in Members(ch[r]) /\ x \in Members(ch[s]) => r = s
<1> DEFINE S == {x \in Frames : \A r, s \in Starters :
                   x \in Members(ch[r]) /\ x \in Members(ch[s]) => r = s}
<1>1. Types
  BY DEF Inv
<1>2. ASSUME NEW x \in Frames, \A f \in Frames : Awaits(f, x) => f \in S,
             NEW r \in Starters, NEW s \in Starters, x \in Members(ch[r]), x \in Members(ch[s])
      PROVE  r = s
  <2>1. /\ x = r \/ \E y \in Members(ch[r]) : y \in Frames /\ Awaits(y, x)
        /\ x = s \/ \E y \in Members(ch[s]) : y \in Frames /\ Awaits(y, x)
    BY <1>1, <1>2, StarterFirst, Preceded
  <2>2. CASE x = r \/ x = s
    BY <2>1, <2>2, StarterFirst
  <2>3. CASE x # r /\ x # s
    <3>1. PICK y \in Members(ch[r]) : y \in Frames /\ Awaits(y, x)
      BY <2>1, <2>3
    <3>2. PICK z \in Members(ch[s]) : z \in Frames /\ Awaits(z, x)
      BY <2>1, <2>3
    <3>3. y = z
      BY <3>1, <3>2 DEF Inv, AwaitOK, Answers
    <3>4. y \in S
      BY <1>2, <3>1
    <3>5. QED
      BY <3>3, <3>4
  <2>4. QED
    BY <2>2, <2>3
<1>3. ASSUME NEW x \in Frames, \A f \in Frames : Awaits(f, x) => f \in S PROVE x \in S
  BY <1>2, <1>3
<1> HIDE DEF S
<1>4. \A x \in Frames : x \in S
  BY <1>1, <1>3, Upward
<1>5. QED
  BY <1>4 DEF S
------------------------------------------------------------------------------
(* Tasks implements CallStacks.                                            *)

Over(f) == st[f] \in {"returned", "final", "destroyed"}

(* What the detailed state says of the stacks: the top of the stack of     *)
(* spawned task r is the frame that ends its chain.                        *)
LEMMA Stacks ==
  ASSUME Whole
  PROVE  /\ Types /\ Inv /\ Histories /\ Chains(chain) /\ Starters \subseteq Frames
         /\ \A r \in Frames : stack[r] = IF r \in Starters THEN chain[r] ELSE << >>
         /\ stack = [r \in Frames |-> stack[r]]
         /\ \A x : x \in over <=> x \in Frames /\ Over(x)
         /\ \A x : x \in Abstract!Busy(stack) <=> \E r \in Starters : x \in Members(chain[r])
<1>1. Types /\ Inv /\ Histories /\ Chains(chain) /\ Starters \subseteq Frames
  BY ChainFacts DEF Whole, Inv, Starters, Live
<1>2. /\ \A r \in Frames : stack[r] = IF r \in Starters THEN chain[r] ELSE << >>
      /\ stack = [r \in Frames |-> stack[r]] /\ DOMAIN stack = Frames
  BY DEF stack
<1>3. \A x : x \in over <=> x \in Frames /\ Over(x)
  BY DEF over, Over
<1>4. ASSUME NEW x PROVE x \in Abstract!Busy(stack) <=> \E r \in Starters : x \in Members(chain[r])
  <2>1. x \in Abstract!Busy(stack) <=> \E r \in Frames : x \in Members(stack[r])
    BY <1>2 DEF Abstract!Busy, Members
  <2>2. \A r \in Frames \ Starters : Members(stack[r]) = {}
    <3>1. Members(<< >>) = {}
      BY DEF Members
    <3>2. QED
      BY <1>2, <3>1
  <2>3. QED
    BY <1>1, <1>2, <2>1, <2>2
<1>5. QED
  BY <1>1, <1>2, <1>3, <1>4

(* A loose frame is in no stack, nor is one that does not exist.           *)
LEMMA Outside ==
  ASSUME Whole, NEW g \in Frames, Loose(g) \/ ~Alive(g)
  PROVE  g \notin Abstract!Busy(stack)
<1>1. g \notin Starters /\ \A f \in Frames : ~Awaits(f, g)
  BY Stacks DEF Starters, Live, Alive, Loose, Inv, AwaitOK, Answers, Busy, Told
<1>2. ASSUME NEW r \in Starters PROVE g \notin Members(chain[r])
  BY <1>1, Stacks, Preceded
<1>3. QED
  BY <1>2, Stacks

(* A call in a stack that will not run has just spoken.                    *)
LEMMA OverSaid ==
  Whole => over \cap Abstract!Busy(stack) \subseteq {x \in Frames : said[x] # None}
<1> SUFFICES ASSUME Whole, NEW x \in over, x \in Abstract!Busy(stack)
             PROVE  x \in Frames /\ said[x] # None
  OBVIOUS
<1>1. x \in Frames /\ Over(x)
  BY Stacks
<1>2. PICK r \in Starters : x \in Members(chain[r])
  BY Stacks
<1>3. x # r
  BY <1>1, Stacks, StarterFirst DEF Over
<1>4. PICK y \in Frames : Awaits(y, x)
  BY <1>2, <1>3, Stacks, Preceded
<1>5. current = y
  BY <1>1, <1>4, Stacks DEF Inv, AwaitOK, Answers, Busy, Over
<1>6. QED
  BY <1>1, <1>4, <1>5 DEF Whole, Said

(* The chain in which a frame runs, or gets what was said to it.           *)
LEMMA InStack ==
  ASSUME Whole, NEW f \in Frames, Busy(f), kind[f] # "starter"
  PROVE  \E r \in Starters : /\ r \in Frames /\ r # f /\ f \in Members(chain[r])
                             /\ Len(chain[r]) > 1
                             /\ awaiter[f] = None => End(chain[r]) = f
                             /\ \A g \in Frames : Awaits(f, g) /\ awaiter[g] = None
                                                    => End(chain[r]) = g
<1>1. PICK r \in Starters : f \in Members(chain[r])
  BY Stacks, ChainFacts, Rooted DEF Whole
<1>2. r \in Frames /\ r # f /\ awaiter[r] # None
  BY Stacks, StarterFirst
<1>3. Len(chain[r]) > 1
  <2>1. PICK g \in Frames : Awaits(r, g)
    BY <1>2, Stacks DEF Types, Awaiters, Awaits
  <2>2. Types /\ Chains(chain)
    BY Stacks
  <2>3. Len(chain[r]) = Len(chain[g]) + 1
    BY <1>2, <2>1, <2>2, Longer
  <2>4. Len(chain[g]) \in Nat \ {0}
    BY <2>2, ChainShape
  <2>5. QED
    BY <2>3, <2>4
<1>4. awaiter[f] = None => End(chain[r]) = f
  BY <1>1, <1>2, Stacks, Preceded
<1>5. ASSUME NEW g \in Frames, Awaits(f, g), awaiter[g] = None PROVE End(chain[r]) = g
  <2>1. g \in Members(chain[r])
    BY <1>1, <1>2, <1>5, Stacks, ChainClosed
  <2>2. QED
    BY <1>2, <1>5, <2>1, Stacks, Preceded
<1>6. QED
  BY <1>1, <1>2, <1>3, <1>4, <1>5

(* One chain only ends in a given frame.                                   *)
LEMMA OneEnd ==
  ASSUME Whole, NEW r \in Starters, NEW s \in Starters, End(chain[r]) = End(chain[s])
  PROVE  r = s
<1>1. \A x \in Starters : End(chain[x]) \in Members(chain[x]) /\ End(chain[x]) \in Frames
  <2>1. ASSUME NEW x \in Starters PROVE End(chain[x]) \in Members(chain[x])
    <3>1. Len(chain[x]) \in 1..Len(chain[x])
      BY Stacks, ChainShape
    <3>2. QED
      BY <3>1 DEF End, Members
  <2>2. QED
    BY <2>1, Stacks, Ends
<1>2. QED
  BY <1>1, Stacks, ChainFacts, OneRoot DEF Whole

(* What the steps do to the stacks.                                        *)
LEMMA ChainSame ==
  ASSUME Whole, Types', \A x \in Frames : SameCall(x) PROVE chain' = chain
<1>1. PICK c : c = chain /\ Chains(c)
  BY Stacks
<1>2. Chains(c)'
  BY <1>1, Stacks, SameChains
<1>3. QED
  BY <1>1, <1>2, UniqueNext

LEMMA ChainLink ==
  ASSUME Whole, Types', NEW f \in Frames, NEW g \in Frames, Links(f, g)
  PROVE  \A x \in Frames : chain'[x] = IF End(chain[x]) = f THEN Append(chain[x], g) ELSE chain[x]
<1>1. PICK c : c = chain /\ Chains(c)
  BY Stacks
<1>2. PICK d : d = Linked(c, f, g)
  OBVIOUS
<1>3. Chains(Linked(c, f, g))'
  BY <1>1, Stacks, Link DEF Links
<1>4. chain' = d
  BY <1>2, <1>3, UniqueNext
<1>5. QED
  BY <1>1, <1>2, <1>4 DEF Linked

LEMMA ChainUnlink ==
  ASSUME Whole, Types', NEW f \in Frames, NEW g \in Frames, Unlinks(f, g)
  PROVE  \A x \in Frames : chain'[x] = IF x # g /\ End(chain[x]) = g THEN Front(chain[x])
                                       ELSE chain[x]
<1>1. PICK c : c = chain /\ Chains(c)
  BY Stacks
<1>2. PICK d : d = Unlinked(c, g)
  OBVIOUS
<1>3. Chains(Unlinked(c, g))'
  BY <1>1, Stacks, Unlink DEF Unlinks
<1>4. chain' = d
  BY <1>2, <1>3, UniqueNext
<1>5. QED
  BY <1>1, <1>2, <1>4 DEF Unlinked

LEMMA StarterIs ==
  /\ \A x : x \in Starters <=> x \in Frames /\ Alive(x) /\ kind[x] = "starter"
  /\ \A x : x \in Starters' <=> x \in Frames /\ Alive(x)' /\ kind'[x] = "starter"
BY DEF Starters, Live, Alive

LEMMA StackSame ==
  ASSUME Whole, Types', \A x \in Frames : SameCall(x), Starters' = Starters PROVE stack' = stack
BY ChainSame DEF stack

LEMMA StackMoves ==
  ASSUME Whole, NEW r \in Frames, NEW s,
         stack'[r] = s, \A x \in Frames \ {r} : stack'[x] = stack[x]
  PROVE  stack' = [stack EXCEPT ![r] = s]
<1>1. /\ stack = [x \in Frames |-> stack[x]]
      /\ stack' = [x \in Frames |-> stack'[x]]
  BY DEF stack
<1>2. QED
  BY <1>1

(* No starter is destroyed with another frame.                             *)
LEMMA NoStarter ==
  ASSUME Inv, NEW S \in SUBSET Frames
  PROVE  \A x \in OwnedWith(S) : x \in S \/ kind[x] # "starter"
<1> DEFINE T == {x \in Frames : x \in S \/ kind[x] # "starter"}
<1>1. \A f \in Frames : Owned(f) \subseteq Frames /\ \A y \in Owned(f) : Owns(f, y)
  BY OwnedIs DEF Inv
<1>2. \A f \in Frames : \A y \in Owned(f) : kind[y] # "starter"
  BY <1>1, Owner, Basics
<1>3. S \subseteq T /\ T \in SUBSET Frames /\ \A f \in T : Owned(f) \subseteq T
  BY <1>1, <1>2
<1>4. \A Z \in SUBSET Frames :
        S \subseteq Z /\ (\A f \in Z : Owned(f) \subseteq Z) => OwnedWith(S) \subseteq Z
  BY <1>1, Closure
<1> HIDE DEF T
<1>5. OwnedWith(S) \subseteq T
  BY <1>3, <1>4
<1>6. QED
  BY <1>5 DEF T

LEMMA DestroySt ==
  ASSUME NEW S, NEW f, NEW kept, Destroy(S, f, kept)
  PROVE  \A x \in Frames : st'[x] = IF x \in OwnedWith(S) THEN "destroyed" ELSE kept[x]
BY DEF Destroy

(* What does not run again never runs again.                               *)
LEMMA OverGrows == Inv /\ [Next]_vars => over \subseteq over'
<1> SUFFICES ASSUME Inv, [Next]_vars, NEW x \in Frames, Over(x) PROVE Over(x)'
  BY DEF over, Over
<1>1. Types /\ ~Busy(x) /\ st[x] \notin {"none", "suspended", "yielded"}
  BY DEF Inv, Over, Busy
<1>2. ASSUME st'[x] = st[x] PROVE Over(x)'
  BY <1>2 DEF Over
<1>3. ASSUME NEW S, NEW f, NEW kept, Destroy(S, f, kept), kept[x] = st[x] PROVE Over(x)'
  BY <1>3, DestroySt DEF Over
<1>4. ASSUME NEW f \in Coroutines, NEW k \in {"task", "gen"}, Create(f, k) PROVE Over(x)'
  <2>1. PICK n \in Frames : n = New /\ st[n] = "none"
    BY <1>4, NewFrame DEF Create
  <2>2. st' = [st EXCEPT ![n] = "suspended"]
    BY <1>4, <2>1 DEF Create
  <2>3. QED
    BY <1>1, <1>2, <2>1, <2>2 DEF Types
<1>5. ASSUME NEW f \in Coroutines, NEW g \in Frames, co_spawn(f, g) PROVE Over(x)'
  <2>1. PICK n \in Frames : n = New /\ st[n] = "none"
    BY <1>5, NewFrame DEF co_spawn
  <2>2. st' = [st EXCEPT ![n] = "waiting", ![g] = "running"] /\ st[g] = "suspended"
    BY <1>5, <2>1 DEF co_spawn
  <2>3. QED
    BY <1>1, <1>2, <2>1, <2>2 DEF Types
<1>6. ASSUME NEW f \in Frames, NEW g \in Frames, NEW owned \in BOOLEAN, AwaitTask(f, g, owned)
      PROVE  Over(x)'
  <2>1. st' = [st EXCEPT ![f] = "waiting", ![g] = "running"] /\ st[g] \in {"suspended", "yielded"}
    BY <1>6 DEF AwaitTask
  <2>2. st[f] = "running"
    BY <1>6, RunFacts DEF AwaitTask
  <2>3. QED
    BY <1>1, <1>2, <2>1, <2>2 DEF Types, Busy
<1>7. ASSUME NEW f \in Frames PROVE await_resume(f) \/ StarterEnds(f) => Over(x)'
  <2>1. StarterEnds(f) => Over(x)'
    BY <1>3 DEF StarterEnds
  <2>2. ASSUME await_resume(f) PROVE Over(x)'
    <3>1. /\ current = f /\ awaiter[f] # None /\ awaiter' = [awaiter EXCEPT ![f] = None]
          /\ Destroy(Freed({f}), f, [st EXCEPT ![f] = "running"])
      BY <2>2 DEF await_resume
    <3>2. st[f] = "waiting"
      BY <3>1, ReturnUnlinks
    <3>3. PICK k : k = [st EXCEPT ![f] = "running"]
      OBVIOUS
    <3>4. k[x] = st[x]
      BY <1>1, <3>2, <3>3 DEF Types, Busy
    <3>5. QED
      BY <1>3, <3>1, <3>3, <3>4
  <2>3. QED
    BY <2>1, <2>2
<1>8. ASSUME NEW f \in Frames, Running(f) PROVE x # f
  BY <1>1, <1>8, RunFacts DEF Busy
<1>9. ASSUME NEW f \in Frames
      PROVE  \A o \in {"value", "exception"} : Finish(f, o) => Over(x)'
  <2> SUFFICES ASSUME NEW o \in {"value", "exception"}, Finish(f, o) PROVE Over(x)'
    OBVIOUS
  <2>1. PICK k : k = [st EXCEPT ![f] = "final"]
    OBVIOUS
  <2>2. Destroy(tasks[f], f, k) /\ Running(f)
    BY <2>1 DEF Finish
  <2>3. k[x] = st[x]
    BY <1>1, <1>8, <2>1, <2>2 DEF Types
  <2>4. QED
    BY <1>3, <2>2, <2>3
<1>10. ASSUME NEW f \in Frames PROVE ReturnError(f) \/ yield_value(f) \/ Suspend(f) => Over(x)'
  <2> SUFFICES ASSUME ReturnError(f) \/ yield_value(f) \/ Suspend(f) PROVE Over(x)'
    OBVIOUS
  <2>1. Running(f)
    BY DEF ReturnError, yield_value, Suspend
  <2>2. PICK s \in {"returned", "yielded", "waiting"} : st' = [st EXCEPT ![f] = s]
    BY DEF ReturnError, ValueOrReturnAwaiter, yield_value, Suspend
  <2>3. QED
    BY <1>1, <1>2, <1>8, <2>1, <2>2 DEF Types
<1>11. ASSUME NEW f \in Frames, Resume(f) PROVE Over(x)'
  <2>1. st' = [st EXCEPT ![f] = "running"] /\ st[f] = "waiting"
    BY <1>11 DEF Resume, Inv, FrameOK
  <2>2. QED
    BY <1>1, <1>2, <2>1 DEF Types, Busy
<1>12. ASSUME NEW f \in Coroutines, NEW g \in Frames
       PROVE  DropTask(f, g) \/ (\E t \in Tokens : bind(f, g, t)) => Over(x)'
  BY <1>2, <1>3 DEF DropTask, bind
<1>13. UNCHANGED vars => Over(x)'
  BY <1>2 DEF vars
<1>14. QED
  BY <1>4, <1>5, <1>6, <1>7, <1>9, <1>10, <1>11, <1>12, <1>13, Zenon DEF Next, Coroutines

(* What is given up is in no stack, or has spoken.                         *)
LEMMA GivesUp ==
  ASSUME Whole, Whole', [Next]_vars PROVE Abstract!GiveUp
<1>1. over \subseteq over'
  BY Stacks, OverGrows
<1>2. (Whole => over \cap Abstract!Busy(stack) \subseteq {x \in Frames : said[x] # None})'
  BY OverSaid, PTL
<1>3. over' \cap Abstract!Busy(stack') \subseteq {x \in Frames : said'[x] # None}
  BY <1>2 DEF Abstract!Busy
<1>4. QED
  BY <1>1, <1>3 DEF Abstract!GiveUp

(* Making, dropping, binding and parking a coroutine.                      *)
LEMMA Drops ==
  ASSUME Whole, Whole', [Next]_vars, UNCHANGED <<said, got>>, Starters' = Starters,
         \A x \in Frames : SameCall(x)
  PROVE  Abstract!Drop
<1>1. Types'
  BY DEF Whole, Inv
<1>2. stack' = stack
  BY <1>1, StackSame
<1>3. QED
  BY <1>2, GivesUp DEF Abstract!Drop

(* co_await of a task.                                                     *)
LEMMA AwaitIsCall ==
  ASSUME Whole, Whole', NEW f \in Frames, NEW g \in Frames, NEW owned \in BOOLEAN,
         AwaitTask(f, g, owned)
  PROVE  \E r \in Frames : r # g /\ Abstract!Call(r, g)
<1>1. Inv /\ Types /\ Types' /\ Links(f, g) /\ Loose(g)
  BY AwaitLinks DEF Whole, Inv
<1>2. /\ Running(f) /\ st[g] \in {"suspended", "yielded"} /\ kind' = kind /\ UNCHANGED <<said, got>>
      /\ st' = [st EXCEPT ![f] = "waiting", ![g] = "running"]
  BY DEF AwaitTask
<1>3. /\ current = f /\ awaiter[f] = None /\ st[f] = "running" /\ kind[f] # "starter" /\ f # g
      /\ kind[g] # "starter" /\ Busy(f)
  BY <1>1, <1>2, RunFacts DEF Links, Loose, Busy
<1>4. PICK r \in Starters : r \in Frames /\ Len(chain[r]) > 1 /\ End(chain[r]) = f
  BY <1>3, InStack
<1>5. r # g
  BY <1>3, <1>4, StarterIs
<1>6. said[f] = None
  BY <1>3 DEF Whole, Said, Awaits
<1>7. g \notin Abstract!Busy(stack) /\ g \notin over
  <2>1. g \notin over
    BY <1>2, Stacks DEF Over
  <2>2. QED
    BY <1>1, <2>1, Outside
<1>8. Starters' = Starters
  <2>1. \A x \in Frames : Alive(x)' <=> Alive(x)
    BY <1>1, <1>2, <1>3 DEF Types, Alive
  <2>2. QED
    BY <1>2, <2>1, StarterIs
<1>9. over' = over
  BY <1>1, <1>2, <1>3 DEF Types, over
<1>10. stack' = [stack EXCEPT ![r] = Append(@, g)]
  <2>1. /\ stack[r] = chain[r] /\ stack'[r] = chain'[r]
        /\ \A x \in Frames : stack'[x] = IF x \in Starters THEN chain'[x] ELSE << >>
    BY <1>4, <1>8 DEF stack
  <2>2. chain'[r] = Append(chain[r], g)
    BY <1>1, <1>4, ChainLink
  <2>3. ASSUME NEW x \in Frames \ {r} PROVE stack'[x] = stack[x]
    <3>1. x \in Starters => End(chain[x]) # f
      BY <1>4, <2>3, OneEnd
    <3>2. x \in Starters => chain'[x] = chain[x]
      BY <1>1, <3>1, ChainLink
    <3>3. QED
      BY <2>1, <3>2 DEF stack
  <2>4. QED
    BY <1>4, <2>1, <2>2, <2>3, StackMoves
<1>11. Len(stack[r]) > 1 /\ Abstract!Last(stack[r]) = f
  BY <1>4, Stacks DEF Abstract!Last, End
<1>12. Abstract!Call(r, g)
  BY <1>2, <1>6, <1>7, <1>9, <1>10, <1>11 DEF Abstract!Call
<1>13. QED
  BY <1>4, <1>5, <1>12

(* A result, an exception, an error or a yielded value.                    *)
LEMMA Saying ==
  ASSUME Whole, Whole', [Next]_vars, NEW f \in Frames, Running(f), NEW o \in Outcomes, Tell(f, o),
         Over(f)' <=> o # "yield",
         \A x \in Frames : kind[x] = "starter" => (Alive(x)' <=> Alive(x))
  PROVE  \E r \in Frames : Abstract!Say(r)
<1>1. Inv /\ Types /\ Types' /\ Histories
  BY DEF Whole, Inv
<1>2. /\ current = f /\ awaiter[f] = None /\ st[f] = "running" /\ kind[f] # "starter" /\ Busy(f)
  BY <1>1, RunFacts DEF Busy
<1>3. PICK r \in Starters : r \in Frames /\ Len(chain[r]) > 1 /\ End(chain[r]) = f
  BY <1>2, InStack
<1>4. said[f] = None
  BY <1>2 DEF Whole, Said, Awaits
<1>5. kind' = kind /\ \A x \in Frames : SameCall(x)
  BY <1>1, TellFacts DEF SameCall
<1>6. Starters' = Starters
  BY <1>5, StarterIs
<1>7. stack' = stack
  BY <1>1, <1>5, <1>6, StackSame
<1>8. said' = [said EXCEPT ![f] = o] /\ got' = got
  BY DEF Tell
<1>9. f \in over' <=> o # "yield"
  BY DEF over, Over
<1>10. Len(stack[r]) > 1 /\ Abstract!Last(stack[r]) = f
  BY <1>3, Stacks DEF Abstract!Last, End
<1>11. o \in Abstract!Outcomes
  BY DEF Outcomes, Abstract!Outcomes
<1>12. (f \in over') = (o # "yield")
  BY <1>9
<1>13. Abstract!Say(r)
  BY <1>4, <1>7, <1>8, <1>10, <1>11, <1>12, GivesUp DEF Abstract!Say
<1>14. QED
  BY <1>3, <1>13

(* await_resume gets what was said, unless a generator threw.              *)
LEMMA ResumeIsReturn ==
  ASSUME Whole, Whole', [Next]_vars, ~GenThrows, NEW f \in Frames, await_resume(f)
  PROVE  \E r \in Frames : Abstract!Return(r)
<1>1. Inv /\ Types /\ Types' /\ Histories
  BY DEF Whole, Inv
<1>2. /\ current = f /\ awaiter[f] # None /\ kind[f] # "starter" /\ kind' = kind
      /\ awaiter' = [awaiter EXCEPT ![f] = None]
      /\ Destroy(Freed({f}), f, [st EXCEPT ![f] = "running"])
  BY DEF await_resume, promises
<1>3. PICK g \in Frames : Unlinks(f, g) /\ Told(g) /\ kind[g] \in {"task", "gen"} /\ st[f] = "waiting"
  BY <1>1, <1>2, ReturnUnlinks
<1>4. /\ Awaits(f, g) /\ f # g /\ awaiter[g] = None /\ awaiter[f].mCallee = g
      /\ \A x \in Frames : Awaits(x, g) => x = f
  BY <1>3 DEF Unlinks, Awaits
<1>5. PICK r \in Starters : r \in Frames /\ r # f /\ Len(chain[r]) > 1 /\ End(chain[r]) = g
  BY <1>2, <1>3, <1>4, InStack DEF Busy
<1>6. r # g
  BY <1>3, <1>5, StarterIs
<1>7. PICK s \in Seq(Frames) : s = chain[r] /\ s # << >>
  BY <1>5, Stacks, ChainShape
<1>8. Len(s) > 2 /\ s[Len(s) - 1] = f /\ End(s) = g
  <2>1. Types /\ Chains(chain)
    BY Stacks
  <2>2. Len(chain[r]) > 1 /\ Awaits(chain[r][Len(chain[r]) - 1], g)
    BY <1>4, <1>5, <1>6, <2>1, LastButOne
  <2>3. chain[r][1] = r
    BY <1>5, <2>1, ChainShape
  <2>4. Len(s) \in Nat /\ Len(s) > 1 /\ s[1] = r /\ Awaits(s[Len(s) - 1], g)
    BY <1>7, <2>2, <2>3
  <2>5. s[Len(s) - 1] \in Frames
    BY <1>7, <2>4
  <2>6. s[Len(s) - 1] = f
    BY <1>4, <2>4, <2>5
  <2>7. ASSUME Len(s) = 2 PROVE FALSE
    <3>1. Len(s) - 1 = 1
      BY <2>7
    <3>2. s[1] = f
      BY <2>6, <3>1
    <3>3. QED
      BY <1>5, <2>4, <3>2
  <2>8. QED
    BY <1>5, <1>7, <2>4, <2>6, <2>7
<1>9. said[g] # None /\ said[g] = awaiter[f].mResult /\ (kind[g] = "task" \/ said[g] # "exception")
  BY <1>2, <1>4 DEF Whole, Said
<1>10. Taken(awaiter[f]) = said[g]
  BY <1>4, <1>9 DEF Taken, move
<1>11. got' = [got EXCEPT ![f] = said[g]] /\ said' = [said EXCEPT ![g] = None]
  BY <1>4, <1>10 DEF await_resume
<1>12. Starters' = Starters
  <2>1. Freed({f}) \subseteq {g}
    BY <1>4 DEF Freed
  <2>2. \A x \in OwnedWith(Freed({f})) : kind[x] # "starter"
    BY <1>1, <1>3, <2>1, NoStarter
  <2>3. PICK k : k = [st EXCEPT ![f] = "running"]
    OBVIOUS
  <2>4. Destroy(Freed({f}), f, k)
    BY <1>2, <2>3
  <2>5. \A x \in Frames : st'[x] = IF x \in OwnedWith(Freed({f})) THEN "destroyed" ELSE k[x]
    BY <2>4, DestroySt
  <2>6. \A x \in Frames \ {f} : k[x] = st[x]
    BY <1>1, <2>3 DEF Types
  <2>7. \A x \in Frames : kind[x] = "starter" => st'[x] = st[x]
    BY <1>2, <2>2, <2>5, <2>6
  <2>8. QED
    BY <1>2, <2>7, StarterIs DEF Alive
<1>13. stack' = [stack EXCEPT ![r] = Front(s)]
  <2>1. /\ stack[r] = chain[r] /\ stack'[r] = chain'[r]
        /\ \A x \in Frames : stack'[x] = IF x \in Starters THEN chain'[x] ELSE << >>
    BY <1>5, <1>12 DEF stack
  <2>2. chain'[r] = Front(s)
    BY <1>1, <1>3, <1>5, <1>6, <1>7, ChainUnlink
  <2>3. ASSUME NEW x \in Frames \ {r} PROVE stack'[x] = stack[x]
    <3>1. x \in Starters => End(chain[x]) # g
      BY <1>5, <2>3, OneEnd
    <3>2. x \in Starters => chain'[x] = chain[x]
      BY <1>1, <1>3, <3>1, ChainUnlink
    <3>3. QED
      BY <2>1, <3>2 DEF stack
  <2>4. QED
    BY <1>5, <2>1, <2>2, <2>3, StackMoves
<1>14. stack[r] = s /\ Abstract!Last(s) = g /\ SubSeq(s, 1, Len(s) - 1) = Front(s)
  BY <1>5, <1>7, <1>8, Stacks DEF Abstract!Last, End, Front
<1>15. Abstract!Last(Front(s)) = f
  <2>1. Len(Front(s)) = Len(s) - 1 /\ \A i \in 1..(Len(s) - 1) : Front(s)[i] = s[i]
    BY <1>7, FrontShape
  <2>2. Len(s) - 1 \in 1..(Len(s) - 1)
    BY <1>7, <1>8
  <2>3. QED
    BY <1>8, <2>1, <2>2 DEF Abstract!Last
<1>16. Abstract!Return(r)
  BY <1>8, <1>9, <1>11, <1>13, <1>14, <1>15, GivesUp DEF Abstract!Return
<1>17. QED
  BY <1>5, <1>16

(* The starter gets the result of the spawned task and ignores it.         *)
LEMMA StarterEndsIsEnd ==
  ASSUME Whole, Whole', [Next]_vars, NEW f \in Frames, StarterEnds(f) PROVE Abstract!End(f)
<1>1. Inv /\ Types /\ Types' /\ Histories
  BY DEF Whole, Inv
<1>2. /\ current = f /\ kind[f] = "starter" /\ kind' = kind /\ got' = got
      /\ awaiter' = [awaiter EXCEPT ![f] = None] /\ Destroy({f}, f, st)
  BY DEF StarterEnds, promises
<1>3. awaiter[f] # None
  BY <1>1, <1>2, Basics DEF Inv, Control, Executes
<1>4. PICK g \in Frames : Unlinks(f, g) /\ kind[g] \in {"task", "gen"}
  BY <1>1, <1>2, <1>3, ReturnUnlinks
<1>5. Awaits(f, g) /\ awaiter[g] = None /\ awaiter[f].mCallee = g
  BY <1>4 DEF Unlinks, Awaits
<1>6. f \in Starters
  BY <1>1, <1>2, <1>3, StarterIs DEF Inv, FrameOK
<1>7. Len(chain[f]) = 2 /\ End(chain[f]) = g
  <2>1. Types /\ Chains(chain)
    BY Stacks
  <2>2. Len(chain[f]) = Len(chain[g]) + 1 /\ End(chain[f]) = End(chain[g])
    BY <1>5, <2>1, Longer
  <2>3. Len(chain[g]) = 1 /\ End(chain[g]) = g
    BY <1>5, <2>1, ChainShape
  <2>4. QED
    BY <2>2, <2>3
<1>8. said[g] # None
  BY <1>2, <1>5 DEF Whole, Said
<1>9. said' = [said EXCEPT ![g] = None]
  BY <1>5 DEF StarterEnds
<1>10. /\ f \in OwnedWith({f})
       /\ \A x \in OwnedWith({f}) : x = f \/ kind[x] # "starter"
  <2>1. \A x \in Frames : Owned(x) \subseteq Frames
    BY <1>1, OwnedIs
  <2>2. {f} \subseteq OwnedWith({f})
    BY <2>1, Closure
  <2>3. QED
    BY <1>1, <2>2, NoStarter
<1>11. \A x \in Frames : st'[x] = IF x \in OwnedWith({f}) THEN "destroyed" ELSE st[x]
  BY <1>2, DestroySt
<1>12. st'[f] = "destroyed" /\ \A x \in Frames \ {f} : kind[x] = "starter" => st'[x] = st[x]
  BY <1>10, <1>11
<1>13. Starters' = Starters \ {f}
  BY <1>2, <1>12, StarterIs DEF Alive
<1>14. f \in over'
  BY <1>12 DEF over
<1>15. stack' = [stack EXCEPT ![f] = << >>]
  <2>1. \A x \in Frames : stack'[x] = IF x \in Starters /\ x # f THEN chain'[x] ELSE << >>
    BY <1>13 DEF stack
  <2>2. ASSUME NEW x \in Frames \ {f} PROVE stack'[x] = stack[x]
    <3>1. x \in Starters => End(chain[x]) # g
      BY <1>6, <1>7, <2>2, OneEnd
    <3>2. x \in Starters => chain'[x] = chain[x]
      BY <1>1, <1>4, <3>1, ChainUnlink
    <3>3. QED
      BY <2>1, <2>2, <3>2 DEF stack
  <2>3. QED
    BY <2>1, <2>2, StackMoves
<1>16. Len(stack[f]) = 2 /\ Abstract!Last(stack[f]) = g
  BY <1>6, <1>7, Stacks DEF Abstract!Last, End
<1>17. QED
  BY <1>2, <1>8, <1>9, <1>14, <1>15, <1>16, GivesUp DEF Abstract!End

LEMMA Two == ASSUME NEW f \in Frames, NEW g \in Frames PROVE Append(<<f>>, g) = <<f, g>>
<1>1. <<f, g>> \in Seq(Frames) /\ Len(<<f, g>>) = 2 /\ <<f, g>>[1] = f /\ <<f, g>>[2] = g
  OBVIOUS
<1>2. PICK a \in Seq(Frames) : a = <<f>> /\ Len(a) = 1 /\ a[1] = f
  BY One
<1>3. PICK b \in Seq(Frames) : b = <<f, g>> /\ Len(b) = 2 /\ b[1] = f /\ b[2] = g
  BY <1>1
<1>4. PICK c : c = Append(a, g)
  OBVIOUS
<1>5. c \in Seq(Frames) /\ Len(c) = 2 /\ c[1] = f /\ c[2] = g
  BY <1>2, <1>4, AppendProperties
<1>6. \A i \in 1..Len(b) : i = 1 \/ i = 2
  BY <1>3
<1>7. \A i \in 1..Len(b) : c[i] = b[i]
  BY <1>3, <1>5, <1>6
<1>8. c = b
  BY <1>3, <1>5, <1>7, SeqEqual
<1>9. QED
  BY <1>2, <1>3, <1>4, <1>8

(* co_spawn: a new stack.                                                  *)
LEMMA SpawnIsSpawn ==
  ASSUME Whole, Whole', NEW f \in Coroutines, NEW g \in Frames, co_spawn(f, g)
  PROVE  \E r \in Frames : r # g /\ Abstract!Spawn(r, g)
<1>1. Inv /\ Types /\ Types' /\ Histories
  BY DEF Whole, Inv
<1>2. PICK n \in Frames : n = New /\ st[n] = "none"
  BY NewFrame DEF co_spawn
<1>3. Links(n, g) /\ Loose(g) /\ ~Alive(n) /\ kind' = [kind EXCEPT ![n] = "starter"]
  BY <1>1, <1>2, SpawnLinks
<1>4. /\ st' = [st EXCEPT ![n] = "waiting", ![g] = "running"] /\ st[g] = "suspended"
      /\ UNCHANGED <<said, got>>
  BY <1>2 DEF co_spawn
<1>5. n # g /\ awaiter[n] = None /\ n \notin Starters /\ g \notin Starters
  BY <1>3, StarterIs DEF Links, Loose
<1>6. n \notin Abstract!Busy(stack) /\ g \notin Abstract!Busy(stack)
  BY <1>3, Outside
<1>7. n \notin over /\ g \notin over
  BY <1>2, <1>4, Stacks DEF Over
<1>8. over' = over
  BY <1>1, <1>2, <1>4 DEF Types, over
<1>9. \A x \in Frames : /\ x # n => kind'[x] = kind[x] /\ (Alive(x)' <=> Alive(x))
                        /\ x = n => kind'[x] = "starter" /\ Alive(x)'
  BY <1>1, <1>2, <1>3, <1>4, <1>5 DEF Types, Alive
<1>10. Starters' = Starters \cup {n}
  BY <1>9, StarterIs
<1>11. stack[n] = << >>
  BY <1>5, Stacks
<1>12. stack' = [stack EXCEPT ![n] = <<n, g>>]
  <2>1. \A x \in Frames : stack'[x] = IF x \in Starters \/ x = n THEN chain'[x] ELSE << >>
    BY <1>10 DEF stack
  <2>2. chain'[n] = <<n, g>>
    <3>1. chain[n] = <<n>> /\ End(chain[n]) = n
      BY <1>5, Stacks, ChainShape
    <3>2. chain'[n] = Append(<<n>>, g)
      BY <1>1, <1>3, <3>1, ChainLink
    <3>3. Append(<<n>>, g) = <<n, g>>
      BY Two
    <3>4. QED
      BY <3>2, <3>3
  <2>3. ASSUME NEW x \in Frames \ {n} PROVE stack'[x] = stack[x]
    <3>1. ASSUME x \in Starters PROVE End(chain[x]) # n
      <4>1. Len(chain[x]) \in 1..Len(chain[x])
        BY Stacks, ChainShape
      <4>2. End(chain[x]) \in Members(chain[x])
        BY <4>1 DEF End, Members
      <4>3. QED
        BY <1>6, <3>1, <4>2, Stacks
    <3>2. x \in Starters => chain'[x] = chain[x]
      BY <1>1, <1>3, <3>1, ChainLink
    <3>3. QED
      BY <2>1, <2>3, <3>2 DEF stack
  <2>4. QED
    BY <2>1, <2>2, <2>3, StackMoves
<1>13. Abstract!Spawn(n, g)
  BY <1>4, <1>6, <1>7, <1>8, <1>11, <1>12 DEF Abstract!Spawn
<1>14. QED
  BY <1>5, <1>13

(* Dropping tasks leaves the starters.                                     *)
LEMMA DestroyKeeps ==
  ASSUME Inv, NEW f \in Coroutines, NEW S \in SUBSET tasks[f], NEW kept, Destroy(S, f, kept),
         NEW x \in Frames, kind[x] = "starter", kept[x] = st[x]
  PROVE  st'[x] = st[x]
<1>1. S \in SUBSET Frames /\ \A y \in S : kind[y] # "starter"
  BY DEF Inv, Types, Held
<1>2. x \notin OwnedWith(S)
  BY <1>1, NoStarter
<1>3. QED
  BY <1>2, DestroySt

LEMMA StepIsStep ==
  ASSUME Whole, Whole', [Next]_vars, ~GenThrows PROVE [Abstract!Next]_(Abstract!vars)
<1> DEFINE Goal == [Abstract!Next]_(Abstract!vars)
<1>1. Inv /\ Types /\ Control
  BY DEF Whole, Inv
<1>2. ASSUME UNCHANGED <<said, got, awaiter>>,
             \A x \in Frames : kind[x] = "starter" \/ kind'[x] = "starter"
                                 => kind'[x] = kind[x] /\ (Alive(x)' <=> Alive(x))
      PROVE  Goal
  <2>1. Starters' = Starters
    BY <1>2, StarterIs
  <2>2. Abstract!Drop
    BY <1>2, <2>1, Drops DEF SameCall
  <2>3. QED
    BY <2>2 DEF Abstract!Next
<1>3. ASSUME NEW f \in Frames, Running(f), NEW o \in Outcomes, Tell(f, o), Over(f)' <=> o # "yield",
             \A x \in Frames : kind[x] = "starter" => (Alive(x)' <=> Alive(x))
      PROVE  Goal
  <2>1. PICK r \in Frames : Abstract!Say(r)
    BY <1>3, Saying
  <2>2. QED
    BY <2>1 DEF Abstract!Next
<1>4. ASSUME NEW f \in Frames, NEW g \in Frames, NEW owned \in BOOLEAN, AwaitTask(f, g, owned)
      PROVE  Goal
  <2>1. PICK r \in Frames : r # g /\ Abstract!Call(r, g)
    BY <1>4, AwaitIsCall
  <2>2. QED
    BY <2>1 DEF Abstract!Next
<1>5. ASSUME NEW f \in Coroutines, NEW g \in Frames, co_spawn(f, g) PROVE Goal
  <2>1. PICK r \in Frames : r # g /\ Abstract!Spawn(r, g)
    BY <1>5, SpawnIsSpawn
  <2>2. QED
    BY <2>1 DEF Abstract!Next
<1>6. ASSUME NEW f \in Frames, await_resume(f) PROVE Goal
  <2>1. PICK r \in Frames : Abstract!Return(r)
    BY <1>6, ResumeIsReturn
  <2>2. QED
    BY <2>1 DEF Abstract!Next
<1>7. ASSUME NEW f \in Frames, StarterEnds(f) PROVE Goal
  <2>1. Abstract!End(f)
    BY <1>7, StarterEndsIsEnd
  <2>2. QED
    BY <2>1 DEF Abstract!Next
<1> HIDE DEF Goal
<1>8. ASSUME NEW f \in Coroutines, NEW k \in {"task", "gen"}, Create(f, k) PROVE Goal
  <2>1. PICK n \in Frames : n = New /\ st[n] = "none"
    BY <1>8, NewFrame DEF Create
  <2>2. /\ kind' = [kind EXCEPT ![n] = k] /\ st' = [st EXCEPT ![n] = "suspended"]
        /\ UNCHANGED <<said, got, awaiter>>
    BY <1>8, <2>1 DEF Create
  <2>3. kind[n] # "starter" /\ kind'[n] # "starter"
    BY <1>1, <2>1, <2>2 DEF Types, Inv, FrameOK
  <2>4. \A x \in Frames \ {n} : kind'[x] = kind[x] /\ st'[x] = st[x]
    BY <1>1, <2>2 DEF Types
  <2>5. QED
    BY <1>2, <2>2, <2>3, <2>4 DEF Alive
<1>9. ASSUME NEW f \in Coroutines, NEW g \in Frames, DropTask(f, g) PROVE Goal
  <2>1. /\ Destroy({g}, f, st) /\ {g} \in SUBSET tasks[f] /\ kind' = kind
        /\ UNCHANGED <<said, got, awaiter>>
    BY <1>9 DEF DropTask, promises
  <2>2. \A x \in Frames : kind[x] = "starter" => st'[x] = st[x]
    BY <1>1, <2>1, DestroyKeeps
  <2>3. QED
    BY <1>2, <2>1, <2>2 DEF Alive
<1>10. ASSUME NEW f \in Coroutines, NEW g \in Frames, NEW t \in Tokens, bind(f, g, t) PROVE Goal
  BY <1>2, <1>10 DEF bind, Alive
<1>11. ASSUME NEW f \in Frames, Suspend(f) \/ Resume(f) PROVE Goal
  <2>1. PICK s \in {"waiting", "running"} : st' = [st EXCEPT ![f] = s]
    BY <1>11 DEF Suspend, Resume
  <2>2. st[f] \in {"running", "waiting"}
    BY <1>11, <1>1, RunFacts DEF Suspend, Resume, Inv, FrameOK
  <2>3. UNCHANGED <<said, got, awaiter>> /\ kind' = kind
    BY <1>11 DEF Suspend, Resume, promises
  <2>4. \A x \in Frames : Alive(x)' <=> Alive(x)
    BY <1>1, <2>1, <2>2 DEF Types, Alive
  <2>5. QED
    BY <1>2, <2>3, <2>4
<1>12. ASSUME NEW f \in Frames, NEW o \in {"value", "exception"}, Finish(f, o) PROVE Goal
  <2>1. PICK k : k = [st EXCEPT ![f] = "final"]
    OBVIOUS
  <2>2. Running(f) /\ Tell(f, o) /\ Destroy(tasks[f], f, k) /\ f \in Coroutines
    BY <1>12, <2>1, Basics DEF Finish
  <2>3. Over(f)' /\ o # "yield" /\ o \in Outcomes
    <3>1. k[f] = "final"
      BY <1>1, <2>1 DEF Types
    <3>2. st'[f] = "destroyed" \/ st'[f] = "final"
      BY <2>2, <3>1, DestroySt
    <3>3. QED
      BY <3>2 DEF Over, Outcomes
  <2>4. \A x \in Frames : kind[x] = "starter" => k[x] = st[x]
    BY <1>1, <2>1, <2>2, RunFacts DEF Types
  <2>5. \A x \in Frames : kind[x] = "starter" => st'[x] = st[x]
    BY <1>1, <2>2, <2>4, DestroyKeeps
  <2>6. QED
    BY <1>3, <2>2, <2>3, <2>5 DEF Alive
<1>13. ASSUME NEW f \in Frames, ReturnError(f) \/ yield_value(f) PROVE Goal
  <2>1. PICK s \in {"returned", "yielded"}, o \in Outcomes :
          /\ Running(f) /\ Tell(f, o) /\ st' = [st EXCEPT ![f] = s]
          /\ s = "returned" <=> o # "yield"
    BY <1>13 DEF ReturnError, ValueOrReturnAwaiter, yield_value, Outcomes
  <2>2. st[f] = "running" /\ st'[f] = s
    BY <1>1, <2>1, RunFacts DEF Types
  <2>3. Over(f)' <=> o # "yield"
    BY <2>1, <2>2 DEF Over
  <2>4. \A x \in Frames : Alive(x)' <=> Alive(x)
    BY <1>1, <2>1, <2>2 DEF Types, Alive
  <2>5. QED
    BY <1>3, <2>1, <2>3, <2>4
<1>14. UNCHANGED vars => Goal
  BY <1>2 DEF vars, Alive
<1>15. Goal
  BY <1>4, <1>5, <1>6, <1>7, <1>8, <1>9, <1>10, <1>11, <1>12, <1>13, <1>14, Zenon
  DEF Next, Coroutines
<1>16. QED
  BY <1>15 DEF Goal

(* Tasks implements CallStacks: calls made by co_await nest and return as  *)
(* calls do, each gets what the call it awaited said, and what has ended   *)
(* is not run again.  So long as no generator throws (await_resume).       *)
THEOREM Implements == ASSUME ~GenThrows PROVE Spec => ImplementsCalls
<1>1. Init => Abstract!Init
  <2> SUFFICES ASSUME Init PROVE Abstract!Init
    OBVIOUS
  <2>1. \A f \in Frames : st[f] = "none"
    BY DEF Init
  <2>2. Starters = {} /\ over = {}
    BY <2>1 DEF Starters, Live, over
  <2>3. QED
    BY <2>2 DEF Init, Abstract!Init, stack
<1>2. Whole /\ [Next]_vars => Whole' /\ [Abstract!Next]_(Abstract!vars)
  BY WholeInv, StepIsStep
<1>3. QED
  BY <1>1, <1>2, WholeInit, PTL DEF Spec, ImplementsCalls, Abstract!Spec
==============================================================================
