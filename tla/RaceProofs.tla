------------------------------ MODULE RaceProofs ------------------------------
(***************************************************************************)
(* Proofs about Race, for any number of tasks and operations and every     *)
(* kind of operation: the list of cancellers is sound whatever the called  *)
(* callbacks resume, and the race is a fork-join whose result is the first *)
(* task that ended.                                                        *)
(***************************************************************************)
EXTENDS Race, FiniteSetTheorems, SequenceTheorems, WellFoundedInduction, TLAPS

Elements(s)  == {s[i] : i \in 1..Len(s)}
Injective(s) == \A i, j \in 1..Len(s) : s[i] = s[j] => i = j

Coroutines == Tasks \cup {Caller}

Types == /\ kind \in [Tasks -> AllKinds] /\ op \in [Tasks -> OpStates]
         /\ cancelOp \in [Tasks -> OpStates]
         /\ pc \in [Coroutines -> PCs]
         /\ winner \in Tasks \cup {None}
         /\ todo \in Seq(Tasks) /\ pending \subseteq Tasks
         /\ stack \in Seq(Coroutines)

(* A coroutine is on the stack of resumptions once, and while it executes. *)
StackOK == /\ Injective(stack)
           /\ \A c \in Tasks : c \in Elements(stack) <=> pc[c] \in {"running", "calling"}
           /\ Caller \in Elements(stack) <=> \/ pc[Caller] = "running"
                                             \/ pc[Caller] = "suspended" /\ mCount = 0

(* The caller is suspended from the start of the last task until all of    *)
(* them have ended.                                                        *)
CallerOK == /\ pc[Caller] \in {"running", "suspended", "done"}
            /\ pc[Caller] = "running" => pc[NumTasks] = "new"
            /\ pc[Caller] = "done" => mCount = 0

CountOK == mCount = Cardinality({c \in Tasks : pc[c] # "done"})

(* The first task to end is the only one to cancel the others.             *)
WinnerOK == /\ mCanceled <=> winner # None
            /\ \A c \in Tasks : pc[c] \in {"calling", "suspended"} => c = winner
            /\ \A c \in Tasks : pc[c] = "done" => winner # None
            /\ winner # None => pc[winner] \in {"calling", "suspended", "done"}
            /\ winner # None /\ pc[winner] = "done" => result = winner
            /\ pending # {} => winner # None /\ pc[winner] # "done"
            /\ todo # << >> => winner # None /\ pc[winner] = "calling"

WaitingOK == \A c \in Tasks : pc[c] = "waiting" <=> op[c] # "none"

Control == Types /\ StackOK /\ CallerOK /\ CountOK /\ WinnerOK /\ WaitingOK

(* The inductive invariant: no callback is called twice, since those that  *)
(* are still to be called are other ones.                                  *)
Inv == Control /\ CalledAlive /\ Injective(todo)

------------------------------------------------------------------------------
(* Sequences without repetition.                                           *)

(* Returning from the innermost resume removes exactly its coroutine.      *)
LEMMA PopStack ==
  ASSUME NEW S, NEW s \in Seq(S), s # << >>, Injective(s),
         NEW p, p = SubSeq(s, 1, Len(s) - 1)
  PROVE  /\ p \in Seq(S) /\ Injective(p)
         /\ Elements(p) = Elements(s) \ {s[Len(s)]}
<1> DEFINE n == Len(s) - 1
<1>1. Len(s) \in Nat \ {0} /\ n \in Nat
  OBVIOUS
<1>2. p \in Seq(S) /\ Len(p) = n /\ \A i \in 1..n : p[i] = s[i]
  <2>1. n \in Int /\ 1 \in Int /\ \A i \in 1..n : s[i] \in S
    BY <1>1
  <2>2. /\ SubSeq(s, 1, n) \in Seq(S)
        /\ Len(SubSeq(s, 1, n)) = IF 1 <= n THEN n - 1 + 1 ELSE 0
        /\ \A i \in 1..(n - 1 + 1) : SubSeq(s, 1, n)[i] = s[1 + i - 1]
    BY <2>1, SubSeqProperties
  <2>3. (\A i \in 1..n : 1 + i - 1 = i) /\ n - 1 + 1 = n
    BY <1>1
  <2>4. QED
    BY <1>1, <2>2, <2>3
<1>3. Injective(p)
  BY <1>1, <1>2 DEF Injective
<1>4. Elements(p) \subseteq Elements(s) \ {s[Len(s)]}
  BY <1>1, <1>2 DEF Elements, Injective
<1>5. ASSUME NEW x \in Elements(s), x # s[Len(s)] PROVE x \in Elements(p)
  <2>1. PICK i \in 1..Len(s) : s[i] = x
    BY DEF Elements
  <2>2. i \in 1..n
    BY <1>1, <1>5, <2>1
  <2>3. QED
    BY <1>2, <2>1, <2>2 DEF Elements
<1>6. QED
  BY <1>2, <1>3, <1>4, <1>5

(* A nested resume adds its coroutine.                                     *)
LEMMA PushStack ==
  ASSUME NEW S, NEW s \in Seq(S), Injective(s), NEW c \in S, c \notin Elements(s)
  PROVE  /\ Append(s, c) \in Seq(S)
         /\ Injective(Append(s, c))
         /\ Elements(Append(s, c)) = Elements(s) \cup {c}
<1> DEFINE a == Append(s, c)
<1>1. /\ a \in Seq(S) /\ Len(a) = Len(s) + 1 /\ Len(s) \in Nat
      /\ a[Len(a)] = c /\ \A i \in 1..Len(s) : a[i] = s[i]
  OBVIOUS
<1>2. Injective(a)
  BY <1>1 DEF Injective, Elements
<1>3. Elements(a) = Elements(s) \cup {c}
  BY <1>1 DEF Elements
<1>4. QED
  BY <1>1, <1>2, <1>3

(* The loop resumes a coroutine on an empty stack.                         *)
LEMMA OneOnStack ==
  ASSUME NEW S, NEW c \in S
  PROVE  <<c>> \in Seq(S) /\ Injective(<<c>>) /\ Elements(<<c>>) = {c}
  BY DEF Injective, Elements

(* What is left after the first element was taken.                         *)
LEMMA TailRest ==
  ASSUME NEW S, NEW s \in Seq(S), s # << >>, Injective(s)
  PROVE  /\ Head(s) \in S /\ Head(s) \in Elements(s)
         /\ Tail(s) \in Seq(S) /\ Injective(Tail(s))
         /\ Elements(Tail(s)) \subseteq Elements(s) \ {Head(s)}
<1>1. /\ Len(s) \in Nat \ {0} /\ Head(s) = s[1]
      /\ Tail(s) \in Seq(S) /\ Len(Tail(s)) = Len(s) - 1
      /\ \A i \in 1..(Len(s) - 1) : Tail(s)[i] = s[i + 1]
  OBVIOUS
<1>2. Injective(Tail(s))
  BY <1>1 DEF Injective
<1>3. \A i \in 1..(Len(s) - 1) : i + 1 \in 1..Len(s) /\ i + 1 # 1
  BY <1>1
<1>4. Elements(Tail(s)) \subseteq Elements(s) \ {Head(s)}
  BY <1>1, <1>3 DEF Elements, Injective
<1>5. Head(s) \in S /\ Head(s) \in Elements(s)
  BY <1>1 DEF Elements
<1>6. QED
  BY <1>1, <1>2, <1>4, <1>5

(* A set of numbers that is not empty has a least one.                     *)
LEMMA Least == ASSUME NEW S, S \subseteq Nat, S # {} PROVE \E x \in S : \A y \in S : x <= y
<1> DEFINE R == OpToRel(<, Nat)
<1>1. IsWellFoundedOn(R, Nat)
  BY NatLessThanWellFounded
<1>2. PICK x \in S : \A y \in S : ~(<<y, x>> \in R)
  <2> HIDE DEF R
  <2> QED
    BY <1>1, WFMin, Zenon
<1>3. \A y \in S : y < x => <<y, x>> \in R
  BY DEF OpToRel
<1>4. \A y \in S : ~(y < x)
  BY <1>2, <1>3, Zenon
<1>5. \A y \in S : x \in Nat /\ y \in Nat
  OBVIOUS
<1>6. \A y \in S : x <= y
  BY <1>4, <1>5
<1>7. QED
  BY <1>6
------------------------------------------------------------------------------
(* The list of cancellers.                                                 *)

(* A function can be iterated from any point.                              *)
Iterates(S, f, x, g) == /\ g \in [Nat -> S] /\ g[0] = x
                        /\ \A k \in Nat : g[k + 1] = f[g[k]]

LEMMA Iterate ==
  ASSUME NEW S, NEW f \in [S -> S], NEW x \in S
  PROVE  \E g : Iterates(S, f, x, g)
<1> DEFINE Part(n, h) == /\ h \in [0..n -> S] /\ h[0] = x
                         /\ \A k \in 0..(n - 1) : h[k + 1] = f[h[k]]
<1>1. ASSUME NEW n \in Nat PROVE \E h : Part(n, h)
  <2> DEFINE B == {m \in Nat : ~\E h : Part(m, h)}
  <2> SUFFICES ASSUME B # {} PROVE FALSE
    OBVIOUS
  <2>1. PICK m \in B : \A k \in B : m <= k
    BY Least
  <2>2. Part(0, [k \in 0..0 |-> x])
    OBVIOUS
  <2>3. m \in Nat \ {0}
    BY <2>2
  <2>4. m - 1 \in Nat /\ m - 1 \notin B
    BY <2>1, <2>3
  <2>5. PICK h : Part(m - 1, h)
    BY <2>4
  <2>6. Part(m, [k \in 0..m |-> IF k = m THEN f[h[m - 1]] ELSE h[k]])
    BY <2>3, <2>5
  <2>7. QED
    BY <2>6
<1>2. ASSUME NEW m \in Nat, NEW n \in Nat, NEW h, NEW i, Part(m, h), Part(n, i),
             NEW k \in 0..m, k \in 0..n
      PROVE  h[k] = i[k]
  <2> DEFINE B == {j \in Nat : j \in 0..m /\ j \in 0..n /\ h[j] # i[j]}
  <2> SUFFICES ASSUME B # {} PROVE FALSE
    BY <1>2, SMTT(20)
  <2>1. PICK j \in B : \A l \in B : j <= l
    BY Least
  <2>2. j # 0
    BY <1>2
  <2>3. /\ j - 1 \in Nat /\ j - 1 \in 0..(m - 1) /\ j - 1 \in 0..(n - 1)
        /\ j - 1 \notin B /\ (j - 1) + 1 = j
    BY <2>1, <2>2
  <2>4. h[j - 1] = i[j - 1]
    BY <2>3
  <2>5. h[j] = f[h[j - 1]] /\ i[j] = f[i[j - 1]]
    BY <1>2, <2>3
  <2>6. QED
    BY <2>4, <2>5
<1> DEFINE H(n) == CHOOSE h : Part(n, h)
           g == [n \in Nat |-> H(n)[n]]
<1>3. ASSUME NEW n \in Nat PROVE Part(n, H(n))
  BY <1>1
<1>4. g \in [Nat -> S] /\ g[0] = x
  <2>1. ASSUME NEW n \in Nat PROVE H(n)[n] \in S
    <3> HIDE DEF H
    <3>1. H(n) \in [0..n -> S] /\ n \in 0..n
      BY <1>3
    <3>2. QED
      BY <3>1
  <2>2. H(0)[0] = x
    BY <1>3
  <2> HIDE DEF H
  <2>3. QED
    BY <2>1, <2>2
<1>5. ASSUME NEW k \in Nat PROVE g[k + 1] = f[g[k]]
  <2>1. k + 1 \in Nat /\ k \in 0..((k + 1) - 1) /\ k \in 0..(k + 1) /\ k \in 0..k
    OBVIOUS
  <2>2. H(k + 1)[k + 1] = f[H(k + 1)[k]]
    BY <1>3, <2>1
  <2>3. H(k + 1)[k] = H(k)[k]
    <3> HIDE DEF Part, H
    <3> QED
      BY <1>2, <1>3, <2>1
  <2>4. QED
    BY <2>1, <2>2, <2>3
<1>6. QED
  BY <1>4, <1>5 DEF Iterates

LEMMA TasksFacts ==
  /\ IsFiniteSet(Tasks) /\ Cardinality(Tasks) = NumTasks
  /\ Caller \notin Tasks /\ None \notin Tasks /\ NumTasks \in Tasks
<1>1. 1 \in Int /\ NumTasks \in Int
  BY RaceAssumption
<1>2. IsFiniteSet(1..NumTasks)
      /\ Cardinality(1..NumTasks) = IF 1 > NumTasks THEN 0 ELSE NumTasks - 1 + 1
  BY <1>1, FS_Interval
<1>3. QED
  BY <1>2, RaceAssumption DEF Tasks, Caller, None

(* g walks along the list from the node after the root.                    *)
Walk(L, M, g) == /\ g \in [Nat -> M \cup {Root}] /\ g[0] = L.next[Root]
                 /\ \A k \in Nat : g[k + 1] = L.next[g[k]]

(* Up to the last node the walk visits members, none of them twice.        *)
LEMMA WalkVisits ==
  ASSUME NEW L \in List!Lists, NEW M, M \subseteq Tasks, List!Ring(L, M),
         NEW g, Walk(L, M, g), NEW n \in Nat,
         \A j \in 0..(n - 1) : g[j] # L.prev[Root]
  PROVE  /\ \A j \in 0..(n - 1) : g[j] \in M
         /\ \A i, j \in 0..(n - 1) : g[i] = g[j] => i = j
<1>1. Root \notin M
  BY RootAssumption
<1>2. L.prev[g[0]] = Root /\ \A k \in Nat : L.prev[g[k + 1]] = g[k]
  BY DEF Walk, List!Ring
<1>3. ASSUME NEW j \in 0..(n - 1), g[j] = Root PROVE FALSE
  <2>1. CASE j = 0
    BY <1>2, <1>3, <2>1
  <2>2. CASE j # 0
    <3>1. j - 1 \in Nat /\ j - 1 \in 0..(n - 1) /\ (j - 1) + 1 = j
      BY <2>2
    <3>2. QED
      BY <1>2, <1>3, <3>1
  <2>3. QED
    BY <2>1, <2>2
<1>4. \A j \in 0..(n - 1) : g[j] \in M
  BY <1>3 DEF Walk
<1>5. ASSUME NEW i \in 0..(n - 1), NEW j \in 0..(n - 1), g[i] = g[j], i < j PROVE FALSE
  <2> DEFINE B == {k \in Nat : \E l \in 0..(n - 1) : k < l /\ g[k] = g[l]}
  <2>1. B # {} /\ B \subseteq Nat
    BY <1>5
  <2>2. PICK k \in B : \A m \in B : k <= m
    BY <2>1, Least
  <2>3. PICK l \in 0..(n - 1) : k < l /\ g[k] = g[l]
    OBVIOUS
  <2>4. l - 1 \in Nat /\ (l - 1) + 1 = l /\ l - 1 \in 0..(n - 1)
    BY <2>3
  <2>5. CASE k = 0
    BY <1>1, <1>2, <1>4, <2>3, <2>4, <2>5
  <2>6. CASE k # 0
    <3>1. k - 1 \in Nat /\ (k - 1) + 1 = k /\ k - 1 < l - 1
      BY <2>3, <2>6
    <3>2. g[k - 1] = g[l - 1]
      BY <1>2, <2>3, <2>4, <3>1
    <3>3. k - 1 \in B
      BY <2>4, <3>1, <3>2
    <3>4. QED
      BY <2>2, <3>1, <3>3
  <2>7. QED
    BY <2>5, <2>6
<1>6. QED
  <2>1. ASSUME NEW i \in 0..(n - 1), NEW j \in 0..(n - 1), g[i] = g[j] PROVE i = j
    BY <1>5, <2>1
  <2>2. QED
    BY <1>4, <2>1

(* The walk comes to the last node, after no more steps than there are     *)
(* tasks.                                                                  *)
LEMMA WalkEnds ==
  ASSUME NEW L \in List!Lists, NEW M, M \subseteq Tasks, List!Ring(L, M),
         NEW g, Walk(L, M, g)
  PROVE  \E k \in 0..NumTasks : /\ g[k] = L.prev[Root]
                                /\ \A j \in 0..(k - 1) : g[j] # L.prev[Root]
<1> DEFINE B == {k \in Nat : k \in 0..NumTasks /\ g[k] = L.prev[Root]}
<1>1. B # {}
  <2> SUFFICES ASSUME \A k \in 0..NumTasks : g[k] # L.prev[Root] PROVE FALSE
    BY RaceAssumption
  <2> DEFINE n == NumTasks + 1
  <2>1. 0..(n - 1) = 0..NumTasks
    BY RaceAssumption
  <2>2. /\ \A j \in 0..NumTasks : g[j] \in M
        /\ \A i, j \in 0..NumTasks : g[i] = g[j] => i = j
    <3>1. n \in Nat
      BY RaceAssumption
    <3> HIDE DEF n
    <3>2. \A j \in 0..(n - 1) : g[j] # L.prev[Root]
      BY <2>1
    <3>3. /\ \A j \in 0..(n - 1) : g[j] \in M
          /\ \A i, j \in 0..(n - 1) : g[i] = g[j] => i = j
      BY <3>1, <3>2, WalkVisits
    <3>4. QED
      BY <2>1, <3>3
  <2> DEFINE f == [j \in 0..NumTasks |-> g[j]]
  <2>3. f \in [0..NumTasks -> Tasks]
    BY <2>2
  <2>4. /\ IsFiniteSet(0..NumTasks)
        /\ Cardinality(0..NumTasks) = IF 0 > NumTasks THEN 0 ELSE NumTasks - 0 + 1
    BY RaceAssumption, FS_Interval
  <2>5. Cardinality(Tasks) < Cardinality(0..NumTasks)
    BY <2>4, TasksFacts, RaceAssumption
  <2>6. \E i, j \in 0..NumTasks : i # j /\ f[i] = f[j]
    <3> DEFINE D == 0..NumTasks
    <3>1. IsFiniteSet(D) /\ f \in [D -> Tasks] /\ Cardinality(Tasks) < Cardinality(D)
      BY <2>3, <2>4, <2>5
    <3> HIDE DEF f, D
    <3>2. \E i, j \in D : i # j /\ f[i] = f[j]
      BY <3>1, TasksFacts, FS_PigeonHole, Zenon
    <3> QED
      BY <3>2 DEF D
  <2>7. QED
    BY <2>2, <2>6
<1>2. PICK k \in B : \A j \in B : k <= j
  BY <1>1, Least
<1>3. \A j \in 0..(k - 1) : j \in 0..NumTasks /\ j \notin B
  BY <1>2, RaceAssumption
<1>4. QED
  BY <1>3

(* The callbacks that cancel() collects are callbacks in the list, each of *)
(* them once.                                                              *)
LEMMA VisitedMembers ==
  ASSUME NEW L \in List!Lists, NEW M, M \subseteq Tasks, List!Ring(L, M)
  PROVE  List!Visited(L) \in Seq(M) /\ Injective(List!Visited(L))
<1> DEFINE Rec(f) == [k \in Nat |-> IF k = 0 THEN L.next[Root] ELSE L.next[f[k - 1]]]
           node == CHOOSE f : f = Rec(f)
<1>1. Walk(L, M, node)
  <2> DEFINE S == M \cup {Root}
             next == [n \in S |-> L.next[n]]
  <2>1. next \in [S -> S] /\ L.next[Root] \in S
    BY DEF List!Ring
  <2>2. PICK g : Iterates(S, next, L.next[Root], g)
    BY <2>1, Iterate
  <2>3. ASSUME NEW k \in Nat \ {0} PROVE g[k] = L.next[g[k - 1]]
    <3>1. k - 1 \in Nat /\ (k - 1) + 1 = k
      OBVIOUS
    <3>2. QED
      BY <2>2, <3>1 DEF Iterates
  <2>4. g = Rec(g)
    BY <2>2, <2>3 DEF Iterates
  <2>5. node = Rec(node)
    <3> HIDE DEF Rec
    <3> QED
      BY <2>4
  <2>6. ASSUME NEW f, f = Rec(f) PROVE f[0] = L.next[Root] /\ \A k \in Nat : f[k + 1] = L.next[f[k]]
    <3>1. \A k \in Nat : f[k] = IF k = 0 THEN L.next[Root] ELSE L.next[f[k - 1]]
      BY <2>6, Zenon
    <3>2. QED
      BY <3>1
  <2>7. ASSUME NEW f, f = Rec(f) PROVE f = g
    <3> DEFINE B == {k \in Nat : f[k] # g[k]}
    <3>1. ASSUME B # {} PROVE FALSE
      <4>1. PICK k \in B : \A j \in B : k <= j
        BY <3>1, Least
      <4>2. k # 0
        BY <2>2, <2>6, <2>7 DEF Iterates
      <4>3. k - 1 \in Nat /\ (k - 1) + 1 = k /\ k - 1 \notin B
        BY <4>1, <4>2
      <4>4. f[k - 1] = g[k - 1]
        BY <4>3
      <4>5. f[k] = L.next[f[k - 1]] /\ g[k] = L.next[g[k - 1]]
        BY <2>3, <2>6, <2>7, <4>2, <4>3
      <4>6. QED
        BY <4>4, <4>5
    <3>2. f = [k \in Nat |-> f[k]] /\ g = [k \in Nat |-> g[k]]
      BY <2>2, <2>7 DEF Iterates
    <3>3. QED
      BY <3>1, <3>2
  <2>8. node = g
    <3> HIDE DEF Rec, node
    <3> QED
      BY <2>5, <2>7
  <2>9. QED
    BY <2>2, <2>4, <2>6, <2>8 DEF Walk, Iterates
<1> DEFINE stop == CHOOSE k \in 0..Cardinality(Tasks) :
                     /\ node[k] = L.prev[Root]
                     /\ \A j \in 0..(k - 1) : node[j] # L.prev[Root]
<1>2. List!Visited(L) = [k \in 1..stop |-> node[k - 1]]
  <2>1. List!Cardinality(Tasks) = Cardinality(Tasks)
    BY DEF List!Cardinality, Cardinality, List!IsFiniteSet, IsFiniteSet
  <2>2. QED
    BY <2>1 DEF List!Visited
<1> HIDE DEF node
<1>3. /\ stop \in 0..NumTasks
      /\ \A j \in 0..(stop - 1) : node[j] # L.prev[Root]
  BY <1>1, WalkEnds, TasksFacts
<1> HIDE DEF stop
<1>4. stop \in Nat
  BY <1>3, RaceAssumption
<1>5. /\ \A j \in 0..(stop - 1) : node[j] \in M
      /\ \A i, j \in 0..(stop - 1) : node[i] = node[j] => i = j
  BY <1>1, <1>3, <1>4, WalkVisits
<1>6. \A k \in 1..stop : k - 1 \in 0..(stop - 1)
  BY <1>4
<1>7. List!Visited(L) \in Seq(M) /\ Len(List!Visited(L)) = stop
  BY <1>2, <1>4, <1>5, <1>6
<1>8. ASSUME NEW i \in 1..stop, NEW j \in 1..stop, node[i - 1] = node[j - 1] PROVE i = j
  <2>1. i - 1 = j - 1
    BY <1>5, <1>6, <1>8
  <2>2. QED
    BY <2>1, <1>4
<1>9. QED
  BY <1>2, <1>7, <1>8 DEF Injective

(* The members of a ring are the nodes with links.                         *)
LEMMA RingMembers ==
  ASSUME NEW L, NEW M, M \subseteq Tasks, List!Ring(L, M)
  PROVE  M = {c \in Tasks : L.next[c] # Nil}
  BY RaceAssumption, RootAssumption DEF List!Ring

LEMMA EmptyRing == List!EmptyList \in List!Lists /\ List!Ring(List!EmptyList, {})
  BY RaceAssumption, RootAssumption
     DEF List!EmptyList, List!Lists, List!Places, List!Ring

(* A callback that is registered joins the ring.                           *)
LEMMA PushRing ==
  ASSUME NEW L \in List!Lists, NEW M, M \subseteq Tasks, List!Ring(L, M),
         NEW n \in Tasks, n \notin M
  PROVE  /\ List!doPushFront(L, n) \in List!Lists
         /\ List!Ring(List!doPushFront(L, n), M \cup {n})
<1> DEFINE first == L.next[Root]
           next  == [L.next EXCEPT ![n] = first, ![Root] = n]
           prev  == [L.prev EXCEPT ![n] = Root, ![first] = n]
<1>1. /\ L.next \in [List!Places -> List!Places \cup {Nil}]
      /\ L.prev \in [List!Places -> List!Places \cup {Nil}]
      /\ n \in List!Places /\ Root \in List!Places /\ M \subseteq List!Places
      /\ first \in M \cup {Root} /\ L.prev[first] = Root /\ n # Root
      /\ List!Places = Tasks \cup {Root}
  BY RootAssumption DEF List!Lists, List!Places, List!Ring
<1>2. /\ next[n] = first /\ next[Root] = n
      /\ \A m \in List!Places \ {n, Root} : next[m] = L.next[m]
      /\ prev[n] = IF first = n THEN n ELSE Root
      /\ prev[first] = n
      /\ \A m \in List!Places \ {n, first} : prev[m] = L.prev[m]
  BY <1>1
<1>3. /\ next \in [List!Places -> List!Places \cup {Nil}]
      /\ prev \in [List!Places -> List!Places \cup {Nil}]
  BY <1>1
<1>4. List!doPushFront(L, n) = [next |-> next, prev |-> prev]
  BY DEF List!doPushFront
<1> DEFINE K == [next |-> next, prev |-> prev]
<1>5. K.next = next /\ K.prev = prev
  OBVIOUS
<1>6. K \in List!Lists
  BY <1>3 DEF List!Lists
<1> HIDE DEF next, prev, K
<1>7. ASSUME NEW m \in M \cup {n} \cup {Root}
      PROVE  /\ next[m] \in M \cup {n} \cup {Root} /\ prev[next[m]] = m
             /\ prev[m] \in M \cup {n} \cup {Root} /\ next[prev[m]] = m
  <2>1. first # n
    BY <1>1
  <2>2. CASE m = n
    BY <1>1, <1>2, <2>1, <2>2
  <2>3. CASE m = Root
    <3>1. next[m] = n /\ prev[n] = Root
      BY <1>2, <2>1, <2>3
    <3>2. CASE first = Root
      BY <1>2, <2>3, <3>1, <3>2
    <3>3. CASE first # Root
      <4>1. prev[Root] = L.prev[Root] /\ L.prev[Root] \in M \cup {Root} /\ L.next[L.prev[Root]] = Root
        BY <1>1, <1>2, <3>3 DEF List!Ring
      <4>2. L.prev[Root] # Root /\ L.prev[Root] # n
        BY <1>1, <3>3, <4>1
      <4>3. next[L.prev[Root]] = Root
        BY <1>1, <1>2, <4>1, <4>2
      <4>4. QED
        BY <2>3, <3>1, <4>1, <4>3
    <3>4. QED
      BY <3>2, <3>3
  <2>4. CASE m \in M
    <3>1. m # n /\ m # Root /\ m \in List!Places
      BY <1>1, <2>4, RootAssumption
    <3>2. /\ L.next[m] \in M \cup {Root} /\ L.prev[L.next[m]] = m
          /\ L.prev[m] \in M \cup {Root} /\ L.next[L.prev[m]] = m
      BY <2>4 DEF List!Ring
    <3>3. next[m] = L.next[m] /\ L.next[m] # first /\ L.next[m] # n /\ L.next[m] \in List!Places
      BY <1>1, <1>2, <3>1, <3>2
    <3>4. prev[next[m]] = m
      BY <1>2, <3>2, <3>3
    <3>5. CASE m = first
      BY <1>2, <3>2, <3>3, <3>4, <3>5
    <3>6. CASE m # first
      <4>1. prev[m] = L.prev[m] /\ L.prev[m] # Root /\ L.prev[m] # n
        BY <1>1, <1>2, <3>1, <3>2, <3>6
      <4>2. next[L.prev[m]] = m
        BY <1>1, <1>2, <3>2, <4>1
      <4>3. QED
        BY <3>2, <3>3, <3>4, <4>1, <4>2
    <3>7. QED
      BY <3>5, <3>6
  <2>5. QED
    BY <2>2, <2>3, <2>4
<1>8. ASSUME NEW m \in Tasks \ (M \cup {n}) PROVE next[m] = Nil /\ prev[m] = Nil
  <2>1. m \in List!Places \ {n, Root} /\ m # first /\ L.next[m] = Nil /\ L.prev[m] = Nil
    BY <1>1, RootAssumption DEF List!Ring
  <2>2. QED
    BY <1>2, <2>1
<1>9. List!Ring(K, M \cup {n})
  BY <1>5, <1>7, <1>8 DEF List!Ring
<1>10. QED
  BY <1>4, <1>6, <1>9 DEF K

(* A callback whose scope ends leaves the ring, if it was in it.           *)
LEMMA UnlinkRing ==
  ASSUME NEW L \in List!Lists, NEW M, M \subseteq Tasks, List!Ring(L, M), NEW n \in Tasks
  PROVE  /\ List!Unlinked(L, n) \in List!Lists
         /\ List!Ring(List!Unlinked(L, n), M \ {n})
<1>1. CASE n \notin M
  <2>1. L.next[n] = Nil
    BY <1>1 DEF List!Ring
  <2>2. List!Unlinked(L, n) = L /\ M \ {n} = M
    BY <1>1, <2>1 DEF List!Unlinked
  <2>3. QED
    BY <2>2
<1>2. CASE n \in M
  <2> DEFINE a    == L.prev[n]
             b    == L.next[n]
             next == [L.next EXCEPT ![a] = b, ![n] = Nil]
             prev == [L.prev EXCEPT ![b] = a, ![n] = Nil]
  <2>1. /\ L.next \in [List!Places -> List!Places \cup {Nil}]
        /\ L.prev \in [List!Places -> List!Places \cup {Nil}]
        /\ List!Places = Tasks \cup {Root} /\ n # Root
    BY RootAssumption DEF List!Lists, List!Places
  <2>2. /\ a \in M \cup {Root} /\ L.next[a] = n /\ a \in List!Places
        /\ b \in M \cup {Root} /\ L.prev[b] = n /\ b \in List!Places /\ b # Nil
    BY <1>2, RaceAssumption, RootAssumption DEF List!Ring, List!Places
  <2>3. next[n] = Nil /\ prev[n] = Nil
    BY <2>1
  <2>4. /\ \A m \in List!Places \ {n} : next[m] = IF m = a THEN b ELSE L.next[m]
        /\ \A m \in List!Places \ {n} : prev[m] = IF m = b THEN a ELSE L.prev[m]
    BY <2>1
  <2>5. /\ next \in [List!Places -> List!Places \cup {Nil}]
        /\ prev \in [List!Places -> List!Places \cup {Nil}]
    BY <2>1, <2>2
  <2> DEFINE K == [next |-> next, prev |-> prev]
  <2>6. List!Unlinked(L, n) = K
    BY <2>2 DEF List!Unlinked
  <2>7. K.next = next /\ K.prev = prev /\ K \in List!Lists
    BY <2>5 DEF List!Lists
  <2> HIDE DEF next, prev, K
  <2>8. ASSUME NEW m \in (M \ {n}) \cup {Root}
        PROVE  /\ next[m] \in (M \ {n}) \cup {Root} /\ prev[next[m]] = m
               /\ prev[m] \in (M \ {n}) \cup {Root} /\ next[prev[m]] = m
    <3>1. /\ L.next[m] \in M \cup {Root} /\ L.prev[L.next[m]] = m
          /\ L.prev[m] \in M \cup {Root} /\ L.next[L.prev[m]] = m
          /\ m \in List!Places /\ m # n /\ L.next[m] \in List!Places /\ L.prev[m] \in List!Places
      BY <2>1 DEF List!Ring, List!Places
    <3>2. next[m] \in (M \ {n}) \cup {Root} /\ prev[next[m]] = m
      <4>1. CASE m = a
        <5>1. next[m] = b /\ b # n
          BY <2>2, <2>4, <3>1, <4>1
        <5>2. prev[b] = a
          BY <2>2, <2>4, <5>1
        <5>3. QED
          BY <2>2, <4>1, <5>1, <5>2
      <4>2. CASE m # a
        <5>1. next[m] = L.next[m] /\ L.next[m] # n /\ L.next[m] # b
          BY <2>2, <2>4, <3>1, <4>2
        <5>2. QED
          BY <2>4, <3>1, <5>1
      <4>3. QED
        BY <4>1, <4>2
    <3>3. prev[m] \in (M \ {n}) \cup {Root} /\ next[prev[m]] = m
      <4>1. CASE m = b
        <5>1. prev[m] = a /\ a # n
          BY <2>2, <2>4, <3>1, <4>1
        <5>2. next[a] = b
          BY <2>2, <2>4, <5>1
        <5>3. QED
          BY <2>2, <4>1, <5>1, <5>2
      <4>2. CASE m # b
        <5>1. prev[m] = L.prev[m] /\ L.prev[m] # n /\ L.prev[m] # a
          BY <2>2, <2>4, <3>1, <4>2
        <5>2. QED
          BY <2>4, <3>1, <5>1
      <4>3. QED
        BY <4>1, <4>2
    <3>4. QED
      BY <3>2, <3>3
  <2>9. ASSUME NEW m \in Tasks \ (M \ {n}) PROVE next[m] = Nil /\ prev[m] = Nil
    <3>1. CASE m = n
      BY <2>3, <3>1
    <3>2. CASE m # n
      <4>1. L.next[m] = Nil /\ L.prev[m] = Nil /\ m \in List!Places \ {n} /\ m # a /\ m # b
        BY <2>1, <2>2, <2>9, <3>2, RootAssumption DEF List!Ring
      <4>2. QED
        BY <2>4, <4>1
    <3>3. QED
      BY <3>1, <3>2
  <2>10. List!Ring(K, M \ {n})
    BY <2>7, <2>8, <2>9 DEF List!Ring
  <2>11. QED
    BY <2>6, <2>7, <2>10
<1>3. QED
  BY <1>1, <1>2
------------------------------------------------------------------------------
(* What the steps share.                                                   *)

Active == {c \in Tasks : pc[c] # "done"}

LEMMA ActiveFacts ==
  ASSUME CountOK
  PROVE  /\ IsFiniteSet(Active) /\ mCount = Cardinality(Active) /\ mCount \in Nat
         /\ mCount = 0 <=> Active = {}
<1>1. IsFiniteSet(Active)
  BY TasksFacts, FS_Subset DEF Active
<1>2. mCount = Cardinality(Active)
  BY DEF CountOK, Active
<1>3. QED
  BY <1>1, <1>2, FS_CardinalityType, FS_EmptySet

(* The stack without its innermost coroutine.                              *)
LEMMA PopFacts ==
  ASSUME Types, StackOK, NEW c, OnTop(c)
  PROVE  /\ c \in Coroutines /\ c \in Elements(stack)
         /\ Pop \in Seq(Coroutines) /\ Injective(Pop)
         /\ Elements(Pop) = Elements(stack) \ {c}
<1>1. stack \in Seq(Coroutines) /\ stack # << >> /\ Injective(stack) /\ c = stack[Len(stack)]
  BY DEF Types, StackOK, OnTop, Top
<1>2. c \in Coroutines /\ c \in Elements(stack)
  BY <1>1 DEF Elements
<1>3. /\ Pop \in Seq(Coroutines) /\ Injective(Pop)
      /\ Elements(Pop) = Elements(stack) \ {stack[Len(stack)]}
  BY <1>1, PopStack DEF Pop
<1>4. QED
  BY <1>1, <1>2, <1>3

(* CalledAlive in the terms of the proofs: what is still to be called, and *)
(* the list with its members.                                              *)
TodoOK == \A d \in Elements(todo) : d \in Registered /\ op[d] # "none"

LEMMA AliveFacts ==
  ASSUME CalledAlive
  PROVE  /\ mCancellers \in List!Lists /\ Members \subseteq Tasks
         /\ List!Ring(mCancellers, Members) /\ Members \subseteq Registered
         /\ ~mCanceled \/ Cancelling => Members = Registered
         /\ TodoOK
  BY DEF CalledAlive, TodoOK, Elements, Members

LEMMA AliveNext ==
  ASSUME NEW N, N \subseteq Tasks, mCancellers' \in List!Lists,
         List!Ring(mCancellers', N), N \subseteq Registered',
         (~mCanceled \/ Cancelling)' => N = Registered', TodoOK'
  PROVE  CalledAlive'
<1>1. N = Members'
  BY RingMembers DEF Members
<1>2. QED
  BY <1>1 DEF CalledAlive, TodoOK, Elements

(* The list stays as it is.                                                *)
LEMMA AliveKept ==
  ASSUME CalledAlive, UNCHANGED mCancellers, Registered' = Registered,
         (~mCanceled \/ Cancelling)' => (~mCanceled \/ Cancelling), TodoOK'
  PROVE  CalledAlive'
<1> DEFINE N == Members
<1>1. /\ N \subseteq Tasks /\ mCancellers' \in List!Lists
      /\ List!Ring(mCancellers', N) /\ N \subseteq Registered'
      /\ (~mCanceled \/ Cancelling)' => N = Registered'
  BY AliveFacts
<1> HIDE DEF N
<1>2. QED
  BY <1>1, AliveNext

(* Nothing is to be called while the loop runs.                            *)
LEMMA NoTodo == ASSUME Control, stack = << >> PROVE todo = << >> /\ Elements(todo) = {}
<1>1. Elements(stack) = {} /\ Elements(<< >>) = {}
  BY DEF Elements
<1>2. todo # << >> => FALSE
  BY <1>1, TasksFacts DEF Control, WinnerOK, StackOK, Types
<1>3. QED
  BY <1>1, <1>2

(* A task that neither cancels nor ends moves on.                          *)
LEMMA WinnerKept ==
  ASSUME Types, WinnerOK, NEW c \in Tasks,
         pc[c] \in {"new", "running", "waiting"}, pc'[c] \in {"new", "running", "waiting"},
         \A d \in Tasks \ {c} : pc'[d] = pc[d],
         UNCHANGED <<mCanceled, winner, pending, result>>,
         todo' # << >> => todo # << >>
  PROVE  WinnerOK' /\ (Cancelling' <=> Cancelling)
<1>1. winner # None => winner \in Tasks \ {c} /\ pc'[winner] = pc[winner]
  BY DEF Types, WinnerOK
<1>2. \A d \in Tasks : pc'[d] \in {"calling", "suspended"} => d # c /\ pc'[d] = pc[d]
  OBVIOUS
<1>3. \A d \in Tasks : pc'[d] = "done" => d # c /\ pc'[d] = pc[d]
  OBVIOUS
<1>4. /\ mCanceled' <=> winner' # None
      /\ \A d \in Tasks : pc'[d] \in {"calling", "suspended"} => d = winner'
      /\ \A d \in Tasks : pc'[d] = "done" => winner' # None
    BY <1>2, <1>3 DEF WinnerOK
<1>5. /\ winner' # None => pc'[winner'] \in {"calling", "suspended", "done"}
      /\ winner' # None /\ pc'[winner'] = "done" => result' = winner'
      /\ pending' # {} => winner' # None /\ pc'[winner'] # "done"
      /\ todo' # << >> => winner' # None /\ pc'[winner'] = "calling"
    BY <1>1 DEF WinnerOK
<1>6. QED
  BY <1>1, <1>4, <1>5 DEF WinnerOK, Cancelling

------------------------------------------------------------------------------
(* The invariant holds initially and every step preserves it.              *)

LEMMA InitInv == Init => Inv
<1> SUFFICES ASSUME Init PROVE Inv
  OBVIOUS
<1>1. stack = <<Caller>> /\ <<Caller>> \in Seq(Coroutines)
      /\ Injective(<<Caller>>) /\ Elements(<<Caller>>) = {Caller}
  <2>1. Caller \in Coroutines
    BY DEF Coroutines
  <2>2. QED
    BY <2>1, OneOnStack DEF Init
<1>2. /\ \A c \in Tasks : pc[c] = "new" /\ c # Caller
      /\ pc[Caller] = "running" /\ pc \in [Coroutines -> PCs]
  BY TasksFacts DEF Init, Coroutines, PCs
<1>3. Types
  BY <1>1, <1>2 DEF Init, Types, OpStates
<1>4. StackOK
  BY <1>1, <1>2 DEF StackOK
<1>5. CallerOK
  BY <1>2, TasksFacts DEF CallerOK
<1>6. CountOK
  <2>1. {c \in Tasks : pc[c] # "done"} = Tasks
    BY <1>2
  <2>2. QED
    BY <2>1, TasksFacts DEF Init, CountOK, Count
<1>7. WinnerOK
  BY <1>2 DEF Init, WinnerOK
<1>8. WaitingOK
  BY <1>2 DEF Init, WaitingOK
<1>9. todo = << >> /\ Injective(todo)
  BY DEF Init, Injective
<1>10. CalledAlive
  <2>1. Registered = {}
    BY <1>2 DEF Registered
  <2>2. mCancellers \in List!Lists /\ List!Ring(mCancellers, {})
    BY EmptyRing DEF Init
  <2>3. Members = {}
    BY <2>2, RingMembers DEF Members
  <2>4. QED
    BY <1>9, <2>1, <2>2, <2>3 DEF CalledAlive
<1>11. QED
  BY <1>3, <1>4, <1>5, <1>6, <1>7, <1>8, <1>9, <1>10 DEF Inv, Control

LEMMA StutterInv == ASSUME Inv, UNCHANGED vars PROVE Inv'
<1>1. Control'
  BY DEF Inv, Control, Types, StackOK, CallerOK, CountOK, WinnerOK, WaitingOK, vars,
         opVars, cancelVars
<1>2. CalledAlive' /\ Injective(todo)'
  BY DEF Inv, CalledAlive, Registered, Cancelling, Members, vars, opVars, cancelVars
<1>3. QED
  BY <1>1, <1>2 DEF Inv

LEMMA StartTaskInv == ASSUME Inv, NEW c \in Tasks, StartTask(c) PROVE Inv'
<1>1. /\ Types /\ StackOK /\ CallerOK /\ CountOK /\ WinnerOK /\ WaitingOK
      /\ CalledAlive /\ Injective(todo)
  BY DEF Inv, Control
<1>2. /\ OnTop(Caller) /\ pc[Caller] = "running" /\ pc[c] = "new" /\ c # Caller
      /\ UNCHANGED <<opVars, cancelVars, mCount, result>>
      /\ pc \in [Coroutines -> PCs] /\ c \in Coroutines
  BY <1>1, TasksFacts DEF StartTask, Types, Coroutines
<1>3. /\ pc' \in [Coroutines -> PCs] /\ pc'[c] = "running"
      /\ \A d \in Tasks \ {c} : pc'[d] = pc[d]
      /\ pc'[Caller] = IF c = NumTasks THEN "suspended" ELSE "running"
  BY <1>2, TasksFacts DEF StartTask, PCs, Coroutines
<1>4. c \notin Elements(stack)
  BY <1>1, <1>2 DEF StackOK
<1>5. /\ stack' \in Seq(Coroutines) /\ Injective(stack')
      /\ Elements(stack') = (IF c = NumTasks THEN Elements(stack) \ {Caller}
                                             ELSE Elements(stack)) \cup {c}
  <2>1. /\ Pop \in Seq(Coroutines) /\ Injective(Pop)
        /\ Elements(Pop) = Elements(stack) \ {Caller}
    BY <1>1, <1>2, PopFacts
  <2>2. stack \in Seq(Coroutines) /\ Injective(stack)
    BY <1>1 DEF Types, StackOK
  <2>3. CASE c = NumTasks
    <3>1. stack' = Append(Pop, c) /\ c \notin Elements(Pop)
      BY <1>4, <2>1, <2>3 DEF StartTask
    <3>2. QED
      BY <1>2, <2>1, <2>3, <3>1, PushStack
  <2>4. CASE c # NumTasks
    <3>1. stack' = Append(stack, c)
      BY <2>4 DEF StartTask
    <3>2. QED
      BY <1>2, <1>4, <2>2, <2>4, <3>1, PushStack
  <2>5. QED
    BY <2>3, <2>4
<1>6. mCount # 0
  BY <1>1, <1>2, ActiveFacts DEF Active
<1>7. Types'
  BY <1>1, <1>2, <1>3, <1>5 DEF Types, opVars, cancelVars
<1>8. StackOK'
  <2>1. \A d \in Tasks : d \in Elements(stack)' <=> pc'[d] \in {"running", "calling"}
    BY <1>1, <1>3, <1>5, TasksFacts DEF StackOK
  <2>2. Caller \in Elements(stack)' <=> c # NumTasks
    BY <1>1, <1>2, <1>5, PopFacts
  <2>3. QED
    BY <1>2, <1>3, <1>5, <1>6, <2>1, <2>2 DEF StackOK
<1>9. CallerOK'
  BY <1>1, <1>2, <1>3, TasksFacts DEF CallerOK
<1>10. CountOK'
  <2>1. {d \in Tasks : pc'[d] # "done"} = {d \in Tasks : pc[d] # "done"}
    BY <1>2, <1>3
  <2>2. QED
    BY <1>1, <1>2, <2>1 DEF CountOK
<1>11. WinnerOK' /\ (Cancelling' <=> Cancelling)
  BY <1>1, <1>2, <1>3, WinnerKept DEF cancelVars
<1>12. WaitingOK'
  BY <1>1, <1>2, <1>3 DEF WaitingOK, opVars
<1>13. CalledAlive'
  <2>1. Registered' = Registered
    BY <1>2, <1>3 DEF Registered, opVars
  <2>2. TodoOK'
    BY <1>1, <1>2, <2>1, AliveFacts DEF TodoOK, opVars, cancelVars
  <2>3. QED
    BY <1>1, <1>2, <1>11, <2>1, <2>2, AliveKept DEF cancelVars
<1>14. Injective(todo)'
  BY <1>1, <1>2 DEF cancelVars
<1>15. QED
  BY <1>7, <1>8, <1>9, <1>10, <1>11, <1>12, <1>13, <1>14 DEF Inv, Control
(* Shared by BeginRequest and co_sleep.                                    *)
LEMMA BeginInv ==
  ASSUME Inv, NEW c \in Tasks, OnTop(c), pc[c] = "running",
         op' = [op EXCEPT ![c] = "flight"], pc' = [pc EXCEPT ![c] = "waiting"],
         stack' = Pop,
         IF kind[c] = "plain" THEN UNCHANGED mCancellers ELSE doRegister(c),
         UNCHANGED <<kind, mCanceled, winner, todo, pending, cancelOp, mCount, result>>
  PROVE  Inv'
<1>1. /\ Types /\ StackOK /\ CallerOK /\ CountOK /\ WinnerOK /\ WaitingOK
      /\ CalledAlive /\ Injective(todo)
  BY DEF Inv, Control
<1>2. /\ pc' \in [Coroutines -> PCs] /\ pc'[c] = "waiting" /\ c # Caller
      /\ \A d \in Coroutines \ {c} : pc'[d] = pc[d]
      /\ op' \in [Tasks -> OpStates] /\ op'[c] = "flight"
      /\ \A d \in Tasks \ {c} : op'[d] = op[d]
  BY <1>1, TasksFacts DEF Types, Coroutines, PCs, OpStates
<1>3. /\ stack' \in Seq(Coroutines) /\ Injective(stack')
      /\ Elements(stack') = Elements(stack) \ {c}
  BY <1>1, PopFacts
<1>4. Types'
  BY <1>1, <1>2, <1>3 DEF Types
<1>5. StackOK'
  <2>1. \A d \in Tasks : d \in Elements(stack)' <=> pc'[d] \in {"running", "calling"}
    BY <1>1, <1>2, <1>3 DEF StackOK, Coroutines
  <2>2. QED
    BY <1>1, <1>2, <1>3, <2>1 DEF StackOK, Coroutines
<1>6. CallerOK'
  BY <1>1, <1>2, TasksFacts DEF CallerOK, Coroutines
<1>7. CountOK'
  <2>1. {d \in Tasks : pc'[d] # "done"} = {d \in Tasks : pc[d] # "done"}
    BY <1>2 DEF Coroutines
  <2>2. QED
    BY <1>1, <2>1 DEF CountOK
<1>8. WinnerOK' /\ (Cancelling' <=> Cancelling)
  BY <1>1, <1>2, WinnerKept DEF Coroutines
<1>9. WaitingOK'
  BY <1>1, <1>2 DEF WaitingOK, Coroutines
<1>10. Registered' = IF kind[c] = "plain" THEN Registered ELSE Registered \cup {c}
  BY <1>2 DEF Registered, Coroutines
<1>11. c \notin Registered
  BY DEF Registered
<1>12. TodoOK'
  BY <1>1, <1>2, <1>10, <1>11, AliveFacts DEF TodoOK, Registered
<1>13. CalledAlive'
  <2>1. CASE kind[c] = "plain"
    BY <1>1, <1>8, <1>10, <1>12, <2>1, AliveKept
  <2>2. CASE kind[c] # "plain"
    <3> DEFINE N == Members \cup {c}
    <3>1. c \notin Members /\ Members \subseteq Tasks /\ N \subseteq Tasks
      BY <1>1, <1>11, AliveFacts
    <3>2. mCancellers' \in List!Lists /\ List!Ring(mCancellers', N)
      BY <1>1, <2>2, <3>1, AliveFacts, PushRing DEF doRegister
    <3>3. N \subseteq Registered' /\ ((~mCanceled \/ Cancelling)' => N = Registered')
      BY <1>1, <1>8, <1>10, <2>2, AliveFacts
    <3> HIDE DEF N
    <3>4. QED
      BY <1>12, <3>1, <3>2, <3>3, AliveNext
  <2>3. QED
    BY <2>1, <2>2
<1>14. Injective(todo)'
  BY <1>1
<1>15. QED
  BY <1>4, <1>5, <1>6, <1>7, <1>8, <1>9, <1>13, <1>14 DEF Inv, Control

LEMMA BeginRequestInv == ASSUME Inv, NEW c \in Tasks, BeginRequest(c) PROVE Inv'
  BY BeginInv DEF BeginRequest

LEMMA SleepInv == ASSUME Inv, NEW c \in Tasks, co_sleep(c) PROVE Inv'
<1>1. IF kind[c] = "plain" THEN UNCHANGED mCancellers ELSE doRegister(c)
  BY DEF co_sleep
<1>2. QED
  BY <1>1, BeginInv DEF co_sleep

(* Shared by TakeCompletion, FireTimer and CallSleeper: a task whose await *)
(* ended goes on, on top of the stack.                                     *)
LEMMA EndInv ==
  ASSUME Inv, NEW c \in Tasks, NEW how, pc[c] = "waiting", EndOp(c, how),
         pc' = [pc EXCEPT ![c] = "running"],
         stack' \in Seq(Coroutines), Injective(stack'),
         Elements(stack') = Elements(stack) \cup {c},
         UNCHANGED <<kind, mCanceled, winner, pending, cancelOp, mCount, result>>,
         todo' \in Seq(Tasks), Injective(todo'), todo' # << >> => todo # << >>,
         Elements(todo') \subseteq Elements(todo) \ {c}
  PROVE  Inv'
<1>1. /\ Types /\ StackOK /\ CallerOK /\ CountOK /\ WinnerOK /\ WaitingOK
      /\ CalledAlive /\ Injective(todo)
  BY DEF Inv, Control
<1>2. /\ pc' \in [Coroutines -> PCs] /\ pc'[c] = "running" /\ c # Caller
      /\ \A d \in Coroutines \ {c} : pc'[d] = pc[d]
      /\ op' \in [Tasks -> OpStates] /\ op'[c] = "none"
      /\ \A d \in Tasks \ {c} : op'[d] = op[d]
  BY <1>1, TasksFacts DEF Types, Coroutines, PCs, OpStates, EndOp
<1>3. Types'
  BY <1>1, <1>2 DEF Types
<1>4. StackOK'
  <2>1. \A d \in Tasks : d \in Elements(stack)' <=> pc'[d] \in {"running", "calling"}
    BY <1>1, <1>2 DEF StackOK, Coroutines
  <2>2. QED
    BY <1>1, <1>2, <2>1 DEF StackOK, Coroutines
<1>5. CallerOK'
  BY <1>1, <1>2, TasksFacts DEF CallerOK, Coroutines
<1>6. CountOK'
  <2>1. {d \in Tasks : pc'[d] # "done"} = {d \in Tasks : pc[d] # "done"}
    BY <1>2 DEF Coroutines
  <2>2. QED
    BY <1>1, <2>1 DEF CountOK
<1>7. WinnerOK' /\ (Cancelling' <=> Cancelling)
  BY <1>1, <1>2, WinnerKept DEF Coroutines
<1>8. WaitingOK'
  BY <1>1, <1>2 DEF WaitingOK, Coroutines
<1>9. Registered' = Registered \ {c}
  BY <1>2 DEF Registered, Coroutines
<1>10. TodoOK'
  BY <1>1, <1>2, <1>9, AliveFacts DEF TodoOK, Registered
<1>11. CalledAlive'
  <2> DEFINE N == Members \ {c}
  <2>1. N \subseteq Tasks /\ Members \subseteq Tasks
    BY <1>1, AliveFacts
  <2>2. mCancellers' \in List!Lists /\ List!Ring(mCancellers', N)
    BY <1>1, <2>1, AliveFacts, UnlinkRing DEF EndOp
  <2>3. N \subseteq Registered' /\ ((~mCanceled \/ Cancelling)' => N = Registered')
    BY <1>1, <1>7, <1>9, AliveFacts
  <2> HIDE DEF N
  <2>4. QED
    BY <1>10, <2>1, <2>2, <2>3, AliveNext
<1>12. QED
  BY <1>3, <1>4, <1>5, <1>6, <1>7, <1>8, <1>11 DEF Inv, Control

LEMMA ResumedInv ==
  ASSUME Inv, NEW c \in Tasks, TakeCompletion(c) \/ FireTimer(c)
  PROVE  Inv'
<1>1. /\ stack = << >> /\ pc[c] = "waiting" /\ stack' = <<c>>
      /\ pc' = [pc EXCEPT ![c] = "running"]
      /\ UNCHANGED <<kind, mCanceled, winner, todo, pending, cancelOp, mCount, result>>
      /\ \E how : EndOp(c, how)
  BY DEF TakeCompletion, FireTimer
<1>2. todo = << >> /\ Elements(todo) = {} /\ todo \in Seq(Tasks) /\ Injective(todo)
  BY <1>1, NoTodo DEF Inv, Control, Types
<1>3. /\ <<c>> \in Seq(Coroutines) /\ Injective(<<c>>)
      /\ Elements(<<c>>) = Elements(stack) \cup {c}
  <2>1. c \in Coroutines
    BY DEF Coroutines
  <2>2. Elements(stack) = {}
    BY <1>1 DEF Elements
  <2>3. QED
    BY <2>1, <2>2, OneOnStack
<1>4. QED
  BY <1>1, <1>2, <1>3, EndInv

LEMMA CallSleeperInv == ASSUME Inv, NEW c \in Tasks, CallSleeper(c) PROVE Inv'
<1> DEFINE d == Head(todo)
<1>1. Types /\ StackOK /\ CalledAlive /\ Injective(todo)
  BY DEF Inv, Control
<1>2. /\ todo # << >> /\ todo' = Tail(todo) /\ EndOp(d, "cancelled")
      /\ pc' = [pc EXCEPT ![d] = "running"] /\ stack' = Append(stack, d)
      /\ UNCHANGED <<kind, mCanceled, winner, pending, cancelOp, mCount, result>>
  BY DEF CallSleeper
<1>3. /\ d \in Tasks /\ d \in Elements(todo)
      /\ todo' \in Seq(Tasks) /\ Injective(todo')
      /\ Elements(todo') \subseteq Elements(todo) \ {d}
  BY <1>1, <1>2, TailRest DEF Types
<1>4. pc[d] = "waiting"
  BY <1>1, <1>3, AliveFacts DEF TodoOK, Registered
<1>5. /\ stack' \in Seq(Coroutines) /\ Injective(stack')
      /\ Elements(stack') = Elements(stack) \cup {d}
  <2>1. d \in Coroutines /\ d \notin Elements(stack) /\ stack \in Seq(Coroutines) /\ Injective(stack)
    BY <1>1, <1>3, <1>4 DEF StackOK, Types, Coroutines
  <2> HIDE DEF d
  <2>2. QED
    BY <1>2, <2>1, PushStack
<1> HIDE DEF d
<1>6. QED
  BY <1>2, <1>3, <1>4, <1>5, EndInv

(* Steps that leave the tasks where they are.                              *)
LEMMA PlacesKept ==
  ASSUME Inv, Types', UNCHANGED <<kind, pc, stack, mCancellers, mCanceled, winner,
                                  mCount, result>>,
         \A c \in Tasks : op'[c] # "none" <=> op[c] # "none",
         pending' # {} => winner # None /\ pc[winner] # "done",
         todo' # << >> => todo # << >>,
         Injective(todo'), Elements(todo') \subseteq Elements(todo)
  PROVE  Inv'
<1>1. /\ Types /\ StackOK /\ CallerOK /\ CountOK /\ WinnerOK /\ WaitingOK
      /\ CalledAlive /\ Injective(todo)
  BY DEF Inv, Control
<1>2. StackOK' /\ CallerOK' /\ CountOK'
  BY <1>1 DEF StackOK, CallerOK, CountOK
<1>3. WinnerOK'
  BY <1>1 DEF WinnerOK
<1>4. WaitingOK'
  BY <1>1 DEF WaitingOK
<1>5. Registered' = Registered /\ (Cancelling' <=> Cancelling)
  BY DEF Registered, Cancelling
<1>6. TodoOK'
  BY <1>1, <1>5, AliveFacts DEF TodoOK, Registered
<1>7. CalledAlive'
  BY <1>1, <1>5, <1>6, AliveKept
<1>8. QED
  BY <1>2, <1>3, <1>4, <1>7 DEF Inv, Control

LEMMA KernelCompletesInv == ASSUME Inv, NEW c \in Tasks, KernelCompletes(c) PROVE Inv'
<1>1. /\ UNCHANGED <<kind, cancelVars, pc, mCount, result, stack>>
      /\ op[c] = "flight" /\ op' = [op EXCEPT ![c] = "ok"]
      /\ Types /\ WinnerOK /\ Injective(todo)
  BY DEF KernelCompletes, Inv, Control
<1>2. Types' /\ \A d \in Tasks : op'[d] # "none" <=> op[d] # "none"
  BY <1>1 DEF Types, OpStates, cancelVars
<1>3. QED
  BY <1>1, <1>2, PlacesKept DEF cancelVars, WinnerOK

LEMMA KernelCancelsInv == ASSUME Inv, NEW c \in Tasks, KernelCancels(c) PROVE Inv'
<1>1. /\ UNCHANGED <<kind, mCancellers, mCanceled, winner, todo, pending, pc, mCount,
                     result, stack>>
      /\ cancelOp' = [cancelOp EXCEPT ![c] = "ok"]
      /\ \/ op' = [op EXCEPT ![c] = IF @ = "flight" THEN "cancelled" ELSE @]
         \/ UNCHANGED op
      /\ Types /\ WinnerOK /\ Injective(todo)
  BY DEF KernelCancels, Inv, Control
<1>2. Types' /\ \A d \in Tasks : op'[d] # "none" <=> op[d] # "none"
  BY <1>1 DEF Types, OpStates
<1>3. QED
  BY <1>1, <1>2, PlacesKept DEF WinnerOK

LEMMA CallGuardInv == ASSUME Inv, NEW c \in Tasks, CallGuard(c) PROVE Inv'
<1> DEFINE d == Head(todo)
<1>1. Types /\ WinnerOK /\ Injective(todo)
  BY DEF Inv, Control
<1>2. /\ todo # << >> /\ todo' = Tail(todo) /\ pending' = pending \cup {d}
      /\ cancelOp' = [cancelOp EXCEPT ![d] = "flight"]
      /\ UNCHANGED <<opVars, mCancellers, mCanceled, winner, pc, mCount, result, stack>>
  BY DEF CallGuard
<1>3. /\ d \in Tasks /\ todo' \in Seq(Tasks) /\ Injective(todo')
      /\ Elements(todo') \subseteq Elements(todo)
  BY <1>1, <1>2, TailRest DEF Types
<1> HIDE DEF d
<1>4. Types'
  BY <1>1, <1>2, <1>3 DEF Types, OpStates, opVars
<1>5. winner # None /\ pc[winner] # "done"
  BY <1>1, <1>2 DEF WinnerOK
<1>6. QED
  BY <1>2, <1>3, <1>4, <1>5, PlacesKept DEF opVars
LEMMA FinishFirstInv == ASSUME Inv, NEW c \in Tasks, FinishFirst(c) PROVE Inv'
<1>1. /\ Types /\ StackOK /\ CallerOK /\ CountOK /\ WinnerOK /\ WaitingOK
      /\ CalledAlive
  BY DEF Inv, Control
<1>2. /\ OnTop(c) /\ pc[c] = "running" /\ ~mCanceled /\ mCanceled' = TRUE /\ winner' = c
      /\ todo' = List!Visited(mCancellers) /\ pc' = [pc EXCEPT ![c] = "calling"]
      /\ UNCHANGED <<opVars, mCancellers, pending, cancelOp, aim, mCount, result, stack>>
      /\ c # Caller /\ c # None
  BY TasksFacts DEF FinishFirst, Finished, is_canceled, doCancel
<1>3. /\ pc' \in [Coroutines -> PCs] /\ pc'[c] = "calling"
      /\ \A d \in Coroutines \ {c} : pc'[d] = pc[d]
  BY <1>1, <1>2 DEF Types, PCs, Coroutines
<1>4. /\ Members \subseteq Tasks /\ List!Visited(mCancellers) \in Seq(Members)
      /\ Injective(List!Visited(mCancellers)) /\ Members = Registered
  BY <1>1, <1>2, AliveFacts, VisitedMembers
<1>5. Injective(todo') /\ todo' \in Seq(Tasks) /\ Elements(todo') \subseteq Registered
  BY <1>2, <1>4 DEF Elements
<1>6. winner = None /\ pending = {}
  BY <1>1, <1>2 DEF WinnerOK
<1>7. Types'
  BY <1>1, <1>2, <1>3, <1>5 DEF Types, opVars
<1>8. StackOK'
  BY <1>1, <1>2, <1>3 DEF StackOK, Coroutines
<1>9. CallerOK'
  BY <1>1, <1>2, <1>3, TasksFacts DEF CallerOK, Coroutines
<1>10. CountOK'
  <2>1. {d \in Tasks : pc'[d] # "done"} = {d \in Tasks : pc[d] # "done"}
    BY <1>2, <1>3 DEF Coroutines
  <2>2. QED
    BY <1>1, <1>2, <2>1 DEF CountOK
<1>11. WinnerOK'
  <2>1. mCanceled' <=> winner' # None
    BY <1>2
  <2>2. \A d \in Tasks : pc'[d] \in {"calling", "suspended"} => d = winner'
    BY <1>1, <1>2, <1>3, <1>6, TasksFacts DEF WinnerOK, Coroutines
  <2>3. winner' # None /\ pc'[winner'] = "calling" /\ pending' = {}
    BY <1>2, <1>3, <1>6
  <2>4. QED
    BY <2>1, <2>2, <2>3 DEF WinnerOK
<1>12. WaitingOK'
  BY <1>1, <1>2, <1>3 DEF WaitingOK, Coroutines, opVars
<1>13. Registered' = Registered
  BY <1>2, <1>3 DEF Registered, Coroutines, opVars
<1>14. TodoOK'
  BY <1>1, <1>2, <1>5, <1>13 DEF TodoOK, WaitingOK, Registered, opVars
<1>15. CalledAlive'
  BY <1>1, <1>2, <1>13, <1>14, AliveKept
<1>16. QED
  BY <1>5, <1>7, <1>8, <1>9, <1>10, <1>11, <1>12, <1>15 DEF Inv, Control

LEMMA AwaitCallbacksInv == ASSUME Inv, NEW c \in Tasks, AwaitCallbacks(c) PROVE Inv'
<1>1. /\ Types /\ StackOK /\ CallerOK /\ CountOK /\ WinnerOK /\ WaitingOK
      /\ CalledAlive /\ Injective(todo)
  BY DEF Inv, Control
<1>2. /\ OnTop(c) /\ pc[c] = "calling" /\ todo = << >> /\ stack' = Pop
      /\ pc' = [pc EXCEPT ![c] = "suspended"]
      /\ UNCHANGED <<opVars, cancelVars, mCount, result>> /\ c # Caller
  BY TasksFacts DEF AwaitCallbacks
<1>3. /\ pc' \in [Coroutines -> PCs] /\ pc'[c] = "suspended"
      /\ \A d \in Coroutines \ {c} : pc'[d] = pc[d]
  BY <1>1, <1>2 DEF Types, PCs, Coroutines
<1>4. /\ stack' \in Seq(Coroutines) /\ Injective(stack')
      /\ Elements(stack') = Elements(stack) \ {c}
  BY <1>1, <1>2, PopFacts
<1>5. Types'
  BY <1>1, <1>2, <1>3, <1>4 DEF Types, opVars, cancelVars
<1>6. StackOK'
  <2>1. \A d \in Tasks : d \in Elements(stack)' <=> pc'[d] \in {"running", "calling"}
    BY <1>1, <1>2, <1>3, <1>4 DEF StackOK, Coroutines
  <2>2. QED
    BY <1>1, <1>2, <1>3, <1>4, <2>1 DEF StackOK, Coroutines
<1>7. CallerOK'
  BY <1>1, <1>2, <1>3, TasksFacts DEF CallerOK, Coroutines
<1>8. CountOK'
  <2>1. {d \in Tasks : pc'[d] # "done"} = {d \in Tasks : pc[d] # "done"}
    BY <1>2, <1>3 DEF Coroutines
  <2>2. QED
    BY <1>1, <1>2, <2>1 DEF CountOK
<1>9. c = winner /\ winner # None
  BY <1>1, <1>2, TasksFacts DEF WinnerOK
<1>10. WinnerOK'
  BY <1>1, <1>2, <1>3, <1>9 DEF WinnerOK, Coroutines, cancelVars
<1>11. WaitingOK'
  BY <1>1, <1>2, <1>3 DEF WaitingOK, Coroutines, opVars
<1>12. Registered' = Registered
  BY <1>2, <1>3 DEF Registered, Coroutines, opVars
<1>13. Cancelling' => Cancelling
  BY <1>2, <1>9 DEF Cancelling
<1>14. TodoOK'
  BY <1>1, <1>2, <1>12, AliveFacts DEF TodoOK, opVars, cancelVars
<1>15. CalledAlive'
  BY <1>1, <1>2, <1>12, <1>13, <1>14, AliveKept DEF cancelVars
<1>16. QED
  BY <1>1, <1>2, <1>5, <1>6, <1>7, <1>8, <1>10, <1>11, <1>15 DEF Inv, Control, cancelVars

(* A task that ends leaves one fewer, and the last one to end resumes the  *)
(* caller, which all of them have kept waiting.                            *)
LEMMA HelperFacts ==
  ASSUME Inv, NEW c \in Tasks, OnTop(c), pc[c] \in {"running", "calling"},
         HelperReturns(c)
  PROVE  /\ pc' = [pc EXCEPT ![c] = "done"] /\ pc' \in [Coroutines -> PCs]
         /\ stack' \in Seq(Coroutines) /\ StackOK' /\ CallerOK' /\ CountOK'
<1>1. Types /\ StackOK /\ CallerOK /\ CountOK /\ c # Caller
  BY TasksFacts DEF Inv, Control
<1>2. /\ pc' = [pc EXCEPT ![c] = "done"] /\ mCount' = mCount - 1
      /\ stack' = Pop \o (IF mCount' = 0 THEN <<Caller>> ELSE << >>)
  BY DEF HelperReturns, ReturnPrevious
<1>3. /\ pc' \in [Coroutines -> PCs] /\ pc'[c] = "done"
      /\ \A d \in Coroutines \ {c} : pc'[d] = pc[d]
  BY <1>1, <1>2 DEF Types, PCs, Coroutines
<1>4. /\ Pop \in Seq(Coroutines) /\ Injective(Pop) /\ Elements(Pop) = Elements(stack) \ {c}
  BY <1>1, PopFacts
<1>5. IsFiniteSet(Active) /\ mCount = Cardinality(Active) /\ mCount # 0 /\ c \in Active
  BY <1>1, ActiveFacts DEF Active
<1>6. {d \in Tasks : pc'[d] # "done"} = Active \ {c}
  BY <1>3 DEF Active, Coroutines
<1>7. /\ mCount' = Cardinality(Active \ {c})
      /\ mCount' = 0 <=> Active \ {c} = {}
  <2>1. IsFiniteSet(Active \ {c}) /\ Cardinality(Active \ {c}) = Cardinality(Active) - 1
    BY <1>5, FS_RemoveElement
  <2>2. QED
    BY <1>2, <1>5, <2>1, FS_EmptySet
<1>8. CountOK'
  BY <1>6, <1>7 DEF CountOK
<1>9. CallerOK'
  <2>1. NumTasks \in Tasks /\ NumTasks \in Coroutines
    BY TasksFacts DEF Coroutines
  <2>2. pc'[Caller] = pc[Caller]
    BY <1>1, <1>3 DEF Coroutines
  <2>3. pc[NumTasks] = "new" => NumTasks # c
    OBVIOUS
  <2>4. pc[NumTasks] = "new" => pc'[NumTasks] = "new"
    BY <1>3, <2>1, <2>3
  <2>5. pc[Caller] # "done"
    BY <1>1, <1>5 DEF CallerOK
  <2>6. QED
    BY <1>1, <2>2, <2>4, <2>5 DEF CallerOK
<1>10. Caller \in Elements(Pop) <=> pc[Caller] = "running"
  BY <1>1, <1>4, <1>5 DEF StackOK
<1>11. stack' \in Seq(Coroutines) /\ StackOK'
  <2>1. CASE mCount' = 0
    <3>1. pc[Caller] = "suspended" /\ pc'[Caller] = "suspended"
      <4>1. \A d \in Tasks : pc'[d] = "done"
        BY <1>6, <1>7, <2>1
      <4>2. pc'[NumTasks] # "new" /\ pc[Caller] # "done" /\ pc'[Caller] = pc[Caller]
        BY <1>1, <1>3, <1>5, <4>1, TasksFacts DEF CallerOK, Coroutines
      <4>3. QED
        BY <1>9, <1>1, <4>2 DEF CallerOK
    <3>2. stack' = Append(Pop, Caller)
      <4>1. Caller \in Coroutines
        BY DEF Coroutines
      <4>2. QED
        BY <1>2, <1>4, <2>1, <4>1, AppendIsConcat
    <3>3. /\ stack' \in Seq(Coroutines) /\ Injective(stack')
          /\ Elements(stack') = Elements(Pop) \cup {Caller}
      <4>1. Caller \in Coroutines /\ Caller \notin Elements(Pop)
        BY <1>10, <3>1 DEF Coroutines
      <4>2. QED
        BY <1>4, <3>2, <4>1, PushStack
    <3>4. \A d \in Tasks : d \in Elements(stack') <=> pc'[d] \in {"running", "calling"}
      BY <1>1, <1>3, <1>4, <3>3, TasksFacts DEF StackOK, Coroutines
    <3>5. QED
      BY <2>1, <3>1, <3>3, <3>4 DEF StackOK
  <2>2. CASE mCount' # 0
    <3>1. stack' = Pop
      BY <1>2, <1>4, <2>2
    <3>2. \A d \in Tasks : d \in Elements(stack') <=> pc'[d] \in {"running", "calling"}
      BY <1>1, <1>3, <1>4, <3>1 DEF StackOK, Coroutines
    <3>3. pc'[Caller] = pc[Caller]
      BY <1>1, <1>3 DEF Coroutines
    <3>4. QED
      BY <1>4, <1>10, <2>2, <3>1, <3>2, <3>3 DEF StackOK
  <2>3. QED
    BY <2>1, <2>2
<1>12. QED
  BY <1>2, <1>3, <1>8, <1>9, <1>11

LEMMA FinishLateInv == ASSUME Inv, NEW c \in Tasks, FinishLate(c) PROVE Inv'
<1>1. /\ Types /\ StackOK /\ WinnerOK /\ WaitingOK /\ CalledAlive /\ Injective(todo)
  BY DEF Inv, Control
<1>2. /\ OnTop(c) /\ pc[c] = "running" /\ mCanceled /\ HelperReturns(c)
      /\ UNCHANGED <<opVars, cancelVars, result>>
  BY DEF FinishLate, Finished, is_canceled
<1>3. /\ pc' = [pc EXCEPT ![c] = "done"] /\ pc' \in [Coroutines -> PCs]
      /\ stack' \in Seq(Coroutines) /\ StackOK' /\ CallerOK' /\ CountOK'
  BY <1>2, HelperFacts
<1>4. pc'[c] = "done" /\ \A d \in Coroutines \ {c} : pc'[d] = pc[d]
  BY <1>1, <1>3 DEF Types, Coroutines
<1>5. Types'
  BY <1>1, <1>2, <1>3 DEF Types, opVars, cancelVars
<1>6. winner \in Tasks \ {c} /\ winner # None /\ pc'[winner] = pc[winner]
  BY <1>1, <1>2, <1>4, TasksFacts DEF Types, WinnerOK, Coroutines
<1>7. WinnerOK'
  BY <1>1, <1>2, <1>4, <1>6 DEF WinnerOK, Coroutines, cancelVars
<1>8. WaitingOK'
  BY <1>1, <1>2, <1>4 DEF WaitingOK, Coroutines, opVars
<1>9. Registered' = Registered
  BY <1>2, <1>4 DEF Registered, Coroutines, opVars
<1>10. Cancelling' => Cancelling
  BY <1>2, <1>6 DEF Cancelling, cancelVars
<1>11. TodoOK'
  BY <1>1, <1>2, <1>9, AliveFacts DEF TodoOK, opVars, cancelVars
<1>12. CalledAlive'
  BY <1>1, <1>2, <1>9, <1>10, <1>11, AliveKept DEF cancelVars
<1>13. QED
  BY <1>1, <1>2, <1>3, <1>5, <1>7, <1>8, <1>12 DEF Inv, Control, cancelVars

LEMMA FinishCancelInv == ASSUME Inv, NEW c \in Tasks, FinishCancel(c) PROVE Inv'
<1>1. /\ Types /\ WinnerOK /\ WaitingOK /\ CalledAlive /\ Injective(todo)
  BY DEF Inv, Control
<1>2. /\ OnTop(c) /\ pc[c] = "calling" /\ todo = << >> /\ pending = {} /\ result' = c
      /\ mCancellers' = List!EmptyList /\ HelperReturns(c)
      /\ UNCHANGED <<opVars, mCanceled, winner, todo, pending, cancelOp, aim>>
  BY DEF FinishCancel, List!doClear
<1>3. /\ pc' = [pc EXCEPT ![c] = "done"] /\ pc' \in [Coroutines -> PCs]
      /\ stack' \in Seq(Coroutines) /\ StackOK' /\ CallerOK' /\ CountOK'
  BY <1>2, HelperFacts
<1>4. pc'[c] = "done" /\ \A d \in Coroutines \ {c} : pc'[d] = pc[d]
  BY <1>1, <1>3 DEF Types, Coroutines
<1>5. Types'
  BY <1>1, <1>2, <1>3 DEF Types, opVars
<1>6. c = winner /\ winner # None /\ mCanceled
  BY <1>1, <1>2, TasksFacts DEF WinnerOK
<1>7. WinnerOK'
  BY <1>1, <1>2, <1>4, <1>6 DEF WinnerOK, Coroutines
<1>8. WaitingOK'
  BY <1>1, <1>2, <1>4 DEF WaitingOK, Coroutines, opVars
<1>9. Elements(todo') = {}
  BY <1>2 DEF Elements
<1>10. CalledAlive'
  <2> DEFINE N == {}
  <2>1. /\ N \subseteq Tasks /\ mCancellers' \in List!Lists
        /\ List!Ring(mCancellers', N) /\ N \subseteq Registered'
    BY <1>2, EmptyRing
  <2>2. ~(~mCanceled \/ Cancelling)'
    BY <1>2, <1>4, <1>6 DEF Cancelling
  <2>3. TodoOK'
    BY <1>9 DEF TodoOK
  <2> HIDE DEF N
  <2>4. QED
    BY <2>1, <2>2, <2>3, AliveNext
<1>11. QED
  BY <1>1, <1>2, <1>3, <1>5, <1>7, <1>8, <1>10 DEF Inv, Control

LEMMA TakeCancelledInv == ASSUME Inv, NEW c \in Tasks, TakeCancelled(c) PROVE Inv'
<1>1. /\ Types /\ StackOK /\ CallerOK /\ CountOK /\ WinnerOK /\ WaitingOK
      /\ CalledAlive /\ Injective(todo) /\ Control
  BY DEF Inv, Control
<1>2. /\ stack = << >> /\ c \in pending /\ pending' = pending \ {c}
      /\ cancelOp' = [cancelOp EXCEPT ![c] = "none"]
      /\ UNCHANGED <<opVars, mCancellers, mCanceled, winner, todo, aim, mCount, result>>
  BY DEF TakeCancelled
<1>3. winner \in Tasks /\ winner # None /\ pc[winner] = "suspended"
  <2>1. winner # None /\ pc[winner] \in {"calling", "suspended"}
    BY <1>1, <1>2 DEF WinnerOK
  <2>2. Elements(stack) = {}
    BY <1>2 DEF Elements
  <2>3. QED
    BY <1>1, <2>1, <2>2 DEF Types, StackOK
<1>4. CASE pending' # {}
  <2>1. UNCHANGED <<pc, stack>>
    BY <1>4 DEF TakeCancelled
  <2>2. Types' /\ \A d \in Tasks : op'[d] # "none" <=> op[d] # "none"
    BY <1>1, <1>2, <2>1 DEF Types, OpStates, opVars
  <2>3. QED
    BY <1>1, <1>2, <1>3, <2>1, <2>2, PlacesKept DEF opVars
<1>5. CASE pending' = {}
  <2>1. pc' = [pc EXCEPT ![winner] = "calling"] /\ stack' = <<winner>>
    BY <1>5 DEF TakeCancelled
  <2>2. /\ pc' \in [Coroutines -> PCs] /\ pc'[winner] = "calling" /\ winner # Caller
        /\ \A d \in Coroutines \ {winner} : pc'[d] = pc[d]
    BY <1>1, <1>3, <2>1, TasksFacts DEF Types, PCs, Coroutines
  <2>3. /\ stack' \in Seq(Coroutines) /\ Injective(stack') /\ Elements(stack') = {winner}
        /\ Elements(stack) = {}
    <3>1. winner \in Coroutines
      BY <1>3 DEF Coroutines
    <3>2. Elements(stack) = {}
      BY <1>2 DEF Elements
    <3>3. QED
      BY <2>1, <3>1, <3>2, OneOnStack
  <2>4. Types'
    BY <1>1, <1>2, <2>2, <2>3 DEF Types, OpStates, opVars
  <2>5. StackOK'
    <3>1. \A d \in Tasks : d \in Elements(stack)' <=> pc'[d] \in {"running", "calling"}
      BY <1>1, <2>2, <2>3 DEF StackOK, Coroutines
    <3>2. QED
      BY <1>1, <1>2, <2>2, <2>3, <3>1 DEF StackOK, Coroutines
  <2>6. CallerOK'
    BY <1>1, <1>2, <1>3, <2>2, TasksFacts DEF CallerOK, Coroutines
  <2>7. CountOK'
    <3>1. {d \in Tasks : pc'[d] # "done"} = {d \in Tasks : pc[d] # "done"}
      BY <1>3, <2>2 DEF Coroutines
    <3>2. QED
      BY <1>1, <1>2, <3>1 DEF CountOK
  <2>8. WinnerOK'
    BY <1>1, <1>2, <1>3, <1>5, <2>2 DEF WinnerOK, Coroutines
  <2>9. WaitingOK'
    BY <1>1, <1>2, <1>3, <2>2 DEF WaitingOK, Coroutines, opVars
  <2>10. Registered' = Registered
    BY <1>2, <1>3, <2>2 DEF Registered, Coroutines, opVars
  <2>11. Cancelling
    BY <1>3 DEF Cancelling
  <2>12. TodoOK'
    BY <1>1, <1>2, <2>10, AliveFacts DEF TodoOK, opVars
  <2>13. CalledAlive'
    BY <1>1, <1>2, <2>10, <2>11, <2>12, AliveKept
  <2>14. QED
    BY <1>1, <1>2, <2>4, <2>5, <2>6, <2>7, <2>8, <2>9, <2>13 DEF Inv, Control
<1>6. QED
  BY <1>4, <1>5

LEMMA CallerReturnsInv == ASSUME Inv, CallerReturns PROVE Inv'
<1>1. /\ Types /\ StackOK /\ CallerOK /\ CountOK /\ WinnerOK /\ WaitingOK
      /\ CalledAlive /\ Injective(todo)
  BY DEF Inv, Control
<1>2. /\ OnTop(Caller) /\ pc[Caller] = "suspended" /\ stack' = Pop
      /\ pc' = [pc EXCEPT ![Caller] = "done"]
      /\ UNCHANGED <<opVars, cancelVars, mCount, result>>
  BY DEF CallerReturns
<1>3. /\ pc' \in [Coroutines -> PCs] /\ pc'[Caller] = "done"
      /\ \A d \in Tasks : pc'[d] = pc[d]
  BY <1>1, <1>2, TasksFacts DEF Types, PCs, Coroutines
<1>4. /\ stack' \in Seq(Coroutines) /\ Injective(stack') /\ Caller \in Elements(stack)
      /\ Elements(stack') = Elements(stack) \ {Caller}
  BY <1>1, <1>2, PopFacts
<1>5. mCount = 0
  BY <1>1, <1>2, <1>4 DEF StackOK
<1>6. Types'
  BY <1>1, <1>2, <1>3, <1>4 DEF Types, opVars, cancelVars
<1>7. StackOK'
  <2>1. \A d \in Tasks : d \in Elements(stack)' <=> pc'[d] \in {"running", "calling"}
    BY <1>1, <1>3, <1>4, TasksFacts DEF StackOK
  <2>2. QED
    BY <1>3, <1>4, <2>1 DEF StackOK
<1>8. CallerOK'
  BY <1>2, <1>3, <1>5 DEF CallerOK
<1>9. CountOK'
  <2>1. {d \in Tasks : pc'[d] # "done"} = {d \in Tasks : pc[d] # "done"}
    BY <1>3
  <2>2. QED
    BY <1>1, <1>2, <2>1 DEF CountOK
<1>10. WinnerOK' /\ (Cancelling' <=> Cancelling)
  BY <1>1, <1>2, <1>3 DEF WinnerOK, Cancelling, Types, cancelVars
<1>11. WaitingOK'
  BY <1>1, <1>2, <1>3 DEF WaitingOK, opVars
<1>12. Registered' = Registered
  BY <1>2, <1>3 DEF Registered, opVars
<1>13. TodoOK'
  BY <1>1, <1>2, <1>12, AliveFacts DEF TodoOK, opVars, cancelVars
<1>14. CalledAlive'
  BY <1>1, <1>2, <1>10, <1>12, <1>13, AliveKept DEF cancelVars
<1>15. QED
  BY <1>1, <1>2, <1>6, <1>7, <1>8, <1>9, <1>10, <1>11, <1>14 DEF Inv, Control, cancelVars

LEMMA NextInv == Inv /\ [Next]_vars => Inv'
<1> SUFFICES ASSUME Inv, [Next]_vars PROVE Inv'
  OBVIOUS
<1>1. ASSUME NEW c \in Tasks, Program(c) PROVE Inv'
  BY <1>1, StartTaskInv, BeginRequestInv, SleepInv, ResumedInv, FinishLateInv,
     FinishFirstInv, CallSleeperInv, CallGuardInv, AwaitCallbacksInv, FinishCancelInv,
     TakeCancelledInv, Zenon DEF Program
<1>2. ASSUME NEW c \in Tasks, FireTimer(c) \/ KernelCompletes(c) \/ KernelCancels(c)
      PROVE  Inv'
  BY <1>2, ResumedInv, KernelCompletesInv, KernelCancelsInv, Zenon
<1>3. Terminated \/ UNCHANGED vars => Inv'
  BY StutterInv DEF Terminated
<1>4. QED
  BY <1>1, <1>2, <1>3, CallerReturnsInv, Zenon DEF Next

THEOREM Invariance == Spec => []Inv
<1>1. QED
  BY InitInv, NextInv, PTL DEF Spec

(* The list of cancellers is a ring of live callbacks, and a callback that *)
(* is about to be called belongs to an operation in progress.              *)
THEOREM CallbacksAlive == Spec => []CalledAlive
<1>1. Inv => CalledAlive
  BY DEF Inv
<1>2. QED
  BY <1>1, Invariance, PTL
------------------------------------------------------------------------------
(* The race is a fork-join.                                                *)

Mapped == [c \in Tasks |-> Status(c)]

(* A task's status when it moves from one point of its code to another.    *)
LEMMA MappedStep ==
  ASSUME NEW c \in Tasks, \A d \in Tasks \ {c} : pc'[d] = pc[d]
  PROVE  Mapped' = [Mapped EXCEPT ![c] = Status(c)']
<1>1. \A d \in Tasks \ {c} : Status(d)' = Status(d)
  BY DEF Status
<1>2. QED
  BY <1>1 DEF Mapped

LEMMA MappedKept ==
  ASSUME \A d \in Tasks : pc'[d] = pc[d] \/ Status(d)' = Status(d)
  PROVE  Mapped' = Mapped
<1>1. \A d \in Tasks : Status(d)' = Status(d)
  BY DEF Status
<1>2. QED
  BY <1>1 DEF Mapped

LEMMA InitForkJoin == Init => Abstract!Init
<1> SUFFICES ASSUME Init PROVE Abstract!Init
  OBVIOUS
<1>1. pc[Caller] = "running" /\ \A c \in Tasks : pc[c] = "new"
  BY TasksFacts DEF Init
<1>2. \A c \in Tasks : Status(c) = "new"
  BY <1>1 DEF Status
<1>3. QED
  BY <1>1, <1>2 DEF Init, Abstract!Init

(* The start of a task, its end and the caller's return are the steps of   *)
(* the fork-join; the first task to end decides the result when it sets    *)
(* the flag, which is before any other one ends.                           *)
LEMMA StepForkJoin == Inv /\ [Next]_vars => [Abstract!Next]_(Abstract!vars)
<1> SUFFICES ASSUME Inv, [Next]_vars PROVE Abstract!Next \/ UNCHANGED Abstract!vars
  OBVIOUS
<1> DEFINE Result == IF pc[Caller] = "done" THEN result ELSE None
<1>1. /\ Types /\ StackOK /\ CallerOK /\ CountOK /\ WinnerOK /\ WaitingOK /\ CalledAlive
  BY DEF Inv, Control
<1>2. ASSUME Mapped' = Mapped, UNCHANGED winner, UNCHANGED Result,
             pc'[Caller] = "done" <=> pc[Caller] = "done"
      PROVE  UNCHANGED Abstract!vars
  BY <1>2 DEF Abstract!vars, Mapped
<1>3. pc \in [Coroutines -> PCs]
  BY <1>1 DEF Types
<1>4. ASSUME NEW c \in Tasks, StartTask(c) PROVE Abstract!Begin(c)
  <2>1. /\ OnTop(Caller) /\ pc[Caller] = "running" /\ pc[c] = "new"
        /\ pc'[Caller] \in {"running", "suspended"} /\ pc'[c] = "running"
        /\ \A d \in Tasks \ {c} : pc'[d] = pc[d]
        /\ UNCHANGED <<winner, result>>
    BY <1>3, <1>4, TasksFacts DEF StartTask, Coroutines, cancelVars
  <2>2. Mapped' = [Mapped EXCEPT ![c] = Status(c)'] /\ Mapped[c] = "new"
    BY <2>1, MappedStep DEF Mapped, Status
  <2>3. Status(c)' = "active"
    BY <2>1 DEF Status
  <2>4. QED
    BY <2>1, <2>2, <2>3 DEF Abstract!Begin, Mapped
<1>5. ASSUME NEW c \in Tasks, FinishLate(c) PROVE Abstract!End(c)
  <2>1. /\ pc[c] = "running" /\ winner # None /\ UNCHANGED <<winner, result>>
        /\ pc' = [pc EXCEPT ![c] = "done"]
    BY <1>1, <1>5 DEF FinishLate, Finished, HelperReturns, ReturnPrevious, is_canceled,
                      WinnerOK, cancelVars
  <2>2. /\ pc'[c] = "done" /\ \A d \in Coroutines \ {c} : pc'[d] = pc[d]
        /\ pc'[Caller] = pc[Caller]
    BY <1>3, <2>1, TasksFacts DEF Coroutines
  <2>3. Mapped' = [Mapped EXCEPT ![c] = Status(c)'] /\ Mapped[c] = "active"
    BY <2>1, <2>2, MappedStep DEF Mapped, Status, Coroutines
  <2>4. Status(c)' = "ended"
    BY <2>2 DEF Status
  <2>5. QED
    BY <2>1, <2>2, <2>3, <2>4 DEF Abstract!End, Mapped
<1>6. ASSUME NEW c \in Tasks, FinishFirst(c) PROVE Abstract!End(c)
  <2>1. /\ pc[c] = "running" /\ winner = None /\ winner' = c /\ UNCHANGED result
        /\ pc' = [pc EXCEPT ![c] = "calling"]
    BY <1>1, <1>6 DEF FinishFirst, Finished, is_canceled, WinnerOK
  <2>2. /\ pc'[c] = "calling" /\ \A d \in Coroutines \ {c} : pc'[d] = pc[d]
        /\ pc'[Caller] = pc[Caller]
    BY <1>3, <2>1, TasksFacts DEF Coroutines
  <2>3. Mapped' = [Mapped EXCEPT ![c] = Status(c)'] /\ Mapped[c] = "active"
    BY <2>1, <2>2, MappedStep DEF Mapped, Status, Coroutines
  <2>4. Status(c)' = "ended"
    BY <2>2 DEF Status
  <2>5. QED
    BY <2>1, <2>2, <2>3, <2>4 DEF Abstract!End, Mapped
<1>7. ASSUME CallerReturns PROVE Abstract!Return
  <2>1. /\ OnTop(Caller) /\ pc[Caller] = "suspended" /\ pc' = [pc EXCEPT ![Caller] = "done"]
        /\ UNCHANGED <<winner, result>>
    BY <1>7 DEF CallerReturns, cancelVars
  <2>2. /\ pc'[Caller] = "done" /\ \A d \in Tasks : pc'[d] = pc[d]
    BY <1>3, <2>1, TasksFacts DEF Coroutines
  <2>3. mCount = 0
    BY <1>1, <2>1, PopFacts DEF StackOK
  <2>4. \A d \in Tasks : pc[d] = "done"
    BY <1>1, <2>3, ActiveFacts DEF Active
  <2>5. result = winner
    BY <1>1, <2>4, TasksFacts DEF WinnerOK, Types
  <2>6. Mapped' = Mapped /\ \A d \in Tasks : Mapped[d] = "ended"
    BY <2>2, <2>4, MappedKept DEF Mapped, Status
  <2>7. QED
    BY <2>1, <2>2, <2>5, <2>6 DEF Abstract!Return, Mapped
<1>8. ASSUME NEW c \in Tasks,
             \/ BeginRequest(c) \/ co_sleep(c) \/ TakeCompletion(c) \/ FireTimer(c)
             \/ CallSleeper(c) \/ AwaitCallbacks(c) \/ FinishCancel(c) \/ TakeCancelled(c)
             \/ CallGuard(c) \/ KernelCompletes(c) \/ KernelCancels(c)
      PROVE  UNCHANGED Abstract!vars
  <2>1. ASSUME NEW d \in Tasks, NEW x, pc' = [pc EXCEPT ![d] = x], UNCHANGED winner,
               \/ pc[d] \in {"running", "waiting"} /\ x \in {"running", "waiting"}
               \/ /\ pc[d] \in {"calling", "suspended"}
                  /\ x \in {"calling", "suspended", "done"},
               UNCHANGED result \/ pc[Caller] # "done"
        PROVE  UNCHANGED Abstract!vars
    <3>1. pc'[d] = x /\ pc'[Caller] = pc[Caller] /\ \A e \in Tasks \ {d} : pc'[e] = pc[e]
      BY <1>3, <2>1, TasksFacts DEF Coroutines
    <3>2. Status(d)' = Status(d)
      BY <2>1, <3>1 DEF Status
    <3>3. Mapped' = Mapped
      BY <3>1, <3>2, MappedKept
    <3>4. QED
      BY <1>2, <2>1, <3>1, <3>3
  <2>2. CASE BeginRequest(c) \/ co_sleep(c)
    BY <2>1, <2>2 DEF BeginRequest, co_sleep
  <2>3. CASE TakeCompletion(c) \/ FireTimer(c)
    BY <2>1, <2>3 DEF TakeCompletion, FireTimer
  <2>4. CASE CallSleeper(c)
    <3> DEFINE d == Head(todo)
    <3>1. /\ todo # << >> /\ pc' = [pc EXCEPT ![d] = "running"]
          /\ UNCHANGED <<winner, result>>
      BY <2>4 DEF CallSleeper
    <3>2. d \in Tasks /\ pc[d] = "waiting"
      <4>1. Injective(todo) /\ todo \in Seq(Tasks)
        BY <1>1 DEF Inv, Types
      <4>2. d \in Elements(todo)
        BY <3>1, <4>1, TailRest
      <4>3. QED
        BY <1>1, <4>2, AliveFacts DEF TodoOK, Registered
    <3> HIDE DEF d
    <3>3. QED
      BY <2>1, <3>1, <3>2
  <2>5. CASE AwaitCallbacks(c)
    BY <2>1, <2>5 DEF AwaitCallbacks, cancelVars
  <2>6. CASE FinishCancel(c)
    <3>1. /\ pc[c] = "calling" /\ UNCHANGED winner /\ pc' = [pc EXCEPT ![c] = "done"]
      BY <2>6 DEF FinishCancel, HelperReturns, ReturnPrevious
    <3>2. pc[Caller] # "done"
      BY <1>1, <3>1, ActiveFacts DEF Active, CallerOK
    <3>3. QED
      BY <2>1, <3>1, <3>2
  <2>7. CASE TakeCancelled(c)
    <3>1. UNCHANGED <<winner, result>>
      BY <2>7 DEF TakeCancelled
    <3>2. CASE pending' = {}
      <4>1. pc' = [pc EXCEPT ![winner] = "calling"] /\ c \in pending /\ stack = << >>
        BY <2>7, <3>2 DEF TakeCancelled
      <4>2. Elements(stack) = {}
        BY <4>1 DEF Elements
      <4>3. winner \in Tasks /\ pc[winner] = "suspended"
        BY <1>1, <4>1, <4>2 DEF WinnerOK, Types, StackOK
      <4>4. QED
        BY <2>1, <3>1, <4>1, <4>3
    <3>3. CASE pending' # {}
      BY <1>2, <2>7, <3>1, <3>3, MappedKept DEF TakeCancelled
    <3>4. QED
      BY <3>2, <3>3
  <2>8. CASE CallGuard(c) \/ KernelCompletes(c) \/ KernelCancels(c)
    <3>1. UNCHANGED <<pc, winner, result>>
      BY <2>8 DEF CallGuard, KernelCompletes, KernelCancels, cancelVars
    <3>2. QED
      BY <1>2, <3>1, MappedKept
  <2>9. QED
    BY <1>8, <2>2, <2>3, <2>4, <2>5, <2>6, <2>7, <2>8
<1>9. Terminated \/ UNCHANGED vars => UNCHANGED Abstract!vars
  <2>1. Terminated \/ UNCHANGED vars => UNCHANGED <<pc, winner, result>>
    BY DEF Terminated, vars, cancelVars
  <2>2. QED
    BY <1>2, <2>1, MappedKept
<1>10. QED
  BY <1>4, <1>5, <1>6, <1>7, <1>8, <1>9, Zenon DEF Next, Program, Abstract!Next
(* when_any returns once, when every task has ended, with the first task   *)
(* that ended.                                                             *)
THEOREM Implementation == Spec => ImplementsForkJoin
<1>1. QED
  BY InitForkJoin, StepForkJoin, Invariance, PTL DEF Spec, ImplementsForkJoin, Abstract!Spec
===============================================================================
