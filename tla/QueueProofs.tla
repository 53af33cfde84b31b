------------------------------ MODULE QueueProofs ------------------------------
(***************************************************************************)
(* Proofs about Queue, for any coroutines, capacity and calls.  It is a    *)
(* FIFO channel with one loose place, the slot past the array.  And nobody *)
(* sleeps on a queue that has what he waits for, unless help is under way. *)
(***************************************************************************)
EXTENDS Queue, FiniteSetTheorems, FunctionTheorems, SequenceTheorems,
        WellFoundedInduction, TLAPS

(* The types that the values need.                                         *)
ValueTypes == /\ R!TypeOK
              /\ value \in [Producers -> Values]
              /\ calls \in 0..MaxCalls
              /\ sent \in Seq(Values) /\ received \in Seq(Values)

(* The slot k places after r.                                              *)
Place(r, k) == IF r + k <= Size THEN r + k ELSE r + k - (Size + 1)

UnderWay == Len(sent) - Len(received)

(* The ring holds what was sent and not received, the oldest at mRead.     *)
RingHolds == /\ UnderWay \in 0..Size
             /\ mWrite = Place(mRead, UnderWay)
             /\ \A k \in 0..Size : k < UnderWay =>
                  slots[Place(mRead, k)] = sent[Len(received) + 1 + k]

------------------------------------------------------------------------------
(* Different places are different slots, and the next place is the slot    *)
(* that After names.                                                       *)
LEMMA Places ==
  ASSUME NEW r \in 0..Size, NEW k \in 0..Size
  PROVE  /\ Place(r, k) \in 0..Size
         /\ Place(r, 0) = r
         /\ \A j \in 0..Size : Place(r, j) = Place(r, k) => j = k
         /\ k < Size => Place(r, k + 1) = R!After(Place(r, k))
         /\ k < Size => Place(R!After(r), k) = Place(r, k + 1)
         /\ R!After(Place(r, Size)) = r
  BY QueueAssumption DEF Place, R!After

(* A queue is empty or full when the channel is.                           *)
LEMMA EmptyAndFull ==
  ASSUME ValueTypes, RingHolds
  PROVE  /\ R!empty => UnderWay = 0
         /\ ~R!empty => UnderWay > 0
         /\ R!full => UnderWay = Size
         /\ ~R!full => UnderWay < Size
<1> DEFINE n == UnderWay
<1>1. mRead \in 0..Size /\ n \in 0..Size /\ mWrite = Place(mRead, n)
  BY DEF ValueTypes, RingHolds, R!TypeOK
<1>2. Size \in Nat \ {0}
  BY QueueAssumption
<1> HIDE DEF n
<1>3. mRead = mWrite <=> n = 0
  BY <1>1, <1>2 DEF Place
<1>4. R!After(mWrite) = mRead <=> n = Size
  BY <1>1, <1>2 DEF Place, R!After
<1>5. QED
  BY <1>1, <1>2, <1>3, <1>4 DEF R!empty, R!full, n

(* What each of the two operations of the ring does to the channel.        *)
LEMMA PushSends ==
  ASSUME ValueTypes, RingHolds, NEW v \in Values, Push(v)
  PROVE  /\ Abstract!Send(v)
         /\ R!TypeOK' /\ sent' \in Seq(Values) /\ received' \in Seq(Values)
         /\ RingHolds'
<1> DEFINE n == UnderWay
<1>1. /\ slots \in [0..Size -> Values] /\ mRead \in 0..Size /\ mWrite \in 0..Size
      /\ sent \in Seq(Values) /\ received \in Seq(Values)
      /\ Len(sent) \in Nat /\ Len(received) \in Nat /\ Size \in Nat \ {0}
  BY QueueAssumption DEF ValueTypes, R!TypeOK
<1>2. /\ n \in 0..Size /\ n < Size /\ mWrite = Place(mRead, n)
      /\ n = Len(sent) - Len(received)
  BY EmptyAndFull DEF Push, RingHolds, UnderWay
<1>3. /\ slots' = [slots EXCEPT ![mWrite] = v] /\ mWrite' = R!After(mWrite)
      /\ mRead' = mRead /\ sent' = Append(sent, v) /\ received' = received
  BY DEF Push, R!Store, Sent
<1>4. Len(sent') = Len(sent) + 1 /\ sent'[Len(sent) + 1] = v
      /\ (\A i \in 1..Len(sent) : sent'[i] = sent[i]) /\ sent' \in Seq(Values)
  BY <1>1, <1>3
<1>5. Abstract!Send(v)
  <2>1. Len(sent) - Len(received) < Size
    BY <1>1, <1>2 DEF UnderWay
  <2>2. QED
    BY <1>3, <2>1 DEF Abstract!Send
<1>6. R!TypeOK'
  BY <1>1, <1>3 DEF R!TypeOK, R!After
<1>7. RingHolds'
  <2>1. UnderWay' = n + 1 /\ n + 1 \in 0..Size
    <3>1. UnderWay' = Len(sent') - Len(received')
      BY DEF UnderWay
    <3>2. Len(sent') = Len(sent) + 1 /\ Len(received') = Len(received)
      BY <1>3, <1>4
    <3>3. QED
      BY <1>1, <1>2, <3>1, <3>2
  <2>2. mWrite' = Place(mRead', n + 1)
    <3>1. Place(mRead, n + 1) = R!After(Place(mRead, n))
      BY <1>1, <1>2, Places
    <3>2. QED
      BY <1>2, <1>3, <3>1
  <2>3. ASSUME NEW k \in 0..Size, k < n + 1
        PROVE  slots'[Place(mRead', k)] = sent'[Len(received') + 1 + k]
    <3>1. CASE k = n
      <4>1. slots'[mWrite] = v
        BY <1>1, <1>3
      <4>2. Len(received) + 1 + k = Len(sent) + 1
        <5>1. k = Len(sent) - Len(received)
          BY <1>2, <3>1
        <5>2. QED
          BY <1>1, <5>1
      <4>3. QED
        BY <1>2, <1>3, <1>4, <3>1, <4>1, <4>2
    <3>2. CASE k < n
      <4>1. Place(mRead, k) # mWrite /\ Place(mRead, k) \in 0..Size
        BY <1>1, <1>2, <3>2, Places
      <4>2. slots'[Place(mRead, k)] = slots[Place(mRead, k)]
        BY <1>1, <1>3, <4>1
      <4>3. slots[Place(mRead, k)] = sent[Len(received) + 1 + k]
        BY <1>2, <3>2 DEF RingHolds
      <4>4. Len(received) + 1 + k \in 1..Len(sent)
        BY <1>1, <1>2, <3>2
      <4>5. QED
        BY <1>3, <1>4, <4>2, <4>3, <4>4
    <3>3. QED
      BY <1>2, <2>3, <3>1, <3>2
  <2>4. QED
    BY <2>1, <2>2, <2>3 DEF RingHolds
<1>8. QED
  BY <1>1, <1>3, <1>4, <1>5, <1>6, <1>7

LEMMA PopReceives ==
  ASSUME ValueTypes, RingHolds, Pop
  PROVE  /\ Abstract!Receive
         /\ R!TypeOK' /\ sent' \in Seq(Values) /\ received' \in Seq(Values)
         /\ RingHolds'
<1> DEFINE n == UnderWay
<1>1. /\ slots \in [0..Size -> Values] /\ mRead \in 0..Size /\ mWrite \in 0..Size
      /\ sent \in Seq(Values) /\ received \in Seq(Values)
      /\ Len(sent) \in Nat /\ Len(received) \in Nat /\ Size \in Nat \ {0}
  BY QueueAssumption DEF ValueTypes, R!TypeOK
<1>2. /\ n \in 0..Size /\ n > 0 /\ mWrite = Place(mRead, n)
      /\ n = Len(sent) - Len(received)
  BY EmptyAndFull DEF Pop, RingHolds, UnderWay
<1>3. /\ slots' = slots /\ mWrite' = mWrite /\ mRead' = R!After(mRead) /\ sent' = sent
      /\ \E v \in R!Front : received' = Append(received, v)
  BY DEF Pop, R!Drop, Received
<1>4. slots[mRead] = sent[Len(received) + 1]
  <2>1. slots[Place(mRead, 0)] = sent[Len(received) + 1 + 0]
    BY <1>1, <1>2 DEF RingHolds
  <2>2. Place(mRead, 0) = mRead /\ Len(received) + 1 + 0 = Len(received) + 1
    BY <1>1 DEF Place
  <2>3. QED
    BY <2>1, <2>2
<1>5. Abstract!Receive
  <2>1. Len(received) < Len(sent)
    BY <1>1, <1>2 DEF UnderWay
  <2>2. PICK v \in R!Front : received' = Append(received, v)
    BY <1>3
  <2>3. v \in Values /\ (mRead < Size => v = slots[mRead])
    BY <1>1, <2>2 DEF R!Front
  <2>4. mRead' = IF mRead = Size THEN 0 ELSE mRead + 1
    BY <1>3 DEF R!After
  <2>5. QED
    BY <1>3, <1>4, <2>1, <2>2, <2>3, <2>4 DEF Abstract!Receive
<1>6. R!TypeOK' /\ received' \in Seq(Values) /\ Len(received') = Len(received) + 1
  <2>1. R!Front \subseteq Values
    BY <1>1 DEF R!Front
  <2>2. QED
    BY <1>1, <1>3, <2>1 DEF R!TypeOK, R!After
<1>7. RingHolds'
  <2>1. UnderWay' = n - 1 /\ n - 1 \in 0..Size /\ mRead' \in 0..Size
    BY <1>1, <1>2, <1>3, <1>6 DEF UnderWay, R!After
  <2>2. mWrite' = Place(mRead', n - 1)
    <3>1. n - 1 \in 0..Size /\ n - 1 < Size /\ (n - 1) + 1 = n
      BY <1>1, <1>2
    <3>2. Place(R!After(mRead), n - 1) = Place(mRead, (n - 1) + 1)
      BY <1>1, <3>1, Places
    <3>3. QED
      BY <1>2, <1>3, <3>1, <3>2
  <2>3. ASSUME NEW k \in 0..Size, k < n - 1
        PROVE  slots'[Place(mRead', k)] = sent'[Len(received') + 1 + k]
    <3>1. k + 1 \in 0..Size /\ k + 1 < n /\ k < Size
      BY <1>1, <1>2, <2>3
    <3>2. slots[Place(mRead, k + 1)] = sent[Len(received) + 1 + (k + 1)]
      BY <1>2, <3>1 DEF RingHolds
    <3>3. Place(R!After(mRead), k) = Place(mRead, k + 1)
      BY <1>1, <3>1, Places
    <3>4. Len(received') + 1 + k = Len(received) + 1 + (k + 1)
      BY <1>1, <1>6
    <3>5. QED
      BY <1>3, <3>2, <3>3, <3>4
  <2>4. QED
    BY <2>1, <2>2, <2>3 DEF RingHolds
<1>8. QED
  BY <1>1, <1>3, <1>5, <1>6, <1>7

------------------------------------------------------------------------------
(* What a step does to the ring and the histories: a push, a pop, or       *)
(* nothing.                                                                *)
Moves == \/ \E v \in Values : Push(v)
         \/ Pop
         \/ UNCHANGED <<queueVars, history>>

LEMMA StepMoves ==
  ASSUME ValueTypes, [Next]_vars
  PROVE  /\ Moves
         /\ value' \in [Producers -> Values] /\ calls' \in 0..MaxCalls
<1>1. ASSUME NEW p \in Procs, NEW v \in Values, Offer(p, v) PROVE Moves
  BY <1>1 DEF Offer, Suspend, Moves
<1>2. ASSUME NEW p \in Procs, Take(p) PROVE Moves
  BY <1>2 DEF Take, Suspend, Moves
<1>3. ASSUME NEW p \in Procs, Call(p) PROVE calls' \in 0..MaxCalls /\ calls' \in Values
  BY <1>3, QueueAssumption DEF Call, ValueTypes, Values
<1>4. ASSUME NEW p \in Procs, push(p)
      PROVE  Moves /\ value' \in [Producers -> Values] /\ calls' \in 0..MaxCalls
  BY <1>1, <1>3, <1>4 DEF push, ValueTypes
<1>5. ASSUME NEW p \in Procs, pop(p) PROVE Moves /\ value' = value /\ calls' \in 0..MaxCalls
  BY <1>2, <1>3, <1>5 DEF pop
<1>6. ASSUME NEW p \in Procs, try_push(p)
      PROVE  Moves /\ value' = value /\ calls' \in 0..MaxCalls
  BY <1>3, <1>6 DEF try_push, Moves
<1>7. ASSUME NEW p \in Procs, try_pop(p)
      PROVE  Moves /\ value' = value /\ calls' \in 0..MaxCalls
  BY <1>3, <1>7 DEF try_pop, Moves
<1>8. ASSUME NEW p \in Procs, Woken(p) PROVE Moves /\ value' = value /\ calls' = calls
  <2>1. CASE p \in Producers /\ Offer(p, value[p])
    BY <1>1, <1>8, <2>1 DEF Woken, ValueTypes
  <2>2. CASE Take(p)
    BY <1>2, <1>8, <2>2 DEF Woken
  <2>3. CASE UNCHANGED <<waits, queueVars, history>>
    BY <1>8, <2>3 DEF Woken, Moves
  <2>4. QED
    BY <1>8, <2>1, <2>2, <2>3 DEF Woken
<1>9. ASSUME Kernel \/ Terminated \/ UNCHANGED vars
             \/ \E p \in Procs : Cancelled(p) \/ Cancel(p)
      PROVE  Moves /\ value' = value /\ calls' = calls
  BY <1>9 DEF Kernel, Terminated, vars, Cancelled, Cancel, Moves
<1>10. QED
  BY <1>4, <1>5, <1>6, <1>7, <1>8, <1>9 DEF Next, Step, ValueTypes

LEMMA InitHolds == Init => ValueTypes /\ RingHolds
<1> SUFFICES ASSUME Init PROVE ValueTypes /\ RingHolds
  OBVIOUS
<1>1. /\ slots = [i \in 0..Size |-> 0] /\ mRead = 0 /\ mWrite = 0 /\ calls = 0
      /\ value = [p \in Producers |-> 0] /\ sent = << >> /\ received = << >>
  BY DEF Init, R!Init
<1>2. 0 \in Values /\ Size \in Nat \ {0} /\ MaxCalls \in Nat
  BY QueueAssumption DEF Values
<1>3. ValueTypes
  BY <1>1, <1>2 DEF ValueTypes, R!TypeOK
<1>4. UnderWay = 0
  BY <1>1 DEF UnderWay
<1>5. QED
  BY <1>1, <1>2, <1>3, <1>4 DEF RingHolds, Place

(* The inductive step, and what it means to the channel.                   *)
LEMMA NextHolds ==
  ASSUME ValueTypes, RingHolds, [Next]_vars
  PROVE  /\ ValueTypes' /\ RingHolds'
         /\ [Abstract!Next]_(Abstract!vars)
<1>1. value' \in [Producers -> Values] /\ calls' \in 0..MaxCalls
  BY StepMoves
<1>2. CASE \E v \in Values : Push(v)
  BY <1>1, <1>2, PushSends DEF ValueTypes, Abstract!Next
<1>3. CASE Pop
  BY <1>1, <1>3, PopReceives DEF ValueTypes, Abstract!Next
<1>4. CASE UNCHANGED <<queueVars, history>>
  <2>1. /\ slots' = slots /\ mRead' = mRead /\ mWrite' = mWrite
        /\ sent' = sent /\ received' = received
    BY <1>4 DEF queueVars, history
  <2>2. R!TypeOK'
    BY <2>1 DEF R!TypeOK, ValueTypes
  <2>3. RingHolds'
    BY <2>1 DEF RingHolds, UnderWay, Place
  <2>4. QED
    BY <1>1, <2>1, <2>2, <2>3 DEF ValueTypes, Abstract!vars
<1>5. QED
  BY <1>2, <1>3, <1>4, StepMoves DEF Moves

(* The queue is a bounded FIFO channel: consumers receive what was sent,   *)
(* once, in order, whatever the coroutines, their waits and cancellations  *)
(* do; only what passes through the slot past the array may be anything.   *)
THEOREM Implements == Spec => ImplementsChannel
<1>1. Init => Abstract!Init
  BY DEF Init, R!Init, Abstract!Init
<1>2. ValueTypes /\ RingHolds /\ [Next]_vars
        => ValueTypes' /\ RingHolds' /\ [Abstract!Next]_(Abstract!vars)
  BY NextHolds
<1>3. QED
  BY <1>1, <1>2, InitHolds, PTL DEF Spec, ImplementsChannel, Abstract!Spec
------------------------------------------------------------------------------
(* Sequences of requests and sleepers.                                     *)

LEMMA Least == ASSUME NEW S, S \subseteq Nat, S # {} PROVE \E x \in S : \A y \in S : x <= y
<1> DEFINE R0 == OpToRel(<, Nat)
<1>1. IsWellFoundedOn(R0, Nat)
  BY NatLessThanWellFounded
<1>2. PICK x \in S : \A y \in S : ~(<<y, x>> \in R0)
  <2> HIDE DEF R0
  <2> QED
    BY <1>1, WFMin, Zenon
<1>3. \A y \in S : y < x => <<y, x>> \in R0
  BY DEF OpToRel
<1>4. \A y \in S : ~(y < x)
  BY <1>2, <1>3, Zenon
<1>5. \A y \in S : x \in Nat /\ y \in Nat
  OBVIOUS
<1>6. \A y \in S : x <= y
  BY <1>4, <1>5
<1>7. QED
  BY <1>6

(* Where a request stands in a line.                                       *)
Positions(s, r) == {i \in 1..Len(s) : s[i] = r}

LEMMA PositionsFinite ==
  ASSUME NEW S, NEW s \in Seq(S), NEW r
  PROVE  IsFiniteSet(Positions(s, r)) /\ Cardinality(Positions(s, r)) \in Nat
<1>1. Len(s) \in Nat /\ 1 \in Int
  OBVIOUS
<1>2. IsFiniteSet(1..Len(s))
  BY <1>1, FS_Interval
<1>3. Positions(s, r) \subseteq 1..Len(s)
  BY DEF Positions
<1>4. QED
  BY <1>2, <1>3, FS_Subset, FS_CardinalityType

LEMMA PositionsAppend ==
  ASSUME NEW S, NEW s \in Seq(S), NEW x \in S, NEW r
  PROVE  Cardinality(Positions(Append(s, x), r))
           = IF x = r THEN Cardinality(Positions(s, r)) + 1 ELSE Cardinality(Positions(s, r))
<1>1. /\ Len(Append(s, x)) = Len(s) + 1 /\ Len(s) \in Nat
      /\ Append(s, x)[Len(s) + 1] = x
      /\ \A i \in 1..Len(s) : Append(s, x)[i] = s[i]
  OBVIOUS
<1>2. CASE x = r
  <2>1. Positions(Append(s, x), r) = Positions(s, r) \cup {Len(s) + 1}
    BY <1>1, <1>2 DEF Positions
  <2>2. Len(s) + 1 \notin Positions(s, r)
    BY <1>1 DEF Positions
  <2>3. QED
    BY <1>2, <2>1, <2>2, PositionsFinite, FS_AddElement
<1>3. CASE x # r
  <2>1. Positions(Append(s, x), r) = Positions(s, r)
    BY <1>1, <1>3 DEF Positions
  <2>2. QED
    BY <1>3, <2>1
<1>4. QED
  BY <1>2, <1>3

LEMMA PositionsTail ==
  ASSUME NEW S, NEW s \in Seq(S), s # << >>, NEW r
  PROVE  Cardinality(Positions(Tail(s), r))
           = IF Head(s) = r THEN Cardinality(Positions(s, r)) - 1
                            ELSE Cardinality(Positions(s, r))
<1> DEFINE T == Positions(Tail(s), r)
           U == Positions(s, r) \ {1}
           f == [i \in T |-> i + 1]
<1>1. /\ Len(s) \in Nat \ {0} /\ Head(s) = s[1] /\ Tail(s) \in Seq(S)
      /\ Len(Tail(s)) = Len(s) - 1
      /\ \A i \in 1..(Len(s) - 1) : Tail(s)[i] = s[i + 1]
  OBVIOUS
<1>2. f \in Bijection(T, U)
  <2>1. f \in [T -> U]
    BY <1>1 DEF Positions
  <2>2. \A i, j \in T : f[i] = f[j] => i = j
    BY DEF Positions
  <2>3. \A j \in U : \E i \in T : f[i] = j
    <3> SUFFICES ASSUME NEW j \in U PROVE \E i \in T : f[i] = j
      OBVIOUS
    <3>1. j - 1 \in T /\ (j - 1) + 1 = j
      BY <1>1 DEF Positions
    <3>2. QED
      BY <3>1
  <2> HIDE DEF f, T, U
  <2>4. QED
    BY <2>1, <2>2, <2>3, Fun_IsBij
<1>3. IsFiniteSet(T) /\ IsFiniteSet(Positions(s, r)) /\ Cardinality(Positions(s, r)) \in Nat
  BY <1>1, PositionsFinite
<1>4. Cardinality(T) = Cardinality(U)
  <2> HIDE DEF f, T, U
  <2>1. QED
    BY <1>2, <1>3, FS_Bijection, Fun_ExistsBij
<1>5. Cardinality(U) = IF 1 \in Positions(s, r) THEN Cardinality(Positions(s, r)) - 1
                                               ELSE Cardinality(Positions(s, r))
  BY <1>3, FS_RemoveElement
<1>6. 1 \in Positions(s, r) <=> Head(s) = r
  BY <1>1 DEF Positions
<1>7. QED
  BY <1>4, <1>5, <1>6

(* What is left when the k-th of a sequence is removed.                    *)
LEMMA Removed ==
  ASSUME NEW S, NEW s \in Seq(S), NEW k \in 1..Len(s), NEW t, t = C!S!RemoveAt(s, k)
  PROVE  /\ t \in Seq(S) /\ Len(t) = Len(s) - 1
         /\ \A i \in 1..Len(t) : t[i] = IF i < k THEN s[i] ELSE s[i + 1]
<1> DEFINE a == SubSeq(s, 1, k - 1)
           b == SubSeq(s, k + 1, Len(s))
<1>1. Len(s) \in Nat /\ k \in Nat
  OBVIOUS
<1>2. a \in Seq(S) /\ Len(a) = k - 1 /\ \A i \in 1..(k - 1) : a[i] = s[i]
  <2>1. 1 \in Int /\ k - 1 \in Int /\ \A i \in 1..(k - 1) : s[i] \in S
    BY <1>1
  <2>2. /\ a \in Seq(S) /\ Len(a) = IF 1 <= k - 1 THEN k - 1 - 1 + 1 ELSE 0
        /\ \A i \in 1..(k - 1 - 1 + 1) : a[i] = s[1 + i - 1]
    BY <2>1, SubSeqProperties
  <2>3. \A i \in 1..(k - 1) : i \in 1..(k - 1 - 1 + 1) /\ 1 + i - 1 = i
    BY <1>1
  <2> HIDE DEF a
  <2>4. QED
    BY <1>1, <2>2, <2>3
<1>3. b \in Seq(S) /\ Len(b) = Len(s) - k /\ \A i \in 1..(Len(s) - k) : b[i] = s[k + i]
  <2>1. k + 1 \in Int /\ Len(s) \in Int /\ \A i \in (k + 1)..Len(s) : s[i] \in S
    BY <1>1
  <2>2. /\ b \in Seq(S)
        /\ Len(b) = IF k + 1 <= Len(s) THEN Len(s) - (k + 1) + 1 ELSE 0
        /\ \A i \in 1..(Len(s) - (k + 1) + 1) : b[i] = s[k + 1 + i - 1]
    BY <2>1, SubSeqProperties
  <2>3. \A i \in 1..(Len(s) - k) : i \in 1..(Len(s) - (k + 1) + 1) /\ k + 1 + i - 1 = k + i
    BY <1>1
  <2> HIDE DEF b
  <2>4. QED
    BY <1>1, <2>2, <2>3
<1>4. t = a \o b
  BY DEF C!S!RemoveAt
<1> HIDE DEF a, b
<1>5. /\ t \in Seq(S) /\ Len(t) = Len(a) + Len(b)
      /\ \A i \in 1..Len(t) : t[i] = IF i <= Len(a) THEN a[i] ELSE b[i - Len(a)]
  <2>1. /\ a \o b \in Seq(S) /\ Len(a \o b) = Len(a) + Len(b)
        /\ \A i \in 1..(Len(a) + Len(b)) :
             (a \o b)[i] = IF i <= Len(a) THEN a[i] ELSE b[i - Len(a)]
    BY <1>2, <1>3, ConcatProperties, Zenon
  <2>2. QED
    BY <1>4, <2>1, Zenon
<1>6. ASSUME NEW i \in 1..Len(t) PROVE t[i] = IF i < k THEN s[i] ELSE s[i + 1]
  <2>1. CASE i < k
    BY <1>1, <1>2, <1>5, <2>1
  <2>2. CASE ~(i < k)
    <3>1. /\ i - (k - 1) \in 1..(Len(s) - k) /\ k + (i - (k - 1)) = i + 1
          /\ ~(i <= Len(a))
      BY <1>1, <1>2, <1>3, <1>5, <2>2
    <3>2. t[i] = b[i - (k - 1)]
      BY <1>2, <1>5, <3>1
    <3>3. QED
      BY <1>3, <2>2, <3>1, <3>2
  <2>3. QED
    BY <2>1, <2>2
<1>7. QED
  BY <1>1, <1>2, <1>3, <1>5, <1>6

(* The sleeper that a request of the kernel's ends, or 0.                  *)
LEMMA FirstEnded ==
  ASSUME NEW r, NEW k, k = C!S!SelectInSeq(asleep, LAMBDA s : C!Ends(r, s)),
         NEW S, asleep \in Seq(S)
  PROVE  \/ k = 0 /\ \A i \in 1..Len(asleep) : ~C!Ends(r, asleep[i])
         \/ k \in 1..Len(asleep) /\ C!Ends(r, asleep[k])
<1> DEFINE I == {i \in 1..Len(asleep) : C!Ends(r, asleep[i])}
<1>1. k = IF I # {} THEN C!S!Min(I) ELSE 0
  BY DEF C!S!SelectInSeq
<1>2. I # {} => C!S!Min(I) \in I
  <2>1. I \subseteq Nat
    OBVIOUS
  <2> HIDE DEF I
  <2>2. QED
    BY <2>1, Least DEF C!S!Min
<1>3. QED
  BY <1>1, <1>2
------------------------------------------------------------------------------
(* The requests of those who wait.                                         *)

Line    == ring[Thread]
Masks   == {kNonEmptyMask, kNonFullMask}
Wake(m) == [op |-> "wake", mask |-> m]
Mask(p) == IF p \in Producers THEN kNonFullMask ELSE kNonEmptyMask

WaitTypes == /\ mFutex \in Nat /\ old \in [Procs -> Nat]
             /\ ring \in [{Thread} -> Seq(C!Requests)]
             /\ asleep \in Seq([who : Procs, mask : Masks])
             /\ ended \in [Procs -> {"none", "woken", "cancelled"}]
             /\ blocking \subseteq Procs /\ waits \subseteq blocking

(* Whoever is suspended has one request: in the ring, asleep or ended.     *)
InLine == \A i \in 1..Len(Line) : Line[i].op = "wait" =>
            /\ Line[i].who \in waits /\ ended[Line[i].who] = "none"
            /\ Line[i].mask = Mask(Line[i].who)
            /\ \A j \in 1..Len(asleep) : asleep[j].who # Line[i].who
            /\ \A j \in 1..Len(Line) :
                 Line[j].op = "wait" /\ Line[j].who = Line[i].who => j = i
Asleep == \A i \in 1..Len(asleep) :
            /\ asleep[i].who \in waits /\ ended[asleep[i].who] = "none"
            /\ asleep[i].mask = Mask(asleep[i].who)
            /\ \A j \in 1..Len(asleep) : asleep[j].who = asleep[i].who => j = i
Ended  == \A p \in Procs : ended[p] # "none" => p \in waits

(* A wake-up finds the count changed: the requests of one ring are taken   *)
(* in order, and it was sent after the wait it meets.                      *)
Ordered == /\ \A p \in waits : old[p] <= mFutex
           /\ \A i, j \in 1..Len(Line) :
                i < j /\ Line[i].op = "wait" /\ Line[j].op = "wake"
                  => old[Line[i].who] < mFutex
           /\ \A i \in 1..Len(asleep), j \in 1..Len(Line) :
                Line[j].op = "wake" => old[asleep[i].who] < mFutex
           /\ \A p \in Procs : ended[p] = "woken" => old[p] < mFutex

(* Nothing has happened to the queue since the count is the same.          *)
Stale == \A p \in waits : old[p] = mFutex => IF p \in Producers THEN R!full ELSE R!empty

WaitersOK == WaitTypes /\ InLine /\ Asleep /\ Ended /\ Ordered

(* The next request of the ring.                                           *)
LEMMA Prepared ==
  ASSUME WaitTypes, NEW r \in C!Requests, C!Prepare(Thread, r)
  PROVE  /\ ring' \in [{Thread} -> Seq(C!Requests)] /\ Line' = Append(Line, r)
         /\ Line \in Seq(C!Requests) /\ Len(Line) \in Nat
         /\ Len(Line') = Len(Line) + 1 /\ Line'[Len(Line) + 1] = r
         /\ \A i \in 1..Len(Line) : Line'[i] = Line[i]
<1>1. ring \in [{Thread} -> Seq(C!Requests)] /\ Thread \in {Thread} /\ Line \in Seq(C!Requests)
  BY DEF WaitTypes, Line
<1>2. ring' \in [{Thread} -> Seq(C!Requests)] /\ Line' = Append(Line, r)
  BY <1>1 DEF C!Prepare, Line
<1>3. QED
  BY <1>1, <1>2

LEMMA RequestFacts ==
  ASSUME NEW p \in Procs, NEW m \in Masks
  PROVE  /\ Wake(m) \in C!Requests /\ Wake(m).op = "wake" /\ Wake(m).mask = m
         /\ [op |-> "wait", who |-> p, mask |-> m] \in C!Requests
         /\ [op |-> "cancel", who |-> p] \in C!Requests
         /\ [op |-> "wait", who |-> p, mask |-> m] # Wake(m)
         /\ Mask(p) \in Masks
         /\ kNonEmptyMask # kNonFullMask /\ kNonEmptyMask \cap kNonFullMask = {}
  BY DEF Wake, C!Requests, Mask, Masks, kNonEmptyMask, kNonFullMask

(* A coroutine that executes notifies: push, pop and their like.           *)
LEMMA NotifyWaiters ==
  ASSUME WaitersOK, NEW p \in Procs, p \notin waits \/ ended[p] = "woken",
         NEW m \in Masks, C!NotifyOne(Thread, m), ended' = [ended EXCEPT ![p] = "none"],
         waits' = waits \ {p}, blocking' = blocking
  PROVE  WaitersOK' /\ Stale'
<1>1. WaitTypes /\ InLine /\ Asleep /\ Ended /\ Ordered
  BY DEF WaitersOK
<1>2. mFutex' = mFutex + 1 /\ old' = old /\ asleep' = asleep /\ mFutex \in Nat
      /\ old \in [Procs -> Nat] /\ waits \subseteq Procs
  BY <1>1 DEF C!NotifyOne, WaitTypes
<1>3. /\ ring' \in [{Thread} -> Seq(C!Requests)]
      /\ Len(Line') = Len(Line) + 1 /\ Len(Line) \in Nat
      /\ Line'[Len(Line) + 1] = Wake(m)
      /\ \A i \in 1..Len(Line) : Line'[i] = Line[i]
  BY <1>1, Prepared, RequestFacts DEF C!NotifyOne, Wake
<1>4. /\ ended' \in [Procs -> {"none", "woken", "cancelled"}] /\ ended'[p] = "none"
      /\ \A q \in Procs \ {p} : ended'[q] = ended[q]
  BY <1>1 DEF WaitTypes
<1>5. WaitTypes'
  BY <1>1, <1>2, <1>3, <1>4 DEF WaitTypes
<1>6. ASSUME NEW i \in 1..Len(Line'), Line'[i].op # "wake"
      PROVE  i \in 1..Len(Line) /\ Line'[i] = Line[i]
  <2>1. Wake(m).op = "wake"
    BY DEF Wake
  <2>2. i # Len(Line) + 1
    BY <1>3, <1>6, <2>1
  <2>3. QED
    BY <1>3, <2>2
<1>7. ASSUME NEW q \in waits, ended[q] = "none" PROVE q \in waits' /\ ended'[q] = "none"
  BY <1>1, <1>2, <1>4, <1>7
<1>8. InLine'
  <2> SUFFICES ASSUME NEW i \in 1..Len(Line'), Line'[i].op = "wait"
               PROVE  /\ Line'[i].who \in waits' /\ ended'[Line'[i].who] = "none"
                      /\ Line'[i].mask = Mask(Line'[i].who)
                      /\ \A j \in 1..Len(asleep') : asleep'[j].who # Line'[i].who
                      /\ \A j \in 1..Len(Line') :
                           Line'[j].op = "wait" /\ Line'[j].who = Line'[i].who => j = i
    BY DEF InLine, Mask
  <2>1. i \in 1..Len(Line) /\ Line'[i] = Line[i]
    BY <1>6
  <2>2. /\ Line[i].who \in waits /\ ended[Line[i].who] = "none"
        /\ Line[i].mask = Mask(Line[i].who)
        /\ \A j \in 1..Len(asleep) : asleep[j].who # Line[i].who
        /\ \A j \in 1..Len(Line) :
             Line[j].op = "wait" /\ Line[j].who = Line[i].who => j = i
    BY <1>1, <2>1 DEF InLine
  <2>3. \A j \in 1..Len(Line') :
          Line'[j].op = "wait" /\ Line'[j].who = Line'[i].who => j = i
    BY <1>6, <2>1, <2>2
  <2>4. QED
    BY <1>2, <1>7, <2>1, <2>2, <2>3
<1>9. Asleep'
  BY <1>1, <1>2, <1>7 DEF Asleep, Mask
<1>10. Ended'
  BY <1>1, <1>4 DEF Ended
<1>11. ASSUME NEW q \in waits PROVE old'[q] < mFutex'
  BY <1>1, <1>2 DEF Ordered
<1>12. Ordered'
  <2>1. \A q \in waits' : old'[q] <= mFutex'
    BY <1>2, <1>11
  <2>2. ASSUME NEW i \in 1..Len(Line'), NEW j \in 1..Len(Line'), i < j,
               Line'[i].op = "wait", Line'[j].op = "wake"
        PROVE  old'[Line'[i].who] < mFutex'
    BY <1>1, <1>6, <1>11, <2>2 DEF InLine
  <2>3. ASSUME NEW i \in 1..Len(asleep') PROVE old'[asleep'[i].who] < mFutex'
    BY <1>1, <1>2, <1>11 DEF Asleep
  <2>4. ASSUME NEW q \in Procs, ended'[q] = "woken" PROVE old'[q] < mFutex'
    BY <1>1, <1>4, <1>11, <2>4 DEF Ended
  <2>5. QED
    BY <2>1, <2>2, <2>3, <2>4 DEF Ordered
<1>13. Stale'
  <2> SUFFICES ASSUME NEW q \in waits' PROVE old'[q] # mFutex'
    BY DEF Stale
  <2>1. q \in waits /\ old'[q] < mFutex' /\ old'[q] \in Nat /\ mFutex' \in Nat
    BY <1>2, <1>11
  <2>2. QED
    BY <2>1
<1>14. QED
  BY <1>5, <1>8, <1>9, <1>10, <1>12, <1>13 DEF WaitersOK

(* push on a full queue, or pop on an empty one.                           *)
LEMMA SuspendWaiters ==
  ASSUME WaitersOK, Stale, NEW p \in blocking, p \notin waits \/ ended[p] = "woken",
         Suspend(p, Mask(p)), IF p \in Producers THEN R!full ELSE R!empty,
         ended' = [ended EXCEPT ![p] = "none"], blocking' = blocking
  PROVE  WaitersOK' /\ Stale'
<1> DEFINE r == [op |-> "wait", who |-> p, mask |-> Mask(p)]
<1>1. WaitTypes /\ InLine /\ Asleep /\ Ended /\ Ordered
  BY DEF WaitersOK
<1>2. /\ mFutex' = mFutex /\ asleep' = asleep /\ mFutex \in Nat
      /\ old \in [Procs -> Nat] /\ waits \subseteq Procs /\ p \in Procs
      /\ old' = [old EXCEPT ![p] = mFutex] /\ UNCHANGED queueVars
      /\ waits' = waits \cup {p} /\ C!Prepare(Thread, r)
  BY <1>1 DEF Suspend, C!Wait, C!FutexWait, WaitTypes
<1>3. r \in C!Requests /\ r.op = "wait" /\ r.who = p /\ r.mask = Mask(p)
  <2>1. Mask(p) \in Masks
    BY DEF Mask, Masks
  <2>2. QED
    BY <1>2, <2>1, RequestFacts
<1> HIDE DEF r
<1>4. /\ ring' \in [{Thread} -> Seq(C!Requests)]
      /\ Len(Line') = Len(Line) + 1 /\ Len(Line) \in Nat
      /\ Line'[Len(Line) + 1] = r
      /\ \A i \in 1..Len(Line) : Line'[i] = Line[i]
  BY <1>1, <1>2, <1>3, Prepared
<1>5. /\ ended' \in [Procs -> {"none", "woken", "cancelled"}] /\ ended'[p] = "none"
      /\ \A q \in Procs \ {p} : ended'[q] = ended[q]
      /\ old' \in [Procs -> Nat] /\ old'[p] = mFutex
      /\ \A q \in Procs \ {p} : old'[q] = old[q]
  BY <1>1, <1>2 DEF WaitTypes
<1>6. WaitTypes'
  BY <1>1, <1>2, <1>4, <1>5 DEF WaitTypes
<1>7. ASSUME NEW q \in waits, ended[q] = "none"
      PROVE  q # p /\ q \in waits' /\ ended'[q] = "none" /\ old'[q] = old[q]
  BY <1>1, <1>2, <1>5, <1>7
<1>8. ASSUME NEW i \in 1..Len(Line'), i # Len(Line) + 1
      PROVE  i \in 1..Len(Line) /\ Line'[i] = Line[i]
  BY <1>4, <1>8
<1>9. InLine'
  <2> SUFFICES ASSUME NEW i \in 1..Len(Line'), Line'[i].op = "wait"
               PROVE  /\ Line'[i].who \in waits' /\ ended'[Line'[i].who] = "none"
                      /\ Line'[i].mask = Mask(Line'[i].who)
                      /\ \A j \in 1..Len(asleep') : asleep'[j].who # Line'[i].who
                      /\ \A j \in 1..Len(Line') :
                           Line'[j].op = "wait" /\ Line'[j].who = Line'[i].who => j = i
    BY DEF InLine, Mask
  <2>1. ASSUME NEW j \in 1..Len(Line), Line[j].op = "wait" PROVE Line[j].who # p
    BY <1>1, <1>7, <2>1 DEF InLine
  <2>2. CASE i = Len(Line) + 1
    <3>1. \A j \in 1..Len(asleep) : asleep[j].who # p
      BY <1>1, <1>7 DEF Asleep
    <3>2. \A j \in 1..Len(Line') : Line'[j].op = "wait" /\ Line'[j].who = p => j = i
      BY <1>8, <2>1, <2>2
    <3>3. QED
      BY <1>2, <1>3, <1>4, <1>5, <2>2, <3>1, <3>2
  <2>3. CASE i # Len(Line) + 1
    <3>1. i \in 1..Len(Line) /\ Line'[i] = Line[i]
      BY <1>8, <2>3
    <3>2. /\ Line[i].who \in waits /\ ended[Line[i].who] = "none"
          /\ Line[i].mask = Mask(Line[i].who)
          /\ \A j \in 1..Len(asleep) : asleep[j].who # Line[i].who
          /\ \A j \in 1..Len(Line) :
               Line[j].op = "wait" /\ Line[j].who = Line[i].who => j = i
      BY <1>1, <3>1 DEF InLine
    <3>3. Line[i].who # p /\ Line[i].who \in waits' /\ ended'[Line[i].who] = "none"
      BY <1>7, <3>2
    <3>4. \A j \in 1..Len(Line') :
            Line'[j].op = "wait" /\ Line'[j].who = Line'[i].who => j = i
      BY <1>3, <1>4, <1>8, <3>1, <3>2, <3>3
    <3>5. QED
      BY <1>2, <3>1, <3>2, <3>3, <3>4
  <2>4. QED
    BY <2>2, <2>3
<1>10. Asleep'
  BY <1>1, <1>2, <1>7 DEF Asleep, Mask
<1>11. Ended'
  BY <1>1, <1>2, <1>5 DEF Ended
<1>12. Ordered'
  <2>1. \A q \in waits' : old'[q] <= mFutex'
    BY <1>1, <1>2, <1>5 DEF Ordered
  <2>2. ASSUME NEW i \in 1..Len(Line'), NEW j \in 1..Len(Line'), i < j,
               Line'[i].op = "wait", Line'[j].op = "wake"
        PROVE  old'[Line'[i].who] < mFutex'
    <3>1. j # Len(Line) + 1
      BY <1>3, <1>4, <2>2
    <3>2. i \in 1..Len(Line) /\ Line'[i] = Line[i] /\ j \in 1..Len(Line) /\ Line'[j] = Line[j]
      BY <1>4, <1>8, <2>2, <3>1
    <3>3. Line[i].who \in waits /\ ended[Line[i].who] = "none"
      BY <1>1, <2>2, <3>2 DEF InLine
    <3>4. old[Line[i].who] < mFutex
      BY <1>1, <2>2, <3>2 DEF Ordered
    <3>5. QED
      BY <1>2, <1>7, <3>2, <3>3, <3>4
  <2>3. ASSUME NEW i \in 1..Len(asleep'), NEW j \in 1..Len(Line'), Line'[j].op = "wake"
        PROVE  old'[asleep'[i].who] < mFutex'
    <3>1. j \in 1..Len(Line) /\ Line'[j] = Line[j] /\ i \in 1..Len(asleep)
      BY <1>2, <1>3, <1>4, <1>8, <2>3
    <3>2. old[asleep[i].who] < mFutex /\ asleep[i].who \in waits /\ ended[asleep[i].who] = "none"
      BY <1>1, <2>3, <3>1 DEF Ordered, Asleep
    <3>3. QED
      BY <1>2, <1>7, <3>2
  <2>4. ASSUME NEW q \in Procs, ended'[q] = "woken" PROVE old'[q] < mFutex'
    BY <1>1, <1>2, <1>5, <2>4 DEF Ordered
  <2>5. QED
    BY <2>1, <2>2, <2>3, <2>4 DEF Ordered
<1>13. Stale'
  <2> SUFFICES ASSUME NEW q \in waits', old'[q] = mFutex'
               PROVE  IF q \in Producers THEN R!full' ELSE R!empty'
    BY DEF Stale
  <2>1. R!full' = R!full /\ R!empty' = R!empty
    BY <1>2 DEF R!full, R!empty, R!After, queueVars
  <2>2. CASE q = p
    BY <2>1, <2>2
  <2>3. CASE q # p
    BY <1>2, <1>5, <2>1, <2>3 DEF Stale
  <2>4. QED
    BY <2>2, <2>3
<1>14. QED
  BY <1>6, <1>9, <1>10, <1>11, <1>12, <1>13 DEF WaitersOK
(* A cancellation is one more request, and a wait that was cancelled ends. *)
LEMMA CancelWaiters ==
  ASSUME WaitersOK, NEW p \in Procs, C!Cancel(Thread, p), UNCHANGED <<waits, blocking>>
  PROVE  WaitersOK'
<1> DEFINE r == [op |-> "cancel", who |-> p]
<1>1. WaitTypes /\ InLine /\ Asleep /\ Ended /\ Ordered
  BY DEF WaitersOK
<1>2. /\ UNCHANGED <<mFutex, old, asleep, ended, waits, blocking>> /\ C!Prepare(Thread, r)
  BY DEF C!Cancel
<1>3. r \in C!Requests /\ r.op = "cancel"
  BY DEF C!Requests
<1> HIDE DEF r
<1>4. /\ ring' \in [{Thread} -> Seq(C!Requests)]
      /\ Len(Line') = Len(Line) + 1 /\ Len(Line) \in Nat
      /\ Line'[Len(Line) + 1] = r
      /\ \A i \in 1..Len(Line) : Line'[i] = Line[i]
  BY <1>1, <1>2, <1>3, Prepared
<1>5. ASSUME NEW i \in 1..Len(Line'), Line'[i].op # "cancel"
      PROVE  i \in 1..Len(Line) /\ Line'[i] = Line[i]
  <2>1. i # Len(Line) + 1
    BY <1>3, <1>4, <1>5
  <2>2. QED
    BY <1>4, <2>1
<1>6. WaitTypes'
  BY <1>1, <1>2, <1>4 DEF WaitTypes
<1>7. InLine'
  <2> SUFFICES ASSUME NEW i \in 1..Len(Line'), Line'[i].op = "wait"
               PROVE  /\ Line'[i].who \in waits' /\ ended'[Line'[i].who] = "none"
                      /\ Line'[i].mask = Mask(Line'[i].who)
                      /\ \A j \in 1..Len(asleep') : asleep'[j].who # Line'[i].who
                      /\ \A j \in 1..Len(Line') :
                           Line'[j].op = "wait" /\ Line'[j].who = Line'[i].who => j = i
    BY DEF InLine, Mask
  <2>1. i \in 1..Len(Line) /\ Line'[i] = Line[i]
    BY <1>5
  <2>2. \A j \in 1..Len(Line') : Line'[j].op = "wait" =>
          j \in 1..Len(Line) /\ Line'[j] = Line[j]
    BY <1>5
  <2>3. QED
    BY <1>1, <1>2, <2>1, <2>2 DEF InLine
<1>8. Asleep' /\ Ended'
  BY <1>1, <1>2 DEF Asleep, Ended, Mask
<1>9. Ordered'
  <2>1. ASSUME NEW i \in 1..Len(Line'), NEW j \in 1..Len(Line'), i < j,
               Line'[i].op = "wait", Line'[j].op = "wake"
        PROVE  old'[Line'[i].who] < mFutex'
    <3>1. i \in 1..Len(Line) /\ Line'[i] = Line[i] /\ j \in 1..Len(Line) /\ Line'[j] = Line[j]
      BY <1>5, <2>1
    <3>2. QED
      BY <1>1, <1>2, <2>1, <3>1 DEF Ordered
  <2>2. ASSUME NEW i \in 1..Len(asleep'), NEW j \in 1..Len(Line'), Line'[j].op = "wake"
        PROVE  old'[asleep'[i].who] < mFutex'
    <3>1. j \in 1..Len(Line) /\ Line'[j] = Line[j]
      BY <1>5, <2>2
    <3>2. QED
      BY <1>1, <1>2, <2>2, <3>1 DEF Ordered
  <2>3. (\A q \in waits' : old'[q] <= mFutex')
        /\ \A q \in Procs : ended'[q] = "woken" => old'[q] < mFutex'
    BY <1>1, <1>2 DEF Ordered
  <2>4. QED
    BY <2>1, <2>2, <2>3 DEF Ordered
<1>10. QED
  BY <1>6, <1>7, <1>8, <1>9 DEF WaitersOK

LEMMA CancelledWaiters ==
  ASSUME WaitersOK, NEW p \in Procs, ended[p] # "none",
         ended' = [ended EXCEPT ![p] = "none"], waits' = waits \ {p},
         UNCHANGED <<mFutex, old, ring, asleep, blocking>>
  PROVE  WaitersOK'
<1>1. WaitTypes /\ InLine /\ Asleep /\ Ended /\ Ordered
  BY DEF WaitersOK
<1>2. /\ ended' \in [Procs -> {"none", "woken", "cancelled"}] /\ ended'[p] = "none"
      /\ \A q \in Procs \ {p} : ended'[q] = ended[q]
  BY <1>1 DEF WaitTypes
<1>3. Line' = Line
  BY DEF Line
<1>4. ASSUME NEW q \in waits, ended[q] = "none" PROVE q \in waits' /\ ended'[q] = "none"
  BY <1>1, <1>2, <1>4 DEF WaitTypes
<1>5. WaitTypes'
  BY <1>1, <1>2 DEF WaitTypes
<1>6. InLine' /\ Asleep'
  BY <1>1, <1>3, <1>4 DEF InLine, Asleep, Mask
<1>7. Ended'
  BY <1>1, <1>2 DEF Ended
<1>8. Ordered'
  BY <1>1, <1>2, <1>3 DEF Ordered
<1>9. QED
  BY <1>5, <1>6, <1>7, <1>8 DEF WaitersOK

(* What the kernel may make of the oldest request r.                       *)
Sleeps(r) == /\ r.op = "wait" /\ mFutex = old[r.who]
             /\ asleep' = Append(asleep, [who |-> r.who, mask |-> r.mask])
             /\ ended' = ended
Again(r)  == /\ r.op = "wait" /\ mFutex # old[r.who]
             /\ ended' = [ended EXCEPT ![r.who] = "woken"]
             /\ asleep' = asleep
Ends(r, k) == /\ r.op # "wait" /\ k \in 1..Len(asleep) /\ C!Ends(r, asleep[k])
              /\ asleep' = C!S!RemoveAt(asleep, k)
              /\ ended' = [ended EXCEPT ![asleep[k].who] = IF r.op = "wake" THEN "woken" ELSE "cancelled"]
Misses(r) == /\ r.op # "wait" /\ \A i \in 1..Len(asleep) : ~C!Ends(r, asleep[i])
             /\ asleep' = asleep /\ ended' = ended

LEMMA KernelTakes ==
  ASSUME WaitTypes, C!Kernel(Thread)
  PROVE  /\ ring' \in [{Thread} -> Seq(C!Requests)] /\ UNCHANGED <<mFutex, old>>
         /\ Line # << >> /\ Line \in Seq(C!Requests) /\ Line' = Tail(Line)
         /\ Len(Line) \in Nat \ {0} /\ Len(Line') = Len(Line) - 1
         /\ \A i \in 1..(Len(Line) - 1) : Line'[i] = Line[i + 1]
         /\ Head(Line) = Line[1] /\ Line[1] \in C!Requests
         /\ \/ Sleeps(Line[1]) \/ Again(Line[1]) \/ Misses(Line[1])
            \/ \E k \in 1..Len(asleep) : Ends(Line[1], k)
<1>1. ring \in [{Thread} -> Seq(C!Requests)] /\ Thread \in {Thread} /\ Line = ring[Thread]
      /\ Line \in Seq(C!Requests) /\ asleep \in Seq([who : Procs, mask : Masks])
  BY DEF WaitTypes, Line
<1>2. /\ Line # << >> /\ UNCHANGED <<mFutex, old>>
      /\ ring' = [ring EXCEPT ![Thread] = Tail(@)]
  BY <1>1 DEF C!Kernel
<1>3. Tail(Line) \in Seq(C!Requests) /\ Head(Line) = Line[1] /\ Line[1] \in C!Requests
      /\ Len(Line) \in Nat \ {0} /\ Len(Tail(Line)) = Len(Line) - 1
      /\ \A i \in 1..(Len(Line) - 1) : Tail(Line)[i] = Line[i + 1]
  BY <1>1, <1>2
<1>4. ring' \in [{Thread} -> Seq(C!Requests)] /\ Line' = Tail(Line)
  BY <1>1, <1>2, <1>3 DEF Line
<1>5. \/ Sleeps(Line[1]) \/ Again(Line[1]) \/ Misses(Line[1])
      \/ \E k \in 1..Len(asleep) : Ends(Line[1], k)
  <2> DEFINE r == Line[1]
             k == C!S!SelectInSeq(asleep, LAMBDA s : C!Ends(r, s))
  <2>1. \/ /\ r.op = "wait" /\ mFutex = old[r.who]
           /\ asleep' = Append(asleep, [who |-> r.who, mask |-> r.mask])
           /\ UNCHANGED ended
        \/ /\ r.op = "wait" /\ mFutex # old[r.who]
           /\ C!Complete(r.who, "woken")
           /\ UNCHANGED asleep
        \/ /\ r.op # "wait" /\ k > 0
           /\ asleep' = C!S!RemoveAt(asleep, k)
           /\ C!Complete(asleep[k].who, IF r.op = "wake" THEN "woken" ELSE "cancelled")
        \/ /\ r.op # "wait" /\ k = 0
           /\ UNCHANGED <<asleep, ended>>
    BY <1>1, <1>3 DEF C!Kernel
  <2>2. \/ k = 0 /\ \A i \in 1..Len(asleep) : ~C!Ends(r, asleep[i])
        \/ k \in 1..Len(asleep) /\ C!Ends(r, asleep[k])
    BY <1>1, FirstEnded
  <2> HIDE DEF k, r
  <2>3. k > 0 => k \in 1..Len(asleep) /\ C!Ends(r, asleep[k])
    BY <2>2
  <2>4. k = 0 => \A i \in 1..Len(asleep) : ~C!Ends(r, asleep[i])
    BY <2>2
  <2>5. QED
    BY <2>1, <2>3, <2>4 DEF Sleeps, Again, Ends, Misses, C!Complete, r
<1>6. QED
  BY <1>2, <1>3, <1>4, <1>5, <1>1
LEMMA KernelWaiters ==
  ASSUME WaitersOK, Stale, C!Kernel(Thread), UNCHANGED <<queueVars, blocking, waits>>
  PROVE  WaitersOK' /\ Stale'
<1> DEFINE r == Line[1]
           w == r.who
<1>1. WaitTypes /\ InLine /\ Asleep /\ Ended /\ Ordered
  BY DEF WaitersOK
<1>2. /\ ring' \in [{Thread} -> Seq(C!Requests)] /\ UNCHANGED <<mFutex, old, waits, blocking>>
      /\ Len(Line) \in Nat \ {0} /\ Len(Line') = Len(Line) - 1
      /\ \A i \in 1..(Len(Line) - 1) : Line'[i] = Line[i + 1]
      /\ r \in C!Requests
  BY <1>1, KernelTakes
<1>3. \/ Sleeps(r) \/ Again(r) \/ Misses(r)
      \/ \E k \in 1..Len(asleep) : Ends(r, k)
  BY <1>1, KernelTakes
<1>4. ASSUME NEW i \in 1..Len(Line')
      PROVE  i + 1 \in 1..Len(Line) /\ Line'[i] = Line[i + 1] /\ i + 1 # 1
  BY <1>2, <1>4
<1>5. 1 \in 1..Len(Line) /\ asleep \in Seq([who : Procs, mask : Masks]) /\ Len(asleep) \in Nat
      /\ ended \in [Procs -> {"none", "woken", "cancelled"}]
  BY <1>1, <1>2 DEF WaitTypes
<1>6. ASSUME \A i \in 1..Len(Line') : Line'[i].op = "wait" =>
               /\ ended'[Line'[i].who] = "none"
               /\ \A j \in 1..Len(asleep') : asleep'[j].who # Line'[i].who
      PROVE  InLine'
  <2> SUFFICES ASSUME NEW i \in 1..Len(Line'), Line'[i].op = "wait"
               PROVE  /\ Line'[i].who \in waits' /\ ended'[Line'[i].who] = "none"
                      /\ Line'[i].mask = Mask(Line'[i].who)
                      /\ \A j \in 1..Len(asleep') : asleep'[j].who # Line'[i].who
                      /\ \A j \in 1..Len(Line') :
                           Line'[j].op = "wait" /\ Line'[j].who = Line'[i].who => j = i
    BY DEF InLine, Mask
  <2>1. /\ Line[i + 1].who \in waits /\ Line[i + 1].mask = Mask(Line[i + 1].who)
        /\ \A j \in 1..Len(Line) :
             Line[j].op = "wait" /\ Line[j].who = Line[i + 1].who => j = i + 1
    BY <1>1, <1>4 DEF InLine
  <2>2. ASSUME NEW j \in 1..Len(Line'), Line'[j].op = "wait", Line'[j].who = Line'[i].who
        PROVE  j = i
    <3>1. j + 1 = i + 1
      BY <1>4, <2>1, <2>2
    <3>2. i \in Nat /\ j \in Nat
      BY <1>2
    <3>3. QED
      BY <3>1, <3>2
  <2>3. QED
    BY <1>2, <1>4, <1>6, <2>1, <2>2
<1>7. \A i \in 1..Len(Line') : Line'[i].op = "wait" =>
        /\ ended[Line'[i].who] = "none" /\ (r.op = "wait" => Line'[i].who # w)
        /\ \A j \in 1..Len(asleep) : asleep[j].who # Line'[i].who
  <2> SUFFICES ASSUME NEW i \in 1..Len(Line'), Line'[i].op = "wait"
               PROVE  /\ ended[Line'[i].who] = "none" /\ (r.op = "wait" => Line'[i].who # w)
                      /\ \A j \in 1..Len(asleep) : asleep[j].who # Line'[i].who
    OBVIOUS
  <2>1. /\ ended[Line[i + 1].who] = "none"
        /\ \A j \in 1..Len(asleep) : asleep[j].who # Line[i + 1].who
        /\ \A j \in 1..Len(Line) :
             Line[j].op = "wait" /\ Line[j].who = Line[i + 1].who => j = i + 1
    BY <1>1, <1>4 DEF InLine
  <2>2. r.op = "wait" => w # Line[i + 1].who
    BY <1>4, <1>5, <2>1
  <2>3. QED
    BY <1>4, <2>1, <2>2
<1>8. \A i, j \in 1..Len(Line') : i < j /\ Line'[i].op = "wait" /\ Line'[j].op = "wake"
        => old'[Line'[i].who] < mFutex'
  <2> SUFFICES ASSUME NEW i \in 1..Len(Line'), NEW j \in 1..Len(Line'), i < j,
                      Line'[i].op = "wait", Line'[j].op = "wake"
               PROVE  old'[Line'[i].who] < mFutex'
    OBVIOUS
  <2>1. i + 1 < j + 1
    BY <1>2
  <2>2. QED
    BY <1>1, <1>2, <1>4, <2>1 DEF Ordered
<1>9. \A i \in 1..Len(asleep), j \in 1..Len(Line') :
        Line'[j].op = "wake" => old[asleep[i].who] < mFutex
  BY <1>1, <1>4 DEF Ordered
<1>10. \A q \in waits' : old'[q] <= mFutex'
  BY <1>1, <1>2 DEF Ordered
<1>11. r.op = "wait" =>
         /\ w \in waits /\ w \in Procs /\ ended[w] = "none" /\ r.mask = Mask(w)
         /\ \A j \in 1..Len(asleep) : asleep[j].who # w
         /\ Mask(w) \in Masks
  BY <1>1, <1>5 DEF InLine, WaitTypes, Mask, Masks
<1>12. \A p \in Procs : Mask(p)' = Mask(p)
  BY DEF Mask
<1> HIDE DEF r, w
<1>13. ASSUME Sleeps(r) PROVE WaitersOK'
  <2> DEFINE s == [who |-> w, mask |-> r.mask]
  <2>1. r.op = "wait" /\ mFutex = old[w] /\ asleep' = Append(asleep, s) /\ ended' = ended
    BY <1>13 DEF Sleeps, w
  <2>2. s \in [who : Procs, mask : Masks] /\ s.who = w /\ s.mask = Mask(w)
    BY <1>11, <2>1
  <2> HIDE DEF s
  <2>3. /\ asleep' \in Seq([who : Procs, mask : Masks])
        /\ Len(asleep') = Len(asleep) + 1 /\ asleep'[Len(asleep) + 1] = s
        /\ \A j \in 1..Len(asleep) : asleep'[j] = asleep[j]
    BY <1>5, <2>1, <2>2
  <2>4. ASSUME NEW j \in 1..Len(asleep'), j # Len(asleep) + 1
        PROVE  j \in 1..Len(asleep) /\ asleep'[j] = asleep[j]
    BY <1>5, <2>3, <2>4
  <2>5. WaitTypes'
    BY <1>1, <1>2, <2>1, <2>3 DEF WaitTypes
  <2>6. InLine'
    <3>1. ASSUME NEW i \in 1..Len(Line'), Line'[i].op = "wait", NEW j \in 1..Len(asleep')
          PROVE  asleep'[j].who # Line'[i].who
      BY <1>7, <2>1, <2>2, <2>3, <2>4, <3>1
    <3>2. QED
      BY <1>6, <1>7, <2>1, <3>1
  <2>7. Asleep'
    <3> SUFFICES ASSUME NEW i \in 1..Len(asleep')
                 PROVE  /\ asleep'[i].who \in waits' /\ ended'[asleep'[i].who] = "none"
                        /\ asleep'[i].mask = Mask(asleep'[i].who)
                        /\ \A j \in 1..Len(asleep') : asleep'[j].who = asleep'[i].who => j = i
      BY DEF Asleep, Mask
    <3>1. CASE i = Len(asleep) + 1
      <4>1. \A j \in 1..Len(asleep') : asleep'[j].who = w => j = i
        BY <1>11, <2>1, <2>4, <3>1
      <4>2. QED
        BY <1>2, <1>11, <2>1, <2>2, <2>3, <3>1, <4>1
    <3>2. CASE i # Len(asleep) + 1
      <4>1. /\ asleep'[i] = asleep[i] /\ asleep[i].who # w
            /\ asleep[i].who \in waits /\ ended[asleep[i].who] = "none"
            /\ asleep[i].mask = Mask(asleep[i].who)
            /\ \A j \in 1..Len(asleep) : asleep[j].who = asleep[i].who => j = i
        BY <1>1, <1>11, <2>1, <2>4, <3>2 DEF Asleep
      <4>2. \A j \in 1..Len(asleep') : asleep'[j].who = asleep'[i].who => j = i
        BY <2>2, <2>3, <2>4, <4>1
      <4>3. QED
        BY <1>2, <2>1, <4>1, <4>2
    <3>3. QED
      BY <3>1, <3>2
  <2>8. Ended'
    BY <1>1, <1>2, <2>1 DEF Ended
  <2>9. Ordered'
    <3>1. ASSUME NEW i \in 1..Len(asleep'), NEW j \in 1..Len(Line'), Line'[j].op = "wake"
          PROVE  old'[asleep'[i].who] < mFutex'
      <4>1. CASE i = Len(asleep) + 1
        <5>1. Line[j + 1].op = "wake" /\ j + 1 \in 1..Len(Line) /\ 1 < j + 1
          BY <1>2, <1>4, <3>1
        <5>2. old[w] < mFutex
          BY <1>1, <1>5, <2>1, <5>1 DEF Ordered, r, w
        <5>3. QED
          BY <1>2, <2>2, <2>3, <4>1, <5>2
      <4>2. CASE i # Len(asleep) + 1
        BY <1>2, <1>9, <2>4, <3>1, <4>2
      <4>3. QED
        BY <4>1, <4>2
    <3>2. \A q \in Procs : ended'[q] = "woken" => old'[q] < mFutex'
      BY <1>1, <1>2, <2>1 DEF Ordered
    <3>3. QED
      BY <1>8, <1>10, <3>1, <3>2 DEF Ordered
  <2>10. QED
    BY <2>5, <2>6, <2>7, <2>8, <2>9 DEF WaitersOK
<1>14. ASSUME Again(r) PROVE WaitersOK'
  <2>1. /\ r.op = "wait" /\ mFutex # old[w] /\ asleep' = asleep
        /\ ended' = [ended EXCEPT ![w] = "woken"]
    BY <1>14 DEF Again, w
  <2>2. /\ ended' \in [Procs -> {"none", "woken", "cancelled"}]
        /\ \A q \in Procs \ {w} : ended'[q] = ended[q]
    BY <1>5, <2>1
  <2>3. waits \subseteq Procs /\ old \in [Procs -> Nat] /\ mFutex \in Nat
    BY <1>1 DEF WaitTypes
  <2>4. WaitTypes'
    BY <1>1, <1>2, <2>1, <2>2 DEF WaitTypes
  <2>5. InLine'
    <3>1. ASSUME NEW i \in 1..Len(Line'), Line'[i].op = "wait"
          PROVE  Line'[i].who \in Procs \ {w}
      BY <1>1, <1>4, <1>7, <2>1, <2>3, <3>1 DEF InLine
    <3>2. QED
      BY <1>6, <1>7, <2>1, <2>2, <3>1
  <2>6. Asleep'
    <3>1. ASSUME NEW i \in 1..Len(asleep) PROVE ended'[asleep[i].who] = "none"
      BY <1>1, <1>11, <2>1, <2>2, <2>3 DEF Asleep
    <3>2. QED
      BY <1>1, <1>2, <1>12, <2>1, <3>1 DEF Asleep, Mask
  <2>7. Ended'
    BY <1>1, <1>2, <1>11, <2>1, <2>2 DEF Ended
  <2>8. Ordered'
    <3>1. old[w] < mFutex
      <4>1. old[w] <= mFutex /\ old[w] \in Nat
        BY <1>1, <1>11, <2>1, <2>3 DEF Ordered
      <4>2. QED
        BY <2>1, <2>3, <4>1
    <3>2. \A q \in Procs : ended'[q] = "woken" => old'[q] < mFutex'
      BY <1>1, <1>2, <2>2, <3>1 DEF Ordered
    <3>3. QED
      BY <1>2, <1>8, <1>9, <1>10, <2>1, <3>2 DEF Ordered
  <2>9. QED
    BY <2>4, <2>5, <2>6, <2>7, <2>8 DEF WaitersOK
<1>15. ASSUME Misses(r) PROVE WaitersOK'
  <2>1. asleep' = asleep /\ ended' = ended
    BY <1>15 DEF Misses
  <2>2. WaitTypes'
    BY <1>1, <1>2, <2>1 DEF WaitTypes
  <2>3. InLine'
    BY <1>6, <1>7, <2>1
  <2>4. Asleep' /\ Ended'
    BY <1>1, <1>2, <2>1 DEF Asleep, Ended, Mask
  <2>5. Ordered'
    <3>1. \A q \in Procs : ended'[q] = "woken" => old'[q] < mFutex'
      BY <1>1, <1>2, <2>1 DEF Ordered
    <3>2. QED
      BY <1>2, <1>8, <1>9, <1>10, <2>1, <3>1 DEF Ordered
  <2>6. QED
    BY <2>2, <2>3, <2>4, <2>5 DEF WaitersOK
<1>16. ASSUME NEW k \in 1..Len(asleep), Ends(r, k) PROVE WaitersOK'
  <2> DEFINE z == asleep[k].who
             how == IF r.op = "wake" THEN "woken" ELSE "cancelled"
  <2>1. r.op # "wait" /\ asleep' = C!S!RemoveAt(asleep, k) /\ ended' = [ended EXCEPT ![z] = how]
    BY <1>16 DEF Ends
  <2>2. /\ z \in waits /\ z \in Procs /\ ended[z] = "none"
        /\ \A j \in 1..Len(asleep) : asleep[j].who = z => j = k
    BY <1>1, <1>5 DEF Asleep, WaitTypes
  <2>3. /\ asleep' \in Seq([who : Procs, mask : Masks]) /\ Len(asleep') = Len(asleep) - 1
        /\ \A i \in 1..Len(asleep') : asleep'[i] = IF i < k THEN asleep[i] ELSE asleep[i + 1]
    <3>1. asleep \in Seq([who : Procs, mask : Masks]) /\ asleep' = C!S!RemoveAt(asleep, k)
      BY <1>5, <2>1, Zenon
    <3>2. QED
      BY <3>1, Removed
  <2>4. r.op = "wake" => old[z] < mFutex
    BY <1>1, <1>5 DEF Ordered, r
  <2> HIDE DEF z
  <2>5. ended'[z] = how /\ ended' \in [Procs -> {"none", "woken", "cancelled"}]
        /\ \A q \in Procs \ {z} : ended'[q] = ended[q]
    BY <1>5, <2>1, <2>2
  <2> HIDE DEF how
  <2> DEFINE pos(i) == IF i < k THEN i ELSE i + 1
  <2>6. ASSUME NEW i \in 1..Len(asleep')
        PROVE  /\ pos(i) \in 1..Len(asleep) /\ asleep'[i] = asleep[pos(i)]
               /\ pos(i) # k
    BY <1>5, <2>3
  <2>7. ASSUME NEW i \in 1..Len(asleep'), NEW j \in 1..Len(asleep'), pos(i) = pos(j)
        PROVE  i = j
    BY <1>5, <2>3, <2>7
  <2> HIDE DEF pos
  <2>8. ASSUME NEW i \in 1..Len(asleep')
        PROVE  /\ asleep'[i].who \in waits /\ asleep'[i].who \in Procs \ {z}
               /\ ended[asleep'[i].who] = "none" /\ asleep'[i].mask = Mask(asleep'[i].who)
    <3>1. /\ asleep[pos(i)].who \in waits /\ ended[asleep[pos(i)].who] = "none"
          /\ asleep[pos(i)].mask = Mask(asleep[pos(i)].who)
      BY <1>1, <2>6 DEF Asleep
    <3>2. asleep[pos(i)].who # z
      BY <2>2, <2>6
    <3>3. QED
      BY <1>1, <2>6, <3>1, <3>2 DEF WaitTypes
  <2>9. WaitTypes'
    BY <1>1, <1>2, <2>3, <2>5 DEF WaitTypes
  <2>10. InLine'
    <3>1. ASSUME NEW i \in 1..Len(Line'), Line'[i].op = "wait"
          PROVE  /\ Line'[i].who \in Procs \ {z}
                 /\ \A j \in 1..Len(asleep') : asleep'[j].who # Line'[i].who
      <4>1. Line'[i].who \in Procs
        BY <1>1, <1>4, <3>1 DEF InLine, WaitTypes
      <4>2. \A j \in 1..Len(asleep) : asleep[j].who # Line'[i].who
        BY <1>7, <3>1
      <4>3. QED
        BY <2>6, <4>1, <4>2 DEF z
    <3>2. QED
      BY <1>6, <1>7, <2>5, <3>1
  <2>11. Asleep'
    <3> SUFFICES ASSUME NEW i \in 1..Len(asleep')
                 PROVE  /\ asleep'[i].who \in waits' /\ ended'[asleep'[i].who] = "none"
                        /\ asleep'[i].mask = Mask(asleep'[i].who)
                        /\ \A j \in 1..Len(asleep') : asleep'[j].who = asleep'[i].who => j = i
      BY DEF Asleep, Mask
    <3>1. ASSUME NEW j \in 1..Len(asleep'), asleep'[j].who = asleep'[i].who PROVE j = i
      <4>1. pos(j) = pos(i)
        BY <1>1, <2>6, <3>1 DEF Asleep
      <4>2. QED
        BY <2>7, <4>1
    <3>2. QED
      BY <1>2, <2>5, <2>8, <3>1
  <2>12. Ended'
    BY <1>1, <1>2, <2>2, <2>5 DEF Ended
  <2>13. Ordered'
    <3>1. ASSUME NEW i \in 1..Len(asleep'), NEW j \in 1..Len(Line'), Line'[j].op = "wake"
          PROVE  old'[asleep'[i].who] < mFutex'
      BY <1>2, <1>9, <2>6, <3>1
    <3>2. how = "woken" => r.op = "wake"
      BY DEF how
    <3>3. \A q \in Procs : ended'[q] = "woken" => old'[q] < mFutex'
      BY <1>1, <1>2, <2>4, <2>5, <3>2 DEF Ordered
    <3>4. QED
      BY <1>8, <1>10, <3>1, <3>3 DEF Ordered
  <2>14. QED
    BY <2>9, <2>10, <2>11, <2>12, <2>13 DEF WaitersOK
<1>17. Stale'
  BY <1>2 DEF Stale, R!full, R!empty, R!After, queueVars
<1>18. QED
  BY <1>3, <1>13, <1>14, <1>15, <1>16, <1>17
------------------------------------------------------------------------------
(* Help for those who sleep.                                               *)

Pending(m) == Cardinality(Positions(Line, Wake(m)))
Looking(P) == Cardinality({p \in P : ended[p] = "woken"})

(* The sleepers of a side, n of whom could be served: when everybody       *)
(* notifies there is help for each value, or room, and otherwise, since    *)
(* there is one sleeper at most, some help.                                *)
Helped(P, m, n) == Sleepers(P) # {} /\ n > 0 =>
                     IF blocking = Procs THEN Pending(m) + Looking(P) >= n
                                         ELSE Pending(m) >= 1

Lone(P) == \A p, q \in blocking \cap P : p = q

Sides == /\ Helped(Consumers, kNonEmptyMask, UnderWay)
         /\ Helped(Producers, kNonFullMask, Size - UnderWay)
         /\ blocking = Procs \/ (Lone(Producers) /\ Lone(Consumers))

Side(P, m) == \/ P = Consumers /\ m = kNonEmptyMask
              \/ P = Producers /\ m = kNonFullMask

LEMMA SideFacts ==
  ASSUME WaitTypes, NEW P, NEW m, Side(P, m)
  PROVE  /\ P \subseteq Procs /\ IsFiniteSet(P) /\ m \in Masks
         /\ Pending(m) \in Nat /\ Looking(P) \in Nat
         /\ \A p \in Procs : Mask(p) = m <=> p \in P
<1>1. P \subseteq Producers \cup Consumers /\ m \in Masks
  BY DEF Side, Masks
<1>2. IsFiniteSet(P) /\ P \subseteq Procs
  BY <1>1, FS_Subset, QueueAssumption DEF Procs
<1>3. Line \in Seq(C!Requests)
  BY DEF WaitTypes, Line
<1>4. Pending(m) \in Nat
  BY <1>3, PositionsFinite DEF Pending
<1>5. Looking(P) \in Nat
  <2>1. {p \in P : ended[p] = "woken"} \subseteq P
    OBVIOUS
  <2>2. QED
    BY <1>2, <2>1, FS_Subset, FS_CardinalityType DEF Looking
<1>6. \A p \in Procs : Mask(p) = m <=> p \in P
  BY QueueAssumption DEF Side, Mask, Procs, kNonEmptyMask, kNonFullMask
<1>7. QED
  BY <1>1, <1>2, <1>4, <1>5, <1>6

(* One coroutine's request ends, or its end is taken.                      *)
LEMMA LookingStep ==
  ASSUME WaitTypes, NEW P, NEW m, Side(P, m), NEW p \in Procs, NEW x,
         ended' = [ended EXCEPT ![p] = x]
  PROVE  /\ p \notin P => Looking(P)' = Looking(P)
         /\ (ended[p] = "woken" <=> x = "woken") => Looking(P)' = Looking(P)
         /\ p \in P /\ ended[p] # "woken" /\ x = "woken" => Looking(P)' = Looking(P) + 1
         /\ p \in P /\ ended[p] = "woken" /\ x # "woken" => Looking(P)' = Looking(P) - 1
         /\ Looking(P)' \in Nat
<1> DEFINE L == {q \in P : ended[q] = "woken"}
           M == {q \in P : ended'[q] = "woken"}
<1>1. /\ ended'[p] = x /\ (\A q \in Procs \ {p} : ended'[q] = ended[q])
      /\ P \subseteq Procs /\ IsFiniteSet(P) /\ Looking(P) = Cardinality(L)
      /\ Looking(P)' = Cardinality(M)
  BY SideFacts DEF WaitTypes, Looking
<1>2. IsFiniteSet(L) /\ IsFiniteSet(M) /\ Cardinality(L) \in Nat /\ Cardinality(M) \in Nat
  <2>1. L \subseteq P /\ M \subseteq P
    OBVIOUS
  <2>2. QED
    BY <1>1, <2>1, FS_Subset, FS_CardinalityType
<1>3. p \notin P => M = L
  BY <1>1
<1>4. (ended[p] = "woken" <=> x = "woken") => M = L
  BY <1>1
<1>5. p \in P /\ ended[p] # "woken" /\ x = "woken" => M = L \cup {p} /\ p \notin L
  BY <1>1
<1>6. p \in P /\ ended[p] = "woken" /\ x # "woken" => M = L \ {p} /\ p \in L
  BY <1>1
<1> HIDE DEF L, M
<1>7. Cardinality(L \cup {p}) = IF p \in L THEN Cardinality(L) ELSE Cardinality(L) + 1
  BY <1>2, FS_AddElement
<1>8. Cardinality(L \ {p}) = IF p \in L THEN Cardinality(L) - 1 ELSE Cardinality(L)
  BY <1>2, FS_RemoveElement
<1>9. QED
  BY <1>1, <1>2, <1>3, <1>4, <1>5, <1>6, <1>7, <1>8

LEMMA PendingStep ==
  ASSUME WaitTypes, NEW r \in C!Requests, C!Prepare(Thread, r), NEW m
  PROVE  Pending(m)' = IF r = Wake(m) THEN Pending(m) + 1 ELSE Pending(m)
<1>1. Line' = Append(Line, r) /\ Line \in Seq(C!Requests)
  BY Prepared
<1>2. Cardinality(Positions(Append(Line, r), Wake(m)))
        = IF r = Wake(m) THEN Cardinality(Positions(Line, Wake(m))) + 1
                         ELSE Cardinality(Positions(Line, Wake(m)))
  BY <1>1, PositionsAppend
<1>3. Pending(m)' = Cardinality(Positions(Append(Line, r), Wake(m)))
  BY <1>1 DEF Pending, Positions, Wake
<1>4. QED
  BY <1>2, <1>3 DEF Pending

(* A step after which there is no less help for those who sleep: there are *)
(* not more values, or there is one more wake-up, or there was one.        *)
LEMMA HelpKept ==
  ASSUME NEW P, NEW m, NEW n \in Nat, NEW k \in Nat,
         NEW a \in Nat, a = Pending(m), NEW c \in Nat, c = Pending(m)',
         NEW b \in Nat, b = Looking(P), NEW d \in Nat, d = Looking(P)',
         Helped(P, m, n), Sleepers(P)' # {} => Sleepers(P) # {}, blocking' = blocking,
         \/ n > 0 /\ k <= n /\ c >= a /\ c + d + n >= a + b + k
         \/ k <= n + 1 /\ c >= a + 1 /\ c + d >= a + b + 1
         \/ blocking # Procs /\ n > 0 /\ c >= a
         \/ k = 0
  PROVE  Helped(P, m, k)'
<1> SUFFICES ASSUME Sleepers(P)' # {}, k > 0
             PROVE  IF blocking = Procs THEN c + d >= k ELSE c >= 1
  BY DEF Helped, Procs
<1>1. CASE blocking = Procs
  <2>1. n > 0 => a + b >= n
    BY <1>1 DEF Helped
  <2>2. \/ n > 0 /\ k <= n /\ c >= a /\ c + d + n >= a + b + k
        \/ k <= n + 1 /\ c >= a + 1 /\ c + d >= a + b + 1
    BY <1>1
  <2>3. c + d >= k
    BY <2>1, <2>2
  <2>4. QED
    BY <1>1, <2>3
<1>2. CASE blocking # Procs
  <2>1. n > 0 => a >= 1
    BY <1>2 DEF Helped
  <2>2. (n > 0 /\ c >= a) \/ c >= a + 1
    OBVIOUS
  <2>3. c >= 1
    BY <2>1, <2>2
  <2>4. QED
    BY <1>2, <2>3
<1>3. QED
  BY <1>1, <1>2
LEMMA HelpSame ==
  ASSUME NEW P, NEW m, NEW n, Helped(P, m, n), blocking' = blocking,
         Pending(m)' = Pending(m), Looking(P)' = Looking(P),
         Sleepers(P)' # {} => Sleepers(P) # {}
  PROVE  Helped(P, m, n)'
  BY DEF Helped, Procs

(* A coroutine of one side took a place or a value and notifies the other. *)
LEMMA NotifySides ==
  ASSUME WaitTypes, NEW P, NEW m, Side(P, m), NEW Q, NEW w, Side(Q, w), m # w,
         NEW p \in P, ended' = [ended EXCEPT ![p] = "none"], blocking' = blocking,
         C!NotifyOne(Thread, w),
         NEW n \in Nat, n > 0, Helped(P, m, n), NEW l \in Nat, Helped(Q, w, l)
  PROVE  Helped(P, m, n - 1)' /\ Helped(Q, w, l + 1)'
<1>1. /\ p \in Procs /\ p \notin Q /\ m \in Masks /\ w \in Masks
      /\ Pending(m) \in Nat /\ Pending(w) \in Nat
      /\ Looking(P) \in Nat /\ Looking(Q) \in Nat
  BY SideFacts
<1>2. Wake(w) \in C!Requests /\ Wake(w) # Wake(m) /\ C!Prepare(Thread, Wake(w))
  BY <1>1 DEF Wake, C!Requests, Masks, C!NotifyOne
<1>3. Pending(m)' = Pending(m) /\ Pending(w)' = Pending(w) + 1
  BY <1>2, PendingStep
<1>4. /\ Looking(Q)' = Looking(Q) /\ Looking(P)' \in Nat
      /\ Looking(P)' = Looking(P) \/ Looking(P)' = Looking(P) - 1
  <2>1. /\ p \notin Q => Looking(Q)' = Looking(Q)
        /\ (ended[p] = "woken" <=> "none" = "woken") => Looking(P)' = Looking(P)
        /\ p \in P /\ ended[p] = "woken" /\ "none" # "woken" => Looking(P)' = Looking(P) - 1
        /\ Looking(P)' \in Nat
    BY <1>1, LookingStep
  <2>2. QED
    BY <1>1, <2>1
<1>5. Sleepers(P)' = Sleepers(P) /\ Sleepers(Q)' = Sleepers(Q)
  BY DEF C!NotifyOne, Sleepers
<1>6. Helped(P, m, n - 1)'
  <2> DEFINE a == Pending(m)
             b == Looking(P)
             d == Looking(P)'
             k == n - 1
  <2>1. a = Pending(m) /\ a = Pending(m)' /\ b = Looking(P) /\ d = Looking(P)'
    BY <1>3
  <2>2. /\ a \in Nat /\ b \in Nat /\ d \in Nat /\ k \in Nat /\ k = n - 1
        /\ d = b \/ d = b - 1
    BY <1>1, <1>4
  <2> HIDE DEF a, b, d
  <2>3. n > 0 /\ k <= n /\ a >= a /\ a + d + n >= a + b + k
    BY <2>2
  <2> HIDE DEF k
  <2>4. Helped(P, m, k)'
    BY <1>5, <2>1, <2>2, <2>3, HelpKept
  <2>5. QED
    BY <2>4 DEF k
<1>7. Helped(Q, w, l + 1)'
  <2> DEFINE a == Pending(w)
             b == Looking(Q)
             c == Pending(w)'
             k == l + 1
  <2>1. a = Pending(w) /\ c = Pending(w)' /\ b = Looking(Q) /\ b = Looking(Q)'
    BY <1>4
  <2>2. a \in Nat /\ b \in Nat /\ c \in Nat /\ c = a + 1 /\ k \in Nat /\ k = l + 1
    BY <1>1, <1>3
  <2> HIDE DEF a, b, c
  <2>3. k <= l + 1 /\ c >= a + 1 /\ c + b >= a + b + 1
    BY <2>2
  <2> HIDE DEF k
  <2>4. Helped(Q, w, k)'
    BY <1>5, <2>1, <2>2, <2>3, HelpKept
  <2>5. QED
    BY <2>4 DEF k
<1>8. QED
  BY <1>6, <1>7

(* The kernel takes a request.  Whoever falls asleep found the queue empty *)
(* or full, and nothing has happened to it since.                          *)
LEMMA KernelSide ==
  ASSUME WaitersOK, C!Kernel(Thread), UNCHANGED <<blocking, waits>>,
         NEW P, NEW m, Side(P, m), NEW n \in Nat, Helped(P, m, n),
         \A p \in waits \cap P : old[p] = mFutex => n = 0,
         blocking = Procs \/ Lone(P)
  PROVE  Helped(P, m, n)'
<1> DEFINE r == Line[1]
<1>1. WaitTypes /\ InLine /\ Asleep /\ Ended
  BY DEF WaitersOK
<1>2. /\ Line # << >> /\ Line \in Seq(C!Requests) /\ Line' = Tail(Line)
      /\ Len(Line) \in Nat \ {0} /\ Head(Line) = r /\ r \in C!Requests
      /\ \/ Sleeps(r) \/ Again(r) \/ Misses(r)
         \/ \E k \in 1..Len(asleep) : Ends(r, k)
  BY <1>1, KernelTakes
<1>3. Pending(m)' = IF r = Wake(m) THEN Pending(m) - 1 ELSE Pending(m)
  <2>1. Cardinality(Positions(Tail(Line), Wake(m)))
          = IF Head(Line) = Wake(m) THEN Cardinality(Positions(Line, Wake(m))) - 1
                                    ELSE Cardinality(Positions(Line, Wake(m)))
    BY <1>2, PositionsTail
  <2>2. Pending(m)' = Cardinality(Positions(Tail(Line), Wake(m)))
    BY <1>2 DEF Pending, Positions, Wake
  <2>3. QED
    BY <1>2, <2>1, <2>2 DEF Pending
<1>4. /\ P \subseteq Procs /\ m \in Masks /\ Pending(m) \in Nat /\ Looking(P) \in Nat
      /\ \A p \in Procs : Mask(p) = m <=> p \in P
  BY <1>1, SideFacts
<1>5. r.op = "wake" => r = Wake(r.mask) /\ r.mask \in Masks
  BY <1>2 DEF C!Requests, Wake, Masks
<1>6. r.op # "wake" => Pending(m)' = Pending(m)
  BY <1>3 DEF Wake
<1>7. asleep \in Seq([who : Procs, mask : Masks]) /\ waits \subseteq Procs
  BY <1>1 DEF WaitTypes
<1>8. Sleepers(P) = {asleep[i].who : i \in 1..Len(asleep)} \cap P
      /\ 1 \in 1..Len(Line)
  BY <1>2, <1>7 DEF Sleepers
<1> HIDE DEF r
<1>9. CASE Sleeps(r)
  <2>1. /\ r.op = "wait" /\ mFutex = old[r.who] /\ ended' = ended
        /\ asleep' = Append(asleep, [who |-> r.who, mask |-> r.mask])
        /\ r.who \in waits
    BY <1>1, <1>8, <1>9 DEF Sleeps, InLine, r
  <2>2. r.who \in P => n = 0
    BY <2>1
  <2>3. CASE n = 0
    BY <2>3 DEF Helped
  <2>4. CASE r.who \notin P
    <3>1. Sleepers(P)' \subseteq Sleepers(P)
      <4> DEFINE s == [who |-> r.who, mask |-> r.mask]
      <4>1. s.who \notin P /\ asleep' = Append(asleep, s)
        BY <2>1, <2>4
      <4> HIDE DEF s
      <4>2. \A i \in DOMAIN Append(asleep, s) :
              Append(asleep, s)[i] = s \/ (i \in 1..Len(asleep) /\ Append(asleep, s)[i] = asleep[i])
        BY <1>7
      <4>3. QED
        BY <1>8, <4>1, <4>2 DEF Sleepers
    <3>2. Looking(P)' = Looking(P)
      BY <2>1 DEF Looking
    <3>3. QED
      BY <1>6, <2>1, <3>1, <3>2, HelpSame
  <2>5. QED
    BY <2>2, <2>3, <2>4
<1>10. CASE Again(r)
  <2>1. /\ r.op = "wait" /\ asleep' = asleep /\ ended' = [ended EXCEPT ![r.who] = "woken"]
        /\ r.who \in Procs /\ ended[r.who] = "none"
    BY <1>1, <1>7, <1>8, <1>10 DEF Again, InLine, r
  <2>2. /\ Looking(P)' \in Nat
        /\ Looking(P)' = Looking(P) \/ Looking(P)' = Looking(P) + 1
    <3> DEFINE x == "woken"
               p == r.who
    <3>1. /\ p \in Procs /\ ended' = [ended EXCEPT ![p] = x] /\ ended[p] = "none" /\ x = "woken"
      BY <2>1
    <3> HIDE DEF x, p
    <3>2. /\ p \notin P => Looking(P)' = Looking(P)
          /\ p \in P /\ ended[p] # "woken" /\ x = "woken" => Looking(P)' = Looking(P) + 1
          /\ Looking(P)' \in Nat
      BY <1>1, <3>1, LookingStep
    <3>3. QED
      BY <3>1, <3>2
  <2>3. Sleepers(P)' = Sleepers(P)
    BY <2>1 DEF Sleepers
  <2> DEFINE a == Pending(m)
             b == Looking(P)
             d == Looking(P)'
  <2>4. a = Pending(m) /\ a = Pending(m)' /\ b = Looking(P) /\ d = Looking(P)'
    BY <1>6, <2>1
  <2>5. a \in Nat /\ b \in Nat /\ d \in Nat /\ (d = b \/ d = b + 1)
    BY <1>4, <2>2
  <2> HIDE DEF a, b, d
  <2>6. (n > 0 /\ n <= n /\ a >= a /\ a + d + n >= a + b + n) \/ n = 0
    BY <2>5
  <2>7. QED
    BY <2>3, <2>4, <2>5, <2>6, HelpKept
<1>11. CASE Misses(r)
  <2>1. asleep' = asleep /\ ended' = ended
    BY <1>11 DEF Misses
  <2>2. CASE r = Wake(m)
    <3>1. \A i \in 1..Len(asleep) : asleep[i].mask # m /\ asleep[i].who \in Procs
      <4>1. Wake(m).op = "wake" /\ Wake(m).mask = m /\ m # {}
        BY <1>4 DEF Wake, Masks, kNonEmptyMask, kNonFullMask
      <4>2. \A i \in 1..Len(asleep) : asleep[i].mask \cap m = {}
        BY <1>11, <2>2, <4>1 DEF Misses, C!Ends
      <4>3. \A i \in 1..Len(asleep) : asleep[i].who \in waits
        BY <1>1 DEF Asleep
      <4>4. ASSUME NEW i \in 1..Len(asleep) PROVE asleep[i].mask # m /\ asleep[i].who \in Procs
        <5>1. asleep[i].who \in Procs
          BY <1>7, <4>3
        <5>2. m \cap m # {}
          BY <4>1
        <5>3. QED
          BY <4>2, <5>1, <5>2
      <4>5. QED
        BY <4>4
    <3>2. \A i \in 1..Len(asleep) : asleep[i].who \notin P
      BY <1>1, <1>4, <3>1 DEF Asleep
    <3>3. Sleepers(P)' = {}
      BY <1>8, <2>1, <3>2 DEF Sleepers
    <3>4. QED
      BY <3>3 DEF Helped
  <2>3. CASE r # Wake(m)
    BY <1>3, <2>1, <2>3, HelpSame DEF Sleepers, Looking
  <2>4. QED
    BY <2>2, <2>3
<1>12. ASSUME NEW k \in 1..Len(asleep), Ends(r, k) PROVE Helped(P, m, n)'
  <2> DEFINE z == asleep[k].who
             how == IF r.op = "wake" THEN "woken" ELSE "cancelled"
  <2>1. asleep' = C!S!RemoveAt(asleep, k) /\ ended' = [ended EXCEPT ![z] = how]
        /\ C!Ends(r, asleep[k])
    BY <1>12 DEF Ends
  <2>2. /\ z \in waits /\ z \in Procs /\ ended[z] = "none" /\ asleep[k].mask = Mask(z)
        /\ \A j \in 1..Len(asleep) : asleep[j].who = z => j = k
    BY <1>1, <1>7 DEF Asleep
  <2>3. r.op = "wake" => r = Wake(Mask(z))
    <3>1. r.op = "wake" => Mask(z) \cap r.mask # {}
      BY <2>1, <2>2 DEF C!Ends
    <3>2. Mask(z) \in Masks
      BY DEF Mask, Masks
    <3>3. QED
      BY <1>5, <3>1, <3>2 DEF Masks, kNonEmptyMask, kNonFullMask
  <2>4. /\ asleep' \in Seq([who : Procs, mask : Masks]) /\ Len(asleep') = Len(asleep) - 1
        /\ \A i \in 1..Len(asleep') : asleep'[i] = IF i < k THEN asleep[i] ELSE asleep[i + 1]
    <3>1. asleep \in Seq([who : Procs, mask : Masks]) /\ asleep' = C!S!RemoveAt(asleep, k)
      BY <1>7, <2>1, Zenon
    <3>2. QED
      BY <3>1, Removed
  <2>5. how = "woken" <=> r.op = "wake"
    OBVIOUS
  <2> HIDE DEF z, how
  <2>6. ASSUME NEW i \in 1..Len(asleep')
        PROVE  \E j \in 1..Len(asleep) : asleep'[i] = asleep[j] /\ asleep'[i].who # z
    <3> DEFINE j == IF i < k THEN i ELSE i + 1
    <3>1. j \in 1..Len(asleep) /\ asleep'[i] = asleep[j] /\ j # k
      BY <1>7, <2>4
    <3> HIDE DEF j
    <3>2. asleep[j].who # z
      BY <2>2, <3>1
    <3>3. QED
      BY <3>1, <3>2
  <2>7. Sleepers(P)' = {asleep'[i].who : i \in 1..Len(asleep')} \cap P
    BY <2>4 DEF Sleepers
  <2>8. Sleepers(P)' \subseteq Sleepers(P) \ {z}
    BY <1>8, <2>6, <2>7
  <2>9. /\ z \notin P => Looking(P)' = Looking(P)
        /\ (ended[z] = "woken" <=> how = "woken") => Looking(P)' = Looking(P)
        /\ z \in P /\ ended[z] # "woken" /\ how = "woken" => Looking(P)' = Looking(P) + 1
        /\ Looking(P)' \in Nat
    BY <1>1, <2>1, <2>2, LookingStep
  <2>10. CASE r.op = "wake" /\ z \in P
    <3>1. r = Wake(m) /\ Pending(m)' = Pending(m) - 1 /\ Looking(P)' = Looking(P) + 1
      BY <1>3, <1>4, <2>2, <2>3, <2>5, <2>9, <2>10
    <3>2. CASE blocking = Procs
      <4> DEFINE a == Pending(m)
                 b == Looking(P)
      <4>1. a \in Nat /\ b \in Nat /\ Pending(m)' = a - 1 /\ Looking(P)' = b + 1
        BY <1>4, <3>1
      <4>2. n > 0 /\ Sleepers(P)' # {} => a + b >= n
        BY <2>8, <3>2 DEF Helped
      <4> HIDE DEF a, b
      <4>3. a - 1 + (b + 1) = a + b
        BY <4>1
      <4>4. QED
        BY <3>2, <4>1, <4>2, <4>3 DEF Helped, Procs
    <3>3. CASE blocking # Procs
      <4>1. Sleepers(P)' = {}
        <5> SUFFICES ASSUME NEW q \in Sleepers(P)' PROVE FALSE
          OBVIOUS
        <5>1. q \in Sleepers(P) /\ q # z
          BY <2>8
        <5>2. q \in waits /\ q \in P
          BY <1>1, <1>8, <5>1 DEF Asleep
        <5>3. q \in blocking \cap P /\ z \in blocking \cap P
          BY <1>1, <2>2, <2>10, <5>2 DEF WaitTypes
        <5>4. QED
          BY <3>3, <5>1, <5>3 DEF Lone
      <4>2. QED
        BY <4>1 DEF Helped
    <3>4. QED
      BY <3>2, <3>3
  <2>11. CASE r.op # "wake" \/ z \notin P
    <3>1. Pending(m)' = Pending(m)
      BY <1>3, <1>4, <1>6, <2>2, <2>3, <2>11 DEF Wake
    <3>2. Looking(P)' = Looking(P)
      BY <2>2, <2>5, <2>9, <2>11
    <3>3. QED
      BY <2>8, <3>1, <3>2, HelpSame
  <2>12. QED
    BY <2>10, <2>11
<1>13. QED
  BY <1>2, <1>9, <1>10, <1>11, <1>12
------------------------------------------------------------------------------
(* The inductive invariant.                                                *)
Inv == ValueTypes /\ RingHolds /\ WaitersOK /\ Stale /\ Sides

(* The values and the room, before and after a step.                       *)
LEMMA Counts ==
  ASSUME ValueTypes, RingHolds
  PROVE  /\ UnderWay \in Nat /\ Size - UnderWay \in Nat
         /\ R!empty => UnderWay = 0
         /\ R!full => Size - UnderWay = 0
         /\ (\E v \in Values : Push(v)) =>
              Size - UnderWay > 0 /\ UnderWay' = UnderWay + 1
              /\ Size - UnderWay' = (Size - UnderWay) - 1
         /\ Pop => UnderWay > 0 /\ UnderWay' = UnderWay - 1
                   /\ Size - UnderWay' = (Size - UnderWay) + 1
         /\ UNCHANGED history => UnderWay' = UnderWay
<1> DEFINE n == UnderWay
<1>1. /\ Len(sent) \in Nat /\ Len(received) \in Nat /\ Size \in Nat \ {0}
      /\ n = Len(sent) - Len(received) /\ n \in 0..Size
  BY QueueAssumption DEF ValueTypes, RingHolds, UnderWay
<1>2. /\ R!empty => n = 0
      /\ ~R!empty => n > 0
      /\ R!full => n = Size
      /\ ~R!full => n < Size
  BY EmptyAndFull
<1>3. n' = Len(sent') - Len(received')
  BY DEF UnderWay
<1>4. ASSUME NEW v \in Values, Push(v) PROVE ~R!full /\ n' = n + 1
  <2>1. ~R!full /\ Len(sent') = Len(sent) + 1 /\ received' = received
    BY <1>4 DEF Push, Sent, ValueTypes
  <2>2. QED
    BY <1>1, <1>3, <2>1
<1>5. ASSUME Pop PROVE ~R!empty /\ n' = n - 1
  <2>1. R!Front \subseteq Values
    BY DEF ValueTypes, R!TypeOK, R!Front
  <2>2. ~R!empty /\ Len(received') = Len(received) + 1 /\ sent' = sent
    BY <1>5, <2>1 DEF Pop, Received, ValueTypes
  <2>3. QED
    BY <1>1, <1>3, <2>2
<1>6. UNCHANGED history => n' = n
  BY <1>1, <1>3 DEF history
<1> HIDE DEF n
<1>7. /\ n \in Nat /\ Size - n \in Nat
      /\ R!full => Size - n = 0
      /\ (\E v \in Values : Push(v)) => Size - n > 0 /\ n' = n + 1 /\ Size - n' = (Size - n) - 1
      /\ Pop => n > 0 /\ n' = n - 1 /\ Size - n' = (Size - n) + 1
  <2>1. n \in Nat /\ Size - n \in Nat /\ (R!full => Size - n = 0)
    BY <1>1, <1>2
  <2>2. ASSUME NEW v \in Values, Push(v)
        PROVE  Size - n > 0 /\ n' = n + 1 /\ Size - n' = (Size - n) - 1
    BY <1>1, <1>2, <1>4, <2>2
  <2>3. ASSUME Pop
        PROVE  n > 0 /\ n' = n - 1 /\ Size - n' = (Size - n) + 1
    BY <1>1, <1>2, <1>5, <2>3
  <2>4. QED
    BY <2>1, <2>2, <2>3
<1>8. QED
  BY <1>2, <1>6, <1>7 DEF n

(* The two sides after a step, by the values and the room there are then.  *)
LEMMA SidesThen ==
  ASSUME Sides, blocking' = blocking,
         NEW n, UnderWay' = n, NEW l, Size - UnderWay' = l,
         Helped(Consumers, kNonEmptyMask, n)', Helped(Producers, kNonFullMask, l)'
  PROVE  Sides'
  BY DEF Sides, Helped, Lone, Procs

(* A push or a pop that notifies.                                          *)
LEMMA NotifyingSides ==
  ASSUME ValueTypes, RingHolds, WaitTypes, Sides, NEW p \in Procs,
         ended' = [ended EXCEPT ![p] = "none"], blocking' = blocking,
         \/ p \in Producers /\ (\E v \in Values : Push(v)) /\ C!NotifyOne(Thread, kNonEmptyMask)
         \/ p \in Consumers /\ Pop /\ C!NotifyOne(Thread, kNonFullMask)
  PROVE  Sides'
<1>1. PICK n \in Nat, l \in Nat : n = UnderWay /\ l = Size - UnderWay
  BY Counts
<1>2. Helped(Consumers, kNonEmptyMask, n) /\ Helped(Producers, kNonFullMask, l)
  BY <1>1 DEF Sides
<1>3. /\ Side(Consumers, kNonEmptyMask) /\ Side(Producers, kNonFullMask)
      /\ kNonEmptyMask # kNonFullMask
  BY DEF Side, kNonEmptyMask, kNonFullMask
<1>4. CASE p \in Producers /\ (\E v \in Values : Push(v)) /\ C!NotifyOne(Thread, kNonEmptyMask)
  <2>1. l > 0 /\ UnderWay' = n + 1 /\ Size - UnderWay' = l - 1
    BY <1>1, <1>4, Counts
  <2>2. Helped(Producers, kNonFullMask, l - 1)' /\ Helped(Consumers, kNonEmptyMask, n + 1)'
    BY <1>2, <1>3, <1>4, <2>1, NotifySides
  <2>3. QED
    BY <2>1, <2>2, SidesThen
<1>5. CASE p \in Consumers /\ Pop /\ C!NotifyOne(Thread, kNonFullMask)
  <2>1. n > 0 /\ UnderWay' = n - 1 /\ Size - UnderWay' = l + 1
    BY <1>1, <1>5, Counts
  <2>2. Helped(Consumers, kNonEmptyMask, n - 1)' /\ Helped(Producers, kNonFullMask, l + 1)'
    BY <1>2, <1>3, <1>5, <2>1, NotifySides
  <2>3. QED
    BY <2>1, <2>2, SidesThen
<1>6. QED
  BY <1>4, <1>5

(* A try_push or try_pop in the middle of the queue does not notify: one   *)
(* sleeper at most is on each side, and a wake-up for him is in the ring.  *)
LEMMA QuietSide ==
  ASSUME WaitTypes, NEW P, NEW m, Side(P, m), Quiet, ended' = ended, blocking' = blocking,
         blocking # Procs, NEW n \in Nat, n > 0, NEW k \in Nat, Helped(P, m, n)
  PROVE  Helped(P, m, k)'
<1>1. Pending(m)' = Pending(m) /\ Sleepers(P)' = Sleepers(P)
  BY DEF Quiet, Pending, Positions, Line, Wake, Sleepers
<1>2. Sleepers(P) # {} => Pending(m) >= 1
  BY DEF Helped
<1>3. QED
  BY <1>1, <1>2 DEF Helped, Procs

LEMMA QuietKept ==
  ASSUME Inv, ((\E v \in Values : Push(v)) /\ ~R!empty) \/ (Pop /\ ~R!full),
         Quiet, UNCHANGED <<ended, blocking, waits>>, blocking # Procs
  PROVE  WaitersOK' /\ Stale' /\ Sides'
<1>1. ValueTypes /\ RingHolds /\ WaitersOK /\ Stale /\ Sides /\ WaitTypes
  BY DEF Inv, WaitersOK
<1>2. UNCHANGED <<mFutex, old, ring, asleep, ended, blocking, waits>>
  BY DEF Quiet
<1>3. WaitersOK'
  BY <1>1, <1>2 DEF WaitersOK, WaitTypes, InLine, Asleep, Ended, Ordered, Line, Mask
<1>4. ~R!empty /\ ~R!full
  BY DEF Push, Pop
<1>5. Stale'
  BY <1>1, <1>2, <1>4 DEF Stale
<1>6. Sides'
  <2>1. PICK n \in Nat, l \in Nat : n = UnderWay /\ l = Size - UnderWay
    BY <1>1, Counts
  <2>2. n > 0 /\ l > 0
    <3>1. UnderWay > 0 /\ UnderWay < Size /\ Size \in Nat
      BY <1>1, <1>4, EmptyAndFull, QueueAssumption
    <3>2. QED
      BY <2>1, <3>1
  <2>3. PICK k \in Nat, j \in Nat : UnderWay' = k /\ Size - UnderWay' = j
    <3>1. \/ UnderWay' = n + 1 /\ Size - UnderWay' = l - 1
          \/ UnderWay' = n - 1 /\ Size - UnderWay' = l + 1
      BY <1>1, <2>1, Counts
    <3>2. n - 1 \in Nat /\ l - 1 \in Nat /\ n + 1 \in Nat /\ l + 1 \in Nat
      BY <2>2
    <3>3. QED
      BY <3>1, <3>2
  <2>4. Helped(Consumers, kNonEmptyMask, n) /\ Helped(Producers, kNonFullMask, l)
    BY <1>1, <2>1 DEF Sides
  <2>5. Side(Consumers, kNonEmptyMask) /\ Side(Producers, kNonFullMask)
    BY DEF Side
  <2>6. Helped(Consumers, kNonEmptyMask, k)' /\ Helped(Producers, kNonFullMask, j)'
    BY <1>1, <2>2, <2>4, <2>5, QuietSide
  <2>7. QED
    BY <1>1, <2>3, <2>6, SidesThen
<1>7. QED
  BY <1>3, <1>5, <1>6

(* The other requests are no help, nor do they take any away.              *)
LEMMA RequestSide ==
  ASSUME WaitTypes, NEW P, NEW m, NEW r \in C!Requests, r.op # "wake", C!Prepare(Thread, r),
         asleep' = asleep, blocking' = blocking, Looking(P)' = Looking(P),
         NEW n, Helped(P, m, n)
  PROVE  Helped(P, m, n)'
<1>1. r # Wake(m)
  BY DEF Wake
<1>2. Pending(m)' = Pending(m)
  BY <1>1, PendingStep
<1>3. Sleepers(P)' = Sleepers(P)
  BY DEF Sleepers
<1>4. QED
  BY <1>2, <1>3, HelpSame

(* Whoever suspends on a side leaves it nothing to be served with.         *)
LEMMA SuspendSides ==
  ASSUME Inv, NEW p \in blocking, Suspend(p, Mask(p)),
         IF p \in Producers THEN R!full ELSE R!empty,
         ended' = [ended EXCEPT ![p] = "none"], blocking' = blocking
  PROVE  Sides'
<1>1. ValueTypes /\ RingHolds /\ Sides /\ WaitTypes
  BY DEF Inv, WaitersOK
<1>2. PICK n \in Nat, l \in Nat : n = UnderWay /\ l = Size - UnderWay
  BY <1>1, Counts
<1>3. UnderWay' = n /\ Size - UnderWay' = l
  BY <1>1, <1>2, Counts DEF Suspend
<1>4. Helped(Consumers, kNonEmptyMask, n) /\ Helped(Producers, kNonFullMask, l)
  BY <1>1, <1>2 DEF Sides
<1>5. p \in Procs /\ Side(Consumers, kNonEmptyMask) /\ Side(Producers, kNonFullMask)
  BY <1>1 DEF Side, WaitTypes
<1> DEFINE r == [op |-> "wait", who |-> p, mask |-> Mask(p)]
<1>6. /\ r \in C!Requests /\ r.op # "wake" /\ C!Prepare(Thread, r) /\ asleep' = asleep
  <2>1. Mask(p) \in Masks
    BY DEF Mask, Masks
  <2>2. QED
    BY <1>5, <2>1, RequestFacts DEF Suspend, C!Wait, C!FutexWait
<1> HIDE DEF r
<1>7. CASE p \in Producers
  <2>1. l = 0 /\ p \notin Consumers
    BY <1>1, <1>2, <1>7, Counts, QueueAssumption
  <2>2. Looking(Consumers)' = Looking(Consumers)
    BY <1>1, <1>5, <2>1, LookingStep
  <2>3. Helped(Consumers, kNonEmptyMask, n)'
    BY <1>1, <1>4, <1>6, <2>2, RequestSide
  <2>4. Helped(Producers, kNonFullMask, l)'
    BY <2>1 DEF Helped
  <2>5. QED
    BY <1>1, <1>3, <2>3, <2>4, SidesThen
<1>8. CASE p \notin Producers
  <2>1. n = 0
    BY <1>1, <1>2, <1>8, Counts
  <2>2. Looking(Producers)' = Looking(Producers)
    BY <1>1, <1>5, <1>8, LookingStep
  <2>3. Helped(Producers, kNonFullMask, l)'
    BY <1>1, <1>4, <1>6, <2>2, RequestSide
  <2>4. Helped(Consumers, kNonEmptyMask, n)'
    BY <2>1 DEF Helped
  <2>5. QED
    BY <1>1, <1>3, <2>3, <2>4, SidesThen
<1>9. QED
  BY <1>7, <1>8

(* The program cancels a wait, and a cancelled wait ends.                  *)
LEMMA CancelSides ==
  ASSUME Inv, UNCHANGED history, blocking' = blocking, NEW p \in Procs,
         \/ C!Cancel(Thread, p)
         \/ C!Resumed(p, "cancelled") /\ Quiet
  PROVE  Sides'
<1>1. ValueTypes /\ RingHolds /\ Sides /\ WaitTypes
  BY DEF Inv, WaitersOK
<1>2. PICK n \in Nat, l \in Nat : n = UnderWay /\ l = Size - UnderWay
  BY <1>1, Counts
<1>3. UnderWay' = n /\ Size - UnderWay' = l
  BY <1>1, <1>2, Counts
<1>4. Helped(Consumers, kNonEmptyMask, n) /\ Helped(Producers, kNonFullMask, l)
  BY <1>1, <1>2 DEF Sides
<1>5. ASSUME NEW P, NEW m, Side(P, m), NEW k \in Nat, Helped(P, m, k)
      PROVE  Helped(P, m, k)'
  <2>1. CASE C!Cancel(Thread, p)
    <3> DEFINE r == [op |-> "cancel", who |-> p]
    <3>1. r \in C!Requests /\ r.op # "wake" /\ C!Prepare(Thread, r) /\ asleep' = asleep
      BY <2>1 DEF C!Cancel, C!Requests
    <3> HIDE DEF r
    <3>2. Looking(P)' = Looking(P)
      BY <2>1 DEF C!Cancel, Looking
    <3>3. QED
      BY <1>1, <1>5, <3>1, <3>2, RequestSide
  <2>2. CASE C!Resumed(p, "cancelled") /\ Quiet
    <3>1. Looking(P)' = Looking(P)
      <4>1. (ended[p] = "woken" <=> "none" = "woken") /\ ended' = [ended EXCEPT ![p] = "none"]
        BY <2>2 DEF C!Resumed
      <4>2. QED
        BY <1>1, <1>5, <4>1, LookingStep
    <3>2. Pending(m)' = Pending(m) /\ Sleepers(P)' = Sleepers(P)
      BY <2>2 DEF Quiet, Pending, Positions, Line, Wake, Sleepers
    <3>3. QED
      BY <1>5, <3>1, <3>2, HelpSame
  <2>3. QED
    BY <2>1, <2>2
<1>6. Side(Consumers, kNonEmptyMask) /\ Side(Producers, kNonFullMask)
  BY DEF Side
<1>7. Helped(Consumers, kNonEmptyMask, n)' /\ Helped(Producers, kNonFullMask, l)'
  BY <1>4, <1>5, <1>6
<1>8. QED
  BY <1>1, <1>3, <1>7, SidesThen

LEMMA KernelSides ==
  ASSUME Inv, Kernel
  PROVE  Sides'
<1>1. ValueTypes /\ RingHolds /\ Sides /\ WaitersOK /\ Stale /\ WaitTypes
  BY DEF Inv, WaitersOK
<1>2. PICK n \in Nat, l \in Nat : n = UnderWay /\ l = Size - UnderWay
  BY <1>1, Counts
<1>3. /\ C!Kernel(Thread) /\ UNCHANGED <<blocking, waits>> /\ blocking' = blocking
      /\ UNCHANGED history
  BY DEF Kernel
<1>4. UnderWay' = n /\ Size - UnderWay' = l
  BY <1>1, <1>2, <1>3, Counts
<1>5. /\ Helped(Consumers, kNonEmptyMask, n) /\ Helped(Producers, kNonFullMask, l)
      /\ blocking = Procs \/ Lone(Consumers)
      /\ blocking = Procs \/ Lone(Producers)
  BY <1>1, <1>2 DEF Sides
<1>6. /\ \A p \in waits \cap Consumers : old[p] = mFutex => n = 0
      /\ \A p \in waits \cap Producers : old[p] = mFutex => l = 0
  <2>1. (R!empty => n = 0) /\ (R!full => l = 0)
    BY <1>1, <1>2, Counts
  <2>2. QED
    BY <1>1, <2>1, QueueAssumption DEF Stale
<1>7. Side(Consumers, kNonEmptyMask) /\ Side(Producers, kNonFullMask)
  BY DEF Side
<1>8. Helped(Consumers, kNonEmptyMask, n)'
  BY <1>1, <1>3, <1>5, <1>6, <1>7, KernelSide
<1>9. Helped(Producers, kNonFullMask, l)'
  BY <1>1, <1>3, <1>5, <1>6, <1>7, KernelSide
<1>10. QED
  BY <1>1, <1>3, <1>4, <1>8, <1>9, SidesThen
------------------------------------------------------------------------------
(* What the steps keep.                                                    *)
Kept == WaitersOK' /\ Stale' /\ Sides'

(* Whoever does not wait has no request.                                   *)
LEMMA NotWaiting ==
  ASSUME WaitersOK, NEW p \in Procs, p \notin waits
  PROVE  ended = [ended EXCEPT ![p] = "none"] /\ waits = waits \ {p}
<1>1. ended[p] = "none" /\ ended \in [Procs -> {"none", "woken", "cancelled"}]
  BY DEF WaitersOK, WaitTypes, Ended
<1>2. QED
  BY <1>1

(* push and pop from their call, or from a wake-up, to their end or their  *)
(* suspension.                                                             *)
LEMMA OfferKept ==
  ASSUME Inv, NEW p \in blocking \cap Producers, p \notin waits \/ ended[p] = "woken",
         NEW v \in Values, Offer(p, v), ended' = [ended EXCEPT ![p] = "none"],
         blocking' = blocking
  PROVE  Kept
<1>1. ValueTypes /\ RingHolds /\ WaitersOK /\ Stale /\ Sides /\ WaitTypes /\ p \in Procs
  BY DEF Inv, WaitersOK, Procs
<1>2. CASE Push(v) /\ C!NotifyOne(Thread, kNonEmptyMask) /\ Return(p)
  <2>1. Sides'
    BY <1>1, <1>2, NotifyingSides
  <2>2. WaitersOK' /\ Stale'
    <3>1. waits' = waits \ {p} /\ kNonEmptyMask \in Masks
      BY <1>2 DEF Return, Masks
    <3>2. QED
      BY <1>1, <1>2, <3>1, NotifyWaiters
  <2>3. QED
    BY <2>1, <2>2 DEF Kept
<1>3. CASE R!full /\ Suspend(p, kNonFullMask)
  <2>1. Mask(p) = kNonFullMask
    BY DEF Mask
  <2>2. WaitersOK' /\ Stale'
    BY <1>1, <1>3, <2>1, SuspendWaiters
  <2>3. Sides'
    BY <1>3, <2>1, SuspendSides
  <2>4. QED
    BY <2>2, <2>3 DEF Kept
<1>4. QED
  BY <1>2, <1>3 DEF Offer

LEMMA TakeKept ==
  ASSUME Inv, NEW p \in blocking \cap Consumers, p \notin waits \/ ended[p] = "woken",
         Take(p), ended' = [ended EXCEPT ![p] = "none"], blocking' = blocking
  PROVE  Kept
<1>1. ValueTypes /\ RingHolds /\ WaitersOK /\ Stale /\ Sides /\ WaitTypes /\ p \in Procs
  BY DEF Inv, WaitersOK, Procs
<1>2. CASE Pop /\ C!NotifyOne(Thread, kNonFullMask) /\ Return(p)
  <2>1. Sides'
    BY <1>1, <1>2, NotifyingSides
  <2>2. WaitersOK' /\ Stale'
    <3>1. waits' = waits \ {p} /\ kNonFullMask \in Masks
      BY <1>2 DEF Return, Masks
    <3>2. QED
      BY <1>1, <1>2, <3>1, NotifyWaiters
  <2>3. QED
    BY <2>1, <2>2 DEF Kept
<1>3. CASE R!empty /\ Suspend(p, kNonEmptyMask)
  <2>1. Mask(p) = kNonEmptyMask /\ p \notin Producers
    BY QueueAssumption DEF Mask
  <2>2. WaitersOK' /\ Stale'
    BY <1>1, <1>3, <2>1, SuspendWaiters
  <2>3. Sides'
    BY <1>3, <2>1, SuspendSides
  <2>4. QED
    BY <2>2, <2>3 DEF Kept
<1>4. QED
  BY <1>2, <1>3 DEF Take

(* Nothing that matters changes.                                           *)
LEMMA SameKept ==
  ASSUME Inv, UNCHANGED <<queueVars, history, condVars, blocking, waits>>
  PROVE  Kept
<1>1. WaitersOK /\ Stale /\ Sides
  BY DEF Inv
<1>2. /\ UNCHANGED <<mFutex, old, ring, asleep, ended, blocking, waits, sent, received>>
      /\ UNCHANGED <<slots, mRead, mWrite>>
  BY DEF queueVars, history, condVars
<1>3. WaitersOK'
  BY <1>1, <1>2 DEF WaitersOK, WaitTypes, InLine, Asleep, Ended, Ordered, Line, Mask
<1>4. Stale'
  BY <1>1, <1>2 DEF Stale, R!full, R!empty, R!After
<1>5. Sides'
  <2>1. UnderWay' = UnderWay
    BY <1>2 DEF UnderWay
  <2>2. \A P, m : Pending(m)' = Pending(m) /\ Looking(P)' = Looking(P) /\ Sleepers(P)' = Sleepers(P)
    BY <1>2 DEF Pending, Positions, Line, Wake, Sleepers, Looking
  <2>3. QED
    BY <1>1, <1>2, <2>1, <2>2 DEF Sides, Helped, Lone, Procs
<1>6. QED
  BY <1>3, <1>4, <1>5 DEF Kept

(* try_push and try_pop.                                                   *)
LEMMA TryKept ==
  ASSUME Inv, NEW p \in Procs \ blocking, ended' = ended, UNCHANGED <<blocking, waits>>,
         \/ /\ p \in Producers /\ \E v \in Values : Push(v)
            /\ IF R!empty THEN C!NotifyOne(Thread, kNonEmptyMask) ELSE Quiet
         \/ /\ p \in Consumers /\ Pop
            /\ IF R!full THEN C!NotifyOne(Thread, kNonFullMask) ELSE Quiet
  PROVE  Kept
<1>1. /\ ValueTypes /\ RingHolds /\ WaitersOK /\ Stale /\ Sides /\ WaitTypes
      /\ p \notin waits /\ blocking # Procs
  BY DEF Inv, WaitersOK, WaitTypes
<1>2. ended' = [ended EXCEPT ![p] = "none"] /\ waits' = waits \ {p} /\ blocking' = blocking
  BY <1>1, NotWaiting
<1>3. CASE Quiet /\ (((\E v \in Values : Push(v)) /\ ~R!empty) \/ (Pop /\ ~R!full))
  BY <1>1, <1>3, QuietKept DEF Kept
<1>4. CASE p \in Producers /\ (\E v \in Values : Push(v)) /\ C!NotifyOne(Thread, kNonEmptyMask)
  <2>1. Sides'
    BY <1>1, <1>2, <1>4, NotifyingSides
  <2>2. kNonEmptyMask \in Masks
    BY DEF Masks
  <2>3. WaitersOK' /\ Stale'
    BY <1>1, <1>2, <1>4, <2>2, NotifyWaiters
  <2>4. QED
    BY <2>1, <2>3 DEF Kept
<1>5. CASE p \in Consumers /\ Pop /\ C!NotifyOne(Thread, kNonFullMask)
  <2>1. Sides'
    BY <1>1, <1>2, <1>5, NotifyingSides
  <2>2. kNonFullMask \in Masks
    BY DEF Masks
  <2>3. WaitersOK' /\ Stale'
    BY <1>1, <1>2, <1>5, <2>2, NotifyWaiters
  <2>4. QED
    BY <2>1, <2>3 DEF Kept
<1>6. QED
  BY <1>3, <1>4, <1>5

LEMMA CallsKept ==
  ASSUME Inv, NEW p \in Procs, push(p) \/ pop(p) \/ try_push(p) \/ try_pop(p)
  PROVE  Kept
<1>1. WaitersOK /\ ValueTypes
  BY DEF Inv
<1>2. ASSUME Call(p) PROVE calls' \in Values /\ ended = [ended EXCEPT ![p] = "none"] /\ p \notin waits
  <2>1. calls' \in Values
    BY <1>1, <1>2, QueueAssumption DEF Call, ValueTypes, Values
  <2>2. QED
    BY <1>1, <1>2, <2>1, NotWaiting DEF Call
<1>3. CASE push(p)
  <2>1. /\ p \in blocking \cap Producers /\ p \notin waits /\ calls' \in Values
        /\ Offer(p, calls') /\ ended' = [ended EXCEPT ![p] = "none"] /\ blocking' = blocking
    BY <1>2, <1>3 DEF push
  <2>2. PICK v \in Values : v = calls'
    BY <2>1
  <2>3. Offer(p, v)
    BY <2>1, <2>2
  <2>4. QED
    BY <2>1, <2>3, OfferKept
<1>4. CASE pop(p)
  <2>1. /\ p \in blocking \cap Consumers /\ p \notin waits
        /\ Take(p) /\ ended' = [ended EXCEPT ![p] = "none"] /\ blocking' = blocking
    BY <1>2, <1>4 DEF pop
  <2>2. QED
    BY <2>1, TakeKept
<1>5. CASE try_push(p)
  <2>1. /\ p \in Procs \ blocking /\ p \in Producers /\ calls' \in Values
        /\ ended' = ended /\ UNCHANGED <<blocking, waits>>
        /\ \/ Push(calls') /\ IF R!empty THEN C!NotifyOne(Thread, kNonEmptyMask) ELSE Quiet
           \/ Quiet /\ UNCHANGED <<queueVars, history>>
    BY <1>2, <1>5 DEF try_push, Procs
  <2>2. CASE Push(calls') /\ IF R!empty THEN C!NotifyOne(Thread, kNonEmptyMask) ELSE Quiet
    <3>1. \E v \in Values : Push(v)
      BY <2>1, <2>2
    <3>2. QED
      BY <2>1, <2>2, <3>1, TryKept
  <2>3. CASE Quiet /\ UNCHANGED <<queueVars, history>>
    BY <2>1, <2>3, SameKept DEF Quiet, condVars
  <2>4. QED
    BY <2>1, <2>2, <2>3
<1>6. CASE try_pop(p)
  <2>1. /\ p \in Procs \ blocking /\ p \in Consumers
        /\ ended' = ended /\ UNCHANGED <<blocking, waits>>
        /\ \/ Pop /\ IF R!full THEN C!NotifyOne(Thread, kNonFullMask) ELSE Quiet
           \/ Quiet /\ UNCHANGED <<queueVars, history>>
    BY <1>2, <1>6 DEF try_pop, Procs
  <2>2. CASE Pop /\ IF R!full THEN C!NotifyOne(Thread, kNonFullMask) ELSE Quiet
    BY <2>1, <2>2, TryKept
  <2>3. CASE Quiet /\ UNCHANGED <<queueVars, history>>
    BY <2>1, <2>3, SameKept DEF Quiet, condVars
  <2>4. QED
    BY <2>1, <2>2, <2>3
<1>7. QED
  BY <1>3, <1>4, <1>5, <1>6

(* A wake-up is never for nothing: the count has moved.                    *)
LEMMA WokenKept ==
  ASSUME Inv, NEW p \in Procs, Woken(p)
  PROVE  Kept
<1>1. WaitersOK /\ ValueTypes /\ WaitTypes /\ Ordered
  BY DEF Inv, WaitersOK
<1>2. /\ p \in waits /\ ended[p] = "woken" /\ ended' = [ended EXCEPT ![p] = "none"]
      /\ blocking' = blocking /\ p \in blocking
  BY <1>1 DEF Woken, C!Resumed, WaitTypes
<1>3. IF p \in Producers THEN Offer(p, value[p]) ELSE Take(p)
  <2>1. mFutex # old[p]
    <3>1. old[p] < mFutex /\ old[p] \in Nat /\ mFutex \in Nat
      BY <1>1, <1>2 DEF Ordered, WaitTypes
    <3>2. QED
      BY <3>1
  <2>2. QED
    BY <2>1 DEF Woken, C!WaitAgain, C!WaitOver
<1>4. CASE p \in Producers
  <2>1. value[p] \in Values
    BY <1>1, <1>4 DEF ValueTypes
  <2>2. PICK v \in Values : v = value[p]
    BY <2>1
  <2>3. Offer(p, v) /\ p \in blocking \cap Producers
    BY <1>2, <1>3, <1>4, <2>2
  <2>4. QED
    BY <1>2, <2>3, OfferKept
<1>5. CASE p \notin Producers
  <2>1. Take(p) /\ p \in blocking \cap Consumers
    BY <1>2, <1>3, <1>5 DEF Procs
  <2>2. QED
    BY <1>2, <2>1, TakeKept
<1>6. QED
  BY <1>4, <1>5

LEMMA CancelsKept ==
  ASSUME Inv, NEW p \in Procs, Cancel(p) \/ Cancelled(p)
  PROVE  Kept
<1>1. WaitersOK /\ Stale
  BY DEF Inv
<1>2. UNCHANGED history /\ UNCHANGED queueVars /\ blocking' = blocking
  BY DEF Cancel, Cancelled
<1>3. R!full' = R!full /\ R!empty' = R!empty
  BY <1>2 DEF R!full, R!empty, R!After, queueVars
<1>4. CASE Cancel(p)
  <2>1. C!Cancel(Thread, p) /\ UNCHANGED <<waits, blocking>> /\ old' = old /\ mFutex' = mFutex
    BY <1>4 DEF Cancel, C!Cancel
  <2>2. WaitersOK'
    BY <1>1, <2>1, CancelWaiters
  <2>3. Stale'
    BY <1>1, <1>3, <2>1 DEF Stale
  <2>4. Sides'
    BY <1>2, <2>1, CancelSides
  <2>5. QED
    BY <2>2, <2>3, <2>4 DEF Kept
<1>5. CASE Cancelled(p)
  <2>1. /\ C!Resumed(p, "cancelled") /\ Quiet /\ ended[p] # "none"
        /\ ended' = [ended EXCEPT ![p] = "none"] /\ waits' = waits \ {p}
        /\ UNCHANGED <<mFutex, old, ring, asleep, blocking>>
    BY <1>5 DEF Cancelled, C!Resumed, Return, Quiet
  <2>2. WaitersOK'
    BY <1>1, <2>1, CancelledWaiters
  <2>3. Stale'
    BY <1>1, <1>3, <2>1 DEF Stale
  <2>4. Sides'
    BY <1>2, <2>1, CancelSides
  <2>5. QED
    BY <2>2, <2>3, <2>4 DEF Kept
<1>6. QED
  BY <1>4, <1>5

LEMMA KernelKept ==
  ASSUME Inv, Kernel
  PROVE  Kept
<1>1. WaitersOK' /\ Stale'
  BY KernelWaiters DEF Inv, Kernel
<1>2. QED
  BY <1>1, KernelSides DEF Kept

LEMMA InvInit == Init => Inv
<1> SUFFICES ASSUME Init PROVE Inv
  OBVIOUS
<1>1. /\ mFutex = 0 /\ old = [p \in Procs |-> 0] /\ ring = [g \in {Thread} |-> << >>]
      /\ asleep = << >> /\ ended = [p \in Procs |-> "none"]
      /\ waits = {} /\ blocking \subseteq Procs /\ Usable(blocking)
  BY DEF Init, C!Init
<1>2. Line = << >> /\ Len(Line) = 0 /\ Len(asleep) = 0
  BY <1>1 DEF Line
<1>3. WaitTypes
  <2>1. ring \in [{Thread} -> Seq(C!Requests)] /\ asleep \in Seq([who : Procs, mask : Masks])
    BY <1>1
  <2>2. old \in [Procs -> Nat] /\ mFutex \in Nat
    BY <1>1
  <2>3. QED
    BY <1>1, <2>1, <2>2 DEF WaitTypes
<1>4. WaitersOK
  <2>1. InLine /\ Asleep
    BY <1>2 DEF InLine, Asleep
  <2>2. Ended
    BY <1>1 DEF Ended
  <2>3. Ordered
    BY <1>1, <1>2 DEF Ordered
  <2>4. QED
    BY <1>3, <2>1, <2>2, <2>3 DEF WaitersOK
<1>5. Stale
  BY <1>1 DEF Stale
<1>6. \A P : Sleepers(P) = {}
  BY <1>1 DEF Sleepers
<1>7. ASSUME NEW P, IsFiniteSet(blocking \cap P), Cardinality(blocking \cap P) <= 1 PROVE Lone(P)
  <2> SUFFICES ASSUME NEW p \in blocking \cap P, NEW q \in blocking \cap P, p # q PROVE FALSE
    BY DEF Lone
  <2> DEFINE B == blocking \cap P
  <2>1. Cardinality({p, q}) = 2 /\ {p, q} \subseteq B
    <3>1. Cardinality({p}) = 1 /\ IsFiniteSet({p}) /\ q \notin {p} /\ {p} \cup {q} = {p, q}
      BY FS_Singleton
    <3>2. Cardinality({p} \cup {q}) = Cardinality({p}) + 1
      BY <3>1, FS_AddElement
    <3>3. QED
      BY <3>1, <3>2
  <2>2. Cardinality({p, q}) <= Cardinality(B) /\ Cardinality(B) \in Nat
    BY <1>7, <2>1, FS_Subset, FS_CardinalityType
  <2>3. QED
    BY <1>7, <2>1, <2>2
<1>8. blocking = Procs \/ (Lone(Producers) /\ Lone(Consumers))
  <2>1. IsFiniteSet(blocking \cap Producers) /\ IsFiniteSet(blocking \cap Consumers)
    BY FS_Subset, QueueAssumption
  <2>2. QED
    BY <1>1, <1>7, <2>1 DEF Usable
<1>9. Sides
  BY <1>6, <1>8 DEF Sides, Helped
<1>10. QED
  BY <1>4, <1>5, <1>9, InitHolds DEF Inv

LEMMA InvNext == ASSUME Inv, [Next]_vars PROVE Inv'
<1>1. CASE UNCHANGED vars
  <2>1. Kept
    BY <1>1, SameKept DEF vars
  <2>2. QED
    BY <2>1, NextHolds DEF Inv, Kept
<1>2. ASSUME Kept PROVE Inv'
  BY <1>2, NextHolds DEF Inv, Kept
<1>3. CASE Next
  <2>1. CASE Terminated
    BY <1>1, <2>1 DEF Terminated
  <2>2. CASE Kernel
    BY <1>2, <2>2, KernelKept
  <2>3. ASSUME NEW p \in Procs, push(p) \/ pop(p) \/ try_push(p) \/ try_pop(p) PROVE Inv'
    BY <1>2, <2>3, CallsKept
  <2>4. ASSUME NEW p \in Procs, Step(p) \/ Cancel(p) PROVE Inv'
    BY <1>2, <2>4, WokenKept, CancelsKept DEF Step
  <2>5. QED
    BY <1>3, <2>1, <2>2, <2>3, <2>4, Zenon DEF Next
<1>4. QED
  BY <1>1, <1>3

(* Someone looks, or a wake-up is on its way.                              *)
LEMMA HelpComes ==
  ASSUME WaitTypes, NEW P, NEW m, Side(P, m), NEW n \in Nat, n > 0, Helped(P, m, n),
         Sleepers(P) # {}
  PROVE  \/ [op |-> "wake", mask |-> m] \in {ring[Thread][i] : i \in DOMAIN ring[Thread]}
         \/ \E p \in P : ended[p] = "woken"
<1>1. Pending(m) \in Nat /\ Looking(P) \in Nat /\ Line \in Seq(C!Requests)
  BY SideFacts DEF WaitTypes, Line
<1>2. Pending(m) > 0 \/ Looking(P) > 0
  <2> DEFINE a == Pending(m)
             b == Looking(P)
  <2>1. CASE blocking = Procs
    <3>1. a + b >= n
      BY <2>1 DEF Helped
    <3> HIDE DEF a, b
    <3>2. a \in Nat /\ b \in Nat
      BY <1>1 DEF a, b
    <3>3. a > 0 \/ b > 0
      BY <3>1, <3>2
    <3>4. QED
      BY <3>3 DEF a, b
  <2>2. CASE blocking # Procs
    BY <1>1, <2>2 DEF Helped
  <2>3. QED
    BY <2>1, <2>2
<1>3. CASE Pending(m) > 0
  <2>1. Positions(Line, Wake(m)) # {}
    BY <1>3, FS_EmptySet DEF Pending
  <2>2. QED
    BY <1>1, <2>1 DEF Positions, Line, Wake
<1>4. CASE Looking(P) > 0
  <2>1. {p \in P : ended[p] = "woken"} # {}
    BY <1>4, FS_EmptySet DEF Looking
  <2>2. QED
    BY <2>1
<1>5. QED
  BY <1>2, <1>3, <1>4

(* Nobody sleeps on a queue that has what he waits for, unless a wake-up   *)
(* for his side is in the ring or one of his side is about to look,        *)
(* whatever the coroutines, the capacity and the cancellations.            *)
THEOREM NobodyStranded == Spec => []NoStranded
<1>1. ASSUME Inv PROVE NoStranded
  <2>1. ValueTypes /\ RingHolds /\ WaitTypes /\ Sides
    BY <1>1 DEF Inv, WaitersOK
  <2>2. PICK n \in Nat, l \in Nat : n = UnderWay /\ l = Size - UnderWay
    BY <2>1, Counts
  <2>3. /\ Helped(Consumers, kNonEmptyMask, n) /\ Helped(Producers, kNonFullMask, l)
        /\ Side(Consumers, kNonEmptyMask) /\ Side(Producers, kNonFullMask)
    BY <2>1, <2>2 DEF Sides, Side
  <2>4. (~R!empty => n > 0) /\ (~R!full => l > 0)
    <3>1. (~R!empty => UnderWay > 0) /\ (~R!full => UnderWay < Size) /\ Size \in Nat
      BY <2>1, EmptyAndFull, QueueAssumption
    <3>2. QED
      BY <2>2, <3>1
  <2>5. QED
    BY <2>1, <2>3, <2>4, HelpComes DEF NoStranded
<1>2. Inv /\ [Next]_vars => Inv'
  BY InvNext
<1>3. QED
  BY <1>1, <1>2, InvInit, PTL DEF Spec
==============================================================================
