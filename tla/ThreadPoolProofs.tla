---------------------------- MODULE ThreadPoolProofs ----------------------------
(***************************************************************************)
(* Proofs about ThreadPool, for any callers, threads and calls: a function *)
(* is neither lost nor run twice, and none writes to a frame that is gone. *)
(***************************************************************************)
EXTENDS ThreadPool, FiniteSetTheorems, TLAPS

(* The caller has handed its function over and has not returned.           *)
Waiting == {"list", "check", "queued", "asleep"}

(* The thread is where it can be given a task; it has one of its callers;  *)
(* it is on its way back from one.                                         *)
Resting == {"lock", "block", "sleep", "exit"}
Serving == {"run", "store", "notify", "relock"}
Leaving == {"remove", "free"}

Creators == {k \in Callers : cpc[k] = "create"}

(* There is room for the threads that are still to be created.             *)
Room == threads + Cardinality(Creators) <= MaxThreads

(* A thread has one function at a time: none given while it serves one.    *)
WorkerOK(w) == /\ wpc[w] = "none" <=> threads < w
               /\ wpc[w] \notin Resting => task[w] = None
               /\ wpc[w] \notin Serving => job[w] = None
               /\ wpc[w] \in {"run", "store"} => job[w] # None

(* A caller that waits has its function with the thread it chose, until it *)
(* has run.                                                                *)
CallerOK(j) ==
  /\ cpc[j] \notin Waiting => ran[j] = 0
  /\ cpc[j] \notin {"idle", "create"} => target[j] \in Workers
  /\ ready[j] => ran[j] = 1
  /\ cpc[j] \in Waiting /\ ran[j] = 0
       => task[target[j]] = j \/ (job[target[j]] = j /\ wpc[target[j]] = "run")

Link(w, j) ==
  /\ task[w] = j => cpc[j] \in Waiting /\ target[j] = w /\ ran[j] = 0
  /\ job[w] = j => /\ cpc[j] \in Waiting /\ target[j] = w
                   /\ wpc[w] = "run" <=> ran[j] = 0
                   /\ wpc[w] \in {"notify", "relock"} <=> ready[j]

Chosen(j, w) == cpc[j] = "workOn" /\ target[j] = w

OfferOK(w) == /\ w \in InFree \/ (\E j \in Callers : Chosen(j, w))
                   => task[w] = None /\ wpc[w] \in Resting
              /\ w \in InFree => \A j \in Callers : ~Chosen(j, w)
              /\ \A j, k \in Callers : Chosen(j, w) /\ Chosen(k, w) => j = k

FreeOnce == \A i, k \in 1..Len(free) : free[i] = free[k] => i = k

Core == /\ \A w \in Workers : WorkerOK(w) /\ OfferOK(w)
        /\ \A j \in Callers : CallerOK(j)
        /\ \A w \in Workers, j \in Callers : Link(w, j)
        /\ FreeOnce

(* The inductive invariant.                                                *)
Inv == TypeOK /\ Room /\ Core

LEMMA WorkersFacts == Workers \subseteq Nat /\ 0 \notin Workers /\ None \notin Callers
  BY BoundsAssumption, CallersAssumption DEF Workers

LEMMA InvInit == Init => Inv
<1> SUFFICES ASSUME Init PROVE Inv
  OBVIOUS
<1>1. TypeOK
  BY BoundsAssumption DEF Init, TypeOK, Workers
<1>2. Room
  <2>1. Creators = {}
    BY DEF Init, Creators
  <2>2. QED
    BY <2>1, FS_EmptySet, BoundsAssumption DEF Room, Init
<1>3. ASSUME NEW w \in Workers PROVE WorkerOK(w)
  BY <1>3, WorkersFacts DEF Init, WorkerOK, Workers
<1>4. ASSUME NEW w \in Workers PROVE OfferOK(w)
  BY <1>4 DEF Init, OfferOK, InFree, Chosen
<1>5. ASSUME NEW j \in Callers PROVE CallerOK(j)
  BY <1>5 DEF Init, CallerOK, Waiting
<1>6. ASSUME NEW w \in Workers, NEW j \in Callers PROVE Link(w, j)
  BY <1>6, WorkersFacts DEF Init, Link
<1>7. FreeOnce
  BY DEF Init, FreeOnce
<1>8. QED
  BY <1>1, <1>2, <1>3, <1>4, <1>5, <1>6, <1>7 DEF Inv, Core
------------------------------------------------------------------------------
(* Room, and the types.                                                    *)

LEMMA CreatorsFinite == IsFiniteSet(Creators) /\ Cardinality(Creators) \in Nat
<1>1. IsFiniteSet(Creators)
  BY CallersAssumption, FS_Subset DEF Creators
<1>2. QED
  BY <1>1, FS_CardinalityType

(* Nobody begins to create a thread, and none is created.                  *)
LEMMA RoomKept ==
  ASSUME TypeOK, Room, threads' = threads,
         \A k \in Callers : cpc'[k] = "create" => cpc[k] = "create"
  PROVE  Room'
<1>1. Creators' \subseteq Creators
  BY DEF Creators
<1>2. Cardinality(Creators') \in Nat /\ Cardinality(Creators') <= Cardinality(Creators)
  BY <1>1, CreatorsFinite, FS_Subset, FS_CardinalityType
<1>3. QED
  BY <1>2, CreatorsFinite, BoundsAssumption DEF Room, TypeOK

LEMMA RoomSubmit == ASSUME TypeOK, Room, NEW j \in Callers, Submit(j) PROVE Room'
<1>1. CASE free = << >>
  <2>1. /\ threads + Cardinality(Creators) < MaxThreads /\ threads' = threads
        /\ cpc' = [cpc EXCEPT ![j] = "create"] /\ cpc[j] = "idle"
    BY <1>1 DEF Submit, CallAt, Creators
  <2>2. Creators' = Creators \cup {j} /\ j \notin Creators
    BY <2>1 DEF Creators, TypeOK
  <2>3. Cardinality(Creators') = Cardinality(Creators) + 1
    BY <2>2, CreatorsFinite, FS_AddElement
  <2>4. QED
    BY <2>1, <2>3, CreatorsFinite, BoundsAssumption DEF Room, TypeOK
<1>2. CASE free # << >>
  BY <1>2, RoomKept DEF Submit, CallAt, TypeOK
<1>3. QED
  BY <1>1, <1>2

(* There is room for the thread a call creates.                            *)
LEMMA RoomCreate ==
  ASSUME TypeOK, Room, NEW j \in Callers, Create(j)
  PROVE  Room' /\ threads + 1 \in Workers
<1>1. /\ threads' = threads + 1 /\ cpc' = [cpc EXCEPT ![j] = "workOn"] /\ cpc[j] = "create"
  BY DEF Create, CallAt
<1>2. Creators' = Creators \ {j} /\ j \in Creators
  BY <1>1 DEF Creators, TypeOK
<1>3. /\ Cardinality(Creators') = Cardinality(Creators) - 1
      /\ Cardinality(Creators') \in Nat
  <2>1. IsFiniteSet(Creators')
    BY <1>2, CreatorsFinite, FS_Subset
  <2>2. QED
    BY <2>1, <1>2, CreatorsFinite, FS_RemoveElement, FS_CardinalityType
<1>4. QED
  BY <1>1, <1>3, CreatorsFinite, BoundsAssumption DEF Room, TypeOK, Workers
------------------------------------------------------------------------------
(* Steps that only move on a caller, or a thread.                          *)

(* The parts of the state the invariant is about but for the places.       *)
rest == <<target, ready, threads, free, task, job, ran>>

LEMMA SamePlaces == ASSUME Inv, UNCHANGED <<rest, cpc, wpc>> PROVE Room' /\ Core'
<1> USE DEF rest
<1>1. ASSUME NEW w \in Workers PROVE WorkerOK(w)' /\ OfferOK(w)'
  BY DEF Inv, Core, WorkerOK, OfferOK, InFree, Chosen
<1>2. ASSUME NEW j \in Callers PROVE CallerOK(j)'
  BY DEF Inv, Core, CallerOK
<1>3. ASSUME NEW w \in Workers, NEW j \in Callers PROVE Link(w, j)'
  BY DEF Inv, Core, Link
<1>4. FreeOnce'
  BY DEF Inv, Core, FreeOnce
<1>5. Room'
  BY RoomKept DEF Inv
<1>6. QED
  BY <1>1, <1>2, <1>3, <1>4, <1>5 DEF Core

LEMMA CallerMoves ==
  ASSUME Inv,
         \A k \in Callers : cpc'[k] = cpc[k] \/ (cpc[k] \in Waiting /\ cpc'[k] \in Waiting),
         UNCHANGED <<rest, wpc>>
  PROVE  Room' /\ Core'
<1> USE DEF rest
<1>0. ASSUME NEW k \in Callers
      PROVE  /\ cpc'[k] \in Waiting <=> cpc[k] \in Waiting
             /\ cpc'[k] \in {"idle", "create"} <=> cpc[k] \in {"idle", "create"}
             /\ cpc'[k] = "create" <=> cpc[k] = "create"
             /\ cpc'[k] = "workOn" <=> cpc[k] = "workOn"
  BY DEF Waiting
<1>1. ASSUME NEW w \in Workers PROVE WorkerOK(w)'
  BY DEF Inv, Core, WorkerOK
<1>2. ASSUME NEW w \in Workers PROVE OfferOK(w)'
  BY <1>0 DEF Inv, Core, OfferOK, InFree, Chosen
<1>3. ASSUME NEW j \in Callers PROVE CallerOK(j)'
  BY <1>0 DEF Inv, Core, CallerOK
<1>4. ASSUME NEW w \in Workers, NEW j \in Callers PROVE Link(w, j)'
  BY <1>0 DEF Inv, Core, Link
<1>5. FreeOnce'
  BY DEF Inv, Core, FreeOnce
<1>6. Room'
  BY <1>0, RoomKept DEF Inv
<1>7. QED
  BY <1>1, <1>2, <1>3, <1>4, <1>5, <1>6 DEF Core

LEMMA WorkerMoves ==
  ASSUME Inv, NEW w \in Workers, NEW to \in Resting \cup Leaving,
         wpc' = [wpc EXCEPT ![w] = to], wpc[w] \in Resting \cup Leaving,
         wpc[w] \in Resting <=> to \in Resting,
         UNCHANGED <<rest, cpc>>
  PROVE  Room' /\ Core'
<1> USE DEF rest
<1>0. \A v \in Workers : \/ wpc'[v] = wpc[v]
                       \/ /\ v = w /\ wpc[v] \notin Serving \cup {"none"}
                          /\ wpc'[v] \notin Serving \cup {"none"}
                          /\ wpc'[v] \in Resting <=> wpc[v] \in Resting
  BY DEF Inv, TypeOK, Resting, Leaving, Serving
<1>1. ASSUME NEW v \in Workers PROVE WorkerOK(v)'
  BY <1>0 DEF Inv, Core, WorkerOK, Serving
<1>2. ASSUME NEW v \in Workers PROVE OfferOK(v)'
  BY <1>0 DEF Inv, Core, OfferOK, InFree, Chosen
<1>3. ASSUME NEW j \in Callers PROVE CallerOK(j)'
  BY <1>0 DEF Inv, Core, CallerOK, Serving, Waiting
<1>4. ASSUME NEW v \in Workers, NEW j \in Callers PROVE Link(v, j)'
  BY <1>0 DEF Inv, Core, Link, Serving
<1>5. FreeOnce'
  BY DEF Inv, Core, FreeOnce
<1>6. Room'
  BY RoomKept DEF Inv
<1>7. QED
  BY <1>1, <1>2, <1>3, <1>4, <1>5, <1>6 DEF Core
------------------------------------------------------------------------------
(* The other steps of a caller.                                            *)

LEMMA SubmitCore == ASSUME Inv, NEW j \in Callers, Submit(j) PROVE Core'
<1>1. cpc[j] = "idle" /\ UNCHANGED <<ready, threads, wpc, task, job, ran>>
  BY DEF Submit, CallAt, workVars
<1>2. CASE free = << >>
  <2>1. UNCHANGED <<target, free>> /\ cpc' = [cpc EXCEPT ![j] = "create"]
    BY <1>2 DEF Submit, CallAt
  <2>2. \A k \in Callers : cpc'[k] = IF k = j THEN "create" ELSE cpc[k]
    BY <2>1 DEF Inv, TypeOK
  <2>3. ASSUME NEW w \in Workers PROVE WorkerOK(w)'
    BY <1>1 DEF Inv, Core, WorkerOK
  <2>4. ASSUME NEW w \in Workers PROVE OfferOK(w)'
    BY <1>1, <2>1, <2>2 DEF Inv, Core, OfferOK, InFree, Chosen
  <2>5. ASSUME NEW k \in Callers PROVE CallerOK(k)'
    BY <1>1, <2>1, <2>2 DEF Inv, Core, CallerOK, Waiting
  <2>6. ASSUME NEW w \in Workers, NEW k \in Callers PROVE Link(w, k)'
    BY <1>1, <2>1, <2>2 DEF Inv, Core, Link, Waiting
  <2>7. FreeOnce'
    BY <2>1 DEF Inv, Core, FreeOnce
  <2>8. QED
    BY <2>3, <2>4, <2>5, <2>6, <2>7 DEF Core
<1>3. CASE free # << >>
  <2> DEFINE h == Head(free)
  <2>1. /\ free' = Tail(free) /\ cpc' = [cpc EXCEPT ![j] = "workOn"]
        /\ target' = [target EXCEPT ![j] = h]
    BY <1>3 DEF Submit, CallAt
  <2>2. free \in Seq(Workers) /\ h \in Workers /\ h = free[1] /\ h \in InFree
    BY <1>3 DEF Inv, TypeOK, InFree
  <2>3. /\ Len(free') = Len(free) - 1
        /\ \A i \in 1..Len(free') : i + 1 \in 1..Len(free) /\ free'[i] = free[i + 1]
    BY <1>3, <2>1, <2>2
  <2> HIDE DEF h
  <2>4. \A k \in Callers : /\ cpc'[k] = IF k = j THEN "workOn" ELSE cpc[k]
                          /\ target'[k] = IF k = j THEN h ELSE target[k]
    BY <2>1 DEF Inv, TypeOK
  <2>5. FreeOnce'
    <3>1. ASSUME NEW i \in 1..Len(free'), NEW k \in 1..Len(free'), free'[i] = free'[k]
          PROVE  i = k
      <4>1. i + 1 = k + 1
        BY <2>3, <3>1 DEF Inv, Core, FreeOnce
      <4>2. QED
        BY <4>1, <2>2, <2>3
    <3>2. QED
      BY <3>1 DEF FreeOnce
  <2>6. h \notin InFree' /\ InFree' \subseteq InFree
    <3>1. ASSUME NEW i \in 1..Len(free') PROVE free'[i] # h /\ free'[i] \in InFree
      <4>1. i + 1 \in 1..Len(free) /\ free'[i] = free[i + 1] /\ 1 \in 1..Len(free) /\ i + 1 # 1
        BY <2>2, <2>3
      <4>2. QED
        BY <4>1, <2>2 DEF Inv, Core, FreeOnce, InFree
    <3>2. QED
      BY <3>1 DEF InFree
  <2>7. ASSUME NEW w \in Workers PROVE WorkerOK(w)'
    BY <1>1 DEF Inv, Core, WorkerOK
  <2>8. ASSUME NEW w \in Workers PROVE OfferOK(w)'
    <3>1. OfferOK(w) /\ OfferOK(h)
      BY <2>2 DEF Inv, Core
    <3>2. CASE w = h
      <4>1. \A k \in Callers : Chosen(k, w)' => k = j
        BY <1>1, <2>2, <2>4, <3>1, <3>2 DEF OfferOK, Chosen
      <4>2. QED
        BY <1>1, <2>2, <2>6, <3>1, <3>2, <4>1 DEF OfferOK
    <3>3. CASE w # h
      <4>1. ASSUME NEW k \in Callers PROVE Chosen(k, w)' => Chosen(k, w)
        BY <1>1, <2>4, <3>3 DEF Chosen
      <4>2. QED
        BY <1>1, <2>6, <3>1, <4>1 DEF OfferOK
    <3>4. QED
      BY <3>2, <3>3
  <2>9. ASSUME NEW k \in Callers PROVE CallerOK(k)'
    BY <1>1, <2>2, <2>4 DEF Inv, Core, CallerOK, Waiting
  <2>10. ASSUME NEW w \in Workers, NEW k \in Callers PROVE Link(w, k)'
    BY <1>1, <2>4 DEF Inv, Core, Link, Waiting
  <2>11. QED
    BY <2>5, <2>7, <2>8, <2>9, <2>10 DEF Core
<1>4. QED
  BY <1>2, <1>3

LEMMA CreateCore == ASSUME Inv, NEW j \in Callers, Create(j) PROVE Core'
<1> DEFINE n == threads + 1
<1>1. n \in Workers
  BY RoomCreate DEF Inv
<1>2. /\ cpc[j] = "create" /\ threads' = n
      /\ UNCHANGED <<ready, free, task, job, ran>>
      /\ \A k \in Callers : /\ cpc'[k] = IF k = j THEN "workOn" ELSE cpc[k]
                            /\ target'[k] = IF k = j THEN n ELSE target[k]
      /\ \A w \in Workers : wpc'[w] = IF w = n THEN "lock" ELSE wpc[w]
  BY DEF Create, CallAt, Inv, TypeOK
<1>3. wpc[n] = "none"
  BY <1>1, BoundsAssumption DEF Inv, Core, WorkerOK, TypeOK, Workers
<1>4. ASSUME NEW w \in Workers PROVE WorkerOK(w)'
  <2>1. threads \in Nat /\ w \in Nat
    BY WorkersFacts, BoundsAssumption DEF Inv, TypeOK
  <2>2. WorkerOK(w)
    BY DEF Inv, Core
  <2>3. CASE w = n
    BY <1>2, <1>3, <2>1, <2>2, <2>3 DEF WorkerOK, Serving, Resting
  <2>4. CASE w # n
    BY <1>2, <2>1, <2>2, <2>4 DEF WorkerOK
  <2>5. QED
    BY <2>3, <2>4
<1> HIDE DEF n
<1>5. ASSUME NEW w \in Workers PROVE OfferOK(w)'
  <2>1. OfferOK(w) /\ WorkerOK(w)
    BY DEF Inv, Core
  <2>2. InFree' = InFree
    BY <1>2 DEF InFree
  <2>3. CASE w = n
    <3>1. w \notin InFree /\ (\A k \in Callers : ~Chosen(k, w)) /\ task[w] = None
      BY <1>3, <2>1, <2>3 DEF OfferOK, WorkerOK, Resting
    <3>2. \A k \in Callers : Chosen(k, w)' => k = j
      BY <1>2, <3>1 DEF Chosen
    <3>3. QED
      BY <1>2, <2>2, <2>3, <3>1, <3>2 DEF OfferOK, Resting
  <2>4. CASE w # n
    <3>1. \A k \in Callers : Chosen(k, w)' => Chosen(k, w)
      BY <1>2, <2>4 DEF Chosen
    <3>2. QED
      BY <1>2, <2>1, <2>2, <2>4, <3>1 DEF OfferOK
  <2>5. QED
    BY <2>3, <2>4
<1>6. ASSUME NEW k \in Callers PROVE CallerOK(k)'
  BY <1>1, <1>2, <1>3 DEF Inv, Core, CallerOK, Waiting
<1>7. ASSUME NEW w \in Workers, NEW k \in Callers PROVE Link(w, k)'
  BY <1>1, <1>2, <1>3 DEF Inv, Core, Link, Waiting, WorkerOK, Serving
<1>8. FreeOnce'
  BY <1>2 DEF Inv, Core, FreeOnce
<1>9. QED
  BY <1>4, <1>5, <1>6, <1>7, <1>8 DEF Core

LEMMA WorkOnCore == ASSUME Inv, NEW j \in Callers, WorkOn(j) PROVE Room' /\ Core'
<1> DEFINE w == target[j]
<1>1. /\ cpc[j] = "workOn" /\ UNCHANGED <<target, ready, threads, free, job, ran>>
      /\ w \in Workers /\ Chosen(j, w)
  BY DEF WorkOn, CallAt, listVars, Inv, Core, CallerOK, Chosen
<1>2. /\ \A k \in Callers : cpc'[k] = IF k = j THEN "list" ELSE cpc[k]
      /\ \A v \in Workers : /\ task'[v] = IF v = w THEN j ELSE task[v]
                            /\ wpc'[v] = IF v = w /\ wpc[v] = "sleep" THEN "lock" ELSE wpc[v]
  BY <1>1 DEF WorkOn, CallAt, Inv, TypeOK
<1>3. OfferOK(w) /\ task[w] = None /\ wpc[w] \in Resting /\ wpc[w] \notin Serving
  BY <1>1 DEF Inv, Core, OfferOK, Resting, Serving
<1>4. ran[j] = 0 /\ ~ready[j] /\ j # None
  BY <1>1, WorkersFacts DEF Inv, Core, CallerOK, Waiting
<1> HIDE DEF w
<1>5. ASSUME NEW v \in Workers PROVE WorkerOK(v)'
  BY <1>1, <1>2, <1>3 DEF Inv, Core, WorkerOK, Resting, Serving
<1>6. ASSUME NEW v \in Workers PROVE OfferOK(v)'
  <2>1. OfferOK(v) /\ InFree' = InFree
    BY <1>1 DEF Inv, Core, InFree
  <2>2. \A k \in Callers : Chosen(k, v)' <=> Chosen(k, v) /\ k # j
    BY <1>1, <1>2 DEF Chosen
  <2>3. CASE v = w
    <3>1. \A k \in Callers : ~Chosen(k, v)'
      BY <1>1, <2>1, <2>2, <2>3 DEF OfferOK
    <3>2. v \notin InFree
      BY <1>1, <1>3, <2>3 DEF OfferOK
    <3>3. QED
      BY <2>1, <3>1, <3>2 DEF OfferOK
  <2>4. CASE v # w
    BY <1>2, <2>1, <2>2, <2>4 DEF OfferOK
  <2>5. QED
    BY <2>3, <2>4
<1>7. ASSUME NEW k \in Callers PROVE CallerOK(k)'
  <2>1. CallerOK(k)
    BY DEF Inv, Core
  <2>2. CASE k = j
    BY <1>1, <1>2, <1>4, <2>1, <2>2 DEF CallerOK, Waiting, w
  <2>3. CASE k # j
    <3>1. cpc'[k] = cpc[k] /\ target'[k] = target[k]
      BY <1>1, <1>2, <2>3
    <3>2. cpc[k] \in Waiting => target[k] \in Workers
      BY <2>1 DEF CallerOK, Waiting
    <3>3. cpc[k] \in Waiting /\ task[target[k]] = k => target[k] # w
      BY <1>3, WorkersFacts
    <3>4. cpc[k] \in Waiting /\ wpc[target[k]] = "run" => wpc'[target[k]] = "run"
      BY <1>2, <3>2
    <3>5. QED
      BY <1>1, <1>2, <2>1, <3>1, <3>2, <3>3, <3>4 DEF CallerOK
  <2>4. QED
    BY <2>2, <2>3
<1>8. ASSUME NEW v \in Workers, NEW k \in Callers PROVE Link(v, k)'
  <2>1. Link(v, k) /\ WorkerOK(v)
    BY DEF Inv, Core
  <2>2. CASE k = j
    <3>1. task[v] # k /\ job[v] # k
      BY <1>1, <2>1, <2>2 DEF Link, Waiting
    <3>2. QED
      BY <1>1, <1>2, <1>4, <2>2, <3>1 DEF Link, Waiting, w
  <2>3. CASE k # j
    <3>1. cpc'[k] = cpc[k] /\ target'[k] = target[k] /\ (task'[v] = k => task[v] = k)
      BY <1>1, <1>2, <2>3
    <3>2. job[v] = k => wpc'[v] = wpc[v]
      BY <1>2, <1>3, <2>1, WorkersFacts DEF WorkerOK
    <3>3. QED
      BY <1>1, <2>1, <3>1, <3>2 DEF Link
  <2>4. QED
    BY <2>2, <2>3
<1>9. FreeOnce'
  BY <1>1 DEF Inv, Core, FreeOnce
<1>10. Room'
  BY <1>1, <1>2, RoomKept DEF Inv
<1>11. QED
  BY <1>5, <1>6, <1>7, <1>8, <1>9, <1>10 DEF Core

LEMMA ReturnCore == ASSUME Inv, NEW j \in Callers, Return(j) PROVE Room' /\ Core'
<1>1. /\ ready[j] /\ cpc[j] = "check"
      /\ UNCHANGED <<target, threads, free, wpc, task>>
  BY DEF Return, CallAt, listVars
<1>2. /\ \A k \in Callers : /\ cpc'[k] = IF k = j THEN "idle" ELSE cpc[k]
                            /\ ready'[k] = IF k = j THEN FALSE ELSE ready[k]
                            /\ ran'[k] = IF k = j THEN 0 ELSE ran[k]
      /\ \A w \in Workers : job'[w] = IF job[w] = j THEN None ELSE job[w]
  BY DEF Return, CallAt, Inv, TypeOK
<1>3. ran[j] = 1
  BY <1>1 DEF Inv, Core, CallerOK
<1>4. ASSUME NEW w \in Workers PROVE task[w] # j /\ (job[w] = j => wpc[w] \in {"notify", "relock"})
  BY <1>1, <1>3 DEF Inv, Core, Link
<1>5. ASSUME NEW w \in Workers PROVE WorkerOK(w)'
  BY <1>1, <1>2, <1>4 DEF Inv, Core, WorkerOK
<1>6. ASSUME NEW w \in Workers PROVE OfferOK(w)'
  <2>1. \A k \in Callers : Chosen(k, w)' <=> Chosen(k, w)
    BY <1>1, <1>2 DEF Chosen
  <2>2. QED
    BY <1>1, <2>1 DEF Inv, Core, OfferOK, InFree
<1>7. ASSUME NEW k \in Callers PROVE CallerOK(k)'
  <2>1. CallerOK(k)
    BY DEF Inv, Core
  <2>2. CASE k = j
    BY <1>1, <1>2, <2>1, <2>2 DEF CallerOK, Waiting
  <2>3. CASE k # j
    <3>1. cpc[k] \in Waiting => target[k] \in Workers
      BY <2>1 DEF CallerOK, Waiting
    <3>2. QED
      BY <1>1, <1>2, <2>1, <2>3, <3>1 DEF CallerOK
  <2>4. QED
    BY <2>2, <2>3
<1>8. ASSUME NEW w \in Workers, NEW k \in Callers PROVE Link(w, k)'
  <2>1. Link(w, k)
    BY DEF Inv, Core
  <2>2. CASE k = j
    BY <1>1, <1>2, <1>4, <2>2, WorkersFacts DEF Link
  <2>3. CASE k # j
    BY <1>1, <1>2, <2>1, <2>3, WorkersFacts DEF Link
  <2>4. QED
    BY <2>2, <2>3
<1>9. FreeOnce'
  BY <1>1 DEF Inv, Core, FreeOnce
<1>10. Room'
  BY <1>1, <1>2, RoomKept DEF Inv
<1>11. QED
  BY <1>5, <1>6, <1>7, <1>8, <1>9, <1>10 DEF Core
------------------------------------------------------------------------------
(* The other steps of a thread.                                            *)

LEMMA TakeCore == ASSUME Inv, NEW w \in Workers, Take(w) PROVE Room' /\ Core'
<1> DEFINE j == task[w]
<1>1. /\ wpc[w] = "lock" /\ j # None /\ j \in Callers
      /\ UNCHANGED <<cpc, target, ready, threads, free, ran>>
  BY DEF Take, WorkerAt, callVars, listVars, Inv, TypeOK
<1>2. \A v \in Workers : /\ wpc'[v] = IF v = w THEN "run" ELSE wpc[v]
                         /\ task'[v] = IF v = w THEN None ELSE task[v]
                         /\ job'[v] = IF v = w THEN j ELSE job[v]
  BY DEF Take, WorkerAt, Inv, TypeOK
<1> HIDE DEF j
<1>3. task[w] = j
  BY DEF j
<1>4. /\ cpc[j] \in Waiting /\ target[j] = w /\ ran[j] = 0 /\ ~ready[j]
  BY <1>1, <1>3 DEF Inv, Core, Link, CallerOK
<1>5. ASSUME NEW v \in Workers PROVE WorkerOK(v)'
  BY <1>1, <1>2, <1>3 DEF Inv, Core, WorkerOK, Serving, Resting
<1>6. ASSUME NEW v \in Workers PROVE OfferOK(v)'
  <2>1. OfferOK(v) /\ InFree' = InFree /\ (\A k \in Callers : Chosen(k, v)' <=> Chosen(k, v))
    BY <1>1 DEF Inv, Core, InFree, Chosen
  <2>2. CASE v = w
    BY <1>1, <1>3, <2>1, <2>2 DEF OfferOK
  <2>3. CASE v # w
    BY <1>2, <2>1, <2>3 DEF OfferOK
  <2>4. QED
    BY <2>2, <2>3
<1>7. ASSUME NEW k \in Callers PROVE CallerOK(k)'
  <2>1. CallerOK(k) /\ Link(w, k)
    BY DEF Inv, Core
  <2>2. cpc[k] \in Waiting => target[k] \in Workers
    BY <2>1 DEF CallerOK, Waiting
  <2>3. CASE k = j
    BY <1>1, <1>2, <1>4, <2>1, <2>3 DEF CallerOK
  <2>4. CASE k # j
    <3>1. cpc[k] \in Waiting /\ target[k] = w => task[w] # k /\ wpc[w] # "run"
      BY <1>1, <1>3, <2>4
    <3>2. QED
      BY <1>1, <1>2, <2>1, <2>2, <3>1 DEF CallerOK
  <2>5. QED
    BY <2>3, <2>4
<1>8. ASSUME NEW v \in Workers, NEW k \in Callers PROVE Link(v, k)'
  <2>1. Link(v, k)
    BY DEF Inv, Core
  <2>2. CASE v = w
    BY <1>1, <1>2, <1>3, <1>4, <2>1, <2>2, WorkersFacts DEF Link
  <2>3. CASE v # w
    BY <1>1, <1>2, <2>1, <2>3 DEF Link
  <2>4. QED
    BY <2>2, <2>3
<1>9. FreeOnce'
  BY <1>1 DEF Inv, Core, FreeOnce
<1>10. Room'
  BY <1>1, RoomKept DEF Inv
<1>11. QED
  BY <1>5, <1>6, <1>7, <1>8, <1>9, <1>10 DEF Core

(* The thread goes on with the function of job[w]: it runs it, says so,    *)
(* notifies its caller, or forgets it.                                     *)
LEMMA RunCore == ASSUME Inv, NEW w \in Workers, Run(w) PROVE Room' /\ Core'
<1> DEFINE j == job[w]
<1>1. /\ wpc[w] = "run" /\ j \in Callers /\ ran[j] = 0
      /\ UNCHANGED <<cpc, target, ready, threads, free, task, job>>
  BY DEF Run, WorkerAt, callVars, listVars, Inv, TypeOK, Core, WorkerOK, Link
<1>2. /\ \A v \in Workers : wpc'[v] = IF v = w THEN "store" ELSE wpc[v]
      /\ \A k \in Callers : ran'[k] = IF k = j THEN 1 ELSE ran[k]
  <2>1. ran'[j] = ran[j] + 1
    BY <1>1 DEF Run, Inv, TypeOK
  <2>2. QED
    BY <1>1, <2>1 DEF Run, WorkerAt, Inv, TypeOK
<1>3. cpc[j] \in Waiting /\ target[j] = w /\ ~ready[j]
  BY <1>1 DEF Inv, Core, Link
<1>4. ASSUME NEW v \in Workers, NEW k \in Callers PROVE Link(v, k)'
  <2>1. Link(v, k) /\ Link(w, k) /\ WorkerOK(v)
    BY DEF Inv, Core
  <2>2. CASE v = w
    BY <1>1, <1>2, <1>3, <2>1, <2>2, WorkersFacts DEF Link, WorkerOK, Resting
  <2>3. CASE v # w
    <3>1. CASE k = j
      <4>1. task[v] # k /\ job[v] # k
        BY <1>3, <2>1, <2>3, <3>1 DEF Link
      <4>2. QED
        BY <1>1, <4>1 DEF Link
    <3>2. CASE k # j
      BY <1>1, <1>2, <2>1, <2>3, <3>2 DEF Link
    <3>3. QED
      BY <3>1, <3>2
  <2>4. QED
    BY <2>2, <2>3
<1>5. ASSUME NEW k \in Callers PROVE CallerOK(k)'
  <2>1. CallerOK(k) /\ (cpc[k] \in Waiting => target[k] \in Workers)
    BY DEF Inv, Core, CallerOK, Waiting
  <2>2. CASE k = j
    BY <1>1, <1>2, <1>3, <2>1, <2>2 DEF CallerOK
  <2>3. CASE k # j
    BY <1>1, <1>2, <2>1, <2>3 DEF CallerOK
  <2>4. QED
    BY <2>2, <2>3
<1> HIDE DEF j
<1>6. ASSUME NEW v \in Workers PROVE WorkerOK(v)'
  BY <1>1, <1>2 DEF Inv, Core, WorkerOK, Serving, Resting
<1>7. ASSUME NEW v \in Workers PROVE OfferOK(v)'
  BY <1>1, <1>2 DEF Inv, Core, OfferOK, InFree, Chosen, Resting
<1>8. FreeOnce'
  BY <1>1 DEF Inv, Core, FreeOnce
<1>9. Room'
  BY <1>1, RoomKept DEF Inv
<1>10. QED
  BY <1>4, <1>5, <1>6, <1>7, <1>8, <1>9 DEF Core

LEMMA StoreCore == ASSUME Inv, NEW w \in Workers, Store(w) PROVE Room' /\ Core'
<1> DEFINE j == job[w]
<1>1. /\ wpc[w] = "store" /\ j \in Callers
      /\ UNCHANGED <<cpc, target, threads, free, task, job, ran>>
  BY DEF Store, WorkerAt, listVars, Inv, TypeOK, Core, WorkerOK
<1>2. /\ \A v \in Workers : wpc'[v] = IF v = w THEN "notify" ELSE wpc[v]
      /\ \A k \in Callers : ready'[k] = IF k = j THEN TRUE ELSE ready[k]
  BY <1>1 DEF Store, WorkerAt, Inv, TypeOK
<1>3. cpc[j] \in Waiting /\ target[j] = w /\ ran[j] = 1
  BY <1>1 DEF Inv, Core, Link, TypeOK
<1>4. ASSUME NEW v \in Workers, NEW k \in Callers PROVE Link(v, k)'
  <2>1. Link(v, k) /\ WorkerOK(v)
    BY DEF Inv, Core
  <2>2. CASE v = w
    BY <1>1, <1>2, <1>3, <2>1, <2>2, WorkersFacts DEF Link, WorkerOK, Resting
  <2>3. CASE v # w
    <3>1. CASE k = j
      <4>1. task[v] # k /\ job[v] # k
        BY <1>3, <2>1, <2>3, <3>1 DEF Link
      <4>2. QED
        BY <1>1, <4>1 DEF Link
    <3>2. CASE k # j
      BY <1>1, <1>2, <2>1, <2>3, <3>2 DEF Link
    <3>3. QED
      BY <3>1, <3>2
  <2>4. QED
    BY <2>2, <2>3
<1>5. ASSUME NEW k \in Callers PROVE CallerOK(k)'
  <2>1. CallerOK(k) /\ (cpc[k] \in Waiting => target[k] \in Workers)
    BY DEF Inv, Core, CallerOK, Waiting
  <2>2. CASE k = j
    BY <1>1, <1>2, <1>3, <2>1, <2>2 DEF CallerOK
  <2>3. CASE k # j
    BY <1>1, <1>2, <2>1, <2>3 DEF CallerOK
  <2>4. QED
    BY <2>2, <2>3
<1> HIDE DEF j
<1>6. ASSUME NEW v \in Workers PROVE WorkerOK(v)'
  BY <1>1, <1>2 DEF Inv, Core, WorkerOK, Serving, Resting
<1>7. ASSUME NEW v \in Workers PROVE OfferOK(v)'
  BY <1>1, <1>2 DEF Inv, Core, OfferOK, InFree, Chosen, Resting
<1>8. FreeOnce'
  BY <1>1 DEF Inv, Core, FreeOnce
<1>9. Room'
  BY <1>1, RoomKept DEF Inv
<1>10. QED
  BY <1>4, <1>5, <1>6, <1>7, <1>8, <1>9 DEF Core

LEMMA NotifyCore == ASSUME Inv, NEW w \in Workers, Notify(w) PROVE Room' /\ Core'
<1>1. wpc[w] = "notify" /\ UNCHANGED rest
  BY DEF Notify, WorkerAt, listVars, rest
<1>2. /\ \A v \in Workers : wpc'[v] = IF v = w THEN "relock" ELSE wpc[v]
      /\ \A k \in Callers : cpc'[k] = cpc[k] \/ (cpc[k] = "asleep" /\ cpc'[k] = "check")
  BY DEF Notify, WorkerAt, Inv, TypeOK
<1> USE DEF rest
<1>3. ASSUME NEW k \in Callers
      PROVE  /\ cpc'[k] \in Waiting <=> cpc[k] \in Waiting
             /\ cpc'[k] \in {"idle", "create"} <=> cpc[k] \in {"idle", "create"}
             /\ cpc'[k] = "create" <=> cpc[k] = "create"
             /\ cpc'[k] = "workOn" <=> cpc[k] = "workOn"
  BY <1>2 DEF Waiting
<1>4. ASSUME NEW v \in Workers PROVE WorkerOK(v)'
  BY <1>1, <1>2 DEF Inv, Core, WorkerOK, Serving, Resting
<1>5. ASSUME NEW v \in Workers PROVE OfferOK(v)'
  BY <1>1, <1>2, <1>3 DEF Inv, Core, OfferOK, InFree, Chosen, Resting
<1>6. ASSUME NEW k \in Callers PROVE CallerOK(k)'
  <2>1. CallerOK(k) /\ (cpc[k] \in Waiting => target[k] \in Workers)
    BY DEF Inv, Core, CallerOK, Waiting
  <2>2. QED
    BY <1>1, <1>2, <1>3, <2>1 DEF CallerOK
<1>7. ASSUME NEW v \in Workers, NEW k \in Callers PROVE Link(v, k)'
  BY <1>1, <1>2, <1>3 DEF Inv, Core, Link
<1>8. FreeOnce'
  BY <1>1 DEF Inv, Core, FreeOnce
<1>9. Room'
  BY <1>1, <1>3, RoomKept DEF Inv
<1>10. QED
  BY <1>4, <1>5, <1>6, <1>7, <1>8, <1>9 DEF Core

LEMMA RelockCore == ASSUME Inv, NEW w \in Workers, Relock(w) PROVE Room' /\ Core'
<1>1. /\ wpc[w] = "relock" /\ task[w] = None
      /\ UNCHANGED <<cpc, target, ready, threads, free, ran>>
  BY DEF Relock, WorkerAt, callVars, listVars, Inv, Core, WorkerOK, Resting
<1>2. \A v \in Workers : /\ wpc'[v] = IF v = w THEN "remove" ELSE wpc[v]
                         /\ task'[v] = task[v]
                         /\ job'[v] = IF v = w THEN None ELSE job[v]
  BY <1>1 DEF Relock, WorkerAt, Inv, TypeOK
<1>3. ASSUME NEW v \in Workers PROVE WorkerOK(v)'
  BY <1>1, <1>2 DEF Inv, Core, WorkerOK, Serving, Resting
<1>4. ASSUME NEW v \in Workers PROVE OfferOK(v)'
  BY <1>1, <1>2 DEF Inv, Core, OfferOK, InFree, Chosen, Resting
<1>5. ASSUME NEW k \in Callers PROVE CallerOK(k)'
  <2>1. CallerOK(k) /\ (cpc[k] \in Waiting => target[k] \in Workers)
    BY DEF Inv, Core, CallerOK, Waiting
  <2>2. QED
    BY <1>1, <1>2, <2>1 DEF CallerOK
<1>6. ASSUME NEW v \in Workers, NEW k \in Callers PROVE Link(v, k)'
  BY <1>1, <1>2, WorkersFacts DEF Inv, Core, Link
<1>7. FreeOnce'
  BY <1>1 DEF Inv, Core, FreeOnce
<1>8. Room'
  BY <1>1, RoomKept DEF Inv
<1>9. QED
  BY <1>3, <1>4, <1>5, <1>6, <1>7, <1>8 DEF Core

(* Nobody has chosen the thread that becomes free, nor is it free already. *)
LEMMA PushFreeCore == ASSUME Inv, NEW w \in Workers, PushFree(w) PROVE Room' /\ Core'
<1>1. /\ wpc[w] = "free" /\ UNCHANGED <<cpc, target, ready, threads, task, job, ran>>
      /\ free' = Append(free, w) /\ free \in Seq(Workers)
  BY DEF PushFree, WorkerAt, callVars, Inv, TypeOK
<1>2. \A v \in Workers : wpc'[v] = IF v = w THEN "lock" ELSE wpc[v]
  BY DEF PushFree, WorkerAt, Inv, TypeOK
<1>3. /\ w \notin InFree /\ (\A k \in Callers : ~Chosen(k, w))
      /\ task[w] = None /\ job[w] = None
  BY <1>1 DEF Inv, Core, OfferOK, WorkerOK, Resting, Serving
<1>4. /\ Len(free') = Len(free) + 1 /\ free'[Len(free) + 1] = w
      /\ \A i \in 1..Len(free) : free'[i] = free[i]
  BY <1>1
<1>5. InFree' = InFree \cup {w}
  BY <1>1, <1>4 DEF InFree
<1>6. FreeOnce'
  <2>1. ASSUME NEW i \in 1..Len(free'), NEW k \in 1..Len(free'), free'[i] = free'[k] PROVE i = k
    <3>1. \A n \in 1..Len(free) : free[n] # w
      BY <1>3 DEF InFree
    <3>2. QED
      BY <1>1, <1>4, <2>1, <3>1 DEF Inv, Core, FreeOnce
  <2>2. QED
    BY <2>1 DEF FreeOnce
<1>7. ASSUME NEW v \in Workers PROVE WorkerOK(v)'
  BY <1>1, <1>2, <1>3 DEF Inv, Core, WorkerOK, Serving, Resting
<1>8. ASSUME NEW v \in Workers PROVE OfferOK(v)'
  <2>1. OfferOK(v) /\ (\A k \in Callers : Chosen(k, v)' <=> Chosen(k, v))
    BY <1>1 DEF Inv, Core, Chosen
  <2>2. CASE v = w
    BY <1>1, <1>2, <1>3, <2>1, <2>2 DEF OfferOK, Resting
  <2>3. CASE v # w
    BY <1>1, <1>2, <1>5, <2>1, <2>3 DEF OfferOK
  <2>4. QED
    BY <2>2, <2>3
<1>9. ASSUME NEW k \in Callers PROVE CallerOK(k)'
  <2>1. CallerOK(k) /\ (cpc[k] \in Waiting => target[k] \in Workers)
    BY DEF Inv, Core, CallerOK, Waiting
  <2>2. QED
    BY <1>1, <1>2, <1>3, <2>1 DEF CallerOK
<1>10. ASSUME NEW v \in Workers, NEW k \in Callers PROVE Link(v, k)'
  BY <1>1, <1>2, <1>3, WorkersFacts DEF Inv, Core, Link
<1>11. Room'
  BY <1>1, RoomKept DEF Inv
<1>12. QED
  BY <1>6, <1>7, <1>8, <1>9, <1>10, <1>11 DEF Core
------------------------------------------------------------------------------
(* Every step keeps the types ...                                          *)

LEMMA CallerTypes ==
  ASSUME Inv, NEW j \in Callers, Submit(j) \/ Call(j) \/ Cancel(j) \/ KernelCancel(j)
  PROVE  TypeOK'
<1> USE DEF TypeOK, callVars, listVars, workVars, dtorVars, CallAt
<1>1. TypeOK
  BY DEF Inv
<1>2. CASE Submit(j)
  <2>1. calls' \in 0..MaxCalls
    BY <1>1, <1>2, BoundsAssumption DEF Submit
  <2>2. CASE free = << >>
    BY <1>1, <1>2, <2>1, <2>2 DEF Submit
  <2>3. CASE free # << >>
    <3>1. Head(free) \in Workers /\ Tail(free) \in Seq(Workers) /\ Workers \subseteq 0..MaxThreads
      BY <1>1, <2>3, BoundsAssumption DEF Workers
    <3>2. QED
      BY <1>1, <1>2, <2>1, <2>3, <3>1 DEF Submit
  <2>4. QED
    BY <2>2, <2>3
<1>3. CASE Create(j)
  <2>1. threads + 1 \in Workers /\ threads + 1 \in 0..MaxThreads
    BY <1>3, RoomCreate, BoundsAssumption DEF Inv, Workers
  <2>2. QED
    BY <1>1, <1>3, <2>1 DEF Create
<1>4. CASE WorkOn(j)
  <2>1. wpc' \in [Workers -> {"none", "lock", "block", "sleep", "run", "store",
                             "notify", "relock", "remove", "free", "exit"}]
    BY <1>1, <1>4 DEF WorkOn
  <2>2. QED
    BY <1>1, <1>4, <2>1 DEF WorkOn
<1>5. CASE List(j)
  <2>1. cpc[j] = "list" /\ working' = [working EXCEPT ![target[j]] = @ + 1]
    BY <1>5 DEF List
  <2>2. working' \in [Workers -> Nat]
    <3>1. target[j] \in Workers
      BY <2>1 DEF Inv, Core, CallerOK
    <3>2. QED
      BY <1>1, <2>1, <3>1
  <2>3. QED
    BY <1>1, <1>5, <2>2 DEF List
<1>6. CASE Await(j)
  BY <1>1, <1>6 DEF Await
<1>7. CASE Return(j)
  BY <1>1, <1>7 DEF Return
<1>8. CASE KernelWait(j)
  <2>1. cpc' \in [Callers -> {"idle", "create", "workOn", "list", "check", "queued", "asleep"}]
    BY <1>1, <1>8 DEF KernelWait
  <2>2. QED
    BY <1>1, <1>8, <2>1 DEF KernelWait
<1>9. CASE Cancel(j) \/ KernelCancel(j)
  BY <1>1, <1>9 DEF Cancel, KernelCancel
<1>10. QED
  BY <1>2, <1>3, <1>4, <1>5, <1>6, <1>7, <1>8, <1>9, Zenon DEF Call

LEMMA WorkerTypes ==
  ASSUME Inv, NEW w \in Workers, Work(w) \/ Spurious(w) PROVE TypeOK'
<1> USE DEF TypeOK, callVars, listVars, workVars, dtorVars, WorkerAt
<1>1. TypeOK
  BY DEF Inv
<1>2. CASE Take(w)
  BY <1>1, <1>2 DEF Take
<1>3. CASE Quit(w) \/ Idle(w) \/ Block(w) \/ Spurious(w)
  BY <1>1, <1>3 DEF Quit, Idle, Block, Spurious
<1>4. CASE Run(w)
  <2>1. job[w] \in Callers /\ ran[job[w]] = 0
    BY <1>1, <1>4 DEF Run, Inv, Core, WorkerOK, Link
  <2>2. QED
    BY <1>1, <1>4, <2>1 DEF Run
<1>5. CASE Store(w)
  BY <1>1, <1>5 DEF Store
<1>6. CASE Notify(w)
  <2>1. cpc' \in [Callers -> {"idle", "create", "workOn", "list", "check", "queued", "asleep"}]
    BY <1>1, <1>6 DEF Notify
  <2>2. QED
    BY <1>1, <1>6, <2>1 DEF Notify
<1>7. CASE Relock(w)
  BY <1>1, <1>7 DEF Relock
<1>8. CASE Remove(w)
  BY <1>1, <1>8 DEF Remove
<1>9. CASE PushFree(w)
  BY <1>1, <1>9 DEF PushFree
<1>10. QED
  BY <1>2, <1>3, <1>4, <1>5, <1>6, <1>7, <1>8, <1>9, Zenon DEF Work

LEMMA DtorTypes == ASSUME Inv, Destroy \/ Destructor PROVE TypeOK'
<1> USE DEF TypeOK, callVars, listVars, workVars, Dtor
<1>1. TypeOK
  BY DEF Inv
<1>2. CASE Destroy
  BY <1>1, <1>2 DEF Destroy
<1>3. CASE RequestStop
  <2>1. dying + 1 \in 0..MaxThreads
    BY <1>1, <1>3, BoundsAssumption DEF RequestStop
  <2>2. QED
    BY <1>1, <1>3, <2>1 DEF RequestStop
<1>4. CASE NotifyStop
  <2>1. wpc' \in [Workers -> {"none", "lock", "block", "sleep", "run", "store",
                             "notify", "relock", "remove", "free", "exit"}]
    BY <1>1, <1>4 DEF NotifyStop
  <2>2. QED
    BY <1>1, <1>4, <2>1 DEF NotifyStop
<1>5. CASE Join \/ Gone
  BY <1>1, <1>5 DEF Join, Gone
<1>6. QED
  BY <1>2, <1>3, <1>4, <1>5 DEF Destructor
------------------------------------------------------------------------------
(* ... and the invariant.                                                  *)

LEMMA CallerCore ==
  ASSUME Inv, NEW j \in Callers, Submit(j) \/ Call(j) \/ Cancel(j) \/ KernelCancel(j)
  PROVE  Room' /\ Core'
<1> USE DEF callVars, listVars, workVars, rest, CallAt
<1>1. CASE Submit(j)
  BY <1>1, SubmitCore, RoomSubmit DEF Inv
<1>2. CASE Create(j)
  BY <1>2, CreateCore, RoomCreate DEF Inv
<1>3. CASE List(j) \/ Await(j) \/ KernelWait(j) \/ KernelCancel(j)
  <2>1. \A k \in Callers : cpc'[k] = cpc[k] \/ (cpc[k] \in Waiting /\ cpc'[k] \in Waiting)
    BY <1>3 DEF List, Await, KernelWait, KernelCancel, Waiting, Inv, TypeOK
  <2>2. UNCHANGED <<rest, wpc>>
    BY <1>3 DEF List, Await, KernelWait, KernelCancel
  <2>3. QED
    BY <2>1, <2>2, CallerMoves
<1>4. CASE Cancel(j)
  BY <1>4, SamePlaces DEF Cancel
<1>5. QED
  BY <1>1, <1>2, <1>3, <1>4, WorkOnCore, ReturnCore DEF Call

LEMMA WorkerCore ==
  ASSUME Inv, NEW w \in Workers, Work(w) \/ Spurious(w) PROVE Room' /\ Core'
<1>1. CASE Quit(w) \/ Idle(w) \/ Block(w) \/ Spurious(w) \/ Remove(w)
  <2>1. UNCHANGED <<rest, cpc>>
    BY <1>1 DEF Quit, Idle, Block, Spurious, Remove, callVars, listVars, rest
  <2>2. CASE Remove(w)
    <3>1. wpc[w] = "remove" /\ wpc' = [wpc EXCEPT ![w] = "free"]
      BY <2>2 DEF Remove, WorkerAt
    <3>2. QED
      BY <2>1, <3>1, WorkerMoves DEF Resting, Leaving
  <2>3. CASE Quit(w) \/ Idle(w) \/ Block(w) \/ Spurious(w)
    <3>1. wpc[w] \in Resting
      BY <2>3 DEF Quit, Idle, Block, Spurious, WorkerAt, Resting
    <3>2. \/ wpc' = [wpc EXCEPT ![w] = "exit"] \/ wpc' = [wpc EXCEPT ![w] = "block"]
          \/ wpc' = [wpc EXCEPT ![w] = "sleep"] \/ wpc' = [wpc EXCEPT ![w] = "lock"]
      BY <2>3 DEF Quit, Idle, Block, Spurious, WorkerAt
    <3>3. {"exit", "block", "sleep", "lock"} \subseteq Resting
      BY DEF Resting
    <3>4. QED
      BY <2>1, <3>1, <3>2, <3>3, WorkerMoves
  <2>4. QED
    BY <1>1, <2>2, <2>3
<1>2. QED
  BY <1>1, TakeCore, RunCore, StoreCore, NotifyCore, RelockCore, PushFreeCore DEF Work

LEMMA DtorCore == ASSUME Inv, Destroy \/ Destructor PROVE Room' /\ Core'
<1> USE DEF callVars, listVars, workVars, rest, Dtor
<1>1. CASE NotifyStop
  <2>1. UNCHANGED <<rest, cpc>>
    BY <1>1 DEF NotifyStop
  <2>2. CASE dying \in Workers /\ wpc[dying] = "sleep"
    <3>1. wpc' = [wpc EXCEPT ![dying] = "lock"]
      BY <1>1, <2>2 DEF NotifyStop
    <3>2. wpc[dying] \in Resting /\ "lock" \in Resting
      BY <2>2 DEF Resting
    <3>3. QED
      BY <2>1, <2>2, <3>1, <3>2, WorkerMoves
  <2>3. CASE ~(dying \in Workers /\ wpc[dying] = "sleep")
    <3>1. wpc' = wpc
      BY <1>1, <2>3 DEF NotifyStop, Inv, TypeOK
    <3>2. QED
      BY <2>1, <3>1, SamePlaces
  <2>4. QED
    BY <2>2, <2>3
<1>2. CASE Destroy \/ RequestStop \/ Join \/ Gone
  BY <1>2, SamePlaces DEF Destroy, RequestStop, Join, Gone
<1>3. QED
  BY <1>1, <1>2 DEF Destructor

LEMMA InvNext == Inv /\ [Next]_vars => Inv'
<1> SUFFICES ASSUME Inv, [Next]_vars PROVE Inv'
  OBVIOUS
<1>1. ASSUME UNCHANGED vars PROVE Inv'
  <2>1. TypeOK'
    BY <1>1 DEF Inv, TypeOK, vars, callVars, listVars, workVars, dtorVars
  <2>2. Room' /\ Core'
    BY <1>1, SamePlaces DEF vars, callVars, listVars, workVars, rest
  <2>3. QED
    BY <2>1, <2>2 DEF Inv
<1>2. ASSUME NEW j \in Callers, Submit(j) \/ Call(j) \/ Cancel(j) \/ KernelCancel(j) PROVE Inv'
  BY <1>2, CallerTypes, CallerCore DEF Inv
<1>3. ASSUME NEW w \in Workers, Work(w) \/ Spurious(w) PROVE Inv'
  BY <1>3, WorkerTypes, WorkerCore DEF Inv
<1>4. ASSUME Destroy \/ Destructor PROVE Inv'
  BY <1>4, DtorTypes, DtorCore DEF Inv
<1>5. QED
  BY <1>1, <1>2, <1>3, <1>4 DEF Next, Terminated

LEMMA Invariance == Spec => []Inv
  BY InvInit, InvNext, PTL DEF Spec

LEMMA AtMostOne ==
  ASSUME NEW S, \A x, y \in S : x = y PROVE IsFiniteSet(S) /\ Cardinality(S) <= 1
<1>1. CASE S = {}
  BY <1>1, FS_EmptySet
<1>2. CASE S # {}
  <2>1. PICK x \in S : TRUE
    BY <1>2
  <2>2. S = {x}
    BY <2>1
  <2>3. IsFiniteSet({x}) /\ Cardinality({x}) = 1
    BY FS_Singleton
  <2>4. QED
    BY <2>2, <2>3
<1>3. QED
  BY <1>1, <1>2

LEMMA InvOffered == ASSUME Inv PROVE ThreadOffered
<1>1. ASSUME NEW w \in Workers
      PROVE  Cardinality(Choosers(w)) <= 1 /\ (w \in InFree => Choosers(w) = {})
  <2>1. Choosers(w) = {j \in Callers : Chosen(j, w)}
    BY DEF Choosers, Chosen
  <2>2. OfferOK(w)
    BY DEF Inv, Core
  <2>3. \A x, y \in Choosers(w) : x = y
    BY <2>1, <2>2 DEF OfferOK
  <2>4. QED
    BY <2>1, <2>2, <2>3, AtMostOne DEF OfferOK
<1>2. ASSUME NEW w \in Workers, w \in InFree \/ Choosers(w) # {}
      PROVE  task[w] = None /\ wpc[w] \in {"lock", "block", "sleep", "exit"}
  BY <1>2 DEF Inv, Core, OfferOK, Choosers, Chosen, Resting
<1>3. QED
  BY <1>1, <1>2 DEF ThreadOffered, Inv, Core, FreeOnce

LEMMA InvNoJobLost == ASSUME Inv PROVE NoJobLost
<1>1. ASSUME NEW j \in Callers, cpc[j] \in {"idle", "create", "workOn"} \/ ran[j] = 1
      PROVE  Carriers(j) = {}
  BY <1>1 DEF Carriers, Inv, Core, Link, Waiting
<1>2. ASSUME NEW j \in Callers, ~(cpc[j] \in {"idle", "create", "workOn"} \/ ran[j] = 1)
      PROVE  Cardinality(Carriers(j)) = 1
  <2>1. cpc[j] \in Waiting /\ ran[j] = 0 /\ CallerOK(j)
    BY <1>2 DEF Inv, TypeOK, Waiting, Core
  <2>2. target[j] \in Carriers(j)
    BY <2>1 DEF CallerOK, Carriers, Waiting
  <2>3. \A w \in Carriers(j) : w = target[j]
    BY DEF Carriers, Inv, Core, Link
  <2>4. Carriers(j) = {target[j]}
    BY <2>2, <2>3
  <2>5. QED
    BY <2>4, FS_Singleton
<1>3. QED
  BY <1>1, <1>2, InvOffered DEF NoJobLost

(* The variables have their types, and the pool never has more threads     *)
(* than there is room for, counting those submitJob is about to create.    *)
THEOREM TypeCorrect == Spec => []TypeOK
<1>1. Inv => TypeOK
  BY DEF Inv
<1>2. QED
  BY <1>1, Invariance, PTL

(* A function given to submitJob is never overwritten, dropped or run      *)
(* twice, for any callers, threads and calls: a thread is offered to one   *)
(* caller at a time and only while it has nothing to run.                  *)
THEOREM JobKept == Spec => []NoJobLost
  BY Invariance, InvNoJobLost, PTL

(* A thread that runs a function writes to the frame of a call of run()    *)
(* that has not returned, cancelled or not (rawRun).                       *)
THEOREM FrameKept == Spec => []FrameAlive
<1>1. Inv => FrameAlive
  BY DEF Inv, Core, WorkerOK, FrameAlive
<1>2. QED
  BY <1>1, Invariance, PTL
==============================================================================
