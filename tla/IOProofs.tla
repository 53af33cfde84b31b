------------------------------- MODULE IOProofs --------------------------------
(***************************************************************************)
(* Proofs about what coroutines do with files and streams.                 *)
(*                                                                         *)
(* Net, for any coroutines, descriptors and calls: every open descriptor   *)
(* has one holder, and a handle never stands for a file it was not made    *)
(* for.                                                                    *)
(*                                                                         *)
(* Pipe, for any sizes of the buffers, the queue and the socket, any bytes *)
(* and any reads and writes: two buffered streams are a byte stream.       *)
(***************************************************************************)
EXTENDS Net, Pipe, FiniteSetTheorems, SequenceTheorems, WellFoundedInduction, TLAPS

(* The operations that make a descriptor.                                  *)
Makers == {"openat", "socket", "accept"}

(* What the proof needs of the types.                                      *)
Types == /\ fds \in [Fds -> Files \cup {None}]
         /\ handles \in [Actors -> [Fds -> Files \cup {None}]]
         /\ op \in [Actors -> Ops]
         /\ call \in [Actors -> AllCalls]
         /\ None \notin listening

(* One coroutine: its operation acts on a handle of its own, has made a    *)
(* descriptor only if it completed so, and its handles stand for their     *)
(* files.                                                                  *)
ActorOK(a) ==
  /\ call[a] = "none" => op[a] = NoOp
  /\ op[a].new # None <=> /\ op[a].st = "completed" /\ op[a].res = "ok"
                          /\ op[a].kind \in Makers
  /\ op[a].fd # None => handles[a][op[a].fd] # None
  /\ \A f \in Fds : handles[a][f] # None
                      => /\ Closing(a, f) \/ fds[f] = handles[a][f]
                         /\ op[a].new # f
  /\ op[a].st = "submitted" /\ op[a].fd # None => op[a].file = handles[a][op[a].fd]

Owns(a, f) == (handles[a][f] # None /\ ~Closing(a, f)) \/ op[a].new = f

(* One descriptor: open and owned by one coroutine, or closed and free.    *)
Held(f) == IF fds[f] = None THEN \A a \in Actors : ~Owns(a, f)
           ELSE \E a \in Actors : Owns(a, f) /\ \A b \in Actors : Owns(b, f) => b = a

(* The inductive invariant.  OneHolder needs ActorOK: a coroutine closes,  *)
(* or is given, a descriptor by its number, which must be its own.         *)
Inv == Types /\ (\A a \in Actors : ActorOK(a)) /\ (\A f \in Fds : Held(f))

LEMMA NoneApart == None \notin Fds /\ None \notin Files
<1>1. Cardinality(Actors) \in Nat
  BY NetAssumption, FS_CardinalityType
<1>2. QED
  BY <1>1, NetAssumption DEF None, Fds, Files

(* A set of numbers that is not empty has a least one.                     *)
LEMMA Least == ASSUME NEW S, S \subseteq Nat, S # {} PROVE \E x \in S : \A y \in S : x <= y
<1> DEFINE R == OpToRel(<, Nat)
<1>1. IsWellFoundedOn(R, Nat)
  BY NatLessThanWellFounded
<1>2. PICK x \in S : \A y \in S : ~(<<y, x>> \in R)
  <2> HIDE DEF R
  <2> QED
    BY <1>1, WFMin, Zenon
<1>3. \A y \in S : y < x => <<y, x>> \in R
  BY DEF OpToRel
<1>4. \A y \in S : ~(y < x)
  BY <1>2, <1>3, Zenon
<1>5. \A y \in S : x \in Nat /\ y \in Nat
  OBVIOUS
<1>6. \A y \in S : x <= y
  BY <1>4, <1>5
<1>7. QED
  BY <1>6

LEMMA LowestFree == Free # {} => Lowest \in Free
<1> SUFFICES ASSUME Free # {} PROVE Lowest \in Free
  OBVIOUS
<1>1. Free \subseteq Nat
  BY NetAssumption DEF Free, Fds
<1>2. \E f \in Free : \A g \in Free : f <= g
  BY <1>1, Least
<1>3. QED
  BY <1>2 DEF Lowest
------------------------------------------------------------------------------
(* A step of one coroutine, or of the kernel for it, keeps, loses or gains *)
(* a descriptor.                                                           *)
Change(a, f) == \/ fds'[f] = fds[f] /\ (Owns(a, f)' <=> Owns(a, f))
                \/ fds'[f] = None /\ Owns(a, f) /\ ~Owns(a, f)'
                \/ fds'[f] # None /\ fds[f] = None /\ Owns(a, f)'

OthersStay(a) == \A b \in Actors \ {a} : /\ handles'[b] = handles[b] /\ op'[b] = op[b]
                                         /\ call'[b] = call[b]

LEMMA LocalStep ==
  ASSUME Inv, NEW a \in Actors, Types', ActorOK(a)', OthersStay(a),
         \A f \in Fds : Change(a, f)
  PROVE  Inv'
<1>1. ASSUME NEW b \in Actors, b # a, NEW f \in Fds
      PROVE  (Owns(b, f)' <=> Owns(b, f)) /\ (Closing(b, f)' <=> Closing(b, f))
  <2>1. handles'[b] = handles[b] /\ op'[b] = op[b]
    BY <1>1 DEF OthersStay
  <2>2. QED
    BY <2>1 DEF Owns, Closing, Done, Ok
<1>2. ASSUME NEW f \in Fds PROVE Held(f)'
  <2>0. Held(f)
    BY DEF Inv
  <2>1. ASSUME NEW b \in Actors, b # a PROVE Owns(b, f)' <=> Owns(b, f)
    BY <1>1, <2>1
  <2>2. CASE fds'[f] = fds[f] /\ (Owns(a, f)' <=> Owns(a, f))
    <3>1. \A b \in Actors : Owns(b, f)' <=> Owns(b, f)
      BY <2>1, <2>2
    <3>2. QED
      BY <2>0, <2>2, <3>1, Zenon DEF Held
  <2>3. CASE fds'[f] = None /\ Owns(a, f) /\ ~Owns(a, f)'
    <3>1. \A b \in Actors : Owns(b, f) => b = a
      BY <2>0, <2>3 DEF Held
    <3>2. \A b \in Actors : ~Owns(b, f)'
      BY <2>1, <2>3, <3>1
    <3>3. QED
      BY <2>3, <3>2 DEF Held
  <2>4. CASE fds'[f] # None /\ fds[f] = None /\ Owns(a, f)'
    <3>1. \A b \in Actors : Owns(b, f)' => b = a
      BY <2>0, <2>1, <2>4 DEF Held
    <3>2. QED
      BY <2>4, <3>1 DEF Held
  <2>5. QED
    BY <2>2, <2>3, <2>4 DEF Change
<1>3. ASSUME NEW b \in Actors, b # a PROVE ActorOK(b)'
  <2>1. ASSUME NEW f \in Fds, handles[b][f] # None, ~Closing(b, f) PROVE fds'[f] = fds[f]
    <3>1. Owns(b, f)
      BY <2>1 DEF Owns
    <3>2. fds[f] # None /\ ~Owns(a, f)
      BY <1>3, <3>1 DEF Inv, Held
    <3>3. QED
      BY <3>2 DEF Change
  <2>2. ActorOK(b) /\ handles'[b] = handles[b] /\ op'[b] = op[b] /\ call'[b] = call[b]
    BY <1>3 DEF Inv, OthersStay
  <2>3. \A f \in Fds : handles'[b][f] # None
                      => (Closing(b, f)' \/ fds'[f] = handles'[b][f]) /\ op'[b].new # f
    BY <1>1, <1>3, <2>1, <2>2 DEF ActorOK
  <2>4. QED
    BY <2>2, <2>3 DEF ActorOK
<1>4. QED
  BY <1>2, <1>3 DEF Inv

LEMMA FinishFacts ==
  ASSUME op \in [Actors -> Ops], NEW a \in Actors, NEW r \in {"ok", "more", "zero", "error", "canceled"},
         NEW f \in Fds \cup {None}, Finish(a, r, f)
  PROVE  /\ op' \in [Actors -> Ops]
         /\ op'[a].kind = op[a].kind /\ op'[a].fd = op[a].fd
         /\ op'[a].st = "completed" /\ op'[a].res = r /\ op'[a].new = f
         /\ \A b \in Actors \ {a} : op'[b] = op[b]
  BY DEF Finish, NoOp, Ops, Kinds

LEMMA ReturnFacts ==
  ASSUME Types, NEW a \in Actors, Return(a)
  PROVE  /\ op' \in [Actors -> Ops] /\ op'[a] = NoOp
         /\ call' \in [Actors -> AllCalls]
         /\ \A b \in Actors \ {a} : op'[b] = op[b] /\ call'[b] = call[b]
  BY DEF Types, Return, NoOp, Ops, Kinds, AllCalls

LEMMA NoOpFacts == NoOp.kind = "none" /\ NoOp.st = "none" /\ NoOp.fd = None /\ NoOp.new = None
  BY DEF NoOp
------------------------------------------------------------------------------
(* Kinds of step.                                                          *)

LEMMA OwnsOpen == ASSUME Inv, NEW a \in Actors, NEW f \in Fds, Owns(a, f) PROVE fds[f] # None
  BY DEF Inv, Held

(* What a prepared operation is.                                           *)
LEMMA Prepares ==
  ASSUME Types, NEW a \in Actors, NEW k \in Kinds, NEW fd \in Fds \cup {None},
         NEW g \in BOOLEAN, NEW t \in BOOLEAN, Prep(a, k, fd, g, t)
  PROVE  /\ op' \in [Actors -> Ops]
         /\ op'[a].st = "prepared" /\ op'[a].fd = fd /\ op'[a].new = None
         /\ \A b \in Actors \ {a} : op'[b] = op[b]
<1> DEFINE o == [NoOp EXCEPT !.kind = k, !.st = "prepared", !.fd = fd, !.guarded = g,
                             !.timed = t]
<1>1. o \in Ops
  BY DEF NoOp, Ops
<1>2. o.st = "prepared" /\ o.fd = fd /\ o.new = None
  BY DEF NoOp
<1>3. op \in [Actors -> Ops] /\ op' = [op EXCEPT ![a] = o]
  BY DEF Types, Prep
<1> HIDE DEF o
<1>4. QED
  BY <1>1, <1>2, <1>3

(* The coroutine prepares an operation on a handle that it has.            *)
LEMMA PrepKeeps ==
  ASSUME Inv, NEW a \in Actors, NEW k \in Kinds, NEW fd \in Fds \cup {None},
         NEW g \in BOOLEAN, NEW t \in BOOLEAN, Prep(a, k, fd, g, t),
         fds' = fds, handles' = handles, None \notin listening',
         call' \in [Actors -> AllCalls], call'[a] # "none",
         \A b \in Actors \ {a} : call'[b] = call[b],
         op[a].new = None, ~(op[a].kind = "close" /\ op[a].st = "completed"),
         fd # None => handles[a][fd] # None
  PROVE  Inv'
<1>1. Types /\ ActorOK(a)
  BY DEF Inv
<1>2. /\ op' \in [Actors -> Ops]
      /\ op'[a].st = "prepared" /\ op'[a].fd = fd /\ op'[a].new = None
      /\ \A b \in Actors \ {a} : op'[b] = op[b]
  BY <1>1, Prepares
<1>3. Types'
  BY <1>1, <1>2 DEF Types
<1>4. ASSUME NEW f \in Fds PROVE ~Closing(a, f) /\ ~Closing(a, f)' /\ op[a].new # f /\ op'[a].new # f
  BY <1>2, NoneApart DEF Closing, Done
<1>5. ActorOK(a)'
  BY <1>1, <1>2, <1>4 DEF ActorOK
<1>6. ASSUME NEW f \in Fds PROVE Change(a, f)
  BY <1>4 DEF Change, Owns
<1>7. OthersStay(a)
  BY <1>2 DEF OthersStay
<1>8. QED
  BY <1>3, <1>5, <1>6, <1>7, LocalStep

(* The descriptor that was made becomes a handle, and is operated on.      *)
LEMMA PrepHolds ==
  ASSUME Inv, NEW a \in Actors, NEW k \in Kinds, NEW g \in BOOLEAN, NEW t \in BOOLEAN,
         Prep(a, k, op[a].new, g, t), Holds(a, op[a].new),
         op[a].kind \in Makers, UNCHANGED <<kernel, call>>, call[a] # "none"
  PROVE  Inv'
<1> DEFINE n == op[a].new
<1>1. Types /\ ActorOK(a) /\ n \in Fds \cup {None}
  BY DEF Inv, Types, Ops
<1>2. /\ op' \in [Actors -> Ops]
      /\ op'[a].st = "prepared" /\ op'[a].fd = n /\ op'[a].new = None
      /\ \A b \in Actors \ {a} : op'[b] = op[b]
  BY <1>1, Prepares
<1>3. /\ handles' \in [Actors -> [Fds -> Files \cup {None}]]
      /\ \A f \in Fds : handles'[a][f] = IF f = n THEN fds[n] ELSE handles[a][f]
      /\ \A b \in Actors \ {a} : handles'[b] = handles[b]
  BY <1>1 DEF Holds, Types
<1>4. Types'
  BY <1>1, <1>2, <1>3 DEF Types, kernel
<1>5. ASSUME NEW f \in Fds PROVE ~Closing(a, f) /\ ~Closing(a, f)' /\ op'[a].new # f
  BY <1>2, NoneApart DEF Closing, Done, Makers
<1>6. n # None => fds[n] # None /\ n \in Fds
  BY <1>1, OwnsOpen DEF Owns
<1>7. fds' = fds /\ call' = call
  BY DEF kernel
<1>8. ActorOK(a)'
  BY <1>1, <1>2, <1>3, <1>5, <1>6, <1>7 DEF ActorOK
<1>9. ASSUME NEW f \in Fds PROVE Change(a, f)
  <2>1. Owns(a, f) <=> handles[a][f] # None \/ n = f
    BY <1>5 DEF Owns
  <2>2. Owns(a, f)' <=> handles'[a][f] # None
    BY <1>5 DEF Owns
  <2>3. Owns(a, f)' <=> Owns(a, f)
    BY <2>1, <2>2, <1>3, <1>6, NoneApart
  <2>4. QED
    BY <2>3, <1>7 DEF Change
<1>10. OthersStay(a)
  BY <1>2, <1>3, <1>7 DEF OthersStay
<1>11. QED
  BY <1>4, <1>8, <1>9, <1>10, LocalStep

(* What becomes of a descriptor when the call returns: nothing, a handle   *)
(* for it is returned, a handle is forgotten, or it is closed.             *)
Settled(a, f) ==
  \/ fds'[f] = fds[f] /\ handles'[a][f] = handles[a][f] /\ ~Closing(a, f) /\ op[a].new # f
  \/ fds'[f] = fds[f] /\ handles'[a][f] = fds[f] /\ Owns(a, f)
  \/ fds'[f] = fds[f] /\ handles'[a][f] = None /\ ~Owns(a, f)
  \/ fds'[f] = None /\ handles'[a][f] = None /\ Owns(a, f)

LEMMA ReturnStep ==
  ASSUME Inv, NEW a \in Actors, Return(a), fds' \in [Fds -> Files \cup {None}],
         handles' \in [Actors -> [Fds -> Files \cup {None}]], None \notin listening',
         \A b \in Actors \ {a} : handles'[b] = handles[b],
         \A f \in Fds : Settled(a, f)
  PROVE  Inv'
<1>1. Types /\ ActorOK(a)
  BY DEF Inv
<1>2. /\ op' \in [Actors -> Ops] /\ op'[a] = NoOp /\ call' \in [Actors -> AllCalls]
      /\ \A b \in Actors \ {a} : op'[b] = op[b] /\ call'[b] = call[b]
  BY <1>1, ReturnFacts
<1>3. Types'
  BY <1>1, <1>2 DEF Types
<1>4. ASSUME NEW f \in Fds PROVE ~Closing(a, f)' /\ op'[a].new # f
  BY <1>2, NoOpFacts, NoneApart DEF Closing, Done
<1>5. ASSUME NEW f \in Fds PROVE handles'[a][f] # None => fds'[f] = handles'[a][f]
  BY <1>1 DEF Settled, ActorOK
<1>6. ActorOK(a)'
  BY <1>2, <1>4, <1>5, NoOpFacts DEF ActorOK
<1>7. ASSUME NEW f \in Fds PROVE Change(a, f)
  <2>1. Owns(a, f)' <=> handles'[a][f] # None
    BY <1>4 DEF Owns
  <2>2. Owns(a, f) => fds[f] # None
    BY OwnsOpen
  <2>3. QED
    BY <2>1, <2>2 DEF Settled, Change, Owns
<1>8. OthersStay(a)
  BY <1>2 DEF OthersStay
<1>9. QED
  BY <1>3, <1>6, <1>7, <1>8, LocalStep

(* The kernel answers, and no descriptor is made or closed.                *)
LEMMA FinishKeeps ==
  ASSUME Inv, NEW a \in Actors, NEW r \in {"ok", "more", "zero", "error", "canceled"},
         Finish(a, r, None), op[a].st = "submitted", r = "ok" => op[a].kind \notin Makers \cup {"close"},
         UNCHANGED <<fds, handles, call>>, None \notin listening'
  PROVE  Inv'
<1>1. Types /\ ActorOK(a)
  BY DEF Inv
<1>2. /\ op' \in [Actors -> Ops]
      /\ op'[a].kind = op[a].kind /\ op'[a].fd = op[a].fd
      /\ op'[a].st = "completed" /\ op'[a].res = r /\ op'[a].new = None
      /\ \A b \in Actors \ {a} : op'[b] = op[b]
  BY <1>1, FinishFacts DEF Types
<1>3. Types'
  BY <1>1, <1>2 DEF Types
<1>4. ASSUME NEW f \in Fds PROVE ~Closing(a, f) /\ ~Closing(a, f)' /\ op[a].new # f /\ op'[a].new # f
  BY <1>1, <1>2, NoneApart DEF Closing, Done, Ok, ActorOK
<1>5. ActorOK(a)'
  <2>1. call[a] # "none"
    BY <1>1, NoOpFacts DEF ActorOK
  <2>2. QED
    BY <1>1, <1>2, <1>4, <2>1 DEF ActorOK
<1>6. ASSUME NEW f \in Fds PROVE Change(a, f)
  BY <1>4 DEF Change, Owns
<1>7. OthersStay(a)
  BY <1>2 DEF OthersStay
<1>8. QED
  BY <1>3, <1>5, <1>6, <1>7, LocalStep
------------------------------------------------------------------------------
(* The coroutines.                                                         *)

(* A call begins with an operation on one of the coroutine's handles, or   *)
(* on none.                                                                *)
LEMMA CallStep ==
  ASSUME Inv, NEW a \in Actors, NEW c \in AllCalls \ {"none"}, Call(a, c),
         NEW k \in Kinds, NEW fd \in Fds \cup {None}, NEW g \in BOOLEAN, NEW t \in BOOLEAN,
         Prep(a, k, fd, g, t), fd # None => handles[a][fd] # None
  PROVE  Inv'
<1>1. op[a].new = None /\ ~(op[a].kind = "close" /\ op[a].st = "completed")
  BY NoOpFacts DEF Call, Inv, ActorOK
<1>2. /\ fds' = fds /\ handles' = handles /\ None \notin listening'
      /\ call' \in [Actors -> AllCalls] /\ call'[a] # "none"
      /\ \A b \in Actors \ {a} : call'[b] = call[b]
  BY DEF Call, kernel, Inv, Types
<1>3. QED
  BY <1>1, <1>2, PrepKeeps

LEMMA DropStep == ASSUME Inv, NEW a \in Actors, NEW f \in Fds, DropHandle(a, f) PROVE Inv'
<1>1. Types /\ ActorOK(a) /\ op[a] = NoOp
  BY DEF Inv, DropHandle, ActorOK
<1>2. /\ \A g \in Fds : /\ handles'[a][g] = IF g = f THEN None ELSE handles[a][g]
                        /\ fds'[g] = IF g = f THEN None ELSE fds[g]
      /\ \A b \in Actors \ {a} : handles'[b] = handles[b]
  BY <1>1 DEF DropHandle, Without, Closed, Types
<1>3. Types'
  BY <1>1 DEF DropHandle, Without, Closed, Types
<1>4. op' = op /\ call' = call
  BY DEF DropHandle
<1>5. ASSUME NEW g \in Fds PROVE ~Closing(a, g) /\ ~Closing(a, g)' /\ op[a].new # g
  BY <1>1, <1>4, NoOpFacts, NoneApart DEF Closing, Done
<1>6. ActorOK(a)'
  BY <1>1, <1>2, <1>4, <1>5, NoOpFacts DEF ActorOK
<1>7. ASSUME NEW g \in Fds PROVE Change(a, g)
  <2>1. CASE g = f
    BY <1>2, <1>4, <1>5, <2>1 DEF Change, Owns, DropHandle
  <2>2. CASE g # f
    BY <1>2, <1>4, <1>5, <2>2 DEF Change, Owns
  <2>3. QED
    BY <2>1, <2>2
<1>8. OthersStay(a)
  BY <1>2, <1>4 DEF OthersStay
<1>9. QED
  BY <1>3, <1>6, <1>7, <1>8, LocalStep

LEMMA BeginStep == ASSUME Inv, NEW a \in Actors, Begin(a) PROVE Inv'
<1> USE DEF Kinds, AllCalls, PrepOpen, PrepPath, PrepClose, PrepTransfer
<1>1. ASSUME fs_open(a) \/ file_rw(a) PROVE Inv'
  BY <1>1, CallStep DEF fs_open, file_rw
<1>2. ASSUME fs_path(a) PROVE Inv'
  BY <1>2, CallStep DEF fs_path
<1>3. ASSUME NEW f \in AllCalls, createSocket(a, f) PROVE Inv'
  BY <1>3, CallStep DEF createSocket
<1>4. ASSUME NEW f \in Fds, fs_close(a, f) PROVE Inv'
  BY <1>4, CallStep DEF fs_close
<1>5. ASSUME NEW f \in Fds, fs_openat(a, f) PROVE Inv'
  BY <1>5, CallStep DEF fs_openat
<1>6. ASSUME NEW f \in Fds, listener_accept(a, f) PROVE Inv'
  <2>1. handles[a][f] # None
    BY <1>6 DEF listener_accept, Inv, Types
  <2>2. QED
    BY <1>6, <2>1, CallStep DEF listener_accept
<1>7. ASSUME NEW f \in Fds, listener_accept_cancel(a, f) PROVE Inv'
  <2>1. handles[a][f] # None
    BY <1>7 DEF listener_accept_cancel, Inv, Types
  <2>2. QED
    BY <1>7, <2>1, CallStep DEF listener_accept_cancel
<1>8. ASSUME NEW f \in Fds, NEW g \in BOOLEAN, fs_use(a, f, g) PROVE Inv'
  BY <1>8, CallStep DEF fs_use
<1>9. ASSUME NEW f \in Fds, NEW g \in BOOLEAN, NEW t \in BOOLEAN, socket_use(a, f, g, t)
      PROVE  Inv'
  BY <1>9, CallStep DEF socket_use
<1>10. QED
  BY <1>1, <1>2, <1>3, <1>4, <1>5, <1>6, <1>7, <1>8, <1>9, DropStep DEF Begin

(* The call ends with an error; the handles it was given or had made, if   *)
(* any, are closed.                                                        *)
LEMMA FailStep ==
  ASSUME Inv, NEW a \in Actors, NEW F \in {{}, {op[a].fd}}, Fails(a, F),
         op[a].new = None, op[a].kind # "close" \/ ~Ok(a)
  PROVE  Inv'
<1>1. Types /\ ActorOK(a)
  BY DEF Inv
<1>2. /\ \A g \in Fds : /\ handles'[a][g] = IF g \in F THEN None ELSE handles[a][g]
                        /\ fds'[g] = IF g \in F THEN None ELSE fds[g]
      /\ \A b \in Actors \ {a} : handles'[b] = handles[b]
  BY <1>1 DEF Fails, Without, Closed, Types
<1>3. /\ fds' \in [Fds -> Files \cup {None}]
      /\ handles' \in [Actors -> [Fds -> Files \cup {None}]] /\ None \notin listening'
  BY <1>1 DEF Fails, Without, Closed, Types
<1>4. ASSUME NEW f \in Fds PROVE Settled(a, f)
  <2>1. ~Closing(a, f) /\ op[a].new # f
    BY NoneApart DEF Closing, Done
  <2>2. CASE f \in F
    <3>1. handles[a][f] # None
      BY <1>1, <2>2, NoneApart DEF ActorOK
    <3>2. QED
      BY <1>2, <2>1, <2>2, <3>1 DEF Settled, Owns
  <2>3. CASE f \notin F
    BY <1>2, <2>1, <2>3 DEF Settled
  <2>4. QED
    BY <2>2, <2>3
<1>5. Return(a)
  BY DEF Fails
<1>6. QED
  BY <1>2, <1>3, <1>4, <1>5, ReturnStep

(* The call returns and its coroutine's handles and the kernel stay.       *)
LEMMA ReturnKeeps ==
  ASSUME Inv, NEW a \in Actors, Return(a), UNCHANGED <<fds, handles>>, None \notin listening',
         op[a].new = None, op[a].kind # "close"
  PROVE  Inv'
<1>1. Types
  BY DEF Inv
<1>2. ASSUME NEW f \in Fds PROVE Settled(a, f)
  BY NoneApart DEF Settled, Closing, Done
<1>3. QED
  BY <1>1, <1>2, ReturnStep DEF Types

(* It returns the handle for the descriptor that was made.                 *)
LEMMA ReturnHolds ==
  ASSUME Inv, NEW a \in Actors, Return(a), Holds(a, op[a].new), UNCHANGED fds,
         None \notin listening', op[a].kind \in Makers
  PROVE  Inv'
<1> DEFINE n == op[a].new
<1>1. Types /\ ActorOK(a) /\ n \in Fds \cup {None}
  BY DEF Inv, Types, Ops
<1>2. /\ handles' \in [Actors -> [Fds -> Files \cup {None}]]
      /\ \A f \in Fds : handles'[a][f] = IF f = n THEN fds[n] ELSE handles[a][f]
      /\ \A b \in Actors \ {a} : handles'[b] = handles[b]
  BY <1>1 DEF Holds, Types
<1>3. ASSUME NEW f \in Fds PROVE Settled(a, f)
  BY <1>2 DEF Settled, Owns, Closing, Done, Makers
<1>4. fds' \in [Fds -> Files \cup {None}]
  BY <1>1 DEF Types
<1>5. QED
  BY <1>2, <1>3, <1>4, ReturnStep

(* It failed after the descriptor was made.                                *)
LEMMA ReturnCloses ==
  ASSUME Inv, NEW a \in Actors, Return(a), Closed({op[a].new}), UNCHANGED handles,
         op[a].kind \in Makers
  PROVE  Inv'
<1> DEFINE n == op[a].new
<1>1. Types /\ ActorOK(a)
  BY DEF Inv
<1>2. /\ \A f \in Fds : fds'[f] = IF f = n THEN None ELSE fds[f]
      /\ fds' \in [Fds -> Files \cup {None}] /\ None \notin listening'
  BY <1>1 DEF Closed, Types
<1>3. ASSUME NEW f \in Fds PROVE Settled(a, f)
  <2>1. CASE f = n
    BY <1>1, <1>2, <2>1 DEF Settled, Owns, ActorOK
  <2>2. CASE f # n
    BY <1>2, <2>2 DEF Settled, Closing, Done, Makers
  <2>3. QED
    BY <2>1, <2>2
<1>4. QED
  BY <1>1, <1>2, <1>3, ReturnStep DEF Types

LEMMA OpenReturnsStep == ASSUME Inv, NEW a \in Actors, OpenReturns(a) PROVE Inv'
<1>1. op[a].kind \in Makers
  BY DEF OpenReturns, Done, Makers
<1>2. CASE Ok(a)
  BY <1>1, <1>2, ReturnHolds DEF OpenReturns, kernel, Inv, Types
<1>3. CASE ~Ok(a)
  <2>1. op[a].new = None /\ op[a].kind # "close"
    BY <1>1, <1>3 DEF Inv, ActorOK, Ok, Makers
  <2>2. Fails(a, {})
    BY <1>3 DEF OpenReturns
  <2>3. QED
    BY <2>1, <2>2, FailStep
<1>4. QED
  BY <1>2, <1>3

LEMMA OpenatReturnsStep == ASSUME Inv, NEW a \in Actors, OpenatReturns(a) PROVE Inv'
<1> DEFINE n == op[a].new
           d == op[a].fd
<1>1. Types /\ ActorOK(a) /\ n \in Fds \cup {None} /\ d \in Fds \cup {None}
  BY DEF Inv, Types, Ops
<1>2. CASE Ok(a)
  <2>1. /\ Return(a) /\ Closed({d})
        /\ handles' = [Without(a, {d}) EXCEPT ![a][n] = fds[n]]
    BY <1>2 DEF OpenatReturns
  <2>2. /\ \A f \in Fds : fds'[f] = IF f = d THEN None ELSE fds[f]
        /\ fds' \in [Fds -> Files \cup {None}] /\ None \notin listening'
    BY <1>1, <2>1 DEF Closed, Types
  <2>3. /\ handles' \in [Actors -> [Fds -> Files \cup {None}]]
        /\ \A f \in Fds : handles'[a][f] = IF f = n THEN fds[n]
                                            ELSE IF f = d THEN None ELSE handles[a][f]
        /\ \A b \in Actors \ {a} : handles'[b] = handles[b]
    <3> DEFINE row == [f \in Fds |-> IF f = n THEN fds[n]
                                      ELSE IF f = d THEN None ELSE handles[a][f]]
    <3>1. handles \in [Actors -> [Fds -> Files \cup {None}]] /\ fds \in [Fds -> Files \cup {None}]
      BY <1>1 DEF Types
    <3>2. handles' = [handles EXCEPT ![a] = row]
      BY <2>1, <3>1 DEF Without
    <3>3. n \in Fds => fds[n] \in Files \cup {None}
      BY <3>1
    <3>4. row \in [Fds -> Files \cup {None}]
      BY <3>1, <3>3
    <3>5. \A f \in Fds : row[f] = IF f = n THEN fds[n]
                                            ELSE IF f = d THEN None ELSE handles[a][f]
      OBVIOUS
    <3> HIDE DEF row
    <3>6. QED
      BY <3>1, <3>2, <3>4, <3>5
  <2>4. ASSUME NEW f \in Fds PROVE Settled(a, f)
    <3>1. ~Closing(a, f)
      BY DEF OpenatReturns, Closing, Done
    <3>2. CASE f = n
      <4>1. f # d
        BY <1>1, <3>2, NoneApart DEF ActorOK
      <4>2. QED
        BY <2>2, <2>3, <3>2, <4>1 DEF Settled, Owns
    <3>3. CASE f = d /\ f # n
      <4>1. handles[a][f] # None
        BY <1>1, <3>3, NoneApart DEF ActorOK
      <4>2. QED
        BY <2>2, <2>3, <3>1, <3>3, <4>1 DEF Settled, Owns
    <3>4. CASE f # d /\ f # n
      BY <2>2, <2>3, <3>1, <3>4 DEF Settled
    <3>5. QED
      BY <3>2, <3>3, <3>4
  <2>5. QED
    BY <2>1, <2>2, <2>3, <2>4, ReturnStep
<1>3. CASE ~Ok(a)
  <2>1. op[a].new = None
    BY <1>1, <1>3 DEF ActorOK, Ok
  <2>2. Fails(a, {d}) /\ op[a].kind # "close"
    BY <1>3 DEF OpenatReturns, Done
  <2>3. QED
    BY <2>1, <2>2, FailStep
<1>4. QED
  BY <1>2, <1>3

LEMMA CloseReturnsStep == ASSUME Inv, NEW a \in Actors, CloseReturns(a) PROVE Inv'
<1>1. Types /\ ActorOK(a) /\ op[a].new = None
  BY DEF Inv, CloseReturns, ActorOK, Done, Makers
<1>2. CASE Ok(a)
  <2>1. Return(a) /\ UNCHANGED kernel /\ handles' = Without(a, {op[a].fd})
    BY <1>2 DEF CloseReturns, releaseFile
  <2>2. /\ handles' \in [Actors -> [Fds -> Files \cup {None}]]
        /\ \A f \in Fds : handles'[a][f] = IF f = op[a].fd THEN None ELSE handles[a][f]
        /\ \A b \in Actors \ {a} : handles'[b] = handles[b]
    BY <1>1, <2>1 DEF Without, Types
  <2>3. ASSUME NEW f \in Fds PROVE Settled(a, f)
    <3>1. Closing(a, f) <=> f = op[a].fd
      BY <1>2 DEF CloseReturns, Closing
    <3>2. op[a].new # f
      BY <1>1, NoneApart
    <3>3. fds'[f] = fds[f]
      BY <2>1 DEF kernel
    <3>4. QED
      BY <2>2, <3>1, <3>2, <3>3 DEF Settled, Owns
  <2>4. fds' \in [Fds -> Files \cup {None}] /\ None \notin listening'
    BY <1>1, <2>1 DEF kernel, Types
  <2>5. QED
    BY <2>1, <2>2, <2>3, <2>4, ReturnStep
<1>3. CASE ~Ok(a)
  <2>1. Fails(a, {op[a].fd})
    BY <1>3 DEF CloseReturns
  <2>2. QED
    BY <1>1, <1>3, <2>1, FailStep
<1>4. QED
  BY <1>2, <1>3

LEMMA UseReturnsStep == ASSUME Inv, NEW a \in Actors, UseReturns(a) PROVE Inv'
<1>1. op[a].new = None /\ op[a].kind # "close"
  BY DEF UseReturns, Done, Makers, Inv, ActorOK
<1>2. Return(a) /\ UNCHANGED <<fds, handles>> /\ None \notin listening'
  BY DEF UseReturns, kernel, Inv, Types
<1>3. QED
  BY <1>1, <1>2, ReturnKeeps

(* The call goes on with another operation on the descriptor it used last. *)
LEMMA GoesOn ==
  ASSUME Inv, NEW a \in Actors, NEW k \in Kinds, NEW g \in BOOLEAN, NEW t \in BOOLEAN,
         Prep(a, k, op[a].fd, g, t), UNCHANGED <<kernel, handles, call>>,
         op[a].kind \notin Makers \cup {"close", "none"}
  PROVE  Inv'
<1>1. Types /\ ActorOK(a) /\ op[a].fd \in Fds \cup {None}
  BY DEF Inv, Types, Ops
<1>2. op[a].new = None /\ call[a] # "none"
  BY <1>1, NoOpFacts DEF ActorOK
<1>3. /\ fds' = fds /\ handles' = handles /\ None \notin listening'
      /\ call' \in [Actors -> AllCalls] /\ call'[a] # "none"
      /\ \A b \in Actors \ {a} : call'[b] = call[b]
      /\ op[a].fd # None => handles[a][op[a].fd] # None
  BY <1>1, <1>2 DEF kernel, Types, ActorOK
<1>4. QED
  BY <1>1, <1>2, <1>3, PrepKeeps

(* An operation that is not a close has failed or ended the call.          *)
LEMMA FailsToo ==
  ASSUME Inv, NEW a \in Actors, NEW F \in {{}, {op[a].fd}}, Fails(a, F),
         op[a].kind # "close", op[a].kind \notin Makers \/ ~Ok(a)
  PROVE  Inv'
<1>1. op[a].new = None
  BY DEF Inv, ActorOK, Ok
<1>2. QED
  BY <1>1, FailStep

LEMMA FileStep == ASSUME Inv, NEW a \in Actors, FileGoesOn(a) PROVE Inv'
<1> USE DEF Makers, Done, Kinds
<1>1. call[a] = "file"
  BY DEF FileGoesOn
<1>2. CASE /\ Done(a, "openat") /\ Ok(a) /\ Holds(a, op[a].new)
           /\ PrepTransfer(a, "content", op[a].new, TRUE, FALSE)
           /\ Unguarded(a) /\ UNCHANGED <<kernel, call>>
  BY <1>1, <1>2, PrepHolds DEF PrepTransfer
<1>3. CASE Done(a, "openat") /\ ~Ok(a) /\ Fails(a, {})
  BY <1>3, FailsToo
<1>4. CASE /\ Done(a, "content") /\ op[a].res = "more"
           /\ PrepTransfer(a, "content", op[a].fd, TRUE, FALSE)
           /\ Unguarded(a) /\ UNCHANGED <<kernel, handles, call>>
  BY <1>4, GoesOn DEF PrepTransfer
<1>5. CASE Done(a, "content") /\ op[a].res # "more" /\ Fails(a, {op[a].fd})
  BY <1>5, FailsToo
<1>6. QED
  BY <1>2, <1>3, <1>4, <1>5, Zenon DEF FileGoesOn

LEMMA SocketConnectsStep == ASSUME Inv, NEW a \in Actors, SocketConnects(a) PROVE Inv'
<1> USE DEF Makers, Done, Kinds
<1>1. op[a].kind = "socket" /\ op[a].st = "completed"
  BY DEF SocketConnects
<1>2. call[a] # "none"
  BY <1>1, NoOpFacts DEF Inv, ActorOK
<1>3. CASE ~Ok(a) /\ Fails(a, {})
  BY <1>1, <1>3, FailsToo
<1>4. CASE /\ Ok(a) /\ MayConnect(a) /\ Holds(a, op[a].new)
           /\ PrepOpen(a, "connect", op[a].new, call[a] \in {"connect_cancel", "proxy"},
                       call[a] = "connect_timeout")
           /\ Unguarded(a) /\ UNCHANGED <<kernel, call>>
  <2> DEFINE g == call[a] \in {"connect_cancel", "proxy"}
             t == call[a] = "connect_timeout"
  <2>1. g \in BOOLEAN /\ t \in BOOLEAN
    OBVIOUS
  <2>2. Prep(a, "connect", op[a].new, g, t)
    BY <1>4 DEF PrepOpen
  <2> HIDE DEF g, t
  <2>3. QED
    BY <1>1, <1>2, <1>4, <2>1, <2>2, PrepHolds
<1>5. CASE Ok(a) /\ ~MayConnect(a) /\ Return(a) /\ Closed({op[a].new}) /\ UNCHANGED handles
  BY <1>1, <1>5, ReturnCloses
<1>6. QED
  BY <1>3, <1>4, <1>5, Zenon DEF SocketConnects

LEMMA SocketBindsStep == ASSUME Inv, NEW a \in Actors, SocketBinds(a) PROVE Inv'
<1> USE DEF Makers, Done
<1>1. op[a].kind = "socket" /\ op[a].st = "completed"
  BY DEF SocketBinds
<1>2. CASE ~Ok(a) /\ Fails(a, {})
  BY <1>1, <1>2, FailsToo
<1>3. CASE /\ Ok(a) /\ Return(a) /\ Holds(a, op[a].new)
           /\ listening' = listening \cup {fds[op[a].new]} /\ UNCHANGED <<fds, backlog>>
  <2>1. op[a].new \in Fds
    BY <1>1, <1>3 DEF Ok, Inv, ActorOK, Types, Ops
  <2>2. fds[op[a].new] # None
    BY <2>1, OwnsOpen DEF Owns
  <2>3. None \notin listening'
    BY <1>3, <2>2 DEF Inv, Types
  <2>4. QED
    BY <1>1, <1>3, <2>3, ReturnHolds
<1>4. CASE Ok(a) /\ Return(a) /\ Closed({op[a].new}) /\ UNCHANGED handles
  BY <1>1, <1>4, ReturnCloses
<1>5. QED
  BY <1>2, <1>3, <1>4, Zenon DEF SocketBinds

LEMMA ConnectReturnsStep == ASSUME Inv, NEW a \in Actors, ConnectReturns(a) PROVE Inv'
<1> USE DEF Makers, Done, Kinds
<1>1. op[a].kind = "connect"
  BY DEF ConnectReturns
<1>2. CASE ~Ok(a) /\ Fails(a, {op[a].fd})
  BY <1>1, <1>2, FailsToo
<1>3. CASE Ok(a) /\ call[a] # "proxy" /\ Return(a) /\ UNCHANGED <<kernel, handles>>
  <2>1. op[a].new = None /\ None \notin listening' /\ fds' = fds
    BY <1>1, <1>3 DEF Inv, Types, ActorOK, kernel
  <2>2. QED
    BY <1>1, <1>3, <2>1, ReturnKeeps
<1>4. CASE /\ Ok(a) /\ call[a] = "proxy"
           /\ PrepTransfer(a, "header", op[a].fd, FALSE, TRUE)
           /\ Unguarded(a) /\ UNCHANGED <<kernel, handles, call>>
  BY <1>1, <1>4, GoesOn DEF PrepTransfer
<1>5. QED
  BY <1>2, <1>3, <1>4, Zenon DEF ConnectReturns

LEMMA ProxyStep == ASSUME Inv, NEW a \in Actors, ProxyGoesOn(a) PROVE Inv'
<1> USE DEF Makers, Done, Kinds
<1>1. op[a].kind \in {"header", "response"}
  BY DEF ProxyGoesOn
<1>2. ASSUME NEW k \in {"header", "response"}, PrepTransfer(a, k, op[a].fd, FALSE, TRUE),
             UNCHANGED <<kernel, handles, call>>
      PROVE  Inv'
  BY <1>1, <1>2, GoesOn DEF PrepTransfer
<1>3. CASE Return(a) /\ UNCHANGED <<kernel, handles>>
  <2>1. op[a].new = None /\ None \notin listening' /\ fds' = fds
    BY <1>1, <1>3 DEF Inv, Types, ActorOK, kernel
  <2>2. QED
    BY <1>1, <1>3, <2>1, ReturnKeeps
<1>4. CASE Fails(a, {op[a].fd})
  BY <1>1, <1>4, FailsToo
<1>5. QED
  BY <1>2, <1>3, <1>4 DEF ProxyGoesOn
------------------------------------------------------------------------------
(* The kernel.                                                             *)

LEMMA SubmitStep == ASSUME Inv, Submit PROVE Inv'
<1>1. Types /\ handles' = handles /\ fds' = fds /\ call' = call /\ None \notin listening'
  BY DEF Inv, Types, Submit, kernel
<1>2. ASSUME NEW a \in Actors
      PROVE  /\ op[a] \in Ops
             /\ op'[a] \in Ops
             /\ op[a].st # "prepared" => op'[a] = op[a]
             /\ op[a].st = "prepared" =>
                  /\ op'[a].st = "submitted" /\ op'[a].fd = op[a].fd
                  /\ op'[a].new = op[a].new
                  /\ op[a].fd # None => op'[a].file = fds[op[a].fd]
  <2> DEFINE o == [op[a] EXCEPT !.st = "submitted",
                               !.file = IF op[a].fd = None THEN None ELSE fds[op[a].fd]]
  <2>1. op[a] \in Ops /\ fds \in [Fds -> Files \cup {None}]
    BY <1>1 DEF Types
  <2>2. op'[a] = IF op[a].st # "prepared" THEN op[a] ELSE o
    BY DEF Submit
  <2>3. /\ o \in Ops /\ o.st = "submitted" /\ o.fd = op[a].fd
        /\ o.new = op[a].new /\ (op[a].fd # None => o.file = fds[op[a].fd])
    BY <2>1 DEF Ops
  <2> HIDE DEF o
  <2>4. CASE op[a].st # "prepared"
    BY <2>1, <2>2, <2>4
  <2>5. CASE op[a].st = "prepared"
    <3>1. op'[a] = o
      BY <2>2, <2>5
    <3>2. QED
      BY <2>1, <2>3, <2>5, <3>1
  <2>6. QED
    BY <2>4, <2>5
<1>3. Types'
  <2>1. DOMAIN op' = Actors /\ op' = [a \in Actors |-> op'[a]]
    BY DEF Submit
  <2>2. op' \in [Actors -> Ops]
    BY <1>2, <2>1
  <2>3. QED
    BY <1>1, <2>2 DEF Types
<1>4. ASSUME NEW a \in Actors, NEW f \in Fds
      PROVE  (Owns(a, f)' <=> Owns(a, f)) /\ (Closing(a, f)' <=> Closing(a, f))
  <2>1. CASE op[a].st # "prepared"
    BY <1>1, <1>2, <2>1 DEF Owns, Closing, Done, Ok
  <2>2. CASE op[a].st = "prepared"
    BY <1>1, <1>2, <2>2 DEF Owns, Closing, Done, Ok
  <2>3. QED
    BY <2>1, <2>2
<1>5. ASSUME NEW a \in Actors PROVE ActorOK(a)'
  <2>1. ActorOK(a)
    BY DEF Inv
  <2>2. CASE op[a].st # "prepared"
    BY <1>1, <1>2, <1>4, <2>1, <2>2 DEF ActorOK
  <2>3. CASE op[a].st = "prepared"
    <3>1. op[a].fd # None => fds[op[a].fd] = handles[a][op[a].fd]
      BY <1>2, <2>1, <2>3 DEF ActorOK, Closing, Done, Ops
    <3>2. op[a].new = None /\ call[a] # "none"
      BY <2>1, <2>3, NoOpFacts DEF ActorOK
    <3>3. QED
      BY <1>1, <1>2, <1>4, <2>1, <2>3, <3>1, <3>2 DEF ActorOK
  <2>4. QED
    BY <2>2, <2>3
<1>6. ASSUME NEW f \in Fds PROVE Held(f)'
  BY <1>1, <1>4 DEF Inv, Held
<1>7. QED
  BY <1>3, <1>5, <1>6 DEF Inv

(* The lowest free number is given to a file that was not open.            *)
LEMMA NewFileStep ==
  ASSUME Inv, NEW a \in Actors, NewFile(a), op[a].st = "submitted", op[a].kind \in Makers,
         UNCHANGED <<handles, call, listening>>
  PROVE  Inv'
<1> DEFINE x == CHOOSE y \in Unused : TRUE
<1>1. Types /\ ActorOK(a) /\ Free # {} /\ Finish(a, "ok", Lowest)
  BY DEF Inv, NewFile
<1>2. x \in Files \ {None}
  BY NoneApart DEF NewFile, Unused
<1>3. Lowest \in Fds /\ fds[Lowest] = None
  BY <1>1, LowestFree DEF Free
<1>4. fds' \in [Fds -> Files \cup {None}]
      /\ \A f \in Fds : fds'[f] = IF f = Lowest THEN x ELSE fds[f]
  <2>1. fds' = [fds EXCEPT ![Lowest] = x]
    BY DEF NewFile
  <2> HIDE DEF x
  <2>2. QED
    BY <1>1, <1>2, <2>1 DEF Types
<1> HIDE DEF x
<1>5. /\ op' \in [Actors -> Ops]
      /\ op'[a].kind = op[a].kind /\ op'[a].fd = op[a].fd
      /\ op'[a].st = "completed" /\ op'[a].res = "ok" /\ op'[a].new = Lowest
      /\ \A b \in Actors \ {a} : op'[b] = op[b]
  BY <1>1, <1>3, FinishFacts DEF Types
<1>6. Types'
  BY <1>1, <1>4, <1>5 DEF Types
<1>7. ASSUME NEW f \in Fds PROVE ~Closing(a, f) /\ ~Closing(a, f)' /\ op[a].new # f
  BY <1>1, <1>5, NoneApart DEF Closing, Done, Makers, ActorOK
<1>8. handles[a][Lowest] = None
  BY <1>1, <1>3, <1>7 DEF ActorOK
<1>9. ActorOK(a)'
  <2>1. call'[a] # "none" /\ Lowest # None
    BY <1>1, <1>3, NoOpFacts, NoneApart DEF ActorOK, Makers
  <2>2. QED
    BY <1>1, <1>4, <1>5, <1>7, <1>8, <2>1 DEF ActorOK
<1>10. ASSUME NEW f \in Fds PROVE Change(a, f)
  <2>1. CASE f = Lowest
    BY <1>2, <1>3, <1>4, <1>5, <2>1 DEF Change, Owns
  <2>2. CASE f # Lowest
    BY <1>4, <1>5, <1>7, <2>2 DEF Change, Owns
  <2>3. QED
    BY <2>1, <2>2
<1>11. OthersStay(a)
  BY <1>5 DEF OthersStay
<1>12. QED
  BY <1>6, <1>9, <1>10, <1>11, LocalStep

(* The file a coroutine closes is its own; the number is free at once.     *)
LEMMA ClosesStep ==
  ASSUME Inv, NEW a \in Actors, Closes(a), op[a].st = "submitted", UNCHANGED <<handles, call>>
  PROVE  Inv'
<1> DEFINE d == op[a].fd
<1>1. Types /\ ActorOK(a) /\ op[a].kind = "close" /\ Finish(a, "ok", None)
  BY DEF Inv, Closes
<1>2. /\ op' \in [Actors -> Ops]
      /\ op'[a].kind = "close" /\ op'[a].fd = d
      /\ op'[a].st = "completed" /\ op'[a].res = "ok" /\ op'[a].new = None
      /\ \A b \in Actors \ {a} : op'[b] = op[b]
  BY <1>1, FinishFacts DEF Types
<1>3. /\ \A f \in Fds : fds'[f] = IF f = d THEN None ELSE fds[f]
      /\ fds' \in [Fds -> Files \cup {None}] /\ None \notin listening'
  BY <1>1 DEF Closes, Closed, Types
<1>4. Types'
  BY <1>1, <1>2, <1>3 DEF Types
<1>5. ASSUME NEW f \in Fds
      PROVE  ~Closing(a, f) /\ (Closing(a, f)' <=> f = d) /\ op[a].new # f /\ op'[a].new # f
  BY <1>1, <1>2, NoneApart DEF Closing, Done, Ok, ActorOK
<1>6. ActorOK(a)'
  <2>1. call'[a] # "none"
    BY <1>1, NoOpFacts DEF ActorOK
  <2>2. QED
    BY <1>1, <1>2, <1>3, <1>5, <2>1 DEF ActorOK, Makers
<1>7. ASSUME NEW f \in Fds PROVE Change(a, f)
  <2>1. CASE f = d
    <3>1. handles[a][f] # None
      BY <1>1, <2>1, NoneApart DEF ActorOK
    <3>2. QED
      BY <1>3, <1>5, <2>1, <3>1 DEF Change, Owns
  <2>2. CASE f # d
    BY <1>3, <1>5, <2>2 DEF Change, Owns
  <2>3. QED
    BY <2>1, <2>2
<1>8. OthersStay(a)
  BY <1>2 DEF OthersStay
<1>9. QED
  BY <1>4, <1>6, <1>7, <1>8, LocalStep

LEMMA CompleteStep == ASSUME Inv, NEW a \in Actors, Complete(a) PROVE Inv'
<1>1. op[a].st = "submitted" /\ UNCHANGED <<handles, call>> /\ None \notin listening
  BY DEF Complete, Inv, Types
<1>2. ASSUME Opens(a) \/ Accepts(a) PROVE Inv'
  BY <1>1, <1>2, NewFileStep DEF Opens, Accepts, Makers
<1>3. ASSUME Connects(a) PROVE Inv'
  BY <1>1, <1>3, FinishKeeps DEF Connects, Makers
<1>4. ASSUME Transfers(a) PROVE Inv'
  BY <1>1, <1>4, FinishKeeps DEF Transfers, Makers, kernel
<1>5. ASSUME Refuses(a) PROVE Inv'
  BY <1>1, <1>5, FinishKeeps DEF Refuses, kernel
<1>6. QED
  BY <1>1, <1>2, <1>3, <1>4, <1>5, ClosesStep DEF Complete

LEMMA CanceledStep == ASSUME Inv, NEW a \in Actors, Timeout(a) \/ CancelHits(a) PROVE Inv'
<1>1. /\ op[a].st = "submitted" /\ UNCHANGED <<fds, handles, call>>
      /\ None \notin listening' /\ Finish(a, "canceled", None)
  BY DEF Timeout, TimesOut, CancelHits, kernel, Inv, Types
<1>2. QED
  BY <1>1, FinishKeeps

(* What is neither a descriptor, a handle, a call nor an operation does    *)
(* not matter.                                                             *)
LEMMA SameStep ==
  ASSUME Inv, UNCHANGED <<fds, handles, call, op, listening>> PROVE Inv'
<1>1. ASSUME NEW a \in Actors, NEW f \in Fds
      PROVE  (Owns(a, f)' <=> Owns(a, f)) /\ (Closing(a, f)' <=> Closing(a, f))
  BY DEF Owns, Closing, Done, Ok
<1>2. ASSUME NEW a \in Actors PROVE ActorOK(a)'
  BY <1>1 DEF Inv, ActorOK
<1>3. ASSUME NEW f \in Fds PROVE Held(f)'
  BY <1>1 DEF Inv, Held
<1>4. Types'
  BY DEF Inv, Types
<1>5. QED
  BY <1>2, <1>3, <1>4 DEF Inv
------------------------------------------------------------------------------
LEMMA InvInit == Init => Inv
<1> SUFFICES ASSUME Init PROVE Inv
  OBVIOUS
<1>1. Types
  BY DEF Init, Types, NoOp, Ops, Kinds, AllCalls
<1>2. ASSUME NEW a \in Actors, NEW f \in Fds PROVE op[a] = NoOp /\ handles[a][f] = None /\ fds[f] = None
  BY DEF Init
<1>3. ASSUME NEW a \in Actors PROVE ActorOK(a)
  BY <1>2, <1>3, NoOpFacts DEF ActorOK, Init
<1>4. ASSUME NEW f \in Fds PROVE Held(f)
  <2>1. ASSUME NEW a \in Actors PROVE ~Owns(a, f)
    BY <1>2, NoOpFacts, NoneApart DEF Owns
  <2>2. fds[f] = None
    BY DEF Init
  <2>3. QED
    BY <2>1, <2>2 DEF Held
<1>5. QED
  BY <1>1, <1>3, <1>4 DEF Inv

LEMMA InvNext == Inv /\ [Next]_vars => Inv'
<1> SUFFICES ASSUME Inv, [Next]_vars PROVE Inv'
  OBVIOUS
<1>1. ASSUME NEW a \in Actors, Resume(a) PROVE Inv'
  BY <1>1, OpenReturnsStep, OpenatReturnsStep, CloseReturnsStep, UseReturnsStep, FileStep,
     SocketConnectsStep, SocketBindsStep, ConnectReturnsStep, ProxyStep DEF Resume
<1>2. ASSUME NEW t \in Tokens, Cancel(t) PROVE Inv'
  BY <1>2, SameStep DEF Cancel, kernel
<1>3. CASE UNCHANGED vars
  BY <1>3, SameStep DEF vars, kernel
<1>4. QED
  BY <1>1, <1>2, <1>3, BeginStep, SubmitStep, CompleteStep, CanceledStep DEF Next

LEMMA InvHolders == ASSUME Inv PROVE OneHolder /\ RightFile
<1>1. ASSUME NEW f \in Fds, fds[f] = None PROVE Holders(f) = {}
  BY <1>1 DEF Inv, Held, Owns, Holders
<1>2. ASSUME NEW f \in Fds, fds[f] # None
      PROVE  \E a \in Actors, k \in {"handle", "result"} : Holders(f) = {<<a, k>>}
  <2>1. PICK a \in Actors : Owns(a, f) /\ \A b \in Actors : Owns(b, f) => b = a
    BY <1>2 DEF Inv, Held
  <2>2. \A b \in Actors : b # a => op[b].new # f /\ (handles[b][f] = None \/ Closing(b, f))
    BY <2>1 DEF Owns
  <2>3. CASE op[a].new = f
    <3>1. handles[a][f] = None
      BY <2>3 DEF Inv, ActorOK
    <3>2. {b \in Actors : op[b].new = f} = {a}
      BY <2>2, <2>3
    <3>3. {b \in Actors : handles[b][f] # None /\ ~Closing(b, f)} = {}
      BY <2>2, <3>1
    <3>4. Holders(f) = {<<a, "result">>}
      BY <3>2, <3>3 DEF Holders
    <3>5. QED
      BY <3>4
  <2>4. CASE op[a].new # f
    <3>1. {b \in Actors : op[b].new = f} = {}
      BY <2>2, <2>4
    <3>2. {b \in Actors : handles[b][f] # None /\ ~Closing(b, f)} = {a}
      BY <2>1, <2>2, <2>4 DEF Owns
    <3>3. Holders(f) = {<<a, "handle">>}
      BY <3>1, <3>2 DEF Holders
    <3>4. QED
      BY <3>3
  <2>5. QED
    BY <2>3, <2>4
<1>3. RightFile
  BY DEF RightFile, Inv, ActorOK
<1>4. QED
  BY <1>1, <1>2, <1>3 DEF OneHolder

(* No descriptor leaks or is closed by another coroutine's handle, for any *)
(* coroutines, descriptors and calls, although the kernel uses the lowest  *)
(* free number again at once (FileHandle, fs.hpp).                         *)
THEOREM OneHolderHolds == Spec => []OneHolder
<1>1. Spec => []Inv
  BY InvInit, InvNext, PTL DEF Spec
<1>2. QED
  BY <1>1, InvHolders, PTL

(* A handle stands for the file it was made for until its close succeeds,  *)
(* and an operation acts on that file although its number is looked up     *)
(* only when the loop submits.                                             *)
THEOREM RightFileHolds == Spec => []RightFile
<1>1. Spec => []Inv
  BY InvInit, InvNext, PTL DEF Spec
<1>2. QED
  BY <1>1, InvHolders, PTL
------------------------------------------------------------------------------
(* What listens, and the calls and tokens that go with the operations.     *)

Listen == listening \subseteq {fds[f] : f \in Fds} \ {None} /\ backlog \subseteq listening

(* A step of the kernel's: nothing, a descriptor closed or made, a         *)
(* connection, a socket that begins to listen.                             *)
KernelMoves ==
  \/ UNCHANGED kernel
  \/ \E F : Closed(F)
  \/ /\ \E f \in Fds : fds[f] = None /\ \E x : fds' = [fds EXCEPT ![f] = x]
     /\ listening' = listening /\ backlog' \subseteq backlog
  \/ /\ fds' = fds /\ listening' = listening
     /\ \E l \in listening : backlog' = backlog \cup {l}
  \/ /\ fds' = fds /\ backlog' = backlog
     /\ \E f \in Fds : fds[f] # None /\ listening' = listening \cup {fds[f]}

LEMMA ListenKept == ASSUME Types, Listen, KernelMoves PROVE Listen'
<1>1. CASE UNCHANGED kernel
  BY <1>1 DEF Listen, kernel
<1>2. ASSUME NEW F, Closed(F) PROVE Listen'
  <2>1. ASSUME NEW l \in listening' PROVE l \in {fds'[f] : f \in Fds} \ {None}
    <3>1. l \in listening /\ l \notin {fds[f] : f \in F}
      BY <1>2, <2>1 DEF Closed
    <3>2. PICK f \in Fds : l = fds[f]
      BY <3>1 DEF Listen
    <3>3. f \notin F
      BY <3>1, <3>2
    <3>4. fds'[f] = l
      BY <1>2, <3>2, <3>3 DEF Closed
    <3>5. QED
      BY <3>1, <3>4 DEF Listen
  <2>2. backlog' \subseteq listening'
    BY <1>2 DEF Closed, Listen
  <2>3. QED
    BY <2>1, <2>2 DEF Listen
<1>3. ASSUME NEW f \in Fds, NEW x, fds[f] = None, fds' = [fds EXCEPT ![f] = x],
             listening' = listening, backlog' \subseteq backlog
      PROVE  Listen'
  <2>1. ASSUME NEW l \in listening PROVE l \in {fds'[g] : g \in Fds} \ {None}
    <3>1. PICK g \in Fds : l = fds[g]
      BY DEF Listen
    <3>2. l # None /\ g # f
      BY <1>3, <3>1 DEF Listen
    <3>3. fds'[g] = l
      BY <1>3, <3>1, <3>2 DEF Types
    <3>4. QED
      BY <3>2, <3>3
  <2>2. QED
    BY <1>3, <2>1 DEF Listen
<1>4. ASSUME fds' = fds, listening' = listening,
             NEW l \in listening, backlog' = backlog \cup {l}
      PROVE  Listen'
  BY <1>4 DEF Listen
<1>5. ASSUME fds' = fds, backlog' = backlog,
             NEW f \in Fds, fds[f] # None, listening' = listening \cup {fds[f]}
      PROVE  Listen'
  BY <1>5 DEF Listen
<1>6. QED
  BY <1>1, <1>2, <1>3, <1>4, <1>5, Zenon DEF KernelMoves

TokensOK == /\ \A a \in Actors : op[a] = NoOp => call[a] = "none"
            /\ cancelled \in [Tokens -> BOOLEAN]
            /\ mCancellers \in [Tokens -> List!Lists]
            /\ cancelOp \in [Actors -> {"none", "prepared", "submitted"}]

(* Whatever its links, a list stays one.                                   *)
LEMMA ListOps ==
  ASSUME NEW L \in List!Lists, NEW a \in Actors
  PROVE  List!doPushFront(L, a) \in List!Lists /\ List!Unlinked(L, a) \in List!Lists
<1>1. a \in List!Places /\ Root \in List!Places
  BY DEF List!Places
<1>2. /\ L.next \in [List!Places -> List!Places \cup {Nil}]
      /\ L.prev \in [List!Places -> List!Places \cup {Nil}]
  BY DEF List!Lists
<1>3. List!doPushFront(L, a) \in List!Lists
  BY <1>1, <1>2 DEF List!doPushFront, List!Lists
<1>4. List!Unlinked(L, a) \in List!Lists
  BY <1>1, <1>2 DEF List!Unlinked, List!Lists
<1>5. QED
  BY <1>3, <1>4

LEMMA GuardsKept ==
  ASSUME TokensOK, NEW a \in Actors, NEW g, Guards(a, g)
  PROVE  mCancellers' \in [Tokens -> List!Lists]
<1> DEFINE t == TokenOf[a]
           L == IF g THEN List!doPushFront(Unregistered(a), a) ELSE Unregistered(a)
<1>1. t \in Tokens
  BY NetAssumption
<1>2. mCancellers \in [Tokens -> List!Lists]
  BY DEF TokensOK
<1>3. Unregistered(a) \in List!Lists
  BY <1>1, <1>2, ListOps DEF Unregistered
<1>4. L \in List!Lists
  BY <1>3, ListOps
<1>5. mCancellers' = [mCancellers EXCEPT ![t] = L]
  BY DEF Guards
<1> HIDE DEF t, L
<1>6. QED
  BY <1>1, <1>2, <1>4, <1>5

(* A step of one coroutine, or of the kernel for it: the call returns, or  *)
(* goes on with an operation.                                              *)
CallMoves(a) == /\ \A b \in Actors \ {a} : op'[b] = op[b] /\ call'[b] = call[b]
                /\ \/ op'[a] = op[a] /\ call'[a] = call[a]
                   \/ call'[a] = "none"
                   \/ op'[a].st # "none"
                /\ cancelled' \in [Tokens -> BOOLEAN]
                /\ mCancellers' \in [Tokens -> List!Lists]
                /\ cancelOp' \in [Actors -> {"none", "prepared", "submitted"}]

LEMMA TokensKept == ASSUME TokensOK, NEW a \in Actors, CallMoves(a) PROVE TokensOK'
<1>1. ASSUME NEW b \in Actors PROVE op'[b] = NoOp => call'[b] = "none"
  <2>1. NoOp.st = "none"
    BY NoOpFacts
  <2>2. CASE b = a
    BY <2>1, <2>2 DEF CallMoves, TokensOK
  <2>3. CASE b # a
    BY <2>3 DEF CallMoves, TokensOK
  <2>4. QED
    BY <2>2, <2>3
<1>2. NoOp' = NoOp
  BY DEF NoOp
<1>3. QED
  BY <1>1, <1>2 DEF TokensOK, CallMoves

LEMMA PrepMoves ==
  ASSUME Types, NEW a \in Actors, NEW k, NEW fd, NEW g, NEW t, Prep(a, k, fd, g, t)
  PROVE  /\ op'[a].st # "none" /\ \A b \in Actors \ {a} : op'[b] = op[b]
         /\ Guards(a, g)
  BY DEF Types, Prep, NoOp

(* A coroutine that is resumed returns, or prepares another operation.     *)
GoesOnWith(a) == \E k, fd, g, t : Prep(a, k, fd, g, t)

LEMMA ResumeMoves ==
  ASSUME Inv, TokensOK, NEW a \in Actors, Resume(a)
  PROVE  KernelMoves /\ CallMoves(a)
<1>1. Types /\ ActorOK(a)
  BY DEF Inv
<1> USE DEF PrepOpen, PrepTransfer, Fails, GoesOnWith
<1>2. \/ Return(a) \/ (UNCHANGED call /\ Unguarded(a) /\ GoesOnWith(a))
  <2>1. ASSUME OpenReturns(a) \/ OpenatReturns(a) \/ CloseReturns(a) \/ UseReturns(a)
               \/ SocketBinds(a)
        PROVE  Return(a)
    BY <2>1 DEF OpenReturns, OpenatReturns, CloseReturns, UseReturns, SocketBinds
  <2>2. ASSUME FileGoesOn(a) PROVE Return(a) \/ (UNCHANGED call /\ Unguarded(a) /\ GoesOnWith(a))
    BY <2>2 DEF FileGoesOn
  <2>3. ASSUME SocketConnects(a)
        PROVE  Return(a) \/ (UNCHANGED call /\ Unguarded(a) /\ GoesOnWith(a))
    BY <2>3 DEF SocketConnects
  <2>4. ASSUME ConnectReturns(a)
        PROVE  Return(a) \/ (UNCHANGED call /\ Unguarded(a) /\ GoesOnWith(a))
    BY <2>4 DEF ConnectReturns
  <2>5. ASSUME ProxyGoesOn(a)
        PROVE  Return(a) \/ (UNCHANGED call /\ Unguarded(a) /\ GoesOnWith(a))
    BY <2>5 DEF ProxyGoesOn
  <2>6. QED
    BY <2>1, <2>2, <2>3, <2>4, <2>5 DEF Resume
<1>3. CallMoves(a)
  <2>1. Unguarded(a)
    BY <1>2 DEF Return
  <2>2. cancelled' \in [Tokens -> BOOLEAN]
        /\ cancelOp' \in [Actors -> {"none", "prepared", "submitted"}]
    BY <2>1 DEF Unguarded, TokensOK
  <2>3. CASE Return(a)
    <3>1. mCancellers' \in [Tokens -> List!Lists]
      BY <2>3, GuardsKept DEF Return
    <3>2. QED
      BY <1>1, <2>2, <2>3, <3>1 DEF Return, CallMoves, Types
  <2>4. CASE UNCHANGED call /\ GoesOnWith(a)
    <3>1. op'[a].st # "none" /\ (\A b \in Actors \ {a} : op'[b] = op[b]) /\ \E g : Guards(a, g)
      BY <1>1, <2>4, PrepMoves
    <3>2. mCancellers' \in [Tokens -> List!Lists]
      BY <3>1, GuardsKept
    <3>3. QED
      BY <2>2, <2>4, <3>1, <3>2 DEF CallMoves
  <2>5. QED
    BY <1>2, <2>3, <2>4
<1>4. KernelMoves
  <2>1. ASSUME OpenReturns(a) \/ OpenatReturns(a) \/ CloseReturns(a) \/ UseReturns(a)
        PROVE  UNCHANGED kernel \/ \E F : Closed(F)
    BY <2>1 DEF OpenReturns, OpenatReturns, CloseReturns, UseReturns
  <2>2. ASSUME FileGoesOn(a) \/ SocketConnects(a)
        PROVE  UNCHANGED kernel \/ \E F : Closed(F)
    BY <2>2 DEF FileGoesOn, SocketConnects
  <2>3. ASSUME ConnectReturns(a) \/ ProxyGoesOn(a)
        PROVE  UNCHANGED kernel \/ \E F : Closed(F)
    BY <2>3 DEF ConnectReturns, ProxyGoesOn
  <2>4. ASSUME SocketBinds(a) PROVE KernelMoves
    <3>1. CASE ~Ok(a) /\ Fails(a, {})
      BY <3>1 DEF KernelMoves
    <3>2. CASE Ok(a) /\ Return(a) /\ Closed({op[a].new})
      BY <3>2 DEF KernelMoves
    <3>3. CASE /\ Ok(a)
               /\ listening' = listening \cup {fds[op[a].new]}
               /\ UNCHANGED <<fds, backlog>>
      <4>1. op[a].new # None /\ op[a].new \in Fds \cup {None}
        BY <1>1, <2>4, <3>3 DEF SocketBinds, Done, Ok, ActorOK, Makers, Types, Ops
      <4>2. fds[op[a].new] # None /\ op[a].new \in Fds
        BY <4>1, OwnsOpen DEF Owns
      <4>3. QED
        BY <3>3, <4>2 DEF KernelMoves
    <3>4. QED
      BY <2>4, <3>1, <3>2, <3>3 DEF SocketBinds
  <2>5. QED
    BY <2>1, <2>2, <2>3, <2>4 DEF Resume, KernelMoves
<1>5. QED
  BY <1>3, <1>4

LEMMA BeginMoves ==
  ASSUME Inv, TokensOK, NEW a \in Actors, Begin(a)
  PROVE  KernelMoves /\ CallMoves(a)
<1>1. Types
  BY DEF Inv
<1> USE DEF PrepOpen, PrepPath, PrepClose, PrepTransfer, GoesOnWith
<1>2. CASE \E f \in Fds : DropHandle(a, f)
  <2>1. KernelMoves
    BY <1>2 DEF DropHandle, KernelMoves
  <2>2. CallMoves(a)
    BY <1>2 DEF DropHandle, CallMoves, tokens, TokensOK
  <2>3. QED
    BY <2>1, <2>2
<1>3. CASE (\E f : Call(a, f)) /\ GoesOnWith(a)
  <2>1. UNCHANGED <<kernel, cancelled, cancelOp>> /\ \A b \in Actors \ {a} : call'[b] = call[b]
    BY <1>1, <1>3 DEF Call, Types
  <2>2. CallMoves(a)
    <3>1. op'[a].st # "none" /\ (\A b \in Actors \ {a} : op'[b] = op[b]) /\ \E g : Guards(a, g)
      BY <1>1, <1>3, PrepMoves
    <3>2. mCancellers' \in [Tokens -> List!Lists]
      BY <3>1, GuardsKept
    <3>3. QED
      BY <2>1, <3>1, <3>2 DEF CallMoves, TokensOK
  <2>3. QED
    BY <2>1, <2>2 DEF KernelMoves
<1>4. (\E f \in Fds : DropHandle(a, f)) \/ ((\E f : Call(a, f)) /\ GoesOnWith(a))
  <2>1. ASSUME fs_open(a) \/ file_rw(a) \/ fs_path(a) \/ \E f \in AllCalls : createSocket(a, f)
        PROVE  (\E f : Call(a, f)) /\ GoesOnWith(a)
    BY <2>1 DEF fs_open, file_rw, fs_path, createSocket
  <2>2. ASSUME NEW f \in Fds, fs_close(a, f) \/ fs_openat(a, f) \/ listener_accept(a, f)
                              \/ listener_accept_cancel(a, f)
        PROVE  (\E c : Call(a, c)) /\ GoesOnWith(a)
    BY <2>2 DEF fs_close, fs_openat, listener_accept, listener_accept_cancel
  <2>3. ASSUME NEW f \in Fds, NEW g \in BOOLEAN,
               fs_use(a, f, g) \/ \E t \in BOOLEAN : socket_use(a, f, g, t)
        PROVE  (\E c : Call(a, c)) /\ GoesOnWith(a)
    BY <2>3 DEF fs_use, socket_use
  <2>4. QED
    BY <2>1, <2>2, <2>3, Zenon DEF Begin
<1>5. QED
  BY <1>2, <1>3, <1>4

(* The kernel answers.                                                     *)
LEMMA AnswerMoves ==
  ASSUME Inv, TokensOK, NEW a \in Actors, Complete(a) \/ Timeout(a) \/ CancelHits(a)
  PROVE  KernelMoves /\ CallMoves(a)
<1>1. Types
  BY DEF Inv
<1>2. UNCHANGED call /\ \E r, f : Finish(a, r, f)
  BY DEF Complete, Timeout, CancelHits, Opens, Accepts, Connects, Closes, Transfers, Refuses,
         TimesOut, NewFile
<1>3. op'[a].st # "none" /\ \A b \in Actors \ {a} : op'[b] = op[b]
  BY <1>1, <1>2 DEF Finish, NoOp, Types
<1>4. CallMoves(a)
  <2>1. /\ cancelled' \in [Tokens -> BOOLEAN]
        /\ mCancellers' \in [Tokens -> List!Lists]
        /\ cancelOp' \in [Actors -> {"none", "prepared", "submitted"}]
    BY DEF Complete, Timeout, CancelHits, tokens, TokensOK
  <2>2. QED
    BY <1>2, <1>3, <2>1 DEF CallMoves
<1>5. KernelMoves
  <2>1. ASSUME NewFile(a), listening' = listening, backlog' \subseteq backlog PROVE KernelMoves
    <3>1. Lowest \in Fds /\ fds[Lowest] = None
      BY <2>1, LowestFree DEF NewFile, Free
    <3>2. QED
      BY <2>1, <3>1 DEF NewFile, KernelMoves
  <2>2. ASSUME Opens(a) \/ Accepts(a) PROVE KernelMoves
    BY <2>1, <2>2 DEF Opens, Accepts
  <2>3. ASSUME Connects(a) PROVE KernelMoves
    BY <2>3 DEF Connects, KernelMoves
  <2>4. ASSUME Closes(a) \/ Transfers(a) \/ Refuses(a) \/ TimesOut(a) \/ CancelHits(a)
        PROVE  UNCHANGED kernel \/ \E F : Closed(F)
    BY <2>4 DEF Closes, Transfers, Refuses, TimesOut, CancelHits
  <2>5. QED
    BY <2>2, <2>3, <2>4 DEF KernelMoves, Complete, Timeout
<1>6. QED
  BY <1>4, <1>5

(* The variables have their types: what listens is open, and what awaits   *)
(* acceptance listens, whoever closes a socket; and a coroutine awaits an  *)
(* operation exactly while it is in a call.                                *)
THEOREM TypeCorrect == Spec => []TypeOK
<1>1. Inv /\ Listen /\ TokensOK => TypeOK
  BY DEF Inv, Types, ActorOK, Listen, TokensOK, TypeOK
<1>2. Init => Listen /\ TokensOK
  BY DEF Init, Listen, TokensOK, List!EmptyList, List!Lists, List!Places
<1>3. ASSUME Inv, Listen, TokensOK, [Next]_vars PROVE Listen' /\ TokensOK'
  <2>0. Types
    BY <1>3 DEF Inv
  <2>1. ASSUME NEW a \in Actors, Begin(a) \/ Resume(a) \/ Complete(a) \/ Timeout(a) \/ CancelHits(a)
        PROVE  Listen' /\ TokensOK'
    <3>1. KernelMoves /\ CallMoves(a)
      BY <1>3, <2>1, BeginMoves, ResumeMoves, AnswerMoves
    <3>2. QED
      BY <1>3, <2>0, <3>1, ListenKept, TokensKept
  <2>2. ASSUME NEW t \in Tokens, Cancel(t) PROVE Listen' /\ TokensOK'
    <3>1. Listen'
      BY <1>3, <2>2 DEF Cancel, kernel, Listen
    <3>2. UNCHANGED <<op, call, mCancellers>>
      BY <2>2 DEF Cancel
    <3>3. cancelled' \in [Tokens -> BOOLEAN]
      BY <1>3, <2>2 DEF Cancel, TokensOK
    <3>4. \E V : cancelOp' = [a \in Actors |-> IF V[a] THEN "prepared" ELSE cancelOp[a]]
      <4> DEFINE visited == List!Visited(mCancellers[t])
                 V == [a \in Actors |-> \E i \in DOMAIN visited : visited[i] = a]
      <4> HIDE DEF visited
      <4>1. cancelOp' = [a \in Actors |-> IF V[a] THEN "prepared" ELSE cancelOp[a]]
        BY <2>2 DEF Cancel, visited
      <4>2. QED
        BY <4>1
    <3>5. cancelOp' \in [Actors -> {"none", "prepared", "submitted"}]
      BY <1>3, <3>4 DEF TokensOK
    <3>6. QED
      BY <1>3, <3>1, <3>2, <3>3, <3>5 DEF TokensOK, NoOp
  <2>3. ASSUME Submit PROVE Listen' /\ TokensOK'
    <3>1. Listen' /\ call' = call /\ cancelled' = cancelled /\ mCancellers' = mCancellers
      BY <1>3, <2>3 DEF Submit, kernel, Listen
    <3>2. ASSUME NEW a \in Actors, op'[a] = NoOp PROVE op[a] = NoOp
      <4> DEFINE o == [op[a] EXCEPT !.st = "submitted",
                                    !.file = IF op[a].fd = None THEN None ELSE fds[op[a].fd]]
      <4>1. o.st = "submitted"
        BY <2>0 DEF Types, Ops
      <4>2. op'[a] = op[a] \/ op'[a] = o
        BY <2>3 DEF Submit
      <4> HIDE DEF o
      <4>3. QED
        BY <3>2, <4>1, <4>2, NoOpFacts
    <3>3. cancelOp' \in [Actors -> {"none", "prepared", "submitted"}]
      BY <1>3, <2>3 DEF Submit, TokensOK
    <3>4. QED
      BY <1>3, <3>1, <3>2, <3>3 DEF TokensOK, NoOp
  <2>4. CASE UNCHANGED vars
    BY <1>3, <2>4 DEF vars, kernel, tokens, Listen, TokensOK, NoOp
  <2>5. QED
    BY <1>3, <2>1, <2>2, <2>3, <2>4 DEF Next
<1>4. QED
  BY <1>1, <1>2, <1>3, InvInit, InvNext, PTL DEF Spec
------------------------------------------------------------------------------
(* The buffered streams.                                                   *)

(* s is what z holds after position a, up to b.                            *)
Runs(z, s, a, b) == /\ z \in Seq(Bytes) /\ s \in Seq(Bytes)
                    /\ a \in Nat /\ b \in Nat /\ b = a + Len(s) /\ b <= Len(z)
                    /\ \A i \in 1..Len(s) : s[i] = z[a + i]

(* Where the bytes are: the reader's call has consumed those up to         *)
(* Consumed, its buffer holds those up to Arrived, the other side was      *)
(* given those up to Given, and the writer's buffer holds those after      *)
(* Passed.                                                                 *)
Consumed == taken + read.k
Arrived  == Consumed + (mInEnd - mInIndex)
Passed   == Len(sent) - I!Filling
Stored   == at[Writer] \in {"notify", "done"}
Given    == IF Piped THEN IF Stored THEN Passed + Len(item[Writer]) ELSE Passed
            ELSE IF write.pc = "raw" THEN Len(sent) - Len(write.buf) ELSE Passed

(* An empty chunk is put behind the last byte, when no byte follows.       *)
AtEnd(x) == state # "open" /\ x = Passed

Reads   == {"getn", "dropn", "getline", "dropline", "getall", "dropall"}
Gets    == {"getn", "getline", "getall"}
Waiting == {"lock", "unlocked", "waiting", "notify", "done", "failed"}

ReadTypes == [op : Reads \cup {"idle", "gone"}, pc : {"turn", "raw"}, n : 0..MaxTake,
              left : 0..MaxTake, s : Seq(Bytes), k : Nat]
WriteTypes == [op : {"idle", "gone", "puts", "putchunk", "flush", "bind"},
               pc : {"turn", "flush", "raw", "close", "closing", "destroy", "destroying"},
               rest : Seq(Bytes), buf : Seq(Bytes)]

(* The reader's buffer, and what its call has gathered.                    *)
InBuffer ==
  /\ mInBuffer \in I!Buffers /\ taken \in Nat
  /\ mInIndex \in 0..mInEnd /\ mInEnd \in 0..Len(mInBuffer)
  /\ Arrived <= Len(sent)
  /\ \A i \in mInIndex + 1..mInEnd : mInBuffer[i] = sent[Consumed + (i - mInIndex)]

(* The reader's call: what it still asks for, what it has gathered.        *)
ReadCall ==
  /\ read \in ReadTypes
  /\ read.op = "idle" => read = NoRead
  /\ read.op = "gone" => read = [NoRead EXCEPT !.op = "gone"]
  /\ read.op \in {"getn", "dropn"} => read.k + read.left = read.n
  /\ read.op \in {"getline", "dropline", "getall", "dropall"} => read.n = 0
  /\ IF read.op \in Gets THEN Runs(sent, read.s, taken, Consumed) ELSE read.s = << >>
  /\ read.op \in {"getline", "dropline"} => \A j \in taken + 1..Consumed : sent[j] \notin Eol
  /\ read.pc = "raw" => read.op \in Reads /\ mInEnd = 0 /\ Len(mInBuffer) = BufSize

(* The reader is in pop while it fills its buffer, and holds a chunk only  *)
(* once it has taken one.                                                  *)
ReadPlace ==
  /\ IF read.pc = "raw" /\ Piped THEN at[Reader] \in Waiting ELSE at[Reader] = "out"
  /\ at[Reader] \notin {"notify", "done"} => item[Reader] = << >>

(* What waits are the last of the bytes; mOutIndex counts them once there  *)
(* is a buffer.                                                            *)
OutBuffer ==
  /\ mOutBuffer \in I!Buffers /\ I!Filling \in 0..Len(mOutBuffer)
  /\ mOutBuffer = << >> => mOutIndex \in Unset \cup {0}
  /\ sent \in Seq(Bytes) /\ Len(sent) <= MaxBytes /\ Passed \in Nat
  /\ \A i \in 1..I!Filling : mOutBuffer[i] = sent[Passed + i]

(* The writer's call; raw_write has sent a part of what waits.             *)
WriteCall ==
  /\ write \in WriteTypes
  /\ write.op = "idle" => write = NoWrite
  /\ write.op = "gone" => write = [NoWrite EXCEPT !.op = "gone"]
  /\ write.rest # << >> => write.op \in {"puts", "putchunk"}
  /\ Len(sent) + Len(write.rest) <= MaxBytes
  /\ write.pc = "turn" => write.op \in {"idle", "gone", "puts", "putchunk"}
  /\ write.pc \in {"close", "closing", "destroy", "destroying"} => write.op = "bind"
  /\ write.pc \in {"closing", "destroying"} => Piped
  /\ write.pc = "raw" /\ ~Piped => Runs(sent, write.buf, Given, Len(sent)) /\ Passed <= Given

(* The writer is in push while it flushes or closes; what it pushes is all *)
(* that waits, or the empty chunk of the end.                              *)
WritePlace ==
  /\ IF write.pc \in {"raw", "closing"} /\ Piped THEN at[Writer] \in Waiting
     ELSE IF write.pc = "destroying" THEN at[Writer] \in {"try", "notify", "done", "refused"}
     ELSE at[Writer] = "out"
  /\ IF write.pc = "raw" /\ Piped THEN item[Writer] = I!Unflushed /\ I!Filling > 0
     ELSE item[Writer] = << >>

(* The stream is closed by pipe_bind's last part or by the destructor.     *)
EndState ==
  /\ state \in {"open", "closed", "cut"}
  /\ state = "closed" => I!Filling = 0
  /\ write.op = "gone" \/ write.pc \in {"closing", "destroying"} => state # "open"
  /\ write.pc \in {"turn", "flush", "raw", "close"} /\ write.op # "gone" => state = "open"

(* The chunks in the ring continue each other: chunk i holds the bytes     *)
(* after b[i], up to b of the position that follows; an empty one is the   *)
(* end.                                                                    *)
Occupied(i) == IF mRead <= mWrite THEN mRead <= i /\ i < mWrite ELSE mRead <= i \/ i < mWrite

Chain(b) ==
  /\ b \in [0..QueueSize -> 0..MaxBytes]
  /\ Runs(sent, item[Reader], Arrived, b[mRead]) /\ b[mRead] <= Given /\ b[mWrite] = Given
  /\ at[Reader] \in {"notify", "done"} /\ item[Reader] = << >> => AtEnd(Arrived)
  /\ \A i \in 0..QueueSize : Occupied(i) =>
       /\ Runs(sent, slots[i], b[i], b[Q!R!After(i)]) /\ b[Q!R!After(i)] <= Given
       /\ slots[i] = << >> => AtEnd(b[i])

(* What was given and has not arrived is in the queue, or on the wire.     *)
Between == IF Piped THEN wire = << >> /\ \E b \in [0..QueueSize -> 0..MaxBytes] : Chain(b)
           ELSE Runs(sent, wire, Arrived, Given)

(* The count of notifications stays in its bound: each chunk is announced  *)
(* at most when it is put and when it is taken, a chunk holds a byte or is *)
(* one of the two ends, and at most MaxBytes bytes are given.              *)
Pending(p) == IF at[p] = "notify" THEN 1 ELSE 0
Chunked    == IF mRead <= mWrite THEN mWrite - mRead ELSE mWrite + QueueSize + 1 - mRead
Ends       == IF state = "open" THEN 0
              ELSE IF write.op = "gone" THEN 2
              ELSE IF write.pc = "closing" THEN IF Stored THEN 1 ELSE 0
              ELSE IF Stored THEN 2 ELSE 1
Notified   == mFutex + Pending(Writer) + Pending(Reader) + Chunked <= 2 * (Given + Ends)

(* The other variables.                                                    *)
Rest == /\ kind \in Media /\ mPipe \in BOOLEAN /\ errors \in 0..MaxErrors
        /\ kind = "socket" => Len(wire) <= WireSize

(* The inductive invariant: the bytes between the two ends lie, in their   *)
(* order, in the reader's buffer, the queue or the wire, and the writer's. *)
StreamInv == /\ InBuffer /\ ReadCall /\ ReadPlace /\ OutBuffer /\ WriteCall /\ WritePlace
             /\ EndState /\ Between /\ Rest /\ Q!TypeOK /\ Notified


------------------------------------------------------------------------------
(* Runs of bytes.                                                          *)

LEMMA RunsEmpty ==
  ASSUME NEW z \in Seq(Bytes), NEW a \in 0..Len(z)
  PROVE  Runs(z, << >>, a, a)
BY DEF Runs

LEMMA RunsConcat ==
  ASSUME NEW z, NEW s, NEW t, NEW a, NEW b, NEW c, Runs(z, s, a, b), Runs(z, t, b, c)
  PROVE  Runs(z, s \o t, a, c)
<1>1. /\ s \in Seq(Bytes) /\ t \in Seq(Bytes) /\ Len(s) \in Nat /\ Len(t) \in Nat
      /\ a \in Nat /\ b = a + Len(s) /\ c = b + Len(t)
  BY DEF Runs
<1>2. /\ s \o t \in Seq(Bytes) /\ Len(s \o t) = Len(s) + Len(t)
      /\ \A i \in 1..(Len(s) + Len(t)) : (s \o t)[i] = IF i <= Len(s) THEN s[i] ELSE t[i - Len(s)]
  BY <1>1, ConcatProperties, Zenon
<1>3. ASSUME NEW i \in 1..(Len(s) + Len(t)) PROVE (s \o t)[i] = z[a + i]
  <2>1. CASE i <= Len(s)
    BY <1>1, <1>2, <2>1 DEF Runs
  <2>2. CASE ~(i <= Len(s))
    <3>1. i - Len(s) \in 1..Len(t)
      BY <1>1, <2>2
    <3>2. t[i - Len(s)] = z[b + (i - Len(s))] /\ b + (i - Len(s)) = a + i
      BY <3>1 DEF Runs
    <3>3. QED
      BY <1>1, <1>2, <2>2, <3>2
  <2>3. QED
    BY <2>1, <2>2
<1>4. c = a + Len(s \o t) /\ c \in Nat
  BY <1>1, <1>2
<1>5. QED
  BY <1>1, <1>2, <1>3, <1>4 DEF Runs

LEMMA RunsPart ==
  ASSUME NEW z, NEW s, NEW a, NEW b, Runs(z, s, a, b), NEW m \in Nat, NEW n \in Nat, m <= n, n <= Len(s)
  PROVE  Runs(z, SubSeq(s, m + 1, n), a + m, a + n) /\ Len(SubSeq(s, m + 1, n)) = n - m
<1>1. s \in Seq(Bytes) /\ Len(s) \in Nat /\ a \in Nat
  BY DEF Runs
<1>2. m + 1 \in Int /\ n \in Int /\ \A i \in (m + 1)..n : s[i] \in Bytes
  BY <1>1
<1>3. /\ SubSeq(s, m + 1, n) \in Seq(Bytes)
      /\ Len(SubSeq(s, m + 1, n)) = IF m + 1 <= n THEN n - (m + 1) + 1 ELSE 0
      /\ \A i \in 1..(n - (m + 1) + 1) : SubSeq(s, m + 1, n)[i] = s[m + 1 + i - 1]
  BY <1>2, SubSeqProperties
<1>4. Len(SubSeq(s, m + 1, n)) = n - m
  BY <1>3
<1>5. ASSUME NEW i \in 1..(n - m) PROVE SubSeq(s, m + 1, n)[i] = z[a + m + i]
  <2>1. i \in 1..(n - (m + 1) + 1) /\ m + 1 + i - 1 = m + i /\ m + i \in 1..Len(s)
    BY <1>1
  <2>2. s[m + i] = z[a + (m + i)]
    BY <2>1 DEF Runs
  <2>3. QED
    BY <1>1, <1>3, <2>1, <2>2
<1>6. /\ a + n = a + m + (n - m) /\ a + m \in Nat /\ a + n \in Nat
      /\ z \in Seq(Bytes) /\ a + n <= Len(z)
  BY <1>1 DEF Runs
<1>7. QED
  BY <1>3, <1>4, <1>5, <1>6 DEF Runs

LEMMA RunsFirst ==
  ASSUME NEW z, NEW s, NEW a, NEW b, Runs(z, s, a, b), NEW n \in 0..Len(s)
  PROVE  /\ Runs(z, SubSeq(s, 1, n), a, a + n) /\ Len(SubSeq(s, 1, n)) = n
         /\ Runs(z, SubSeq(s, n + 1, Len(s)), a + n, b) /\ Len(SubSeq(s, n + 1, Len(s))) = Len(s) - n
<1>1. /\ Len(s) \in Nat /\ a \in Nat /\ n \in Nat /\ n <= Len(s) /\ b = a + Len(s)
      /\ 0 \in Nat /\ 0 <= n /\ n - 0 = n /\ a + 0 = a /\ 0 + 1 = 1 /\ Len(s) <= Len(s)
  BY DEF Runs
<1>2. Runs(z, SubSeq(s, 0 + 1, n), a + 0, a + n) /\ Len(SubSeq(s, 0 + 1, n)) = n - 0
  BY <1>1, RunsPart
<1>3. Runs(z, SubSeq(s, n + 1, Len(s)), a + n, a + Len(s)) /\ Len(SubSeq(s, n + 1, Len(s))) = Len(s) - n
  BY <1>1, RunsPart
<1>4. QED
  BY <1>1, <1>2, <1>3

LEMMA RunsSame ==
  ASSUME NEW z, NEW s, NEW t, NEW a, NEW b, Runs(z, s, a, b), Runs(z, t, a, b)
  PROVE  s = t
<1>1. s \in Seq(Bytes) /\ t \in Seq(Bytes) /\ Len(s) = Len(t)
  BY DEF Runs
<1>2. \A i \in 1..Len(s) : s[i] = t[i]
  BY <1>1 DEF Runs
<1>3. QED
  BY <1>1, <1>2, SeqEqual

LEMMA RunsBytes ==
  ASSUME NEW z, NEW s, NEW a, NEW b, Runs(z, s, a, b)
  PROVE  s \in Seq(Bytes)
BY DEF Runs

(* A run stays one when nothing changes up to its end.                     *)
LEMMA RunsKept ==
  ASSUME NEW z, NEW s, NEW a, NEW b, Runs(z, s, a, b), NEW y \in Seq(Bytes), b <= Len(y),
         \A i \in 1..b : y[i] = z[i]
  PROVE  Runs(y, s, a, b)
<1>1. ASSUME NEW i \in 1..Len(s) PROVE s[i] = y[a + i]
  <2>1. a + i \in 1..b /\ s[i] = z[a + i]
    BY DEF Runs
  <2>2. QED
    BY <2>1
<1>2. QED
  BY <1>1 DEF Runs
------------------------------------------------------------------------------
(* The buffers.                                                            *)

LEMMA Sizes == /\ BufSize \in Nat /\ BufSize > 0 /\ QueueSize \in Nat /\ QueueSize > 0
               /\ MaxBytes \in Nat /\ MaxTake \in Nat /\ MaxErrors \in Nat
               /\ WireSize \in Nat /\ MaxPut \in Nat
  BY PipeAssumption

LEMMA ChunkFacts == ASSUME NEW s PROVE s \in Chunks <=> s \in Seq(Bytes) /\ Len(s) <= BufSize
<1>1. ASSUME s \in Chunks PROVE s \in Seq(Bytes) /\ Len(s) <= BufSize
  <2>1. PICK n \in 0..BufSize : s \in [1..n -> Bytes]
    BY <1>1 DEF Chunks
  <2>2. QED
    BY <2>1, Sizes
<1>2. ASSUME s \in Seq(Bytes), Len(s) <= BufSize PROVE s \in Chunks
  <2>1. Len(s) \in 0..BufSize /\ s \in [1..Len(s) -> Bytes]
    BY <1>2, Sizes
  <2>2. QED
    BY <2>1 DEF Chunks
<1>3. QED
  BY <1>1, <1>2

LEMMA EmptyChunk == << >> \in Chunks
<1>1. << >> \in Seq(Bytes) /\ Len(<< >>) <= BufSize
  BY Sizes
<1>2. QED
  BY <1>1, ChunkFacts

LEMMA BufferFacts ==
  ASSUME NEW x \in I!Buffers
  PROVE  /\ x \in Seq(Nat) /\ Len(x) \in Nat /\ Len(x) <= BufSize /\ DOMAIN x = 1..Len(x)
         /\ \A i \in 1..Len(x) : x[i] \in Bytes \cup {0}
         /\ x = << >> \/ Len(x) = BufSize
<1>1. CASE x = << >>
  BY <1>1, Sizes
<1>2. CASE x \in [1..BufSize -> Bytes \cup {0}]
  <2>1. Len(x) = BufSize /\ x \in Seq(Bytes \cup {0})
    BY <1>2, Sizes
  <2>2. x \in Seq(Nat)
    BY <2>1, Sizes DEF Bytes
  <2>3. QED
    BY <1>2, <2>1, <2>2, Sizes
<1>3. QED
  BY <1>1, <1>2 DEF I!Buffers

LEMMA BufferMade ==
  ASSUME NEW x \in [1..BufSize -> Bytes \cup {0}]
  PROVE  x \in I!Buffers /\ Len(x) = BufSize
<1>1. Len(x) = BufSize
  BY Sizes
<1>2. QED
  BY <1>1 DEF I!Buffers

LEMMA BlankFacts == I!Blank \in I!Buffers /\ Len(I!Blank) = BufSize
<1>1. I!Blank \in [1..BufSize -> Bytes \cup {0}]
  BY DEF I!Blank
<1>2. QED
  BY <1>1, BufferMade

(* The bytes s written at index n.                                         *)
LEMMA Overwritten ==
  ASSUME NEW x \in I!Buffers, NEW n \in Nat, NEW s \in Seq(Bytes), n + Len(s) <= Len(x),
         NEW y, y = I!Overwrite(x, n, s)
  PROVE  /\ y \in I!Buffers /\ Len(y) = Len(x)
         /\ \A i \in 1..n : y[i] = x[i]
         /\ \A i \in 1..Len(s) : y[n + i] = s[i]
<1>1. /\ DOMAIN x = 1..Len(x) /\ Len(x) \in Nat /\ Len(s) \in Nat
      /\ \A i \in 1..Len(x) : x[i] \in Bytes \cup {0}
  BY BufferFacts
<1>2. y = [i \in DOMAIN x |-> IF i \in n + 1..n + Len(s) THEN s[i - n] ELSE x[i]]
  BY DEF I!Overwrite
<1>3. \A i \in n + 1..n + Len(s) : i - n \in 1..Len(s) /\ s[i - n] \in Bytes
  BY <1>1
<1>4. y \in [1..Len(x) -> Bytes \cup {0}]
  BY <1>1, <1>2, <1>3
<1>5. Len(y) = Len(x)
  BY <1>1, <1>4
<1>6. y \in I!Buffers
  <2>1. CASE Len(x) = BufSize
    BY <1>4, <2>1, BufferMade
  <2>2. CASE x = << >>
    <3>1. y = x
      BY <1>2, <2>2
    <3>2. QED
      BY <3>1
  <2>3. QED
    BY <2>1, <2>2, BufferFacts
<1>7. \A i \in 1..n : y[i] = x[i]
  BY <1>1, <1>2
<1>8. ASSUME NEW i \in 1..Len(s) PROVE y[n + i] = s[i]
  <2>1. n + i \in n + 1..n + Len(s) /\ n + i \in DOMAIN x /\ (n + i) - n = i
    BY <1>1
  <2>2. QED
    BY <1>2, <2>1
<1>9. QED
  BY <1>5, <1>6, <1>7, <1>8

(* What lies in a buffer between two indices.                              *)
LEMMA RunOf ==
  ASSUME NEW x \in I!Buffers, NEW m \in Nat, NEW n \in Nat, m <= n, n <= Len(x), NEW a \in Nat,
         NEW z \in Seq(Bytes), a + (n - m) <= Len(z),
         \A i \in m + 1..n : x[i] = z[a + (i - m)]
  PROVE  Runs(z, SubSeq(x, m + 1, n), a, a + (n - m)) /\ Len(SubSeq(x, m + 1, n)) = n - m
<1>1. x \in Seq(Nat) /\ Len(x) \in Nat
  BY BufferFacts
<1>2. m + 1 \in Int /\ n \in Int /\ \A i \in (m + 1)..n : x[i] \in Bytes
  BY <1>1
<1>3. /\ SubSeq(x, m + 1, n) \in Seq(Bytes)
      /\ Len(SubSeq(x, m + 1, n)) = IF m + 1 <= n THEN n - (m + 1) + 1 ELSE 0
      /\ \A i \in 1..(n - (m + 1) + 1) : SubSeq(x, m + 1, n)[i] = x[m + 1 + i - 1]
  BY <1>2, SubSeqProperties
<1>4. Len(SubSeq(x, m + 1, n)) = n - m
  BY <1>3
<1>5. ASSUME NEW i \in 1..(n - m) PROVE SubSeq(x, m + 1, n)[i] = z[a + i]
  <2>1. /\ i \in 1..(n - (m + 1) + 1) /\ m + 1 + i - 1 = m + i
        /\ m + i \in m + 1..n /\ (m + i) - m = i
    OBVIOUS
  <2>2. QED
    BY <1>3, <2>1
<1>6. QED
  BY <1>3, <1>4, <1>5 DEF Runs

LEMMA Peeked ==
  ASSUME InBuffer, sent \in Seq(Bytes), read.k \in Nat
  PROVE  /\ Consumed \in Nat /\ Arrived \in Nat /\ Arrived = Consumed + Len(I!peekbuf)
         /\ Runs(sent, I!peekbuf, Consumed, Arrived) /\ Len(I!peekbuf) = mInEnd - mInIndex
<1>1. /\ mInBuffer \in I!Buffers /\ mInIndex \in Nat /\ mInEnd \in Nat /\ mInIndex <= mInEnd
      /\ mInEnd <= Len(mInBuffer) /\ Consumed \in Nat
      /\ Consumed + (mInEnd - mInIndex) <= Len(sent)
      /\ \A i \in mInIndex + 1..mInEnd : mInBuffer[i] = sent[Consumed + (i - mInIndex)]
  BY BufferFacts DEF InBuffer, Consumed, Arrived
<1>2. /\ Runs(sent, SubSeq(mInBuffer, mInIndex + 1, mInEnd), Consumed,
              Consumed + (mInEnd - mInIndex))
      /\ Len(SubSeq(mInBuffer, mInIndex + 1, mInEnd)) = mInEnd - mInIndex
  BY <1>1, RunOf
<1>3. QED
  BY <1>1, <1>2 DEF I!peekbuf, Arrived

LEMMA UnflushedRuns ==
  ASSUME OutBuffer
  PROVE  /\ Passed \in Nat /\ Len(sent) \in Nat /\ I!Filling \in Nat /\ Len(sent) = Passed + I!Filling
         /\ Runs(sent, I!Unflushed, Passed, Len(sent)) /\ Len(I!Unflushed) = I!Filling
         /\ I!Unflushed \in Chunks
<1>1. /\ mOutBuffer \in I!Buffers /\ I!Filling \in Nat /\ I!Filling <= Len(mOutBuffer)
      /\ Passed \in Nat /\ Len(sent) \in Nat /\ Len(sent) = Passed + I!Filling /\ Len(sent) <= MaxBytes
      /\ \A i \in 0 + 1..I!Filling : mOutBuffer[i] = sent[Passed + (i - 0)]
      /\ sent \in Seq(Bytes) /\ Passed + (I!Filling - 0) <= Len(sent)
  BY BufferFacts DEF OutBuffer, Passed
<1>2. 0 \in Nat /\ 0 <= I!Filling
  BY <1>1
<1>3. /\ Runs(sent, SubSeq(mOutBuffer, 0 + 1, I!Filling), Passed, Passed + (I!Filling - 0))
      /\ Len(SubSeq(mOutBuffer, 0 + 1, I!Filling)) = I!Filling - 0
  BY <1>1, <1>2, RunOf
<1>4. Runs(sent, I!Unflushed, Passed, Len(sent)) /\ Len(I!Unflushed) = I!Filling
  BY <1>1, <1>3 DEF I!Unflushed
<1>5. I!Unflushed \in Seq(Bytes) /\ Len(I!Unflushed) <= BufSize
  BY <1>1, <1>4, RunsBytes, BufferFacts, Sizes
<1>6. QED
  BY <1>1, <1>4, <1>5, ChunkFacts
------------------------------------------------------------------------------
(* What a step leaves alone.                                               *)

QueueSame  == slots' = slots /\ mRead' = mRead /\ mWrite' = mWrite
CondSame   == UNCHANGED <<mFutex, old, ring, asleep, ended>>
RestSame   == UNCHANGED <<kind, wire, mPipe, errors>>
ReaderSame == /\ UNCHANGED <<mInBuffer, mInIndex, mInEnd, read, taken>>
              /\ at'[Reader] = at[Reader] /\ item'[Reader] = item[Reader]
WriterSame == /\ UNCHANGED <<mOutBuffer, mOutIndex, write, sent, state>>
              /\ at'[Writer] = at[Writer] /\ item'[Writer] = item[Writer]
Has(p)     == at[p] \in {"notify", "done"}

LEMMA Two == Procs = {Writer, Reader} /\ Writer # Reader /\ Q!Procs = Procs
  BY DEF Procs, Writer, Reader, Q!Procs

(* The first n bytes stay what they are.                                   *)
Kept(n) == sent' \in Seq(Bytes) /\ n <= Len(sent') /\ \A i \in 1..n : sent'[i] = sent[i]

LEMMA KeptRuns ==
  ASSUME NEW s, NEW a, NEW b, Runs(sent, s, a, b), NEW n, Kept(n), n \in Nat, b <= n
  PROVE  Runs(sent', s, a, b)
<1>1. b <= Len(sent') /\ \A i \in 1..b : sent'[i] = sent[i]
  BY DEF Kept, Runs
<1>2. QED
  BY <1>1, RunsKept DEF Kept

LEMMA KeepReader ==
  ASSUME ReaderSame, kind' = kind, Kept(Arrived), sent \in Seq(Bytes),
         InBuffer, ReadCall, ReadPlace
  PROVE  InBuffer' /\ ReadCall' /\ ReadPlace' /\ Arrived' = Arrived
<1>1. /\ Arrived' = Arrived /\ Consumed' = Consumed /\ taken' = taken /\ read' = read
      /\ mInIndex' = mInIndex /\ mInEnd' = mInEnd /\ mInBuffer' = mInBuffer
  BY DEF Arrived, Consumed, ReaderSame
<1>2. /\ Consumed \in Nat /\ Arrived \in Nat /\ taken \in Nat /\ mInIndex \in Nat /\ mInEnd \in Nat
      /\ Consumed <= Arrived /\ Arrived = Consumed + (mInEnd - mInIndex)
      /\ \A i \in 1..Arrived : sent'[i] = sent[i]
  BY DEF InBuffer, ReadCall, ReadTypes, Consumed, Arrived, Kept
<1>3. InBuffer'
  <2>1. ASSUME NEW i \in mInIndex + 1..mInEnd
        PROVE  mInBuffer[i] = sent'[Consumed + (i - mInIndex)]
    <3>1. mInBuffer[i] = sent[Consumed + (i - mInIndex)] /\ Consumed + (i - mInIndex) \in 1..Arrived
      BY <1>2 DEF InBuffer
    <3>2. QED
      BY <1>2, <3>1
  <2>2. QED
    BY <1>1, <2>1 DEF InBuffer, Kept
<1>4. ReadCall'
  <2>1. Runs(sent, read.s, taken, Consumed) => Runs(sent', read.s, taken, Consumed)
    BY <1>2, KeptRuns
  <2>2. \A j \in taken + 1..Consumed : sent'[j] = sent[j]
    BY <1>2
  <2>3. QED
    BY <1>1, <2>1, <2>2 DEF ReadCall
<1>5. ReadPlace'
  BY DEF ReadPlace, ReaderSame, Piped
<1>6. QED
  BY <1>1, <1>3, <1>4, <1>5

LEMMA KeepWriter ==
  ASSUME WriterSame, kind' = kind, OutBuffer, WriteCall, WritePlace, EndState
  PROVE  /\ OutBuffer' /\ WriteCall' /\ WritePlace' /\ EndState'
         /\ Given' = Given /\ Passed' = Passed /\ Ends' = Ends
<1>1. /\ Piped' = Piped /\ Stored' = Stored /\ Passed' = Passed /\ Given' = Given /\ Ends' = Ends
      /\ I!Filling' = I!Filling
  BY DEF Piped, Stored, Passed, Given, Ends, WriterSame, I!Filling
<1>2. OutBuffer'
  BY <1>1 DEF OutBuffer, WriterSame
<1>3. WriteCall'
  BY <1>1 DEF WriteCall, WriterSame, Runs
<1>4. I!Unflushed' = I!Unflushed
  BY <1>1 DEF I!Unflushed, WriterSame
<1>5. WritePlace'
  BY <1>1, <1>4 DEF WritePlace, WriterSame
<1>6. EndState'
  BY <1>1 DEF EndState, WriterSame
<1>7. QED
  BY <1>1, <1>2, <1>3, <1>5, <1>6

LEMMA KeepBetween ==
  ASSUME Between, Kept(Given), Given \in Nat, QueueSame, UNCHANGED <<kind, wire>>, item'[Reader] = item[Reader],
         at'[Reader] \in {"notify", "done"} => at[Reader] \in {"notify", "done"},
         Arrived' = Arrived, Given' = Given, state # "open" => state' # "open" /\ Passed' = Passed
  PROVE  Between'
<1>1. Piped' = Piped
  BY DEF Piped
<1>2. CASE Piped
  <2>1. PICK b \in [0..QueueSize -> 0..MaxBytes] : Chain(b)
    BY <1>2 DEF Between
  <2>2. \A i : Occupied(i)' <=> Occupied(i)
    BY DEF Occupied, QueueSame
  <2>3. Chain(b)'
    <3>1. /\ b \in [0..QueueSize -> 0..MaxBytes]
          /\ Runs(sent, item[Reader], Arrived, b[mRead])' /\ (b[mRead] <= Given /\ b[mWrite] = Given)'
      <4>1. Runs(sent', item[Reader], Arrived, b[mRead])
        BY <2>1, KeptRuns DEF Chain
      <4>2. QED
        BY <2>1, <4>1 DEF Chain, QueueSame
    <3>2. (at[Reader] \in {"notify", "done"} /\ item[Reader] = << >> => AtEnd(Arrived))'
      BY <2>1 DEF Chain, AtEnd
    <3>3. ASSUME NEW i \in 0..QueueSize, Occupied(i)'
          PROVE  /\ Runs(sent, slots[i], b[i], b[Q!R!After(i)])' /\ (b[Q!R!After(i)] <= Given)'
                 /\ (slots[i] = << >> => AtEnd(b[i]))'
      <4>1. /\ Runs(sent, slots[i], b[i], b[Q!R!After(i)]) /\ b[Q!R!After(i)] <= Given
            /\ slots[i] = << >> => AtEnd(b[i])
        BY <2>1, <2>2, <3>3 DEF Chain
      <4>2. Runs(sent', slots[i], b[i], b[Q!R!After(i)])
        BY <4>1, KeptRuns
      <4>3. QED
        BY <4>1, <4>2 DEF QueueSame, AtEnd
    <3>4. QED
      BY <3>1, <3>2, <3>3 DEF Chain
  <2>4. QED
    BY <1>1, <1>2, <2>1, <2>3 DEF Between
<1>3. CASE ~Piped
  <2>1. Runs(sent', wire, Arrived, Given)
    BY <1>3, KeptRuns DEF Between, Runs
  <2>2. QED
    BY <1>1, <1>3, <2>1 DEF Between
<1>4. QED
  BY <1>2, <1>3

LEMMA KeepNotified ==
  ASSUME Notified, QueueSame, mFutex' = mFutex, Given' = Given, Ends' >= Ends,
         Given \in Nat, Ends \in Nat, Ends' \in Nat, Q!TypeOK,
         \A p \in Procs : at'[p] = "notify" => at[p] = "notify"
  PROVE  Notified'
<1>1. /\ mFutex \in Nat /\ mRead \in Nat /\ mWrite \in Nat
  BY DEF Q!TypeOK, Q!R!TypeOK, Q!C!TypeOK
<1>2. /\ Pending(Writer) \in 0..1 /\ Pending(Writer)' \in 0..1 /\ Pending(Writer)' <= Pending(Writer)
      /\ Pending(Reader) \in 0..1 /\ Pending(Reader)' \in 0..1 /\ Pending(Reader)' <= Pending(Reader)
  BY Two DEF Pending
<1>3. Chunked' = Chunked /\ Chunked \in Int
  BY <1>1, Sizes DEF Chunked, QueueSame
<1>4. QED
  BY <1>1, <1>2, <1>3 DEF Notified

LEMMA KeepTypes ==
  ASSUME Q!TypeOK, slots' = slots, mRead' = mRead, mWrite' = mWrite, CondSame,
         at' \in [Procs -> Q!Places], item' \in [Procs -> Chunks]
  PROVE  Q!TypeOK'
<1>1. Q!R!TypeOK'
  BY DEF Q!TypeOK, Q!R!TypeOK
<1>2. Q!C!TypeOK'
  BY DEF Q!TypeOK, Q!C!TypeOK, CondSame
<1>3. QED
  BY <1>1, <1>2, Two DEF Q!TypeOK

LEMMA KeepRest == ASSUME Rest, RestSame PROVE Rest'
  BY DEF Rest, RestSame

(* How far the bytes have come.                                            *)
LEMMA Limits ==
  ASSUME StreamInv
  PROVE  /\ Consumed \in Nat /\ Arrived \in Nat /\ Given \in Nat /\ Passed \in Nat /\ Len(sent) \in Nat
         /\ Consumed <= Arrived /\ Arrived <= Given /\ Passed <= Given /\ Given <= Len(sent)
         /\ Len(sent) <= MaxBytes /\ Ends \in 0..2
<1>1. /\ Passed \in Nat /\ Len(sent) \in Nat /\ I!Filling \in Nat /\ Len(sent) = Passed + I!Filling
      /\ Len(I!Unflushed) = I!Filling /\ Len(sent) <= MaxBytes
  BY UnflushedRuns DEF StreamInv, OutBuffer
<1>2. Consumed \in Nat /\ Arrived \in Nat /\ Arrived = Consumed + Len(I!peekbuf) /\ Len(I!peekbuf) \in Nat
  <2>1. InBuffer /\ sent \in Seq(Bytes) /\ read.k \in Nat
    BY DEF StreamInv, ReadCall, ReadTypes, OutBuffer
  <2>2. QED
    BY <2>1, Peeked DEF Runs
<1>3. Ends \in 0..2
  BY DEF Ends
<1>4. CASE Piped
  <2>1. PICK b \in [0..QueueSize -> 0..MaxBytes] : Chain(b)
    BY <1>4 DEF StreamInv, Between
  <2>2. PICK e \in Nat : Arrived <= e /\ e <= Given
    <3>1. PICK e : e = b[mRead]
      OBVIOUS
    <3>2. e = Arrived + Len(item[Reader]) /\ Len(item[Reader]) \in Nat /\ e \in Nat /\ e <= Given
      BY <2>1, <3>1 DEF Chain, Runs
    <3>5. e = Arrived + Len(item[Reader]) /\ Len(item[Reader]) \in Nat /\ Arrived \in Nat
      BY <1>2, <3>2
    <3>3. Arrived <= e
      BY <3>5
    <3>4. QED
      BY <3>2, <3>3
  <2>3. Given \in Nat /\ Passed <= Given /\ Given <= Len(sent)
    <3>1. CASE write.pc = "raw" /\ Stored
      <4>1. Len(item[Writer]) = I!Filling
        BY <1>1, <1>4, <3>1 DEF StreamInv, WritePlace
      <4>2. QED
        BY <1>1, <1>4, <3>1, <4>1 DEF Given
    <3>2. CASE write.pc # "raw" /\ Stored
      <4>1. Len(item[Writer]) = 0
        BY <1>1, <1>4, <3>2 DEF StreamInv, WritePlace
      <4>2. QED
        BY <1>1, <1>4, <3>2, <4>1 DEF Given
    <3>3. CASE ~Stored
      BY <1>1, <1>4, <3>3 DEF Given
    <3>4. QED
      BY <3>1, <3>2, <3>3
  <2>4. Arrived <= Given
    BY <1>2, <2>2, <2>3
  <2>5. QED
    BY <1>1, <1>2, <1>3, <2>3, <2>4
<1>5. CASE ~Piped
  <2>1. Runs(sent, wire, Arrived, Given)
    BY <1>5 DEF StreamInv, Between
  <2>2. Arrived <= Given /\ Given \in Nat
    BY <1>2, <2>1 DEF Runs
  <2>3. CASE write.pc = "raw"
    <3>1. Runs(sent, write.buf, Given, Len(sent)) /\ Passed <= Given
      BY <1>5, <2>3 DEF StreamInv, WriteCall
    <3>2. Given <= Len(sent)
      BY <1>1, <2>2, <3>1 DEF Runs
    <3>3. QED
      BY <1>1, <1>2, <1>3, <2>2, <3>1, <3>2
  <2>4. CASE write.pc # "raw"
    <3>1. Given = Passed
      BY <1>5, <2>4 DEF Given
    <3>2. QED
      BY <1>1, <1>2, <1>3, <2>2, <3>1
  <2>5. QED
    BY <2>3, <2>4
<1>6. QED
  BY <1>4, <1>5

LEMMA KeptSame ==
  ASSUME StreamInv, sent' = sent
  PROVE  Kept(Given) /\ Kept(Arrived) /\ Given \in Nat
<1>1. sent \in Seq(Bytes) /\ Given \in Nat /\ Arrived \in Nat /\ Given <= Len(sent) /\ Arrived <= Given
  BY Limits DEF StreamInv, OutBuffer
<1>2. Arrived <= Len(sent)
  BY <1>1
<1>3. QED
  BY <1>1, <1>2 DEF Kept

(* A step of the reader on its own stream.                                 *)
LEMMA ReaderOnly ==
  ASSUME StreamInv, WriterSame, RestSame, QueueSame, CondSame, item' = item,
         at' \in [Procs -> Q!Places], ~Has(Reader)', at'[Reader] # "notify",
         Arrived' = Arrived, InBuffer', ReadCall', ReadPlace'
  PROVE  StreamInv'
<1>1. kind' = kind /\ wire' = wire
  BY DEF RestSame
<1>2. /\ OutBuffer' /\ WriteCall' /\ WritePlace' /\ EndState'
      /\ Given' = Given /\ Passed' = Passed /\ Ends' = Ends
  BY <1>1, KeepWriter DEF StreamInv
<1>3. Between'
  <2>1. ~(at'[Reader] \in {"notify", "done"})
    BY DEF Has
  <2>2. state' = state /\ Kept(Given) /\ Given \in Nat
    BY KeptSame DEF WriterSame
  <2>3. QED
    BY <1>1, <1>2, <2>1, <2>2, KeepBetween DEF StreamInv
<1>4. Given \in Nat /\ Ends \in Nat /\ Ends' \in Nat /\ Ends' >= Ends
  BY <1>2, Limits
<1>5. \A p \in Procs : at'[p] = "notify" => at[p] = "notify"
  BY Two DEF WriterSame
<1>6. Notified' /\ Q!TypeOK'
  <2>1. item' \in [Procs -> Chunks] /\ slots' = slots /\ mRead' = mRead /\ mWrite' = mWrite
    BY Two DEF StreamInv, Q!TypeOK, QueueSame
  <2>2. mFutex' = mFutex
    BY DEF CondSame
  <2>3. QED
    BY <1>2, <1>4, <1>5, <2>1, <2>2, KeepNotified, KeepTypes DEF StreamInv
<1>7. Rest'
  BY KeepRest DEF StreamInv
<1>8. QED
  BY <1>2, <1>3, <1>6, <1>7 DEF StreamInv
------------------------------------------------------------------------------
(* The reader's turns.                                                     *)

(* What is to be read.                                                     *)
LEMMA UnreadRuns ==
  ASSUME StreamInv
  PROVE  /\ Runs(sent, Abstract!Unread, taken, Len(sent)) /\ Len(Abstract!Unread) = Len(sent) - taken
         /\ taken \in Nat /\ taken <= Consumed /\ Len(sent) \in Nat /\ Consumed <= Len(sent)
         /\ read.k \in Nat /\ Consumed = taken + read.k
<1>1. taken \in Nat /\ read.k \in Nat /\ sent \in Seq(Bytes)
  BY DEF StreamInv, InBuffer, ReadCall, ReadTypes, OutBuffer
<1>2. Consumed \in Nat /\ Consumed <= Len(sent) /\ Len(sent) \in Nat
  <2>1. /\ Consumed \in Nat /\ Arrived \in Nat /\ Given \in Nat /\ Len(sent) \in Nat
        /\ Consumed <= Arrived /\ Arrived <= Given /\ Given <= Len(sent)
    BY Limits
  <2>2. QED
    BY <2>1
<1>3. taken <= Consumed /\ Consumed = taken + read.k
  BY <1>1 DEF Consumed
<1>4. taken <= Len(sent)
  BY <1>1, <1>2, <1>3
<1>5. taken \in 0..Len(sent) /\ 0 + taken = taken
  BY <1>1, <1>2, <1>4
<1>6. /\ Runs(sent, SubSeq(sent, taken + 1, Len(sent)), 0 + taken, Len(sent))
      /\ Len(SubSeq(sent, taken + 1, Len(sent))) = Len(sent) - taken
  <2>1. Runs(sent, sent, 0, Len(sent))
    BY <1>1, <1>2 DEF Runs
  <2>2. QED
    BY <1>5, <2>1, RunsFirst
<1>7. QED
  BY <1>1, <1>2, <1>3, <1>5, <1>6 DEF Abstract!Unread

LEMMA UnreadFirst ==
  ASSUME StreamInv, NEW n \in Nat, taken + n <= Len(sent)
  PROVE  /\ n <= Len(Abstract!Unread)
         /\ \A s : Runs(sent, s, taken, taken + n) => s = SubSeq(Abstract!Unread, 1, n)
         /\ \A i \in 1..n : Abstract!Unread[i] = sent[taken + i]
<1>1. /\ Runs(sent, Abstract!Unread, taken, Len(sent)) /\ Len(Abstract!Unread) = Len(sent) - taken
      /\ taken \in Nat /\ Len(sent) \in Nat
  BY UnreadRuns
<1>2. n <= Len(Abstract!Unread) /\ n \in 0..Len(Abstract!Unread)
  BY <1>1
<1>3. Runs(sent, SubSeq(Abstract!Unread, 1, n), taken, taken + n)
  BY <1>1, <1>2, RunsFirst
<1>4. \A s : Runs(sent, s, taken, taken + n) => s = SubSeq(Abstract!Unread, 1, n)
  BY <1>3, RunsSame
<1>5. \A i \in 1..n : Abstract!Unread[i] = sent[taken + i]
  BY <1>1, <1>2 DEF Runs
<1>6. QED
  BY <1>2, <1>4, <1>5

Asking(r, l, t, c) == [r EXCEPT !.pc = "raw", !.left = l, !.s = t, !.k = c]

LEMMA AskFields ==
  ASSUME NEW r \in ReadTypes, NEW l \in 0..MaxTake, NEW t \in Seq(Bytes), NEW c \in Nat
  PROVE  /\ Asking(r, l, t, c) \in ReadTypes /\ Asking(r, l, t, c).op = r.op
         /\ Asking(r, l, t, c).pc = "raw" /\ Asking(r, l, t, c).n = r.n
         /\ Asking(r, l, t, c).left = l /\ Asking(r, l, t, c).s = t
         /\ Asking(r, l, t, c).k = c
  BY DEF ReadTypes, Asking

LEMMA NoReadFacts ==
  /\ NoRead \in ReadTypes /\ NoRead.op = "idle" /\ NoRead.pc = "turn" /\ NoRead.k = 0
  /\ NoRead.s = << >>
  /\ [NoRead EXCEPT !.op = "gone"] \in ReadTypes /\ [NoRead EXCEPT !.op = "gone"].op = "gone"
  /\ [NoRead EXCEPT !.op = "gone"].pc = "turn" /\ [NoRead EXCEPT !.op = "gone"].k = 0
  /\ [NoRead EXCEPT !.op = "gone"].s = << >>
<1>1. << >> \in Seq(Bytes) /\ 0 \in 0..MaxTake
  BY Sizes
<1>2. QED
  BY <1>1 DEF NoRead, ReadTypes, Reads

Starting(o, n) == [NoRead EXCEPT !.op = o, !.n = n, !.left = n]

LEMMA StartFields ==
  ASSUME NEW o \in Reads, NEW n \in 0..MaxTake
  PROVE  /\ Starting(o, n) \in ReadTypes /\ Starting(o, n).op = o /\ Starting(o, n).pc = "turn"
         /\ Starting(o, n).n = n /\ Starting(o, n).left = n
         /\ Starting(o, n).s = << >> /\ Starting(o, n).k = 0
<1>1. << >> \in Seq(Bytes) /\ 0 \in 0..MaxTake
  BY Sizes
<1>2. QED
  BY <1>1 DEF Starting, NoRead, ReadTypes

(* What the reader's step leaves to the writer.                            *)
Elsewhere == /\ UNCHANGED <<mOutBuffer, mOutIndex, write, sent, state>>
             /\ RestSame /\ QueueSame /\ CondSame /\ item' = item

LEMMA StartReadStep ==
  ASSUME StreamInv, NEW o \in Reads, NEW n \in 0..MaxTake, StartRead(o, n),
         o \notin {"getn", "dropn"} => n = 0, Elsewhere
  PROVE  StreamInv' /\ Abstract!Start
<1>1. /\ read = NoRead /\ read' = [NoRead EXCEPT !.op = o, !.n = n, !.left = n]
      /\ last' = NoResult /\ at' = at /\ UNCHANGED <<mInBuffer, mInIndex, mInEnd, taken>>
  BY DEF StartRead, inVars, queueVars
<1>2. /\ read'.op = o /\ read'.pc = "turn" /\ read'.n = n /\ read'.left = n /\ read'.s = << >>
      /\ read'.k = 0 /\ read' \in ReadTypes
  <2>1. read' = Starting(o, n)
    BY <1>1 DEF Starting
  <2>2. QED
    BY <2>1, StartFields
<1>3. read.k = 0 /\ read.pc = "turn"
  BY <1>1, NoReadFacts
<1>4. Consumed' = Consumed /\ Arrived' = Arrived /\ Consumed = taken /\ taken \in Nat
  BY <1>1, <1>2, <1>3 DEF Consumed, Arrived, StreamInv, InBuffer
<1>0. sent' = sent
  BY DEF Elsewhere
<1>5. InBuffer'
  BY <1>0, <1>1, <1>4 DEF StreamInv, InBuffer
<1>6. ReadCall'
  <2>1. Runs(sent, << >>, taken, Consumed)
    <3>1. sent \in Seq(Bytes) /\ taken \in 0..Len(sent)
      BY <1>4, UnreadRuns DEF StreamInv, OutBuffer
    <3>2. QED
      BY <1>4, <3>1, RunsEmpty
  <2>2. Runs(sent, << >>, taken, Consumed)'
    BY <1>0, <1>1, <1>4, <2>1
  <2>3. \A j \in (taken + 1..Consumed)' : FALSE
    BY <1>1, <1>4
  <2>4. read'.op \in {"getn", "dropn"} => read'.k + read'.left = read'.n
    BY <1>2
  <2>5. read'.op \in {"getline", "dropline", "getall", "dropall"} => read'.n = 0
    BY <1>2
  <2>6. read'.op \notin {"idle", "gone"} /\ read'.pc # "raw"
    BY <1>2 DEF Reads
  <2>7. QED
    BY <1>2, <2>2, <2>3, <2>4, <2>5, <2>6 DEF ReadCall
<1>7. ReadPlace'
  BY <1>1, <1>2, <1>3 DEF ReadPlace, StreamInv, Piped, Elsewhere
<1>8. at \in [Procs -> Q!Places] /\ at[Reader] = "out"
  BY <1>3, Two DEF StreamInv, Q!TypeOK, ReadPlace
<1>9. WriterSame /\ ~Has(Reader)' /\ at'[Reader] # "notify"
  BY <1>1, <1>8 DEF WriterSame, Elsewhere, Has
<1>10. StreamInv'
  BY <1>1, <1>4, <1>5, <1>6, <1>7, <1>8, <1>9, ReaderOnly DEF Elsewhere
<1>11. Abstract!Start
  BY <1>1 DEF Abstract!Start, StartRead, NoResult, Abstract!NoResult
<1>12. QED
  BY <1>10, <1>11

LEMMA NoEol ==
  ASSUME I!EolAt = {}, Len(I!peekbuf) \in Nat
  PROVE  \A i \in 1..Len(I!peekbuf) : I!peekbuf[i] \notin Eol
<1> SUFFICES ASSUME NEW i \in 1..Len(I!peekbuf), I!peekbuf[i] \in Eol PROVE FALSE
  OBVIOUS
<1> DEFINE S == {j \in 1..Len(I!peekbuf) : I!peekbuf[j] \in Eol}
<1>1. S \subseteq Nat /\ S # {}
  OBVIOUS
<1> HIDE DEF S
<1>2. PICK x \in S : \A y \in S : x <= y
  BY <1>1, Least
<1>3. x \in 1..Len(I!peekbuf) /\ I!peekbuf[x] \in Eol
  BY <1>2 DEF S
<1>4. ASSUME NEW j \in 1..x - 1, I!peekbuf[j] \in Eol PROVE FALSE
  <2>1. j \in 1..Len(I!peekbuf) /\ j < x
    BY <1>3
  <2>2. j \in S
    BY <1>4, <2>1 DEF S
  <2>3. x <= j
    BY <1>2, <2>2
  <2>4. QED
    BY <1>3, <2>1, <2>3
<1>5. x \in I!EolAt
  BY <1>3, <1>4 DEF I!EolAt
<1>6. QED
  BY <1>5

(* What the bytes are that a turn takes.                                   *)
LEMMA PeekBytes ==
  ASSUME StreamInv
  PROVE  /\ Runs(sent, I!peekbuf, Consumed, Arrived) /\ Len(I!peekbuf) = mInEnd - mInIndex
         /\ Len(I!peekbuf) \in Nat /\ Arrived = Consumed + Len(I!peekbuf)
         /\ Consumed \in Nat /\ Arrived \in Nat /\ I!peekbuf \in Seq(Bytes)
         /\ Arrived <= Len(sent) /\ Len(sent) <= MaxBytes
         /\ \A i \in 1..Len(I!peekbuf) : I!peekbuf[i] = sent[Consumed + i]
<1>1. InBuffer /\ read.k \in Nat /\ sent \in Seq(Bytes)
  BY DEF StreamInv, ReadCall, ReadTypes, OutBuffer
<1>2. /\ Runs(sent, I!peekbuf, Consumed, Arrived) /\ Len(I!peekbuf) = mInEnd - mInIndex
      /\ Consumed \in Nat /\ Arrived \in Nat /\ Arrived = Consumed + Len(I!peekbuf)
  BY <1>1, Peeked
<1>3. Len(I!peekbuf) \in Nat /\ \A i \in 1..Len(I!peekbuf) : I!peekbuf[i] = sent[Consumed + i]
  BY <1>2 DEF Runs
<1>4. Arrived <= Len(sent) /\ Len(sent) <= MaxBytes /\ Len(sent) \in Nat
  <2>1. /\ Arrived <= Given /\ Given <= Len(sent) /\ Given \in Nat /\ Len(sent) \in Nat
        /\ Len(sent) <= MaxBytes
    BY Limits
  <2>2. QED
    BY <1>2, <2>1
<1>5. I!peekbuf \in Seq(Bytes)
  <2>1. Arrived <= MaxBytes
    BY <1>2, <1>4, Sizes
  <2>2. QED
    BY <1>2, <2>1, RunsBytes
<1>6. QED
  BY <1>2, <1>3, <1>4, <1>5

(* A turn takes all there is and asks for more.                            *)
LEMMA AskStep ==
  ASSUME StreamInv, read.pc = "turn", read.op \in Reads, Elsewhere \/ (Piped /\ Q!pop(Reader)),
         NEW l \in 0..MaxTake, NEW s, Ask(l, s),
         UNCHANGED <<mOutBuffer, mOutIndex, write, sent, state>>, RestSame,
         s = IF read.op \in Gets THEN I!peekbuf ELSE << >>,
         read.op \in {"getn", "dropn"} => l = read.left - Len(I!peekbuf),
         read.op \in {"getline", "dropline"} => I!EolAt = {}
  PROVE  StreamInv' /\ UNCHANGED <<sent, taken, last, state>>
<1> DEFINE c == read.k + Len(I!peekbuf)
           t == read.s \o s
<1>1. /\ mInIndex' = 0 /\ mInEnd' = 0 /\ mInBuffer' = I!Blank
      /\ read' = Asking(read, l, t, c) /\ UNCHANGED <<sent, taken, last, state>>
  BY DEF Ask, I!More, Asking, history
<1>2. /\ Runs(sent, I!peekbuf, Consumed, Arrived) /\ Len(I!peekbuf) \in Nat /\ I!peekbuf \in Seq(Bytes)
      /\ Consumed \in Nat /\ Arrived \in Nat /\ Arrived = Consumed + Len(I!peekbuf)
      /\ \A i \in 1..Len(I!peekbuf) : I!peekbuf[i] = sent[Consumed + i]
      /\ Arrived <= Len(sent)
  BY PeekBytes
<1>3. /\ read \in ReadTypes /\ read.k \in Nat /\ read.s \in Seq(Bytes) /\ taken \in Nat
      /\ Consumed = taken + read.k /\ read.left \in Nat /\ read.n \in Nat
  BY Sizes DEF StreamInv, ReadCall, ReadTypes, InBuffer, Consumed
<1>4. c \in Nat /\ t \in Seq(Bytes)
  BY <1>2, <1>3
<1> HIDE DEF c, t
<1>5. /\ read' \in ReadTypes /\ read'.op = read.op /\ read'.pc = "raw" /\ read'.n = read.n
      /\ read'.left = l /\ read'.s = t /\ read'.k = c
  <2>1. read' = Asking(read, l, t, c)
    BY <1>1
  <2>2. /\ Asking(read, l, t, c) \in ReadTypes /\ Asking(read, l, t, c).op = read.op
        /\ Asking(read, l, t, c).pc = "raw" /\ Asking(read, l, t, c).n = read.n
        /\ Asking(read, l, t, c).left = l /\ Asking(read, l, t, c).s = t
        /\ Asking(read, l, t, c).k = c
    <3>1. read \in ReadTypes /\ l \in 0..MaxTake /\ t \in Seq(Bytes) /\ c \in Nat
      BY <1>3, <1>4
    <3>2. QED
      BY <3>1, AskFields
  <2>3. QED
    BY <2>1, <2>2
<1>6. Consumed' = Arrived /\ Arrived' = Arrived
  <2>1. Consumed' = taken + c
    BY <1>1, <1>5 DEF Consumed
  <2>2. taken + c = Arrived
    BY <1>2, <1>3 DEF c
  <2>3. Arrived' = Consumed' + 0
    BY <1>1 DEF Arrived
  <2>4. QED
    BY <1>2, <2>1, <2>2, <2>3
<1>7. InBuffer'
  <2>1. mInBuffer' \in I!Buffers /\ Len(mInBuffer') = BufSize /\ taken' \in Nat
    BY <1>1, <1>3, BlankFacts
  <2>2. mInIndex' \in 0..mInEnd' /\ mInEnd' \in 0..Len(mInBuffer')
    BY <1>1, <2>1, Sizes
  <2>3. \A i \in mInIndex' + 1..mInEnd' : FALSE
    BY <1>1
  <2>4. Arrived' <= Len(sent')
    BY <1>1, <1>2, <1>6
  <2>5. QED
    BY <2>1, <2>2, <2>3, <2>4 DEF InBuffer
<1>8. ReadCall'
  <2>1. read'.op \notin {"idle", "gone"}
    BY <1>5 DEF Reads
  <2>2. read'.op \in {"getn", "dropn"} => read'.k + read'.left = read'.n
    <3>1. ASSUME read.op \in {"getn", "dropn"} PROVE c + l = read.n
      <4>1. read.k + read.left = read.n /\ l = read.left - Len(I!peekbuf)
        BY <3>1 DEF StreamInv, ReadCall
      <4>2. QED
        BY <1>2, <1>3, <4>1 DEF c
    <3>2. QED
      BY <1>5, <3>1
  <2>3. read'.op \in {"getline", "dropline", "getall", "dropall"} => read'.n = 0
    BY <1>5 DEF StreamInv, ReadCall
  <2>4. IF read'.op \in Gets THEN Runs(sent, read.s, taken, Consumed)' ELSE read'.s = << >>
    <3>1. CASE read.op \in Gets
      <4>1. Runs(sent, read.s, taken, Consumed) /\ s = I!peekbuf
        BY <3>1 DEF StreamInv, ReadCall
      <4>2. Runs(sent, t, taken, Arrived)
        BY <1>2, <4>1, RunsConcat DEF t
      <4>3. QED
        BY <1>1, <1>5, <1>6, <3>1, <4>2
    <3>2. CASE read.op \notin Gets
      <4>1. read.s = << >> /\ s = << >>
        BY <3>2 DEF StreamInv, ReadCall
      <4>2. t = << >>
        BY <4>1 DEF t
      <4>3. QED
        BY <1>5, <3>2, <4>2
    <3>3. QED
      BY <3>1, <3>2
  <2>5. ASSUME read'.op \in {"getline", "dropline"}, NEW j \in taken + 1..Arrived PROVE sent[j] \notin Eol
    <3>1. read.op \in {"getline", "dropline"}
      BY <1>5, <2>5
    <3>2. CASE j <= Consumed
      <4>1. j \in taken + 1..Consumed
        BY <1>2, <1>3, <3>2
      <4>2. QED
        BY <3>1, <4>1 DEF StreamInv, ReadCall
    <3>3. CASE ~(j <= Consumed)
      <4>1. j - Consumed \in 1..Len(I!peekbuf) /\ Consumed + (j - Consumed) = j
        <5>1. /\ Len(I!peekbuf) \in Nat /\ Consumed \in Nat /\ Arrived = Consumed + Len(I!peekbuf)
              /\ j \in Nat /\ j <= Arrived
          BY <1>2, <1>3
        <5>2. QED
          BY <3>3, <5>1
      <4>2. I!peekbuf[j - Consumed] = sent[j]
        BY <1>2, <4>1
      <4>3. I!peekbuf[j - Consumed] \notin Eol
        BY <1>2, <3>1, <4>1, NoEol
      <4>4. QED
        BY <4>2, <4>3
    <3>4. QED
      BY <3>2, <3>3
  <2>6. read'.op \in Reads /\ mInEnd' = 0 /\ Len(mInBuffer') = BufSize
    BY <1>1, <1>5, BlankFacts
  <2>7. (read.op \in {"getline", "dropline"} => \A j \in taken + 1..Consumed : sent[j] \notin Eol)'
    BY <1>1, <1>6, <2>5
  <2>8. QED
    BY <1>5, <2>1, <2>2, <2>3, <2>4, <2>6, <2>7 DEF ReadCall
<1>9. at[Reader] = "out" /\ at \in [Procs -> Q!Places] /\ item[Reader] = << >>
  BY Two DEF StreamInv, ReadPlace, Q!TypeOK
<1>10. /\ at' = IF Piped THEN [at EXCEPT ![Reader] = "lock"] ELSE at
       /\ QueueSame /\ CondSame /\ item' = item
  BY DEF Ask, Q!pop, Q!Goto, Q!queueVars, Q!condVars, queueVars, QueueSame, CondSame
<1>11. /\ at' \in [Procs -> Q!Places] /\ at'[Writer] = at[Writer]
       /\ at'[Reader] = IF Piped THEN "lock" ELSE "out"
  BY <1>9, <1>10, Two DEF Q!Places
<1>12. ReadPlace'
  <2>1. Piped' = Piped
    BY DEF Piped, RestSame
  <2>2. QED
    BY <1>5, <1>9, <1>10, <1>11, <2>1 DEF ReadPlace, Waiting
<1>13. WriterSame /\ ~Has(Reader)' /\ at'[Reader] # "notify"
  BY <1>10, <1>11 DEF WriterSame, Has
<1>14. StreamInv'
  BY <1>6, <1>7, <1>8, <1>10, <1>11, <1>12, <1>13, ReaderOnly
<1>15. QED
  BY <1>1, <1>14

(* A read ends having taken i more bytes from the buffer.                  *)
LEMMA TakeStep ==
  ASSUME StreamInv, read.pc = "turn", NEW i \in 0..Len(I!peekbuf), mInIndex' = mInIndex + i,
         UNCHANGED <<mInBuffer, mInEnd>>, read' = NoRead, taken' = taken + read.k + i,
         at' = at, Elsewhere
  PROVE  StreamInv'
<1>1. /\ Len(I!peekbuf) = mInEnd - mInIndex /\ Consumed \in Nat /\ Len(I!peekbuf) \in Nat
  BY PeekBytes
<1>2. /\ read.k \in Nat /\ taken \in Nat /\ Consumed = taken + read.k
      /\ mInIndex \in Nat /\ mInEnd \in Nat /\ mInIndex <= mInEnd /\ mInEnd <= Len(mInBuffer)
      /\ mInBuffer \in I!Buffers
  <2>1. mInBuffer \in I!Buffers /\ Len(mInBuffer) \in Nat
    BY BufferFacts DEF StreamInv, InBuffer
  <2>2. QED
    BY <2>1 DEF StreamInv, ReadCall, ReadTypes, InBuffer, Consumed
<1>3. i \in Nat /\ mInIndex + i <= mInEnd
  BY <1>1, <1>2
<1>4. Consumed' = Consumed + i /\ Arrived' = Arrived
  <2>1. read'.k = 0 /\ taken' \in Nat
    BY <1>2, <1>3, NoReadFacts
  <2>2. Consumed' = taken'
    BY <2>1 DEF Consumed
  <2>3. Consumed' = Consumed + i
    BY <1>2, <1>3, <2>2
  <2>4. Arrived' = (Consumed + i) + (mInEnd - (mInIndex + i))
    BY <2>3 DEF Arrived
  <2>5. Arrived = Consumed + (mInEnd - mInIndex)
    BY DEF Arrived
  <2>6. PICK c \in Nat, m \in Nat, e \in Nat : c = Consumed /\ m = mInIndex /\ e = mInEnd
    BY <1>1, <1>2
  <2>7. (c + i) + (e - (m + i)) = c + (e - m)
    BY <1>3
  <2>8. Arrived' = Arrived
    BY <2>4, <2>5, <2>6, <2>7
  <2>9. QED
    BY <2>3, <2>8
<1>5. InBuffer'
  <2>1. mInIndex' \in 0..mInEnd' /\ mInEnd' \in 0..Len(mInBuffer') /\ taken' \in Nat
    BY <1>2, <1>3 DEF StreamInv, InBuffer
  <2>2. ASSUME NEW j \in mInIndex + i + 1..mInEnd
        PROVE  mInBuffer[j] = sent[(Consumed + i) + (j - (mInIndex + i))]
    <3>1. j \in mInIndex + 1..mInEnd
      BY <1>2, <1>3
    <3>2. mInBuffer[j] = sent[Consumed + (j - mInIndex)]
      BY <3>1 DEF StreamInv, InBuffer
    <3>3. (Consumed + i) + (j - (mInIndex + i)) = Consumed + (j - mInIndex)
      BY <1>1, <1>2, <1>3, <3>1
    <3>4. QED
      BY <3>2, <3>3
  <2>3. (\A j \in mInIndex + 1..mInEnd : mInBuffer[j] = sent[Consumed + (j - mInIndex)])'
    BY <1>4, <2>2 DEF Elsewhere
  <2>4. (Arrived <= Len(sent))'
    BY <1>4 DEF StreamInv, InBuffer, Elsewhere
  <2>5. QED
    BY <1>2, <2>1, <2>3, <2>4 DEF InBuffer
<1>6. ReadCall'
  BY NoReadFacts DEF ReadCall, Gets, Reads
<1>7. at[Reader] = "out" /\ at \in [Procs -> Q!Places]
  BY Two DEF StreamInv, ReadPlace, Q!TypeOK
<1>8. ReadPlace'
  BY <1>7, NoReadFacts DEF ReadPlace, StreamInv, Elsewhere
<1>9. WriterSame /\ ~Has(Reader)' /\ at'[Reader] # "notify"
  BY <1>7 DEF WriterSame, Elsewhere, Has
<1>10. QED
  BY <1>4, <1>5, <1>6, <1>7, <1>8, <1>9, ReaderOnly DEF Elsewhere

LEMMA FoundStep ==
  ASSUME StreamInv, read.pc = "turn", NEW i \in 0..Len(I!peekbuf), NEW s, Found(i, s), Elsewhere
  PROVE  /\ StreamInv' /\ taken' = taken + (read.k + i) /\ UNCHANGED <<sent, state>>
         /\ last' = [op |-> read.op, n |-> read.n, s |-> read.s \o s]
         /\ taken + (read.k + i) = Consumed + i /\ taken + (read.k + i) <= Len(sent)
         /\ read.k + i \in Nat /\ read.k \in Nat /\ taken \in Nat /\ Consumed = taken + read.k
<1>1. /\ mInIndex' = mInIndex + i /\ UNCHANGED <<mInBuffer, mInEnd>> /\ read' = NoRead
      /\ taken' = taken + (read.k + i) /\ UNCHANGED <<sent, state>> /\ at' = at
      /\ last' = [op |-> read.op, n |-> read.n, s |-> read.s \o s]
  BY DEF Found, I!Done, I!seenbuf, ReadEnds, queueVars
<1>2. /\ Len(I!peekbuf) \in Nat /\ Arrived = Consumed + Len(I!peekbuf) /\ Consumed \in Nat
      /\ Arrived <= Len(sent)
  BY PeekBytes
<1>3. taken \in Nat /\ read.k \in Nat /\ Consumed = taken + read.k /\ Len(sent) \in Nat
  BY UnreadRuns
<1>4. taken + (read.k + i) = taken + read.k + i /\ read.k + i \in Nat
  <2>1. PICK t \in Nat, k \in Nat : t = taken /\ k = read.k
    BY <1>3
  <2>2. i \in Nat
    BY <1>2
  <2>3. t + (k + i) = t + k + i /\ k + i \in Nat
    BY <2>2
  <2>4. QED
    BY <2>1, <2>3
<1>5. taken + (read.k + i) = Consumed + i
  BY <1>2, <1>3
<1>6. Consumed + i <= Len(sent)
  BY <1>2, <1>3
<1>7. StreamInv'
  BY <1>1, <1>4, TakeStep
<1>8. QED
  BY <1>1, <1>3, <1>4, <1>5, <1>6, <1>7

LEMMA GetNStep ==
  ASSUME StreamInv, read.pc = "turn", read.op \in {"getn", "dropn"}, Available, NEW s,
         Found(read.left, s), Elsewhere,
         s = IF read.op = "getn" THEN SubSeq(I!peekbuf, 1, read.left) ELSE << >>
  PROVE  StreamInv' /\ \E n \in 0..MaxTake : Abstract!GetN(n)
<1>1. /\ Len(I!peekbuf) = mInEnd - mInIndex /\ Runs(sent, I!peekbuf, Consumed, Arrived)
      /\ Len(I!peekbuf) \in Nat /\ Consumed \in Nat
  BY PeekBytes
<1>2. /\ read.left \in Nat /\ read.n \in 0..MaxTake /\ read.k + read.left = read.n
      /\ mInIndex \in Nat /\ mInEnd \in Nat
  <2>1. Len(mInBuffer) \in Nat
    BY BufferFacts DEF StreamInv, InBuffer
  <2>2. QED
    BY <2>1, Sizes DEF StreamInv, ReadCall, ReadTypes, InBuffer
<1>3. read.left \in 0..Len(I!peekbuf)
  BY <1>1, <1>2 DEF Available
<1> DEFINE n == read.n
<1>4. /\ StreamInv' /\ taken' = taken + (read.k + read.left) /\ UNCHANGED <<sent, state>>
      /\ last' = [op |-> read.op, n |-> read.n, s |-> read.s \o s]
      /\ taken + (read.k + read.left) = Consumed + read.left
      /\ taken + (read.k + read.left) <= Len(sent)
      /\ read.k \in Nat /\ taken \in Nat /\ Consumed = taken + read.k
  BY <1>3, FoundStep
<1>5. n \in Nat /\ taken + n <= Len(sent) /\ taken' = taken + n /\ Consumed + read.left = taken + n
  BY <1>2, <1>4, Sizes
<1> HIDE DEF n
<1>6. n <= Len(Abstract!Unread)
  BY <1>5, UnreadFirst
<1>7. CASE read.op = "getn"
  <2>1. Runs(sent, read.s, taken, Consumed)
    BY <1>7 DEF StreamInv, ReadCall, Gets
  <2>2. Runs(sent, s, Consumed, taken + n)
    BY <1>1, <1>3, <1>5, <1>7, RunsFirst
  <2>3. Runs(sent, read.s \o s, taken, taken + n)
    BY <2>1, <2>2, RunsConcat
  <2>4. read.s \o s = SubSeq(Abstract!Unread, 1, n)
    BY <1>5, <2>3, UnreadFirst
  <2>5. Abstract!Read("getn", n, n, SubSeq(Abstract!Unread, 1, n))
    BY <1>4, <1>5, <1>6, <1>7, <2>4 DEF Abstract!Read, n
  <2>6. QED
    BY <1>2, <1>4, <2>5 DEF Abstract!GetN, n
<1>8. CASE read.op = "dropn"
  <2>1. read.s = << >> /\ s = << >>
    BY <1>8 DEF StreamInv, ReadCall, Gets
  <2>2. read.s \o s = << >>
    BY <2>1
  <2>3. Abstract!Read("dropn", n, n, << >>)
    BY <1>4, <1>5, <1>6, <1>8, <2>2 DEF Abstract!Read, n
  <2>4. QED
    BY <1>2, <1>4, <2>3 DEF Abstract!GetN, n
<1>9. QED
  BY <1>7, <1>8

LEMMA GetLineStep ==
  ASSUME StreamInv, read.pc = "turn", read.op \in {"getline", "dropline"}, NEW i \in I!EolAt,
         NEW s, Found(i, s), Elsewhere,
         s = IF read.op = "getline" THEN SubSeq(I!peekbuf, 1, i - 1) ELSE << >>
  PROVE  StreamInv' /\ Abstract!GetLine
<1>1. /\ Runs(sent, I!peekbuf, Consumed, Arrived) /\ Len(I!peekbuf) \in Nat /\ Consumed \in Nat
      /\ \A j \in 1..Len(I!peekbuf) : I!peekbuf[j] = sent[Consumed + j]
  BY PeekBytes
<1>2. /\ i \in 1..Len(I!peekbuf) /\ I!peekbuf[i] \in Eol
      /\ \A j \in 1..i - 1 : I!peekbuf[j] \notin Eol
  BY DEF I!EolAt
<1>3. i \in 0..Len(I!peekbuf) /\ i - 1 \in 0..Len(I!peekbuf) /\ i \in Nat /\ i >= 1
  BY <1>1, <1>2
<1> DEFINE n == read.k + i
<1>4. /\ StreamInv' /\ taken' = taken + n /\ UNCHANGED <<sent, state>>
      /\ last' = [op |-> read.op, n |-> read.n, s |-> read.s \o s]
      /\ taken + n = Consumed + i /\ taken + n <= Len(sent) /\ n \in Nat
      /\ read.k \in Nat /\ taken \in Nat /\ Consumed = taken + read.k
  BY <1>3, FoundStep
<1>5. n >= 1 /\ n - 1 \in Nat /\ Consumed + (i - 1) = taken + (n - 1) /\ n - 1 <= n
  <2>1. /\ n = read.k + i /\ read.k \in Nat /\ taken \in Nat /\ Consumed = taken + read.k
        /\ i \in Nat /\ i >= 1
    BY <1>3, <1>4
  <2> HIDE DEF n
  <2>2. n \in Nat /\ n >= 1
    BY <2>1
  <2>3. n - 1 \in Nat /\ n - 1 <= n
    BY <2>2
  <2>4. Consumed + (i - 1) = taken + (n - 1)
    <3>1. PICK k \in Nat, t \in Nat, x \in Nat : k = read.k /\ t = taken /\ x = n
      BY <2>1, <2>2
    <3>2. (t + k) + (i - 1) = t + ((k + i) - 1)
      BY <2>1
    <3>3. Consumed = t + k /\ n = k + i
      BY <2>1, <3>1
    <3>4. QED
      BY <3>1, <3>2, <3>3
  <2>5. QED
    BY <2>2, <2>3, <2>4
<1>6. n <= Len(Abstract!Unread) /\ n \in 1..Len(Abstract!Unread)
  <2>1. n <= Len(Abstract!Unread) /\ Len(Abstract!Unread) = Len(sent) - taken /\ Len(sent) \in Nat
    BY <1>4, UnreadFirst, UnreadRuns
  <2> HIDE DEF n
  <2>2. QED
    BY <1>4, <1>5, <2>1
<1>7. taken + (n - 1) <= Len(sent)
  <2>1. Len(sent) \in Nat
    BY UnreadRuns
  <2> HIDE DEF n
  <2>2. QED
    BY <1>4, <1>5, <2>1
<1>8. read.n = 0
  BY DEF StreamInv, ReadCall
<1>9. \A j \in 1..n : Abstract!Unread[j] = sent[taken + j]
  BY <1>4, UnreadFirst
<1>10. Abstract!Unread[n] \in Eol
  <2>1. Abstract!Unread[n] = sent[taken + n]
    <3> HIDE DEF n
    <3>1. n \in 1..n
      BY <1>4, <1>5
    <3>2. QED
      BY <1>9, <3>1
  <2>2. I!peekbuf[i] = sent[Consumed + i]
    BY <1>1, <1>2
  <2>3. QED
    BY <1>2, <1>4, <2>1, <2>2
<1>11. ASSUME NEW j \in 1..n - 1 PROVE Abstract!Unread[j] \notin Eol
  <2>1. Abstract!Unread[j] = sent[taken + j]
    <3> HIDE DEF n
    <3>1. j \in 1..n
      BY <1>4
    <3>2. QED
      BY <1>9, <3>1
  <2>2. CASE j <= read.k
    <3>1. taken + j \in taken + 1..Consumed
      BY <1>4, <2>2
    <3>2. sent[taken + j] \notin Eol
      BY <3>1 DEF StreamInv, ReadCall
    <3>3. QED
      BY <2>1, <3>2
  <2>3. CASE ~(j <= read.k)
    <3>1. j - read.k \in 1..i - 1 /\ Consumed + (j - read.k) = taken + j
      <4>1. /\ n = read.k + i /\ read.k \in Nat /\ taken \in Nat /\ Consumed = taken + read.k
            /\ i \in Nat /\ j \in 1..n - 1
        BY <1>3, <1>4
      <4> HIDE DEF n
      <4>2. PICK k \in Nat, t \in Nat : k = read.k /\ t = taken
        BY <4>1
      <4>3. j \in Int /\ j - k \in 1..i - 1 /\ (t + k) + (j - k) = t + j
        <5>1. j \in 1..(k + i) - 1 /\ i \in Nat /\ ~(j <= k)
          BY <2>3, <4>1, <4>2
        <5>2. QED
          BY <5>1
      <4>4. QED
        BY <4>1, <4>2, <4>3
    <3>2. j - read.k \in 1..Len(I!peekbuf)
      BY <1>3, <3>1
    <3>3. I!peekbuf[j - read.k] = sent[taken + j]
      BY <1>1, <3>1, <3>2
    <3>4. QED
      BY <1>2, <2>1, <3>1, <3>3
  <2>4. QED
    BY <2>2, <2>3
<1> HIDE DEF n
<1>12. CASE read.op = "getline"
  <2>1. Runs(sent, read.s, taken, Consumed)
    BY <1>12 DEF StreamInv, ReadCall, Gets
  <2>2. Runs(sent, s, Consumed, taken + (n - 1))
    <3>1. Runs(sent, SubSeq(I!peekbuf, 1, i - 1), Consumed, Consumed + (i - 1))
      BY <1>1, <1>3, RunsFirst
    <3>2. QED
      BY <1>5, <1>12, <3>1
  <2>3. Runs(sent, read.s \o s, taken, taken + (n - 1))
    BY <2>1, <2>2, RunsConcat
  <2>4. read.s \o s = SubSeq(Abstract!Unread, 1, n - 1)
    BY <1>5, <1>7, <2>3, UnreadFirst
  <2>5. Abstract!Read("getline", 0, n, SubSeq(Abstract!Unread, 1, n - 1))
    BY <1>4, <1>6, <1>8, <1>12, <2>4 DEF Abstract!Read
  <2>6. QED
    BY <1>4, <1>6, <1>10, <1>11, <2>5 DEF Abstract!GetLine
<1>13. CASE read.op = "dropline"
  <2>1. read.s = << >> /\ s = << >>
    BY <1>13 DEF StreamInv, ReadCall, Gets
  <2>2. read.s \o s = << >>
    BY <2>1
  <2>3. Abstract!Read("dropline", 0, n, << >>)
    BY <1>4, <1>6, <1>8, <1>13, <2>2 DEF Abstract!Read
  <2>4. QED
    BY <1>4, <1>6, <1>10, <1>11, <2>3 DEF Abstract!GetLine
<1>14. QED
  BY <1>12, <1>13

LEMMA TryReadStep ==
  ASSUME StreamInv, NEW n \in 1..MaxTake, tryread(n),
         UNCHANGED <<mOutBuffer, mOutIndex, write>>, RestSame
  PROVE  StreamInv' /\ Abstract!TryRead(n)
<1> DEFINE m == Len(I!peekbuf)
           k == IF n < m THEN n ELSE m
<1>1. /\ read = NoRead /\ read' = NoRead /\ mInIndex' = mInIndex + k
      /\ UNCHANGED <<mInBuffer, mInEnd, sent, state>> /\ at' = at
      /\ taken' = taken + k /\ last' = [op |-> "tryread", n |-> n, s |-> SubSeq(I!peekbuf, 1, k)]
      /\ QueueSame /\ CondSame /\ item' = item
  BY DEF tryread, I!tryread, I!seenbuf, ReadEnds, queueVars, QueueSame, CondSame
<1>2. /\ m \in Nat /\ Runs(sent, I!peekbuf, Consumed, Arrived) /\ Arrived = Consumed + m
      /\ Consumed \in Nat /\ Arrived <= Len(sent)
  BY PeekBytes
<1>3. taken \in Nat /\ Consumed = taken + read.k /\ Len(sent) \in Nat
  BY UnreadRuns
<1> HIDE DEF m
<1>4. k \in Nat /\ k <= n /\ k <= m /\ k \in 0..m /\ k \in 0..n
  BY <1>2, Sizes
<1> HIDE DEF k
<1>5. Consumed = taken /\ taken + read.k + k = taken + k /\ read.pc = "turn"
  <2>1. read.k = 0 /\ read.pc = "turn"
    BY <1>1, NoReadFacts
  <2>2. QED
    BY <1>3, <1>4, <2>1
<1>6. taken + k <= Len(sent)
  BY <1>2, <1>3, <1>4, <1>5
<1>7. StreamInv'
  BY <1>1, <1>4, <1>5, TakeStep DEF Elsewhere, m
<1>8. Runs(sent, SubSeq(I!peekbuf, 1, k), taken, taken + k)
  <2>1. Runs(sent, SubSeq(I!peekbuf, 1, k), Consumed, Consumed + k)
    BY <1>2, <1>4, RunsFirst DEF m
  <2>2. QED
    BY <1>5, <2>1
<1>9. k <= Len(Abstract!Unread) /\ SubSeq(I!peekbuf, 1, k) = SubSeq(Abstract!Unread, 1, k)
  BY <1>4, <1>6, <1>8, UnreadFirst
<1>10. Abstract!Read("tryread", n, k, SubSeq(Abstract!Unread, 1, k))
  BY <1>1, <1>9 DEF Abstract!Read
<1>11. QED
  BY <1>4, <1>7, <1>10 DEF Abstract!TryRead

LEMMA CloseReaderStep == ASSUME StreamInv, CloseReader PROVE StreamInv' /\ UNCHANGED history
<1>1. /\ read = NoRead /\ read' = [NoRead EXCEPT !.op = "gone"] /\ mPipe' = FALSE
      /\ UNCHANGED <<kind, wire, errors, write, mInBuffer, mInIndex, mInEnd, mOutBuffer, mOutIndex>>
      /\ QueueSame /\ CondSame /\ at' = at /\ item' = item /\ UNCHANGED history
  BY DEF CloseReader, inVars, outVars, queueVars, QueueSame, CondSame
<1>2. read.k = 0 /\ read'.k = 0 /\ read.pc = "turn" /\ read'.pc = "turn"
  BY <1>1, NoReadFacts
<1>3. Consumed' = Consumed /\ Arrived' = Arrived
  BY <1>1, <1>2 DEF Consumed, Arrived, history
<1>4. InBuffer'
  BY <1>1, <1>3 DEF StreamInv, InBuffer, history
<1>5. ReadCall'
  BY <1>1, NoReadFacts DEF ReadCall, Gets, Reads
<1>6. at[Reader] = "out" /\ at \in [Procs -> Q!Places]
  BY <1>2, Two DEF StreamInv, ReadPlace, Q!TypeOK
<1>7. ReadPlace'
  BY <1>1, <1>2, <1>6 DEF ReadPlace, StreamInv
<1>8. WriterSame /\ ~Has(Reader)' /\ at'[Reader] # "notify"
  BY <1>1, <1>6 DEF WriterSame, Has, history
<1>9. kind' = kind /\ wire' = wire
  BY <1>1
<1>10. /\ OutBuffer' /\ WriteCall' /\ WritePlace' /\ EndState'
       /\ Given' = Given /\ Passed' = Passed /\ Ends' = Ends
  BY <1>8, <1>9, KeepWriter DEF StreamInv
<1>11. Between'
  <2>1. ~(at'[Reader] \in {"notify", "done"}) /\ state' = state /\ item'[Reader] = item[Reader]
        /\ Kept(Given) /\ Given \in Nat
    BY <1>1, <1>8, KeptSame DEF Has, history
  <2>2. QED
    BY <1>1, <1>3, <1>9, <1>10, <2>1, KeepBetween DEF StreamInv
<1>12. Given \in Nat /\ Ends \in Nat /\ Ends' \in Nat /\ Ends' >= Ends
  BY <1>10, Limits
<1>13. Notified' /\ Q!TypeOK'
  <2>1. /\ item' \in [Procs -> Chunks] /\ at' \in [Procs -> Q!Places]
        /\ slots' = slots /\ mRead' = mRead /\ mWrite' = mWrite
    BY <1>1, <1>6, Two DEF StreamInv, Q!TypeOK, QueueSame
  <2>2. mFutex' = mFutex /\ \A p \in Procs : at'[p] = "notify" => at[p] = "notify"
    BY <1>1 DEF CondSame
  <2>3. QED
    BY <1>1, <1>10, <1>12, <2>1, <2>2, KeepNotified, KeepTypes DEF StreamInv
<1>14. Rest'
  BY <1>1 DEF Rest, StreamInv
<1>15. QED
  BY <1>1, <1>4, <1>5, <1>7, <1>10, <1>11, <1>13, <1>14 DEF StreamInv
------------------------------------------------------------------------------
(* raw_read returns.                                                       *)

LEMMA ReaderStep ==
  ASSUME StreamInv, WriterSame, kind' = kind, Rest', QueueSame, CondSame,
         item' \in [Procs -> Chunks], at' \in [Procs -> Q!Places], at'[Reader] # "notify",
         Between', InBuffer', ReadCall', ReadPlace'
  PROVE  StreamInv'
<1>1. /\ OutBuffer' /\ WriteCall' /\ WritePlace' /\ EndState'
      /\ Given' = Given /\ Passed' = Passed /\ Ends' = Ends
  BY KeepWriter DEF StreamInv
<1>2. Given \in Nat /\ Ends \in Nat /\ Ends' \in Nat /\ Ends' >= Ends
  BY <1>1, Limits
<1>3. \A p \in Procs : at'[p] = "notify" => at[p] = "notify"
  BY Two DEF WriterSame
<1>4. Notified' /\ Q!TypeOK'
  <2>1. slots' = slots /\ mRead' = mRead /\ mWrite' = mWrite /\ mFutex' = mFutex
    BY DEF QueueSame, CondSame
  <2>2. QED
    BY <1>1, <1>2, <1>3, <2>1, KeepNotified, KeepTypes DEF StreamInv
<1>5. QED
  BY <1>1, <1>4 DEF StreamInv

(* What the call has is kept while it waits.                               *)
LEMMA RawFacts ==
  ASSUME StreamInv, read.pc = "raw"
  PROVE  /\ mInIndex = 0 /\ mInEnd = 0 /\ Len(mInBuffer) = BufSize /\ I!Room = BufSize
         /\ Arrived = Consumed /\ Consumed \in Nat /\ mInBuffer \in I!Buffers
         /\ read.op \in Reads /\ read \in ReadTypes /\ taken \in Nat /\ read.k \in Nat
<1>1. /\ mInEnd = 0 /\ Len(mInBuffer) = BufSize /\ read.op \in Reads /\ read \in ReadTypes
      /\ mInIndex \in 0..mInEnd /\ mInBuffer \in I!Buffers /\ taken \in Nat
  BY DEF StreamInv, ReadCall, InBuffer
<1>2. mInIndex = 0 /\ read.k \in Nat
  BY <1>1 DEF ReadTypes
<1>3. Consumed \in Nat
  BY <1>1, <1>2 DEF Consumed
<1>4. QED
  BY <1>1, <1>2, <1>3, Sizes DEF Arrived, I!Room

LEMMA FillData ==
  ASSUME StreamInv, read.pc = "raw", NEW data, NEW e \in 0..MaxBytes, Runs(sent, data, Arrived, e),
         data # << >>, Len(data) <= BufSize, Fill(data)
  PROVE  /\ InBuffer' /\ ReadCall' /\ Arrived' = e /\ read'.pc = "turn" /\ UNCHANGED history
<1>1. /\ mInIndex = 0 /\ mInEnd = 0 /\ Len(mInBuffer) = BufSize /\ mInBuffer \in I!Buffers
      /\ Arrived = Consumed /\ Consumed \in Nat /\ read.op \in Reads /\ read \in ReadTypes
      /\ taken \in Nat
  BY RawFacts
<1>2. /\ mInBuffer' = I!Overwrite(mInBuffer, mInIndex, data) /\ mInEnd' = mInIndex + Len(data)
      /\ mInIndex' = mInIndex /\ read' = [read EXCEPT !.pc = "turn"] /\ UNCHANGED history
  BY DEF Fill, I!Filled
<1>3. /\ data \in Seq(Bytes) /\ Len(data) \in Nat /\ e = Consumed + Len(data)
      /\ e <= Len(sent) /\ \A i \in 1..Len(data) : data[i] = sent[Consumed + i]
  <2>1. data \in Seq(Bytes)
    BY RunsBytes, Sizes
  <2>2. QED
    BY <1>1, <2>1 DEF Runs
<1>4. /\ mInBuffer' \in I!Buffers /\ Len(mInBuffer') = BufSize
      /\ \A i \in 1..Len(data) : mInBuffer'[0 + i] = data[i]
  <2>1. PICK y : y = mInBuffer'
    OBVIOUS
  <2>2. y = I!Overwrite(mInBuffer, 0, data)
    BY <1>1, <1>2, <2>1
  <2>3. 0 + Len(data) <= Len(mInBuffer) /\ 0 \in Nat
    BY <1>1, <1>3
  <2>4. /\ y \in I!Buffers /\ Len(y) = Len(mInBuffer)
        /\ \A i \in 1..Len(data) : y[0 + i] = data[i]
    BY <1>1, <1>3, <2>2, <2>3, Overwritten
  <2>5. QED
    BY <1>1, <2>1, <2>4
<1>5. /\ read' \in ReadTypes /\ read'.op = read.op /\ read'.pc = "turn" /\ read'.n = read.n
      /\ read'.left = read.left /\ read'.s = read.s /\ read'.k = read.k
  BY <1>1, <1>2 DEF ReadTypes
<1>6. taken' = taken /\ sent' = sent
  BY <1>2 DEF history
<1>7. Consumed' = Consumed
  BY <1>5, <1>6 DEF Consumed
<1>8. mInIndex' = 0 /\ mInEnd' = Len(data)
  BY <1>1, <1>2, <1>3
<1>9. Arrived' = e
  BY <1>1, <1>3, <1>7, <1>8 DEF Arrived
<1>10. InBuffer'
  <2>1. mInIndex' \in 0..mInEnd' /\ mInEnd' \in 0..Len(mInBuffer')
    BY <1>3, <1>4, <1>8, Sizes
  <2>2. ASSUME NEW i \in 0 + 1..Len(data) PROVE mInBuffer'[i] = sent[Consumed + (i - 0)]
    <3>1. i \in 1..Len(data) /\ 0 + i = i /\ i - 0 = i
      BY <1>3
    <3>2. QED
      BY <1>3, <1>4, <3>1
  <2>3. (\A i \in mInIndex + 1..mInEnd : mInBuffer[i] = sent[Consumed + (i - mInIndex)])'
    BY <1>6, <1>7, <1>8, <2>2
  <2>4. (Arrived <= Len(sent))'
    BY <1>3, <1>6, <1>9
  <2>5. QED
    BY <1>1, <1>4, <1>6, <2>1, <2>3, <2>4 DEF InBuffer
<1>11. ReadCall'
  <2>1. read.op \notin {"idle", "gone"}
    BY <1>1 DEF Reads
  <2>2. Runs(sent, read.s, taken, Consumed)' <=> Runs(sent, read.s, taken, Consumed)
    BY <1>5, <1>6, <1>7 DEF Runs
  <2>3. (\A j \in taken + 1..Consumed : sent[j] \notin Eol)'
           <=> \A j \in taken + 1..Consumed : sent[j] \notin Eol
    BY <1>6, <1>7
  <2>4. /\ read.op \in {"getn", "dropn"} => read.k + read.left = read.n
        /\ read.op \in {"getline", "dropline", "getall", "dropall"} => read.n = 0
        /\ IF read.op \in Gets THEN Runs(sent, read.s, taken, Consumed) ELSE read.s = << >>
        /\ read.op \in {"getline", "dropline"} => \A j \in taken + 1..Consumed : sent[j] \notin Eol
    BY DEF StreamInv, ReadCall
  <2>5. QED
    BY <1>5, <2>1, <2>2, <2>3, <2>4 DEF ReadCall
<1>12. QED
  BY <1>2, <1>5, <1>9, <1>10, <1>11

(* The read ends, its bytes have been consumed.                            *)
LEMMA EndKeeps ==
  ASSUME StreamInv, read.pc = "raw", taken' = taken + read.k, sent' = sent,
         UNCHANGED <<mInBuffer, mInIndex, mInEnd>>,
         read' \in {NoRead, [NoRead EXCEPT !.op = "gone"]}
  PROVE  InBuffer' /\ ReadCall' /\ Arrived' = Arrived /\ read'.pc = "turn"
<1>1. /\ mInIndex = 0 /\ mInEnd = 0 /\ Len(mInBuffer) = BufSize /\ mInBuffer \in I!Buffers
      /\ taken \in Nat /\ read.k \in Nat
  BY RawFacts
<1>2. read'.k = 0 /\ read'.pc = "turn"
  BY NoReadFacts
<1>3. Consumed' = Consumed
  BY <1>1, <1>2 DEF Consumed
<1>4. Arrived' = Arrived
  BY <1>3 DEF Arrived
<1>5. InBuffer'
  BY <1>1, <1>3, <1>4 DEF StreamInv, InBuffer
<1>6. ReadCall'
  BY NoReadFacts DEF ReadCall, Gets, Reads
<1>7. QED
  BY <1>2, <1>4, <1>5, <1>6

LEMMA FillEnd ==
  ASSUME StreamInv, read.pc = "raw", AtEnd(Arrived), Fill(<< >>)
  PROVE  /\ InBuffer' /\ ReadCall' /\ Arrived' = Arrived /\ read'.pc = "turn"
         /\ UNCHANGED <<sent, state>> /\ Abstract!GetAll
<1>1. /\ read' = [NoRead EXCEPT !.op = "gone"] /\ UNCHANGED <<mInBuffer, mInIndex, mInEnd>>
      /\ IF read.op \in {"getall", "dropall"} THEN ReadEnds(read.op, 0, read.s, read.k)
                                              ELSE ReadEnds("eof", 0, << >>, read.k)
  BY DEF Fill, inVars
<1>2. taken' = taken + read.k /\ UNCHANGED <<sent, state>>
  BY <1>1 DEF ReadEnds
<1>3. InBuffer' /\ ReadCall' /\ Arrived' = Arrived /\ read'.pc = "turn"
  BY <1>1, <1>2, EndKeeps
<1>4. /\ Len(Abstract!Unread) = Len(sent) - taken /\ taken \in Nat /\ Len(sent) \in Nat
      /\ Consumed <= Len(sent) /\ read.k \in Nat /\ Consumed = taken + read.k
  BY UnreadRuns
<1>5. taken + read.k <= Len(sent) /\ read.k <= Len(Abstract!Unread) /\ read.k \in 0..Len(Abstract!Unread)
  BY <1>4
<1>6. Abstract!AtEnd(read.k)
  <2>1. state # "open" /\ Arrived = Passed /\ Arrived = Consumed
    BY RawFacts DEF AtEnd
  <2>2. CASE state = "cut"
    BY <2>2 DEF Abstract!AtEnd
  <2>3. CASE state = "closed"
    <3>1. I!Filling = 0
      BY <2>3 DEF StreamInv, EndState
    <3>2. Consumed = Len(sent)
      BY <1>4, <2>1, <3>1 DEF Passed
    <3>3. QED
      BY <1>4, <3>2 DEF Abstract!AtEnd
  <2>4. QED
    BY <2>1, <2>2, <2>3 DEF StreamInv, EndState
<1>7. /\ read.op = "getall" => Abstract!Read("getall", 0, read.k, SubSeq(Abstract!Unread, 1, read.k))
      /\ read.op = "dropall" => Abstract!Read("dropall", 0, read.k, << >>)
      /\ read.op \notin {"getall", "dropall"} => Abstract!Read("eof", 0, read.k, << >>)
  <2>1. ASSUME read.op = "getall" PROVE read.s = SubSeq(Abstract!Unread, 1, read.k)
    <3>1. Runs(sent, read.s, taken, taken + read.k)
      BY <1>4, <2>1 DEF StreamInv, ReadCall, Gets
    <3>2. QED
      BY <1>4, <1>5, <3>1, UnreadFirst
  <2>2. ASSUME read.op = "dropall" PROVE read.s = << >>
    BY <2>2 DEF StreamInv, ReadCall, Gets
  <2>3. QED
    BY <1>1, <1>5, <2>1, <2>2 DEF ReadEnds, Abstract!Read
<1>8. state # "open"
  BY DEF AtEnd
<1>9. Abstract!GetAll
  BY <1>5, <1>6, <1>7, <1>8 DEF Abstract!GetAll
<1>10. QED
  BY <1>2, <1>3, <1>9

LEMMA FailEnd ==
  ASSUME StreamInv, read.pc = "raw", ReadFails
  PROVE  /\ InBuffer' /\ ReadCall' /\ Arrived' = Arrived /\ read'.pc = "turn"
         /\ UNCHANGED <<sent, state>> /\ Abstract!Fail
<1>1. /\ read' = NoRead /\ taken' = taken + read.k /\ UNCHANGED <<sent, state>>
      /\ UNCHANGED <<mInBuffer, mInIndex, mInEnd>> /\ last' = [op |-> "error", n |-> 0, s |-> << >>]
  BY DEF ReadFails, ReadEnds, inVars
<1>2. InBuffer' /\ ReadCall' /\ Arrived' = Arrived /\ read'.pc = "turn"
  BY <1>1, EndKeeps
<1>3. /\ Len(Abstract!Unread) = Len(sent) - taken /\ taken \in Nat /\ Len(sent) \in Nat
      /\ Consumed <= Len(sent) /\ read.k \in Nat /\ Consumed = taken + read.k
  BY UnreadRuns
<1>4. read.k <= Len(Abstract!Unread) /\ read.k \in 0..Len(Abstract!Unread)
  BY <1>3
<1>5. Abstract!Read("error", 0, read.k, << >>)
  BY <1>1, <1>4 DEF Abstract!Read
<1>6. QED
  BY <1>1, <1>2, <1>4, <1>5 DEF Abstract!Fail

(* A queue's call returns to the reader.                                   *)
LEMMA ReturnFrame ==
  ASSUME StreamInv, NEW place \in {"done", "failed"}, Q!Return(Reader, place)
  PROVE  /\ QueueSame /\ CondSame /\ at'[Writer] = at[Writer] /\ item'[Writer] = item[Writer]
         /\ at'[Reader] = "out" /\ item'[Reader] = << >>
         /\ item' \in [Procs -> Chunks] /\ at' \in [Procs -> Q!Places]
         /\ read.pc = "raw" /\ Piped /\ at[Reader] = place
         /\ item[Reader] \in Chunks
<1>1. /\ at[Reader] = place /\ at' = [at EXCEPT ![Reader] = "out"]
      /\ item' = [item EXCEPT ![Reader] = << >>] /\ QueueSame /\ CondSame
  BY DEF Q!Return, Q!Goto, Q!queueVars, Q!condVars, QueueSame, CondSame
<1>2. /\ at \in [Procs -> Q!Places] /\ item \in [Procs -> Chunks] /\ << >> \in Chunks
      /\ "out" \in Q!Places
  <2>1. QED
    BY EmptyChunk, Two DEF StreamInv, Q!TypeOK, Q!Places
<1>3. at[Reader] # "out"
  BY <1>1
<1>4. read.pc = "raw" /\ Piped
  BY <1>3 DEF StreamInv, ReadPlace
<1>5. QED
  BY <1>1, <1>2, <1>4, Two

LEMMA ReturnPlace ==
  ASSUME at'[Reader] = "out", item'[Reader] = << >>, read'.pc = "turn"
  PROVE  ReadPlace'
  BY DEF ReadPlace

LEMMA ReturnBetween ==
  ASSUME Piped, Between, QueueSame, UNCHANGED <<kind, wire>>, item'[Reader] = << >>,
         at'[Reader] = "out", Arrived' = Arrived + Len(item[Reader]), Arrived' \in Nat,
         Given' = Given, Passed' = Passed, UNCHANGED <<sent, state>>
  PROVE  Between'
<1>1. Piped' = Piped
  BY DEF Piped
<1>2. PICK b \in [0..QueueSize -> 0..MaxBytes] : Chain(b)
  BY DEF Between
<1>3. \A i : Occupied(i)' <=> Occupied(i)
  BY DEF Occupied, QueueSame
<1>4. Arrived' = b[mRead]
  BY <1>2 DEF Chain, Runs
<1>5. Runs(sent, item[Reader], Arrived, b[mRead])'
  <2>1. Runs(sent, << >>, b[mRead], b[mRead])
    <3>1. sent \in Seq(Bytes) /\ b[mRead] \in 0..Len(sent)
      BY <1>2 DEF Chain, Runs
    <3>2. QED
      BY <3>1, RunsEmpty
  <2>2. QED
    BY <1>4, <2>1 DEF QueueSame
<1>6. Chain(b)'
  <2>1. /\ b \in [0..QueueSize -> 0..MaxBytes] /\ (b[mRead] <= Given /\ b[mWrite] = Given)'
    BY <1>2 DEF Chain, QueueSame
  <2>2. (at[Reader] \in {"notify", "done"} /\ item[Reader] = << >> => AtEnd(Arrived))'
    OBVIOUS
  <2>3. ASSUME NEW i \in 0..QueueSize, Occupied(i)'
        PROVE  /\ Runs(sent, slots[i], b[i], b[Q!R!After(i)])' /\ (b[Q!R!After(i)] <= Given)'
               /\ (slots[i] = << >> => AtEnd(b[i]))'
    <3>1. /\ Runs(sent, slots[i], b[i], b[Q!R!After(i)]) /\ b[Q!R!After(i)] <= Given
          /\ slots[i] = << >> => AtEnd(b[i])
      BY <1>2, <1>3, <2>3 DEF Chain
    <3>2. QED
      BY <3>1 DEF QueueSame, Runs, AtEnd
  <2>4. QED
    BY <1>5, <2>1, <2>2, <2>3 DEF Chain
<1>7. QED
  BY <1>1, <1>2, <1>6 DEF Between

LEMMA PipeReadStep ==
  ASSUME StreamInv, PipeRead, UNCHANGED <<kind, mOutBuffer, mOutIndex, write, mPipe>>
  PROVE  StreamInv' /\ (UNCHANGED history \/ Abstract!GetAll \/ Abstract!Fail)
<1>1. UNCHANGED <<wire, errors>> /\ RestSame
  BY DEF PipeRead, RestSame
<1>2. Rest'
  BY <1>1, KeepRest DEF StreamInv
<1>3. PICK place \in {"done", "failed"} :
        /\ Q!Return(Reader, place)
        /\ place = "done" => Fill(Fitting(item[Reader]))
        /\ place = "failed" => ReadFails
  BY DEF PipeRead
<1>4. /\ QueueSame /\ CondSame /\ at'[Writer] = at[Writer] /\ item'[Writer] = item[Writer]
      /\ at'[Reader] = "out" /\ item'[Reader] = << >>
      /\ item' \in [Procs -> Chunks] /\ at' \in [Procs -> Q!Places]
      /\ read.pc = "raw" /\ Piped /\ at[Reader] = place /\ item[Reader] \in Chunks
  BY <1>3, ReturnFrame
<1>5. PICK data : data = item[Reader]
  OBVIOUS
<1>6. data \in Seq(Bytes) /\ Len(data) <= BufSize /\ Len(data) \in Nat
  BY <1>4, <1>5, ChunkFacts
<1>7. PICK b \in [0..QueueSize -> 0..MaxBytes] : Chain(b)
  BY <1>4 DEF StreamInv, Between
<1>8. PICK e \in 0..MaxBytes : Runs(sent, data, Arrived, e)
  <2>1. Runs(sent, data, Arrived, b[mRead]) /\ b[mRead] \in 0..MaxBytes
    BY <1>5, <1>7 DEF Chain, StreamInv, Q!TypeOK, Q!R!TypeOK
  <2>2. QED
    BY <2>1
<1>9. Fitting(item[Reader]) = data
  <2>1. I!Room = BufSize
    BY <1>4, RawFacts
  <2>2. (IF I!Room < Len(data) THEN I!Room ELSE Len(data)) = Len(data)
    BY <1>6, <2>1, Sizes
  <2>3. SubSeq(data, 1, Len(data)) = data
    BY <1>6
  <2>4. QED
    BY <1>5, <2>2, <2>3 DEF Fitting
<1>10. ASSUME InBuffer', ReadCall', Arrived' = Arrived + Len(data), Arrived' \in Nat,
              read'.pc = "turn", UNCHANGED <<sent, state>>
       PROVE  StreamInv'
  <2>1. WriterSame
    BY <1>4, <1>10 DEF WriterSame
  <2>2. Given' = Given /\ Passed' = Passed
    BY <2>1, KeepWriter DEF StreamInv
  <2>3. Between'
    BY <1>1, <1>4, <1>5, <1>10, <2>2, ReturnBetween DEF StreamInv
  <2>4. ReadPlace'
    BY <1>4, <1>10, ReturnPlace
  <2>5. QED
    BY <1>2, <1>4, <1>10, <2>1, <2>3, <2>4, ReaderStep
<1>11. Arrived \in Nat /\ e = Arrived + Len(data) /\ e \in Nat
  BY <1>8 DEF Runs
<1>12. CASE place = "done" /\ data # << >>
  <2>1. InBuffer' /\ ReadCall' /\ Arrived' = e /\ read'.pc = "turn" /\ UNCHANGED history
    BY <1>3, <1>4, <1>6, <1>8, <1>9, <1>12, FillData
  <2>2. UNCHANGED <<sent, state>>
    BY <2>1 DEF history
  <2>3. Arrived' = Arrived + Len(data) /\ Arrived' \in Nat
    BY <1>11, <2>1
  <2>4. QED
    BY <1>10, <2>1, <2>2, <2>3
<1>13. CASE place = "done" /\ data = << >>
  <2>1. AtEnd(Arrived)
    BY <1>4, <1>5, <1>7, <1>13 DEF Chain
  <2>2. /\ InBuffer' /\ ReadCall' /\ Arrived' = Arrived /\ read'.pc = "turn"
        /\ UNCHANGED <<sent, state>> /\ Abstract!GetAll
    BY <1>3, <1>4, <1>9, <1>13, <2>1, FillEnd
  <2>3. Arrived' = Arrived + Len(data) /\ Arrived' \in Nat
    BY <1>11, <1>13, <2>2
  <2>4. QED
    BY <1>10, <2>2, <2>3
<1>14. CASE place = "failed"
  <2>1. data = << >>
    BY <1>4, <1>5, <1>14 DEF StreamInv, ReadPlace
  <2>2. /\ InBuffer' /\ ReadCall' /\ Arrived' = Arrived /\ read'.pc = "turn"
        /\ UNCHANGED <<sent, state>> /\ Abstract!Fail
    BY <1>3, <1>4, <1>14, FailEnd
  <2>3. Arrived' = Arrived + Len(data) /\ Arrived' \in Nat
    BY <1>11, <2>1, <2>2
  <2>4. QED
    BY <1>10, <2>2, <2>3
<1>15. QED
  BY <1>3, <1>12, <1>13, <1>14

(* What is read from the socket, or the string: its first bytes.           *)
LEMMA WireRead ==
  ASSUME StreamInv, ~Piped, read.pc = "raw", NEW n \in 0..Len(wire), n <= BufSize,
         Fill(SubSeq(wire, 1, n)), wire' = SubSeq(wire, n + 1, Len(wire)),
         n = 0 => wire = << >> /\ write.op = "gone",
         UNCHANGED <<kind, mOutBuffer, mOutIndex, write, mPipe, errors>>, UNCHANGED queueVars
  PROVE  StreamInv' /\ (UNCHANGED history \/ Abstract!GetAll)
<1>1. Runs(sent, wire, Arrived, Given) /\ Len(wire) \in Nat /\ Arrived \in Nat
  BY DEF StreamInv, Between, Runs
<1>2. /\ Runs(sent, SubSeq(wire, 1, n), Arrived, Arrived + n) /\ Len(SubSeq(wire, 1, n)) = n
      /\ Runs(sent, SubSeq(wire, n + 1, Len(wire)), Arrived + n, Given)
      /\ Len(SubSeq(wire, n + 1, Len(wire))) = Len(wire) - n
  BY <1>1, RunsFirst
<1> DEFINE data == SubSeq(wire, 1, n)
<1>3. InBuffer' /\ ReadCall' /\ Arrived' = Arrived + n /\ read'.pc = "turn"
      /\ UNCHANGED <<sent, state>> /\ (UNCHANGED history \/ Abstract!GetAll)
  <2>1. CASE n > 0
    <3>1. data # << >> /\ Len(data) <= BufSize
      BY <1>2, <2>1
    <3>2. Arrived + n \in 0..MaxBytes
      <4>1. Given <= MaxBytes /\ Given \in Nat
        <5>1. Given \in Nat /\ Len(sent) \in Nat /\ Given <= Len(sent) /\ Len(sent) <= MaxBytes
          BY Limits
        <5>2. QED
          BY <5>1, Sizes
      <4>2. Given = Arrived + Len(wire)
        BY <1>1 DEF Runs
      <4>3. QED
        BY <1>1, <4>1, <4>2, Sizes
    <3>3. Runs(sent, data, Arrived, Arrived + n) /\ Fill(data)
      BY <1>2
    <3> HIDE DEF data
    <3>4. PICK e \in 0..MaxBytes : e = Arrived + n
      BY <3>2
    <3>5. InBuffer' /\ ReadCall' /\ Arrived' = e /\ read'.pc = "turn" /\ UNCHANGED history
      BY <3>1, <3>3, <3>4, FillData
    <3>6. QED
      BY <3>4, <3>5 DEF history
  <2>2. CASE n = 0
    <3>1. data = << >> /\ Len(wire) = 0
      BY <1>2, <2>2
    <3>2. AtEnd(Arrived)
      <4>1. state # "open" /\ write.pc = "turn"
        BY <2>2 DEF StreamInv, EndState, WriteCall, NoWrite
      <4>2. Given = Passed /\ Given = Arrived + 0
        BY <1>1, <3>1, <4>1 DEF Given, Runs
      <4>3. QED
        BY <1>1, <4>1, <4>2 DEF AtEnd
    <3>3. /\ InBuffer' /\ ReadCall' /\ Arrived' = Arrived /\ read'.pc = "turn"
          /\ UNCHANGED <<sent, state>> /\ Abstract!GetAll
      BY <3>1, <3>2, FillEnd
    <3>4. QED
      BY <1>1, <2>2, <3>3
  <2>3. QED
    BY <2>1, <2>2
<1>4. WriterSame /\ QueueSame /\ CondSame /\ at' = at /\ item' = item
  BY <1>3 DEF WriterSame, QueueSame, CondSame, queueVars
<1>5. Given' = Given
  BY <1>4, KeepWriter DEF StreamInv
<1>6. Between'
  <2>1. Piped' = Piped
    BY DEF Piped
  <2>2. Runs(sent, wire, Arrived, Given)'
    BY <1>2, <1>3, <1>5
  <2>3. QED
    BY <2>1, <2>2 DEF Between
<1>7. /\ item' \in [Procs -> Chunks] /\ at' \in [Procs -> Q!Places] /\ at'[Reader] = "out"
      /\ item'[Reader] = << >>
  BY <1>4, Two DEF StreamInv, Q!TypeOK, ReadPlace
<1>8. ReadPlace'
  BY <1>3, <1>7, ReturnPlace
<1>9. Rest'
  <2>1. kind = "socket" => Len(wire) <= WireSize
    BY DEF StreamInv, Rest
  <2>2. kind' = "socket" => Len(wire') <= WireSize
    BY <1>1, <1>2, <2>1, Sizes
  <2>3. QED
    BY <2>2 DEF StreamInv, Rest
<1>10. StreamInv'
  BY <1>3, <1>4, <1>6, <1>7, <1>8, <1>9, ReaderStep
<1>11. QED
  BY <1>3, <1>10

LEMMA SocketReadStep ==
  ASSUME StreamInv, SocketRead, UNCHANGED <<kind, mOutBuffer, mOutIndex, write, mPipe>>
  PROVE  StreamInv' /\ (UNCHANGED history \/ Abstract!GetAll)
<1>1. /\ kind = "socket" /\ read.pc = "raw" /\ UNCHANGED queueVars /\ errors' = errors
  BY DEF SocketRead
<1>2. ~Piped
  BY <1>1 DEF Piped
<1>3. Len(wire) \in Nat
  BY <1>2 DEF StreamInv, Between, Runs
<1>4. CASE \E n \in 1..Len(wire) : /\ n <= I!Room /\ Fill(SubSeq(wire, 1, n))
                                   /\ wire' = SubSeq(wire, n + 1, Len(wire))
  <2>1. PICK n \in 1..Len(wire) : /\ n <= I!Room /\ Fill(SubSeq(wire, 1, n))
                                  /\ wire' = SubSeq(wire, n + 1, Len(wire))
    BY <1>4
  <2>2. n <= BufSize /\ n \in 0..Len(wire) /\ n # 0
    BY <1>1, <1>3, <2>1, RawFacts
  <2>3. QED
    BY <1>1, <1>2, <2>1, <2>2, WireRead
<1>5. CASE wire = << >> /\ write.op = "gone" /\ Fill(<< >>) /\ UNCHANGED wire
  <2>1. SubSeq(wire, 1, 0) = << >> /\ SubSeq(wire, 0 + 1, Len(wire)) = << >> /\ 0 \in 0..Len(wire)
    BY <1>5
  <2>2. Fill(SubSeq(wire, 1, 0))
    BY <1>5, <2>1 DEF Fill
  <2>3. 0 <= BufSize /\ wire' = SubSeq(wire, 0 + 1, Len(wire))
    BY <1>5, <2>1, Sizes
  <2>4. QED
    BY <1>1, <1>2, <1>5, <2>1, <2>2, <2>3, WireRead
<1>6. QED
  BY <1>4, <1>5 DEF SocketRead

LEMMA StringReadStep ==
  ASSUME StreamInv, StringRead, UNCHANGED <<kind, mOutBuffer, mOutIndex, write, mPipe>>
  PROVE  StreamInv' /\ (UNCHANGED history \/ Abstract!GetAll)
<1> DEFINE n == IF I!Room < Len(wire) THEN I!Room ELSE Len(wire)
<1>1. /\ kind = "string" /\ read.pc = "raw" /\ UNCHANGED queueVars /\ errors' = errors
      /\ Fill(SubSeq(wire, 1, n)) /\ write.op = "gone"
      /\ wire' = SubSeq(wire, Len(SubSeq(wire, 1, n)) + 1, Len(wire))
  BY DEF StringRead, Fitting, MayRun
<1>2. ~Piped
  BY <1>1 DEF Piped
<1>3. Len(wire) \in Nat /\ Runs(sent, wire, Arrived, Given)
  BY <1>2 DEF StreamInv, Between, Runs
<1>4. n \in 0..Len(wire) /\ n <= BufSize /\ (n = 0 => Len(wire) = 0)
  <2>1. I!Room = BufSize
    BY <1>1, RawFacts
  <2>2. QED
    BY <1>3, <2>1, Sizes
<1> HIDE DEF n
<1>5. Len(SubSeq(wire, 1, n)) = n
  BY <1>3, <1>4, RunsFirst
<1>6. n = 0 => wire = << >>
  BY <1>3, <1>4 DEF Runs
<1>7. QED
  BY <1>1, <1>2, <1>4, <1>5, <1>6, WireRead

LEMMA SocketReadFailsStep ==
  ASSUME StreamInv, SocketReadFails, UNCHANGED <<kind, mOutBuffer, mOutIndex, write, mPipe>>
  PROVE  StreamInv' /\ Abstract!Fail
<1>1. /\ kind = "socket" /\ read.pc = "raw" /\ UNCHANGED queueVars /\ errors' = errors + 1
      /\ errors < MaxErrors /\ ReadFails /\ wire' = wire
  BY DEF SocketReadFails
<1>2. ~Piped /\ Piped' = Piped
  BY <1>1 DEF Piped
<1>3. /\ InBuffer' /\ ReadCall' /\ Arrived' = Arrived /\ read'.pc = "turn"
      /\ UNCHANGED <<sent, state>> /\ Abstract!Fail
  BY <1>1, FailEnd
<1>4. WriterSame /\ QueueSame /\ CondSame /\ at' = at /\ item' = item
  BY <1>1, <1>3 DEF WriterSame, QueueSame, CondSame, queueVars
<1>5. Given' = Given
  BY <1>4, KeepWriter DEF StreamInv
<1>6. Between'
  BY <1>1, <1>2, <1>3, <1>5 DEF StreamInv, Between, Runs
<1>7. /\ item' \in [Procs -> Chunks] /\ at' \in [Procs -> Q!Places] /\ at'[Reader] = "out"
      /\ item'[Reader] = << >>
  BY <1>2, <1>4, Two DEF StreamInv, Q!TypeOK, ReadPlace
<1>8. ReadPlace'
  BY <1>3, <1>7, ReturnPlace
<1>9. Rest'
  <2>1. errors' \in 0..MaxErrors
    BY <1>1, Sizes DEF StreamInv, Rest
  <2>2. QED
    BY <1>1, <2>1 DEF StreamInv, Rest
<1>10. StreamInv'
  BY <1>3, <1>4, <1>6, <1>7, <1>8, <1>9, ReaderStep
<1>11. QED
  BY <1>3, <1>10

LEMMA TurnStep ==
  ASSUME StreamInv, ReadTurn, RestSame, UNCHANGED <<mOutBuffer, mOutIndex, write>>
  PROVE  /\ StreamInv'
         /\ UNCHANGED history \/ Abstract!GetLine \/ \E n \in 0..MaxTake : Abstract!GetN(n)
<1>1. read.pc = "turn"
  BY DEF ReadTurn
<1>2. ASSUME NEW i, NEW s, Found(i, s) PROVE Elsewhere
  BY <1>2 DEF Found, ReadEnds, Elsewhere, QueueSame, CondSame, queueVars
<1>3. ASSUME NEW l \in 0..MaxTake, NEW s, Ask(l, s), read.op \in Reads,
             s = IF read.op \in Gets THEN I!peekbuf ELSE << >>,
             read.op \in {"getn", "dropn"} => l = read.left - Len(I!peekbuf),
             read.op \in {"getline", "dropline"} => I!EolAt = {}
      PROVE  StreamInv' /\ UNCHANGED history
  <2>1. UNCHANGED <<sent, state>>
    BY <1>3 DEF Ask, history
  <2>2. Elsewhere \/ (Piped /\ Q!pop(Reader))
    BY <1>3, <2>1 DEF Ask, Elsewhere, QueueSame, CondSame, queueVars
  <2>3. StreamInv' /\ UNCHANGED <<sent, taken, last, state>>
    BY <1>1, <1>3, <2>1, <2>2, AskStep
  <2>4. QED
    BY <2>3 DEF history
<1>4. ~Available => Missing \in 0..MaxTake
  <2>1. Len(I!peekbuf) = mInEnd - mInIndex /\ Len(I!peekbuf) \in Nat
    BY PeekBytes
  <2>2. read.left \in Nat /\ read.left <= MaxTake /\ mInIndex \in Nat /\ mInEnd \in Nat
    <3>1. Len(mInBuffer) \in Nat
      BY BufferFacts DEF StreamInv, InBuffer
    <3>2. QED
      BY <3>1, Sizes DEF StreamInv, ReadCall, ReadTypes, InBuffer
  <2>3. QED
    BY <2>1, <2>2, Sizes DEF Available, Missing
<1>5. 0 \in 0..MaxTake
  BY Sizes
<1>6. CASE read.op \in {"getn", "dropn"} /\ Available
  <2>1. PICK s : /\ Found(read.left, s)
                 /\ s = IF read.op = "getn" THEN SubSeq(I!peekbuf, 1, read.left) ELSE << >>
    BY <1>6 DEF ReadTurn, getn, dropn
  <2>2. QED
    BY <1>1, <1>2, <1>6, <2>1, GetNStep
<1>7. CASE read.op \in {"getn", "dropn"} /\ ~Available
  <2>1. PICK s : /\ Ask(Missing, s)
                 /\ s = IF read.op \in Gets THEN I!peekbuf ELSE << >>
    BY <1>7 DEF ReadTurn, getn, dropn, Gets
  <2>2. read.op \in Reads
    BY <1>7 DEF Reads
  <2>3. QED
    BY <1>3, <1>4, <1>7, <2>1, <2>2 DEF Missing
<1>8. CASE read.op \in {"getline", "dropline"} /\ I!EolAt # {}
  <2>1. PICK i \in I!EolAt :
          Found(i, IF read.op = "getline" THEN SubSeq(I!peekbuf, 1, i - 1) ELSE << >>)
    BY <1>8 DEF ReadTurn, getline, dropline
  <2>2. PICK s : /\ Found(i, s)
                 /\ s = IF read.op = "getline" THEN SubSeq(I!peekbuf, 1, i - 1) ELSE << >>
    BY <2>1
  <2>3. QED
    BY <1>1, <1>2, <1>8, <2>2, GetLineStep
<1>9. CASE read.op \in {"getline", "dropline"} /\ I!EolAt = {}
  <2>1. PICK s : /\ Ask(0, s)
                 /\ s = IF read.op \in Gets THEN I!peekbuf ELSE << >>
    BY <1>9 DEF ReadTurn, getline, dropline, Gets
  <2>2. read.op \in Reads
    BY <1>9 DEF Reads
  <2>3. QED
    BY <1>3, <1>5, <1>9, <2>1, <2>2
<1>10. CASE read.op \in {"getall", "dropall"}
  <2>1. PICK s : /\ Ask(0, s)
                 /\ s = IF read.op \in Gets THEN I!peekbuf ELSE << >>
    BY <1>10 DEF ReadTurn, getall, dropall, Gets
  <2>2. read.op \in Reads
    BY <1>10 DEF Reads
  <2>3. QED
    BY <1>3, <1>5, <1>10, <2>1, <2>2
<1>11. QED
  BY <1>6, <1>7, <1>8, <1>9, <1>10 DEF ReadTurn

LEMMA ReadingStep ==
  ASSUME StreamInv, Reading \/ MayRead
  PROVE  StreamInv' /\ (UNCHANGED history \/ Abstract!Step)
<1>1. UNCHANGED <<kind, mOutBuffer, mOutIndex, write, mPipe>>
  BY DEF Reading, MayRead, outVars
<1>2. CASE BlockingRead /\ UNCHANGED <<wire, errors>>
  <2>1. PICK o \in Reads, n \in 0..MaxTake : StartRead(o, n) /\ (o \notin {"getn", "dropn"} => n = 0)
    <3>1. 0 \in 0..MaxTake /\ 1..MaxTake \subseteq 0..MaxTake
      BY Sizes
    <3>2. {"getn", "dropn", "getline", "dropline", "getall", "dropall"} \subseteq Reads
      BY DEF Reads
    <3>3. QED
      BY <1>2, <3>1, <3>2 DEF BlockingRead
  <2>2. Elsewhere
    BY <1>1, <1>2, <2>1 DEF StartRead, Elsewhere, RestSame, QueueSame, CondSame, queueVars
  <2>3. StreamInv' /\ Abstract!Start
    BY <2>1, <2>2, StartReadStep
  <2>4. QED
    BY <2>3 DEF Abstract!Step
<1>3. CASE ReadTurn /\ UNCHANGED <<wire, errors>>
  <2>1. RestSame
    BY <1>1, <1>3 DEF RestSame
  <2>2. /\ StreamInv'
        /\ UNCHANGED history \/ Abstract!GetLine \/ \E n \in 0..MaxTake : Abstract!GetN(n)
    BY <1>1, <1>3, <2>1, TurnStep
  <2>3. QED
    BY <2>2, Zenon DEF Abstract!Step
<1>4. CASE PipeRead
  <2>1. StreamInv' /\ (UNCHANGED history \/ Abstract!GetAll \/ Abstract!Fail)
    BY <1>1, <1>4, PipeReadStep
  <2>2. QED
    BY <2>1, Zenon DEF Abstract!Step
<1>5. CASE SocketRead \/ StringRead
  <2>1. StreamInv' /\ (UNCHANGED history \/ Abstract!GetAll)
    BY <1>1, <1>5, SocketReadStep, StringReadStep
  <2>2. QED
    BY <2>1, Zenon DEF Abstract!Step
<1>6. CASE \E n \in 1..MaxTake : tryread(n) /\ UNCHANGED <<wire, errors>>
  <2>1. PICK n \in 1..MaxTake : tryread(n) /\ UNCHANGED <<wire, errors>>
    BY <1>6
  <2>2. StreamInv' /\ Abstract!TryRead(n)
    BY <1>1, <2>1, TryReadStep DEF RestSame
  <2>3. n \in 0..MaxTake
    BY Sizes
  <2>4. QED
    BY <2>2, <2>3, Zenon DEF Abstract!Step
<1>7. CASE SocketReadFails
  <2>1. StreamInv' /\ Abstract!Fail
    BY <1>1, <1>7, SocketReadFailsStep
  <2>2. QED
    BY <2>1, Zenon DEF Abstract!Step
<1>8. QED
  BY <1>2, <1>3, <1>4, <1>5, <1>6, <1>7 DEF Reading, MayRead
------------------------------------------------------------------------------
(* The writer's steps.                                                     *)

LEMMA MoreNotified ==
  ASSUME Notified, QueueSame, mFutex' = mFutex, Given' >= Given, Ends' >= Ends,
         Given \in Nat, Given' \in Nat, Ends \in Nat, Ends' \in Nat, Q!TypeOK,
         \A p \in Procs : at'[p] = "notify" => at[p] = "notify"
  PROVE  Notified'
<1>1. /\ mFutex \in Nat /\ mRead \in Nat /\ mWrite \in Nat
  BY DEF Q!TypeOK, Q!R!TypeOK, Q!C!TypeOK
<1>2. /\ Pending(Writer) \in 0..1 /\ Pending(Writer)' \in 0..1 /\ Pending(Writer)' <= Pending(Writer)
      /\ Pending(Reader) \in 0..1 /\ Pending(Reader)' \in 0..1 /\ Pending(Reader)' <= Pending(Reader)
  BY Two DEF Pending
<1>3. Chunked' = Chunked /\ Chunked \in Int
  BY <1>1, Sizes DEF Chunked, QueueSame
<1>4. QED
  BY <1>1, <1>2, <1>3 DEF Notified

(* Where the reader is does not change.                                    *)
StreamSame == UNCHANGED <<mInBuffer, mInIndex, mInEnd, read, taken, kind>>

LEMMA WriterFrame ==
  ASSUME StreamInv, StreamSame, Rest', QueueSame, CondSame,
         NEW a \in Q!Places, a # "notify", NEW v \in Chunks,
         at' = [at EXCEPT ![Writer] = a], item' = [item EXCEPT ![Writer] = v],
         OutBuffer', WriteCall', WritePlace', EndState', Between', Kept(Given),
         Given' \in Nat, Given' >= Given, Ends' >= Ends
  PROVE  StreamInv'
<1>1. /\ at \in [Procs -> Q!Places] /\ item \in [Procs -> Chunks]
  BY Two DEF StreamInv, Q!TypeOK
<1>2. /\ at' \in [Procs -> Q!Places] /\ item' \in [Procs -> Chunks]
      /\ at'[Reader] = at[Reader] /\ item'[Reader] = item[Reader] /\ at'[Writer] = a
  BY <1>1, Two
<1>3. ReaderSame /\ kind' = kind
  BY <1>2 DEF ReaderSame, StreamSame
<1>4. InBuffer' /\ ReadCall' /\ ReadPlace'
  <2>1. Kept(Arrived) /\ sent \in Seq(Bytes)
    <3>1. Arrived \in Nat /\ Given \in Nat /\ Arrived <= Given
      BY Limits
    <3>2. Arrived <= Len(sent') /\ \A i \in 1..Arrived : i \in 1..Given
      BY <3>1 DEF Kept
    <3>3. QED
      BY <3>2 DEF Kept, StreamInv, OutBuffer
  <2>2. QED
    BY <1>3, <2>1, KeepReader DEF StreamInv
<1>5. \A p \in Procs : at'[p] = "notify" => at[p] = "notify"
  BY <1>2, Two
<1>6. Given \in Nat /\ Ends \in Nat
  BY Limits
<1>7. Ends' \in Nat
  BY DEF Ends
<1>8. Notified' /\ Q!TypeOK'
  <2>1. slots' = slots /\ mRead' = mRead /\ mWrite' = mWrite /\ mFutex' = mFutex
    BY DEF QueueSame, CondSame
  <2>2. QED
    BY <1>2, <1>5, <1>6, <1>7, <2>1, MoreNotified, KeepTypes DEF StreamInv
<1>9. QED
  BY <1>4, <1>8 DEF StreamInv

LEMMA WriterKeeps ==
  ASSUME StreamInv, StreamSame, wire' = wire, Rest', QueueSame, CondSame,
         NEW a \in Q!Places, a # "notify", NEW v \in Chunks,
         at' = [at EXCEPT ![Writer] = a], item' = [item EXCEPT ![Writer] = v],
         OutBuffer', WriteCall', WritePlace', EndState', Kept(Given),
         Given' = Given, Ends' >= Ends,
         state # "open" => state' # "open" /\ Passed' = Passed
  PROVE  StreamInv'
<1>1. /\ at \in [Procs -> Q!Places] /\ item \in [Procs -> Chunks]
  BY Two DEF StreamInv, Q!TypeOK
<1>2. at'[Reader] = at[Reader] /\ item'[Reader] = item[Reader]
  BY <1>1, Two
<1>3. Arrived' = Arrived /\ kind' = kind
  BY DEF Arrived, Consumed, StreamSame
<1>5. Given \in Nat
  BY Limits
<1>4. Between'
  BY <1>2, <1>3, <1>5, KeepBetween DEF StreamInv
<1>6. Given' \in Nat /\ Given' >= Given
  BY <1>5
<1>7. QED
  BY <1>4, <1>6, WriterFrame

LEMMA OutStep ==
  ASSUME StreamInv, StreamSame, wire' = wire, Rest', UNCHANGED queueVars,
         at[Writer] = "out", item[Writer] = << >>, write.op # "gone",
         OutBuffer', WriteCall', EndState', write'.pc # "destroying", Kept(Given),
         write'.pc \in {"raw", "closing"} => ~Piped, Given' = Given,
         state # "open" => state' # "open" /\ Passed' = Passed
  PROVE  StreamInv'
<1>1. /\ at \in [Procs -> Q!Places] /\ item \in [Procs -> Chunks]
  BY Two DEF StreamInv, Q!TypeOK
<1>2. QueueSame /\ CondSame /\ at' = at /\ item' = item
  BY DEF QueueSame, CondSame, queueVars
<1>3. at' = [at EXCEPT ![Writer] = "out"] /\ item' = [item EXCEPT ![Writer] = << >>]
  BY <1>1, <1>2, Two
<1>4. "out" \in Q!Places /\ << >> \in Chunks
  BY EmptyChunk DEF Q!Places
<1>5. WritePlace'
  <2>1. Piped' = Piped
    BY DEF Piped, StreamSame
  <2>2. QED
    BY <1>2, <2>1 DEF WritePlace
<1>6. Ends' >= Ends
  <2>1. ~Stored /\ ~Stored'
    BY <1>2 DEF Stored
  <2>2. Ends = IF state = "open" THEN 0 ELSE IF write.pc = "closing" THEN 0 ELSE 1
    BY <2>1 DEF Ends
  <2>3. write'.pc # "closing"
    BY DEF WriteCall, Piped, StreamSame
  <2>4. Ends' \in 0..2 /\ (state' # "open" => Ends' \in 1..2)
    BY <2>1, <2>3 DEF Ends
  <2>5. QED
    BY <2>2, <2>4
<1>7. QED
  BY <1>2, <1>3, <1>4, <1>5, <1>6, WriterKeeps

LEMMA NoWriteFacts ==
  /\ NoWrite \in WriteTypes /\ NoWrite.op = "idle" /\ NoWrite.pc = "turn"
  /\ NoWrite.rest = << >> /\ NoWrite.buf = << >>
  /\ [NoWrite EXCEPT !.op = "gone"] \in WriteTypes /\ [NoWrite EXCEPT !.op = "gone"].op = "gone"
  /\ [NoWrite EXCEPT !.op = "gone"].pc = "turn" /\ [NoWrite EXCEPT !.op = "gone"].rest = << >>
<1>1. << >> \in Seq(Bytes)
  OBVIOUS
<1>2. QED
  BY <1>1 DEF NoWrite, WriteTypes

(* Where the writer is when it is not in the queue.                        *)
LEMMA OutPlace ==
  ASSUME StreamInv, write.pc \in {"turn", "flush", "close", "destroy"} \/ ~Piped
  PROVE  /\ at[Writer] = "out" /\ item[Writer] = << >>
         /\ write.pc # "raw" => Given = Passed
<1>1. write.pc \notin {"closing", "destroying"} /\ (write.pc = "raw" => ~Piped)
  BY DEF StreamInv, WriteCall
<1>2. at[Writer] = "out" /\ item[Writer] = << >>
  BY <1>1 DEF StreamInv, WritePlace
<1>3. ~Stored
  BY <1>2 DEF Stored
<1>4. write.pc # "raw" => Given = Passed
  BY <1>3 DEF Given
<1>5. QED
  BY <1>2, <1>4

(* Kept by a longer sequence.                                              *)
LEMMA KeptLonger ==
  ASSUME StreamInv, sent' \in Seq(Bytes), Len(sent) <= Len(sent'),
         SubSeq(sent', 1, Len(sent)) = sent
  PROVE  Kept(Given)
<1>1. Given \in Nat /\ Len(sent) \in Nat /\ Given <= Len(sent)
  BY Limits
<1>2. \A i \in 1..Len(sent) : SubSeq(sent', 1, Len(sent))[i] = sent'[i]
  BY <1>1
<1>3. Given <= Len(sent') /\ \A i \in 1..Given : i \in 1..Len(sent)
  BY <1>1
<1>4. QED
  BY <1>2, <1>3 DEF Kept

LEMMA FollowingFacts ==
  ASSUME NEW n \in Nat, Len(sent) \in Nat, Len(sent) + n <= MaxBytes
  PROVE  /\ Following(n) \in Seq(Bytes) /\ Len(Following(n)) = n
         /\ \A m \in 0..n : SubSeq(Following(n), 1, m) = Following(m)
<1>1. \A m \in Nat : Following(m) = [i \in 1..m |-> Len(sent) + i] /\ Following(m) \in Seq(Nat)
                    /\ Len(Following(m)) = m
  BY DEF Following
<1>2. \A i \in 1..n : Len(sent) + i \in Bytes
  BY Sizes DEF Bytes
<1>3. Following(n) \in Seq(Bytes)
  <2>1. Following(n) = [i \in 1..n |-> Len(sent) + i]
    BY <1>1
  <2>2. Following(n) \in [1..n -> Bytes]
    BY <1>2, <2>1
  <2>3. QED
    BY <2>2
<1>4. ASSUME NEW m \in 0..n PROVE SubSeq(Following(n), 1, m) = Following(m)
  <2>1. m \in Nat /\ m <= n /\ Following(n) \in Seq(Nat) /\ Len(Following(n)) = n
    <3>1. m \in Nat /\ m <= n
      OBVIOUS
    <3>2. QED
      BY <1>1, <3>1
  <2>2. /\ SubSeq(Following(n), 1, m) \in Seq(Nat) /\ Len(SubSeq(Following(n), 1, m)) = m
        /\ \A i \in 1..m : SubSeq(Following(n), 1, m)[i] = Following(n)[i]
    BY <2>1
  <2>3. \A i \in 1..m : Following(n)[i] = Following(m)[i]
    BY <1>1, <2>1
  <2>4. Following(m) \in Seq(Nat) /\ Len(Following(m)) = m
    BY <1>1, <2>1
  <2>5. QED
    BY <2>2, <2>3, <2>4, SeqEqual
<1>5. QED
  BY <1>1, <1>3, <1>4

(* A call begins.                                                          *)
LEMMA StartWriteStep ==
  ASSUME StreamInv, StreamSame, wire' = wire, mPipe' = mPipe, errors' = errors,
         UNCHANGED <<mOutBuffer, mOutIndex>>, UNCHANGED queueVars, UNCHANGED history,
         write = NoWrite, NEW o \in {"puts", "putchunk", "flush", "bind"},
         NEW p \in {"turn", "flush", "destroy"}, NEW r,
         Len(sent) + Len(r) <= MaxBytes, r # << >> \/ p = "turn" => o \in {"puts", "putchunk"},
         p = "destroy" => o = "bind",
         write' \in WriteTypes, write'.op = o, write'.pc = p, write'.rest = r
  PROVE  StreamInv'
<1>2. write' \in WriteTypes /\ write'.op = o /\ write'.pc = p /\ write'.rest = r
  OBVIOUS
<1>3. write.op = "idle" /\ write.pc = "turn"
  BY NoWriteFacts
<1>4. UNCHANGED <<sent, state>>
  BY DEF history
<1>5. state = "open"
  BY <1>3 DEF StreamInv, EndState
<1>6. at[Writer] = "out" /\ item[Writer] = << >> /\ Given = Passed
  BY <1>3, OutPlace
<1>7. Given' = Given /\ Passed' = Passed /\ I!Filling' = I!Filling
  <2>1. Passed' = Passed /\ I!Filling' = I!Filling
    BY <1>4 DEF Passed, I!Filling
  <2>2. at' = at
    BY DEF queueVars
  <2>3. ~Stored'
    BY <1>6, <2>2 DEF Stored
  <2>4. write'.pc # "raw"
    BY <1>2
  <2>5. QED
    BY <1>6, <2>1, <2>3, <2>4 DEF Given
<1>8. OutBuffer'
  BY <1>4, <1>7 DEF StreamInv, OutBuffer
<1>9. WriteCall'
  <2>1. (Len(sent) + Len(write.rest) <= MaxBytes)'
    BY <1>2, <1>4
  <2>2. /\ write'.op # "idle" /\ write'.op # "gone" /\ write'.pc # "raw"
        /\ write'.pc \notin {"closing", "destroying", "close"}
    BY <1>2
  <2>3. /\ write'.rest # << >> => write'.op \in {"puts", "putchunk"}
        /\ write'.pc = "turn" => write'.op \in {"puts", "putchunk"}
        /\ write'.pc = "destroy" => write'.op = "bind"
    BY <1>2
  <2>4. QED
    BY <1>2, <2>1, <2>2, <2>3 DEF WriteCall
<1>10. EndState'
  BY <1>2, <1>4, <1>5 DEF EndState
<1>11. Rest'
  BY KeepRest DEF StreamInv, RestSame, StreamSame
<1>12. Kept(Given)
  BY <1>4, KeptSame
<1>13. QED
  BY <1>2, <1>3, <1>5, <1>6, <1>7, <1>8, <1>9, <1>10, <1>11, <1>12, OutStep

(* The bytes s go behind those of the buffer x.                            *)
LEMMA PutData ==
  ASSUME OutBuffer, NEW x \in I!Buffers, I!Filling <= Len(x),
         \A i \in 1..I!Filling : x[i] = sent[Passed + i],
         NEW s \in Seq(Bytes), Len(sent) + Len(s) <= MaxBytes, I!Filling + Len(s) <= Len(x),
         mOutBuffer' = I!Overwrite(x, I!Filling, s), mOutIndex' = I!Filling + Len(s),
         sent' = sent \o s
  PROVE  /\ OutBuffer' /\ Passed' = Passed /\ Len(sent') = Len(sent) + Len(s)
         /\ sent' \in Seq(Bytes) /\ SubSeq(sent', 1, Len(sent)) = sent
         /\ Len(sent) \in Nat /\ Len(sent) <= Len(sent')
<1>1. /\ Passed \in Nat /\ Len(sent) \in Nat /\ I!Filling \in Nat /\ Len(sent) = Passed + I!Filling
      /\ sent \in Seq(Bytes) /\ Len(s) \in Nat
  BY UnflushedRuns DEF OutBuffer
<1>2. /\ sent' \in Seq(Bytes) /\ Len(sent') = Len(sent) + Len(s)
      /\ \A i \in 1..(Len(sent) + Len(s)) :
           sent'[i] = IF i <= Len(sent) THEN sent[i] ELSE s[i - Len(sent)]
  BY <1>1, ConcatProperties, Zenon
<1>3. Len(sent) <= Len(sent')
  BY <1>1, <1>2
<1>4. SubSeq(sent', 1, Len(sent)) = sent
  <2>1. /\ SubSeq(sent', 1, Len(sent)) \in Seq(Bytes) /\ Len(SubSeq(sent', 1, Len(sent))) = Len(sent)
        /\ \A i \in 1..Len(sent) : SubSeq(sent', 1, Len(sent))[i] = sent'[i]
    BY <1>1, <1>2, <1>3
  <2>2. \A i \in 1..Len(sent) : sent'[i] = sent[i]
    BY <1>1, <1>2
  <2>3. QED
    BY <1>1, <2>1, <2>2, SeqEqual
<1>5. PICK y : y = mOutBuffer'
  OBVIOUS
<1>6. /\ y \in I!Buffers /\ Len(y) = Len(x) /\ \A i \in 1..I!Filling : y[i] = x[i]
      /\ \A i \in 1..Len(s) : y[I!Filling + i] = s[i]
  <2>1. y = I!Overwrite(x, I!Filling, s)
    BY <1>5
  <2>2. I!Filling \in Nat /\ s \in Seq(Bytes) /\ I!Filling + Len(s) <= Len(x)
    BY <1>1
  <2>3. QED
    BY <2>1, <2>2, Overwritten
<1>7. I!Filling' = I!Filling + Len(s) /\ (mOutBuffer' = << >> => mOutIndex' = 0)
  <2>1. CASE y = << >>
    BY <1>1, <1>5, <1>6, <2>1 DEF I!Filling
  <2>2. CASE y # << >>
    BY <1>5, <2>2 DEF I!Filling
  <2>3. QED
    BY <2>1, <2>2, <1>5
<1>8. Passed' = Passed
  BY <1>1, <1>2, <1>7 DEF Passed
<1>9. ASSUME NEW i \in 1..I!Filling + Len(s) PROVE y[i] = sent'[Passed + i]
  <2>1. CASE i <= I!Filling
    <3>1. i \in 1..I!Filling /\ Passed + i \in 1..Len(sent) + Len(s) /\ Passed + i <= Len(sent)
      BY <1>1, <2>1
    <3>2. sent'[Passed + i] = sent[Passed + i]
      BY <1>2, <3>1
    <3>3. QED
      BY <1>6, <3>1, <3>2
  <2>2. CASE ~(i <= I!Filling)
    <3>1. i - I!Filling \in 1..Len(s) /\ I!Filling + (i - I!Filling) = i
      BY <1>1, <2>2
    <3>2. /\ Passed + i \in 1..Len(sent) + Len(s) /\ ~(Passed + i <= Len(sent))
          /\ (Passed + i) - Len(sent) = i - I!Filling
      BY <1>1, <2>2
    <3>3. sent'[Passed + i] = s[i - I!Filling]
      BY <1>2, <3>2
    <3>4. QED
      BY <1>6, <3>1, <3>3
  <2>3. QED
    BY <2>1, <2>2
<1>10. I!Filling' \in 0..Len(mOutBuffer')
  <2>1. Len(y) \in Nat /\ I!Filling + Len(s) <= Len(y)
    BY <1>6, BufferFacts
  <2>2. QED
    BY <1>1, <1>5, <1>7, <2>1
<1>11. (\A i \in 1..I!Filling : mOutBuffer[i] = sent[Passed + i])'
  BY <1>5, <1>7, <1>8, <1>9
<1>12. OutBuffer'
  <2>1. mOutBuffer' \in I!Buffers /\ Passed' \in Nat /\ sent' \in Seq(Bytes)
    BY <1>1, <1>2, <1>5, <1>6, <1>8
  <2>2. Len(sent') <= MaxBytes /\ (mOutBuffer' = << >> => mOutIndex' \in Unset \cup {0})
    BY <1>2, <1>7
  <2>3. QED
    BY <1>10, <1>11, <2>1, <2>2 DEF OutBuffer
<1>13. QED
  BY <1>1, <1>2, <1>3, <1>4, <1>8, <1>12

LEMMA AllocFacts ==
  ASSUME OutBuffer
  PROVE  /\ I!allocoutbuf \in I!Buffers /\ Len(I!allocoutbuf) = BufSize /\ I!Filling <= BufSize
         /\ \A i \in 1..I!Filling : I!allocoutbuf[i] = sent[Passed + i]
<1>1. mOutBuffer \in I!Buffers /\ I!Filling \in 0..Len(mOutBuffer)
      /\ \A i \in 1..I!Filling : mOutBuffer[i] = sent[Passed + i]
  BY DEF OutBuffer
<1>2. CASE mOutBuffer = << >>
  <2>1. I!Filling = 0 /\ I!allocoutbuf = I!Blank
    BY <1>1, <1>2 DEF I!allocoutbuf
  <2>2. QED
    BY <2>1, BlankFacts, Sizes
<1>3. CASE mOutBuffer # << >>
  <2>1. I!allocoutbuf = mOutBuffer /\ Len(mOutBuffer) = BufSize
    BY <1>1, <1>3, BufferFacts DEF I!allocoutbuf
  <2>2. I!Filling <= BufSize
    BY <1>1, <2>1, Sizes
  <2>3. QED
    BY <1>1, <2>1, <2>2
<1>4. QED
  BY <1>2, <1>3

LEMMA PutStep ==
  ASSUME StreamInv, StreamSame, wire' = wire, mPipe' = mPipe, errors' = errors,
         UNCHANGED queueVars, UNCHANGED <<last, state>>, write.pc = "turn", write.op # "gone",
         OutBuffer', Passed' = Passed, sent' \in Seq(Bytes), SubSeq(sent', 1, Len(sent)) = sent,
         Len(sent) <= Len(sent'), WriteCall', write'.pc \in {"turn", "flush"}, write'.op # "gone"
  PROVE  StreamInv' /\ Abstract!Put
<1>1. state = "open"
  BY DEF StreamInv, EndState
<1>2. at[Writer] = "out" /\ item[Writer] = << >> /\ Given = Passed
  BY OutPlace
<1>3. Given' = Given
  <2>1. at' = at
    BY DEF queueVars
  <2>2. ~Stored' /\ write'.pc # "raw"
    BY <1>2, <2>1 DEF Stored
  <2>3. QED
    BY <1>2, <2>2 DEF Given
<1>4. EndState'
  BY <1>1 DEF EndState
<1>5. Rest'
  BY KeepRest DEF StreamInv, RestSame, StreamSame
<1>6. StreamInv'
  BY <1>1, <1>2, <1>3, <1>4, <1>5, KeptLonger, OutStep
<1>7. Abstract!Put
  BY <1>1 DEF Abstract!Put, StreamSame
<1>8. QED
  BY <1>6, <1>7

LEMMA TryWriteStep ==
  ASSUME StreamInv, StreamSame, wire' = wire, mPipe' = mPipe, errors' = errors,
         NEW n \in Nat, trywrite(n)
  PROVE  StreamInv' /\ Abstract!Put
<1> DEFINE room == Len(I!allocoutbuf) - I!Filling
           m == IF Len(Following(n)) <= room THEN Len(Following(n)) ELSE room
<1>1. /\ write = NoWrite /\ write' = write /\ UNCHANGED queueVars /\ Len(sent) + n <= MaxBytes
      /\ mOutBuffer' = I!Overwrite(I!allocoutbuf, I!Filling, SubSeq(Following(n), 1, m))
      /\ mOutIndex' = I!Filling + m /\ sent' = sent \o Following(mOutIndex' - I!Filling)
      /\ UNCHANGED <<taken, last, state>>
  BY DEF trywrite, I!trywrite, Wrote
<1>2. /\ OutBuffer /\ I!Filling \in Nat /\ Len(sent) \in Nat
  BY UnflushedRuns DEF StreamInv
<1>3. /\ I!allocoutbuf \in I!Buffers /\ Len(I!allocoutbuf) = BufSize /\ I!Filling <= BufSize
      /\ \A i \in 1..I!Filling : I!allocoutbuf[i] = sent[Passed + i]
  BY <1>2, AllocFacts
<1>4. Len(Following(n)) = n /\ \A k \in 0..n : SubSeq(Following(n), 1, k) = Following(k)
  BY <1>1, <1>2, FollowingFacts
<1>5. m \in Nat /\ m <= n /\ I!Filling + m <= BufSize
  <2>1. room \in Nat /\ room = BufSize - I!Filling
    BY <1>2, <1>3, Sizes
  <2> HIDE DEF room
  <2>2. QED
    BY <1>2, <1>4, <2>1, Sizes
<1> HIDE DEF m
<1>6. mOutIndex' - I!Filling = m
  BY <1>1, <1>2, <1>5
<1>7. Len(sent) + m <= MaxBytes /\ m \in 0..n
  BY <1>1, <1>2, <1>5, Sizes
<1>8. Following(m) \in Seq(Bytes) /\ Len(Following(m)) = m
  BY <1>2, <1>5, <1>7, FollowingFacts
<1>9. sent' = sent \o Following(m) /\ SubSeq(Following(n), 1, m) = Following(m)
  BY <1>1, <1>4, <1>6, <1>7
<1>10. PICK s : s = Following(m)
  OBVIOUS
<1>11. /\ OutBuffer' /\ Passed' = Passed /\ Len(sent') = Len(sent) + m
       /\ sent' \in Seq(Bytes) /\ SubSeq(sent', 1, Len(sent)) = sent /\ Len(sent) <= Len(sent')
  <2>1. s \in Seq(Bytes) /\ Len(s) = m /\ sent' = sent \o s
    BY <1>8, <1>9, <1>10
  <2>2. mOutBuffer' = I!Overwrite(I!allocoutbuf, I!Filling, s)
    BY <1>1, <1>9, <1>10
  <2>3. mOutIndex' = I!Filling + Len(s) /\ Len(sent) + Len(s) <= MaxBytes
    BY <1>1, <1>7, <2>1
  <2>4. I!Filling + Len(s) <= Len(I!allocoutbuf) /\ I!Filling <= Len(I!allocoutbuf)
    BY <1>3, <1>5, <2>1
  <2>5. PICK x \in I!Buffers : x = I!allocoutbuf
    BY <1>3
  <2>6. \A i \in 1..I!Filling : x[i] = sent[Passed + i]
    BY <1>3, <2>5
  <2>7. /\ OutBuffer' /\ Passed' = Passed /\ Len(sent') = Len(sent) + Len(s)
        /\ sent' \in Seq(Bytes) /\ SubSeq(sent', 1, Len(sent)) = sent /\ Len(sent) <= Len(sent')
    BY <1>2, <2>1, <2>2, <2>3, <2>4, <2>5, <2>6, PutData
  <2>8. QED
    BY <2>1, <2>7
<1>12. WriteCall'
  <2>1. Len(sent') + Len(<< >>) <= MaxBytes
    BY <1>2, <1>5, <1>7, <1>11
  <2>2. write'.op = "idle" /\ write'.pc = "turn" /\ write' = NoWrite /\ write' \in WriteTypes
    BY <1>1, NoWriteFacts
  <2>3. write'.rest = << >>
    BY <1>1, NoWriteFacts
  <2>4. QED
    BY <2>1, <2>2, <2>3 DEF WriteCall
<1>13. write.pc = "turn" /\ write.op = "idle"
  BY <1>1, NoWriteFacts
<1>14. QED
  BY <1>1, <1>11, <1>12, <1>13, PutStep

LEMMA PutspanStep ==
  ASSUME StreamInv, StreamSame, wire' = wire, mPipe' = mPipe, errors' = errors, putspan
  PROVE  StreamInv' /\ Abstract!Put
<1>1. write.op \in {"puts", "putchunk"} /\ write.pc = "turn" /\ UNCHANGED queueVars
  BY DEF putspan
<1>2. /\ OutBuffer /\ I!Filling \in Nat /\ Len(sent) \in Nat /\ Len(mOutBuffer) \in Nat
      /\ mOutBuffer \in I!Buffers /\ I!Filling <= Len(mOutBuffer)
      /\ \A i \in 1..I!Filling : mOutBuffer[i] = sent[Passed + i]
  <2>1. mOutBuffer \in I!Buffers /\ Len(mOutBuffer) \in Nat
    BY BufferFacts DEF StreamInv, OutBuffer
  <2>2. QED
    BY <2>1, UnflushedRuns DEF StreamInv, OutBuffer
<1>3. write \in WriteTypes /\ Len(sent) + Len(write.rest) <= MaxBytes
  BY DEF StreamInv, WriteCall
<1>4. write.rest \in Seq(Bytes) /\ Len(write.rest) \in Nat
  BY <1>3 DEF WriteTypes
<1>5. PICK free \in Nat : free = I!Free /\ free = Len(mOutBuffer) - I!Filling
  BY <1>2 DEF I!Free
<1>6. ASSUME NEW s \in Seq(Bytes), NEW r \in Seq(Bytes), Len(s) <= free,
             Len(s) + Len(r) = Len(write.rest), I!Buffer(s), Wrote(s),
             write' \in WriteTypes, write'.rest = r, write' = NoWrite \/ write'.pc = "flush",
             write' # NoWrite => write'.op = write.op
      PROVE  StreamInv' /\ Abstract!Put
  <2>1. /\ mOutBuffer' = I!Overwrite(mOutBuffer, I!Filling, s)
        /\ mOutIndex' = I!Filling + Len(s) /\ sent' = sent \o s
        /\ UNCHANGED <<taken, last, state>>
    BY <1>6 DEF I!Buffer, Wrote
  <2>2. /\ I!Filling + Len(s) <= Len(mOutBuffer) /\ Len(sent) + Len(s) <= MaxBytes
        /\ Len(sent) + Len(s) + Len(r) <= MaxBytes
    <3>1. Len(s) \in Nat /\ Len(r) \in Nat
      BY <1>6
    <3>2. QED
      BY <1>2, <1>3, <1>5, <1>6, <3>1, Sizes
  <2>3. /\ OutBuffer' /\ Passed' = Passed /\ Len(sent') = Len(sent) + Len(s)
        /\ sent' \in Seq(Bytes) /\ SubSeq(sent', 1, Len(sent)) = sent /\ Len(sent) <= Len(sent')
    BY <1>2, <2>1, <2>2, PutData
  <2>4. /\ write'.op = "idle" => write' = NoWrite
        /\ write'.op \in {"idle", "puts", "putchunk"} /\ write'.pc \in {"turn", "flush"}
        /\ write'.pc = "turn" => write'.op = "idle"
        /\ write'.rest # << >> => write'.op \in {"puts", "putchunk"}
    BY <1>1, <1>6, NoWriteFacts
  <2>5. Len(sent') + Len(write'.rest) <= MaxBytes
    BY <1>6, <2>2, <2>3
  <2>6. WriteCall'
    BY <1>6, <2>4, <2>5 DEF WriteCall
  <2>7. QED
    BY <1>1, <2>1, <2>3, <2>4, <2>6, PutStep
<1>7. CASE /\ Len(write.rest) <= I!Free
           /\ I!Buffer(write.rest) /\ Wrote(write.rest)
           /\ write' = IF write.op = "puts" THEN NoWrite
                       ELSE [write EXCEPT !.pc = "flush", !.rest = << >>]
  <2>1. PICK s, r : s = write.rest /\ r = << >>
    OBVIOUS
  <2>2. /\ s \in Seq(Bytes) /\ r \in Seq(Bytes) /\ Len(s) <= free
        /\ Len(s) + Len(r) = Len(write.rest)
    BY <1>4, <1>5, <1>7, <2>1
  <2>3. /\ write' \in WriteTypes /\ write'.rest = r
        /\ write' = NoWrite \/ write'.pc = "flush"
        /\ write' # NoWrite => write'.op = write.op
    <3>1. CASE write.op = "puts"
      <4>1. write' = NoWrite
        BY <1>7, <3>1
      <4>2. QED
        BY <2>1, <4>1, NoWriteFacts
    <3>2. CASE write.op # "puts"
      <4>1. write' = [write EXCEPT !.pc = "flush", !.rest = r]
        BY <1>7, <2>1, <3>2
      <4>2. QED
        BY <1>3, <2>2, <4>1 DEF WriteTypes
    <3>3. QED
      BY <3>1, <3>2
  <2>4. I!Buffer(s) /\ Wrote(s)
    BY <1>7, <2>1
  <2>5. QED
    BY <1>6, <2>2, <2>3, <2>4
<1>8. CASE /\ Len(write.rest) > I!Free
           /\ I!Buffer(SubSeq(write.rest, 1, I!Free)) /\ Wrote(SubSeq(write.rest, 1, I!Free))
           /\ write' = [write EXCEPT !.pc = "flush",
                                     !.rest = SubSeq(@, I!Free + 1, Len(@))]
  <2>1. PICK s, r : s = SubSeq(write.rest, 1, free) /\ r = SubSeq(write.rest, free + 1, Len(write.rest))
    OBVIOUS
  <2>2. free < Len(write.rest)
    BY <1>4, <1>5, <1>8
  <2>3. /\ s \in Seq(Bytes) /\ Len(s) = free
        /\ r \in Seq(Bytes) /\ Len(r) = Len(write.rest) - free
    BY <1>4, <2>1, <2>2
  <2>4. Len(s) <= free /\ Len(s) + Len(r) = Len(write.rest)
    BY <1>4, <2>3
  <2>5. write' = [write EXCEPT !.pc = "flush", !.rest = r]
    BY <1>5, <1>8, <2>1
  <2>6. /\ write' \in WriteTypes /\ write'.op = write.op /\ write'.pc = "flush"
        /\ write'.rest = r
    BY <1>3, <2>3, <2>5 DEF WriteTypes
  <2>7. I!Buffer(s) /\ Wrote(s)
    BY <1>5, <1>8, <2>1
  <2>8. QED
    BY <1>6, <2>3, <2>4, <2>6, <2>7
<1>9. QED
  BY <1>7, <1>8 DEF putspan
------------------------------------------------------------------------------
(* flush and raw_write.                                                    *)

LEMMA SameBuffer ==
  ASSUME OutBuffer, UNCHANGED <<mOutBuffer, mOutIndex, sent>>
  PROVE  /\ OutBuffer' /\ Passed' = Passed /\ I!Unflushed' = I!Unflushed
         /\ I!Filling' = I!Filling
<1>1. Passed' = Passed /\ I!Filling' = I!Filling
  BY DEF Passed, I!Filling
<1>2. QED
  BY <1>1 DEF OutBuffer, I!Unflushed

LEMMA FlushedBuffer ==
  ASSUME OutBuffer, I!Flushed, sent' = sent
  PROVE  OutBuffer' /\ Passed' = Len(sent) /\ I!Filling' = 0
<1>1. I!Filling' = 0 /\ mOutIndex' = 0 /\ mOutBuffer' = I!Blank
  BY DEF I!Flushed, I!Filling
<1>2. Len(sent) \in Nat /\ Len(sent) <= MaxBytes /\ sent \in Seq(Bytes)
  BY DEF OutBuffer
<1>3. Passed' = Len(sent)
  BY <1>1, <1>2 DEF Passed
<1>4. mOutBuffer' \in I!Buffers /\ Len(mOutBuffer') = BufSize
  BY <1>1, BlankFacts
<1>5. I!Filling' \in 0..Len(mOutBuffer') /\ \A i \in 1..I!Filling' : FALSE
  BY <1>1, <1>4, Sizes
<1>6. QED
  BY <1>1, <1>2, <1>3, <1>4, <1>5 DEF OutBuffer

Gives == IF write.op = "bind" THEN [write EXCEPT !.pc = "close", !.buf = << >>] ELSE NoWrite

(* A flush is over, well or not.                                           *)
LEMMA ReturnedCall ==
  ASSUME StreamInv, write.pc \in {"flush", "raw"}, FlushReturns \/ write' = Gives,
         sent' = sent \/ (Len(sent') <= MaxBytes /\ write' = Gives /\ sent' \in Seq(Bytes))
  PROVE  /\ WriteCall' /\ write'.pc \in {"turn", "close"} /\ write'.op # "gone"
         /\ write.op \notin {"idle", "gone"} /\ state = "open"
<1>1. /\ write.op \notin {"idle", "gone"} /\ write \in WriteTypes
      /\ write.rest # << >> => write.op \in {"puts", "putchunk"}
  BY NoWriteFacts DEF StreamInv, WriteCall
<1>2. state = "open"
  BY <1>1 DEF StreamInv, EndState
<1>3. Len(sent) + Len(write.rest) <= MaxBytes
  BY DEF StreamInv, WriteCall
<1>4. Len(sent') + Len(<< >>) <= MaxBytes
  <2>1. Len(sent') <= MaxBytes /\ Len(sent') \in Nat
    BY Limits
  <2>2. QED
    BY <2>1
<1>5. CASE write' = NoWrite
  <2>1. Len(sent') + Len(write'.rest) <= MaxBytes
    BY <1>4, <1>5, NoWriteFacts
  <2>2. /\ write'.op = "idle" /\ write'.pc = "turn" /\ write' \in WriteTypes /\ write'.rest = << >>
    BY <1>5, NoWriteFacts
  <2>3. WriteCall'
    BY <1>5, <2>1, <2>2 DEF WriteCall
  <2>4. QED
    BY <1>1, <1>2, <2>2, <2>3
<1>6. CASE write' # NoWrite
  <2>1. \/ write' = [write EXCEPT !.pc = "turn"] /\ write.rest # << >>
        \/ write' = [write EXCEPT !.pc = "close"] /\ write.op = "bind"
        \/ write' = [write EXCEPT !.pc = "close", !.buf = << >>] /\ write.op = "bind"
    BY <1>6 DEF FlushReturns, Gives
  <2>2. << >> \in Seq(Bytes)
    OBVIOUS
  <2>3. /\ write' \in WriteTypes /\ write'.op = write.op /\ write'.rest = write.rest
        /\ write'.pc \in {"turn", "close"}
        /\ write'.pc = "turn" => write.rest # << >>
        /\ write'.pc = "close" => write.op = "bind"
    <3>1. CASE write' = [write EXCEPT !.pc = "turn"] /\ write.rest # << >>
      <4>1. /\ write' \in WriteTypes /\ write'.op = write.op /\ write'.rest = write.rest
            /\ write'.pc = "turn"
        BY <1>1, <3>1 DEF WriteTypes
      <4>2. QED
        BY <3>1, <4>1
    <3>2. CASE write' = [write EXCEPT !.pc = "close"] /\ write.op = "bind"
      <4>1. /\ write' \in WriteTypes /\ write'.op = write.op /\ write'.rest = write.rest
            /\ write'.pc = "close"
        BY <1>1, <3>2 DEF WriteTypes
      <4>2. QED
        BY <3>2, <4>1
    <3>3. CASE write' = [write EXCEPT !.pc = "close", !.buf = << >>] /\ write.op = "bind"
      BY <1>1, <2>2, <3>3 DEF WriteTypes
    <3>4. QED
      BY <2>1, <3>1, <3>2, <3>3
  <2>4. Len(sent') + Len(write'.rest) <= MaxBytes
    <3>1. CASE sent' = sent
      BY <1>3, <2>3, <3>1
    <3>2. CASE write' = Gives
      <4>1. write.op = "bind"
        BY <1>6, <3>2 DEF Gives
      <4>2. write'.rest = << >>
        BY <1>1, <2>3, <4>1
      <4>3. QED
        BY <1>4, <4>2
    <3>3. QED
      BY <3>1, <3>2
  <2>5. WriteCall'
    BY <1>1, <2>3, <2>4 DEF WriteCall
  <2>6. QED
    BY <1>1, <1>2, <2>3, <2>5
<1>7. QED
  BY <1>5, <1>6

(* It is over: what was given stays, what waits comes behind it.           *)
LEMMA OverStep ==
  ASSUME StreamInv, StreamSame, wire' = wire, mPipe' = mPipe, errors' \in 0..MaxErrors,
         UNCHANGED queueVars, state' = state, at[Writer] = "out", item[Writer] = << >>,
         write.pc \in {"flush", "raw"}, FlushReturns \/ write' = Gives,
         sent' = sent \/ (Len(sent') <= MaxBytes /\ write' = Gives /\ sent' \in Seq(Bytes)),
         Kept(Given), OutBuffer', Passed' = Given
  PROVE  StreamInv'
<1>1. at' = at
  BY DEF queueVars
<1>2. /\ WriteCall' /\ write'.pc \in {"turn", "close"} /\ write'.op # "gone"
      /\ write.op \notin {"idle", "gone"} /\ state = "open"
  BY ReturnedCall
<1>3. Given' = Given
  BY <1>1, <1>2 DEF Given, Stored
<1>4. EndState'
  BY <1>2 DEF EndState
<1>5. Rest'
  BY DEF StreamInv, Rest, StreamSame
<1>6. QED
  BY <1>2, <1>3, <1>4, <1>5, OutStep

(* A write failed: the bytes up to Given stay, and what waits follows      *)
(* them, so that those between Passed and Given are there twice.           *)
LEMMA SocketWriteFailsStep ==
  ASSUME StreamInv, StreamSame, mPipe' = mPipe, SocketWriteFails
  PROVE  StreamInv' /\ Abstract!Again
<1>1. /\ kind = "socket" /\ write.pc = "raw" /\ errors < MaxErrors /\ errors' = errors + 1
      /\ UNCHANGED <<mOutBuffer, mOutIndex>> /\ write' = Gives
      /\ UNCHANGED queueVars /\ wire' = wire /\ UNCHANGED <<taken, last, state>>
      /\ sent' = SubSeq(sent, 1, Len(sent) - Len(write.buf)) \o I!Unflushed
      /\ Len(sent') <= MaxBytes
  BY DEF SocketWriteFails, WriteFails, Gives, outVars
<1>2. ~Piped
  BY <1>1 DEF Piped
<1>3. at[Writer] = "out" /\ item[Writer] = << >>
  BY <1>2, OutPlace
<1>4. /\ Passed \in Nat /\ Len(sent) \in Nat /\ I!Filling \in Nat /\ Len(sent) = Passed + I!Filling
      /\ Runs(sent, I!Unflushed, Passed, Len(sent)) /\ Len(I!Unflushed) = I!Filling
      /\ sent \in Seq(Bytes)
  BY UnflushedRuns DEF StreamInv, OutBuffer
<1>5. Runs(sent, write.buf, Given, Len(sent)) /\ Passed <= Given
  BY <1>1, <1>2 DEF StreamInv, WriteCall
<1>6. Given \in Nat /\ Given <= Len(sent) /\ Len(sent) - Len(write.buf) = Given
  BY <1>4, <1>5 DEF Runs
<1>7. PICK g, s : g = SubSeq(sent, 1, Given) /\ s = I!Unflushed
  OBVIOUS
<1>8. /\ g \in Seq(Bytes) /\ Len(g) = Given /\ \A i \in 1..Given : g[i] = sent[i]
      /\ s \in Seq(Bytes) /\ Len(s) = I!Filling /\ \A i \in 1..I!Filling : s[i] = sent[Passed + i]
      /\ sent' = g \o s
  <2>1. g \in Seq(Bytes) /\ Len(g) = Given /\ \A i \in 1..Given : g[i] = sent[i]
    BY <1>4, <1>6, <1>7
  <2>2. s \in Seq(Bytes) /\ Len(s) = I!Filling /\ \A i \in 1..I!Filling : s[i] = sent[Passed + i]
    BY <1>4, <1>7 DEF Runs
  <2>3. QED
    BY <1>1, <1>6, <1>7, <2>1, <2>2
<1>9. /\ sent' \in Seq(Bytes) /\ Len(sent') = Given + I!Filling
      /\ \A i \in 1..(Given + I!Filling) : sent'[i] = IF i <= Given THEN g[i] ELSE s[i - Given]
  BY <1>8, ConcatProperties, Zenon
<1>10. Kept(Given)
  <2>1. Given <= Len(sent') /\ \A i \in 1..Given : sent'[i] = sent[i]
    BY <1>4, <1>6, <1>8, <1>9
  <2>2. QED
    BY <1>9, <2>1 DEF Kept
<1>11. I!Filling' = I!Filling /\ Passed' = Given
  <2>1. I!Filling' = I!Filling
    BY <1>1 DEF I!Filling
  <2>2. PICK f \in Nat, h \in Nat : f = I!Filling /\ h = Given
    BY <1>4, <1>6
  <2>3. Passed' = Len(sent') - I!Filling'
    BY DEF Passed
  <2>4. (h + f) - f = h
    OBVIOUS
  <2>5. QED
    BY <1>9, <2>1, <2>2, <2>3, <2>4
<1>12. OutBuffer'
  <2>1. ASSUME NEW i \in 1..I!Filling PROVE mOutBuffer[i] = sent'[Given + i]
    <3>1. mOutBuffer[i] = sent[Passed + i]
      BY <2>1 DEF StreamInv, OutBuffer
    <3>2. /\ Given + i \in 1..(Given + I!Filling) /\ ~(Given + i <= Given)
          /\ (Given + i) - Given = i
      BY <1>4, <1>6
    <3>3. sent'[Given + i] = s[i]
      BY <1>9, <3>2
    <3>4. QED
      BY <1>8, <3>1, <3>3
  <2>2. QED
    BY <1>1, <1>6, <1>9, <1>11, <2>1 DEF StreamInv, OutBuffer
<1>13. errors' \in 0..MaxErrors
  BY <1>1, Sizes DEF StreamInv, Rest
<1>14. StreamInv'
  BY <1>1, <1>3, <1>9, <1>10, <1>11, <1>12, <1>13, OverStep
<1>15. Abstract!Again
  <2>1. state = "open"
    BY <1>1, NoWriteFacts DEF StreamInv, WriteCall, EndState
  <2>2. Passed \in 0..Len(sent) /\ Given \in 0..Len(sent) /\ Passed <= Given
    BY <1>4, <1>5, <1>6
  <2>3. taken <= Given
    <3>1. /\ taken \in Nat /\ taken <= Consumed /\ Consumed \in Nat /\ Arrived \in Nat
          /\ Consumed <= Arrived /\ Arrived <= Given
      BY Limits, UnreadRuns
    <3>2. QED
      BY <1>6, <3>1
  <2>4. I!Unflushed = SubSeq(sent, Passed + 1, Len(sent))
    <3>1. Runs(sent, sent, 0, Len(sent)) /\ 0 + Passed = Passed
      BY <1>4 DEF Runs
    <3>2. Runs(sent, SubSeq(sent, Passed + 1, Len(sent)), Passed, Len(sent))
      BY <2>2, <3>1, RunsFirst
    <3>3. QED
      BY <1>4, <3>2, RunsSame
  <2>5. sent' = SubSeq(sent, 1, Given) \o SubSeq(sent, Passed + 1, Len(sent))
    BY <1>1, <1>6, <2>4
  <2>6. QED
    BY <1>1, <2>1, <2>2, <2>3, <2>5 DEF Abstract!Again
<1>16. QED
  BY <1>14, <1>15

(* The wire takes what raw_write was given, or a part of it.               *)
LEMMA WireStep ==
  ASSUME StreamInv, StreamSame, mPipe' = mPipe, errors' = errors, UNCHANGED queueVars,
         UNCHANGED history, ~Piped, write.pc = "raw", NEW n \in 0..Len(write.buf),
         wire' = wire \o SubSeq(write.buf, 1, n),
         kind = "socket" => Len(wire) + n <= WireSize,
         \/ n = Len(write.buf) /\ I!Flushed /\ FlushReturns
         \/ n < Len(write.buf) /\ Start(SubSeq(write.buf, n + 1, Len(write.buf)))
  PROVE  StreamInv'
<1>1. UNCHANGED <<sent, state>> /\ at' = at /\ item' = item /\ QueueSame /\ CondSame
  BY DEF history, queueVars, QueueSame, CondSame
<1>2. Runs(sent, write.buf, Given, Len(sent)) /\ Passed <= Given
  BY DEF StreamInv, WriteCall
<1>3. Runs(sent, wire, Arrived, Given) /\ Arrived' = Arrived
  BY <1>1 DEF StreamInv, Between, Arrived, Consumed, StreamSame
<1>4. PICK s, r : s = SubSeq(write.buf, 1, n) /\ r = SubSeq(write.buf, n + 1, Len(write.buf))
  OBVIOUS
<1>5. /\ Runs(sent, s, Given, Given + n) /\ Len(s) = n /\ Runs(sent, r, Given + n, Len(sent))
      /\ Len(r) = Len(write.buf) - n
  BY <1>2, <1>4, RunsFirst
<1>6. Runs(sent, wire \o s, Arrived, Given + n)
  BY <1>3, <1>5, RunsConcat
<1>7. at[Writer] = "out" /\ item[Writer] = << >>
  BY OutPlace
<1>8. /\ Given \in Nat /\ n \in Nat /\ Len(write.buf) \in Nat /\ Len(sent) \in Nat
      /\ Len(sent) = Given + Len(write.buf) /\ Passed \in Nat /\ Len(wire) \in Nat /\ Ends \in Nat
      /\ Len(sent) <= MaxBytes
  <2>1. /\ Given \in Nat /\ Len(sent) \in Nat /\ Passed \in Nat /\ Ends \in Nat
        /\ Len(sent) <= MaxBytes
    BY Limits
  <2>2. /\ Len(write.buf) \in Nat /\ Len(sent) = Given + Len(write.buf) /\ Len(wire) \in Nat
    BY <1>2, <1>3 DEF Runs
  <2>3. QED
    BY <2>1, <2>2
<1>9. /\ OutBuffer' /\ WriteCall' /\ write'.pc \notin {"closing", "destroying"} /\ Given' = Given + n
      /\ write'.op # "gone" /\ state = "open"
  <2>1. CASE n = Len(write.buf) /\ I!Flushed /\ FlushReturns
    <3>1. /\ WriteCall' /\ write'.pc \in {"turn", "close"} /\ write'.op # "gone"
          /\ write.op \notin {"idle", "gone"} /\ state = "open"
      BY <1>1, <2>1, ReturnedCall
    <3>2. OutBuffer' /\ Passed' = Len(sent)
      BY <1>1, <2>1, FlushedBuffer DEF StreamInv
    <3>3. Given' = Passed'
      BY <1>1, <1>7, <3>1 DEF Given, Stored
    <3>4. QED
      BY <1>8, <2>1, <3>1, <3>2, <3>3
  <2>2. CASE n < Len(write.buf) /\ Start(SubSeq(write.buf, n + 1, Len(write.buf)))
    <3>1. write' = [write EXCEPT !.pc = "raw", !.buf = r] /\ UNCHANGED <<mOutBuffer, mOutIndex>>
      BY <1>4, <2>2 DEF Start, outVars
    <3>2. r \in Seq(Bytes) /\ write \in WriteTypes
      BY <1>5, <1>8, RunsBytes DEF StreamInv, WriteCall
    <3>3. /\ write' \in WriteTypes /\ write'.op = write.op /\ write'.pc = "raw"
          /\ write'.rest = write.rest /\ write'.buf = r
      BY <3>1, <3>2 DEF WriteTypes
    <3>4. OutBuffer' /\ Passed' = Passed
      BY <1>1, <3>1, SameBuffer DEF StreamInv
    <3>5. Piped' = Piped
      BY DEF Piped, StreamSame
    <3>6. Given' = Given + n
      <4>1. Given' = Len(sent) - Len(r)
        BY <1>1, <3>3, <3>5 DEF Given
      <4>2. PICK l \in Nat, g \in Nat : l = Len(write.buf) /\ g = Given
        BY <1>8
      <4>3. Len(r) = l - n /\ Len(sent) = g + l /\ n \in Nat
        BY <1>5, <1>8, <4>2
      <4>4. (g + l) - (l - n) = g + n
        BY <4>3
      <4>5. QED
        BY <4>1, <4>2, <4>3, <4>4, Zenon
    <3>7. /\ write.op \notin {"idle", "gone"} /\ state = "open"
          /\ write.rest # << >> => write.op \in {"puts", "putchunk"}
      <4>1. write.op \notin {"idle", "gone"}
        BY NoWriteFacts DEF StreamInv, WriteCall
      <4>2. QED
        BY <4>1 DEF StreamInv, WriteCall, EndState
    <3>8. Len(sent') + Len(write'.rest) <= MaxBytes
      BY <1>1, <3>3 DEF StreamInv, WriteCall
    <3>9. Runs(sent', write'.buf, Given', Len(sent')) /\ Passed' <= Given'
      <4>1. Passed <= Given + n
        BY <1>2, <1>8
      <4>2. QED
        BY <1>1, <1>5, <3>3, <3>4, <3>6, <4>1
    <3>10. WriteCall'
      BY <3>3, <3>7, <3>8, <3>9 DEF WriteCall
    <3>11. QED
      BY <3>3, <3>4, <3>6, <3>7, <3>10
  <2>3. QED
    BY <2>1, <2>2
<1>10. Piped' = Piped
  BY DEF Piped, StreamSame
<1>11. Between'
  <2>1. Runs(sent, wire, Arrived, Given)'
    BY <1>1, <1>3, <1>4, <1>6, <1>9
  <2>2. QED
    BY <1>10, <2>1 DEF Between
<1>12. Rest'
  <2>1. kind = "socket" => Len(wire') <= WireSize
    <3>1. Len(wire \o s) = Len(wire) + n
      <4>1. wire \in Seq(Bytes) /\ s \in Seq(Bytes) /\ Len(s) = n
        BY <1>3, <1>5 DEF Runs
      <4>2. QED
        BY <4>1, ConcatProperties
    <3>2. QED
      BY <1>4, <3>1
  <2>2. QED
    BY <2>1 DEF StreamInv, Rest, StreamSame
<1>13. WritePlace' /\ EndState'
  BY <1>1, <1>7, <1>9, <1>10 DEF WritePlace, EndState
<1>14. Given' \in Nat /\ Given' >= Given /\ Ends' >= Ends
  <2>1. Ends' = 0 /\ Ends = 0
    BY <1>1, <1>9 DEF Ends
  <2>2. QED
    BY <1>8, <1>9, <2>1
<1>15. "out" \in Q!Places /\ << >> \in Chunks
  BY EmptyChunk DEF Q!Places
<1>16. at' = [at EXCEPT ![Writer] = "out"] /\ item' = [item EXCEPT ![Writer] = << >>]
  <2>1. at \in [Procs -> Q!Places] /\ item \in [Procs -> Chunks]
    BY Two DEF StreamInv, Q!TypeOK
  <2>2. QED
    BY <1>1, <1>7, <2>1, Two
<1>17. Kept(Given)
  BY <1>1, KeptSame
<1>18. QED
  BY <1>1, <1>9, <1>11, <1>12, <1>13, <1>14, <1>15, <1>16, <1>17, WriterFrame

LEMMA SocketWriteStep ==
  ASSUME StreamInv, StreamSame, mPipe' = mPipe, SocketWrite
  PROVE  StreamInv' /\ UNCHANGED history
<1>1. /\ kind = "socket" /\ write.pc = "raw" /\ UNCHANGED queueVars /\ errors' = errors
      /\ UNCHANGED history
  BY DEF SocketWrite
<1>2. PICK n \in 1..Len(write.buf) :
        /\ Len(wire) + n <= WireSize /\ wire' = wire \o SubSeq(write.buf, 1, n)
        /\ \/ n = Len(write.buf) /\ I!Flushed /\ FlushReturns
           \/ n < Len(write.buf) /\ Start(SubSeq(write.buf, n + 1, Len(write.buf)))
  BY DEF SocketWrite
<1>3. ~Piped
  BY <1>1 DEF Piped
<1>4. n \in 0..Len(write.buf)
  <2>1. Len(write.buf) \in Nat
    BY <1>1, <1>3 DEF StreamInv, WriteCall, Runs
  <2>2. QED
    BY <2>1
<1>5. StreamInv'
  BY <1>1, <1>2, <1>3, <1>4, WireStep
<1>6. QED
  BY <1>1, <1>5

LEMMA StringWriteStep ==
  ASSUME StreamInv, StreamSame, mPipe' = mPipe, StringWrite
  PROVE  StreamInv' /\ UNCHANGED history
<1>1. /\ kind = "string" /\ write.pc = "raw" /\ UNCHANGED queueVars /\ errors' = errors
      /\ UNCHANGED history /\ wire' = wire \o write.buf /\ I!Flushed /\ FlushReturns
  BY DEF StringWrite
<1>2. ~Piped
  BY <1>1 DEF Piped
<1>3. Runs(sent, write.buf, Given, Len(sent))
  BY <1>1, <1>2 DEF StreamInv, WriteCall
<1>4. PICK n : n = Len(write.buf)
  OBVIOUS
<1>5. n \in 0..Len(write.buf) /\ write.buf \in Seq(Bytes)
  BY <1>3, <1>4 DEF Runs
<1>6. SubSeq(write.buf, 1, n) = write.buf
  BY <1>4, <1>5
<1>7. StreamInv'
  BY <1>1, <1>2, <1>4, <1>5, <1>6, WireStep
<1>8. QED
  BY <1>1, <1>7

LEMMA FlushStep ==
  ASSUME StreamInv, StreamSame, wire' = wire, mPipe' = mPipe, errors' = errors, flush
  PROVE  StreamInv' /\ UNCHANGED history
<1>1. write.pc = "flush" /\ UNCHANGED history
  BY DEF flush
<1>2. UNCHANGED <<sent, state>>
  BY <1>1 DEF history
<1>3. at[Writer] = "out" /\ item[Writer] = << >> /\ Given = Passed
  BY <1>1, OutPlace
<1>4. errors' \in 0..MaxErrors /\ Rest'
  BY KeepRest DEF StreamInv, Rest, RestSame, StreamSame
<1>0. Kept(Given)
  BY <1>2, KeptSame
<1>5. CASE I!Filling = 0 /\ mOutBuffer' = I!allocoutbuf /\ mOutIndex' = 0
           /\ FlushReturns /\ UNCHANGED queueVars
  <2>1. /\ I!allocoutbuf \in I!Buffers /\ Len(I!allocoutbuf) = BufSize
    BY AllocFacts DEF StreamInv
  <2>2. I!Filling' = 0 /\ Passed' = Passed
    <3>1. I!Filling' = 0
      BY <1>5 DEF I!Filling
    <3>2. QED
      BY <1>2, <1>5, <3>1 DEF Passed
  <2>3. I!Filling' \in 0..Len(mOutBuffer') /\ \A i \in 1..I!Filling' : FALSE
    BY <2>1, <2>2, <1>5, Sizes
  <2>4. OutBuffer'
    BY <1>2, <1>5, <2>1, <2>2, <2>3 DEF StreamInv, OutBuffer
  <2>5. QED
    BY <1>0, <1>1, <1>2, <1>3, <1>4, <1>5, <2>2, <2>4, OverStep
<1>6. CASE I!Filling > 0 /\ Piped /\ ~mPipe /\ WriteFails /\ UNCHANGED queueVars
  <2>1. UNCHANGED <<mOutBuffer, mOutIndex>> /\ write' = Gives
    BY <1>6 DEF WriteFails, Gives, outVars
  <2>2. OutBuffer' /\ Passed' = Passed
    BY <1>2, <2>1, SameBuffer DEF StreamInv
  <2>3. QED
    BY <1>0, <1>1, <1>2, <1>3, <1>4, <1>6, <2>1, <2>2, OverStep
<1>7. ASSUME NEW s, s \in Seq(Bytes), Start(s)
      PROVE  /\ OutBuffer' /\ Passed' = Passed /\ I!Unflushed' = I!Unflushed /\ I!Filling' = I!Filling
             /\ write' \in WriteTypes /\ write'.pc = "raw" /\ write'.buf = s
             /\ write'.op \notin {"idle", "gone"} /\ write.op # "gone" /\ state = "open"
             /\ write'.rest # << >> => write'.op \in {"puts", "putchunk"}
             /\ (Len(sent) + Len(write.rest) <= MaxBytes)'
             /\ EndState'
  <2>1. UNCHANGED <<mOutBuffer, mOutIndex>> /\ write' = [write EXCEPT !.pc = "raw", !.buf = s]
    BY <1>7 DEF Start, outVars
  <2>2. /\ OutBuffer' /\ Passed' = Passed /\ I!Unflushed' = I!Unflushed
        /\ I!Filling' = I!Filling
    BY <1>2, <2>1, SameBuffer DEF StreamInv
  <2>3. /\ write \in WriteTypes /\ write.op \notin {"idle", "gone"}
        /\ write.rest # << >> => write.op \in {"puts", "putchunk"}
        /\ Len(sent) + Len(write.rest) <= MaxBytes
    BY <1>1, NoWriteFacts DEF StreamInv, WriteCall
  <2>4. /\ write' \in WriteTypes /\ write'.pc = "raw" /\ write'.buf = s
        /\ write'.op = write.op /\ write'.rest = write.rest
    BY <1>7, <2>1, <2>3 DEF WriteTypes
  <2>5. state = "open"
    BY <1>1, <2>3 DEF StreamInv, EndState
  <2>6. (Len(sent) + Len(write.rest) <= MaxBytes)'
    BY <1>2, <2>3, <2>4
  <2>7. EndState'
    BY <1>2, <2>3, <2>4, <2>5 DEF EndState
  <2>8. QED
    BY <2>1, <2>2, <2>3, <2>4, <2>5, <2>6, <2>7
<1>8. CASE I!Filling > 0 /\ ~Piped /\ Start(I!Unflushed) /\ UNCHANGED queueVars
  <2>1. /\ Runs(sent, I!Unflushed, Passed, Len(sent)) /\ Len(I!Unflushed) = I!Filling
        /\ Passed \in Nat /\ Len(sent) = Passed + I!Filling /\ I!Filling \in Nat
    BY UnflushedRuns DEF StreamInv
  <2>2. PICK s : s = I!Unflushed
    OBVIOUS
  <2>3. s \in Seq(Bytes)
    <3>1. I!Unflushed \in Chunks
      BY UnflushedRuns DEF StreamInv
    <3>2. QED
      BY <2>2, <3>1, ChunkFacts
  <2>4. /\ OutBuffer' /\ Passed' = Passed
        /\ write' \in WriteTypes /\ write'.pc = "raw" /\ write'.buf = s
        /\ write'.op \notin {"idle", "gone"} /\ write.op # "gone" /\ state = "open"
        /\ write'.rest # << >> => write'.op \in {"puts", "putchunk"}
        /\ (Len(sent) + Len(write.rest) <= MaxBytes)'
        /\ EndState'
    BY <1>7, <1>8, <2>2, <2>3
  <2>5. Piped' = Piped
    BY DEF Piped, StreamSame
  <2>6. Given' = Passed
    <3>1. Given' = Len(sent) - Len(s)
      BY <1>2, <1>8, <2>4, <2>5 DEF Given
    <3>2. QED
      BY <2>1, <2>2, <3>1
  <2>7. (Runs(sent, write.buf, Given, Len(sent)) /\ Passed <= Given)'
    BY <1>2, <2>1, <2>2, <2>4, <2>6
  <2>8. WriteCall'
    BY <2>4, <2>7 DEF WriteCall
  <2>9. QED
    BY <1>0, <1>1, <1>3, <1>4, <1>8, <2>4, <2>6, <2>8, OutStep
<1>9. CASE I!Filling > 0 /\ Piped /\ mPipe /\ Start(<< >>) /\ Q!push(Writer, I!Unflushed)
  <2>1. << >> \in Seq(Bytes)
    OBVIOUS
  <2>2. /\ OutBuffer' /\ Passed' = Passed /\ I!Unflushed' = I!Unflushed /\ I!Filling' = I!Filling
        /\ write' \in WriteTypes /\ write'.pc = "raw"
        /\ write'.op \notin {"idle", "gone"} /\ write.op # "gone" /\ state = "open"
        /\ write'.rest # << >> => write'.op \in {"puts", "putchunk"}
        /\ (Len(sent) + Len(write.rest) <= MaxBytes)'
        /\ EndState'
    BY <1>7, <1>9, <2>1
  <2>3. Piped' = Piped
    BY DEF Piped, StreamSame
  <2>4. WriteCall'
    BY <1>9, <2>2, <2>3 DEF WriteCall
  <2>5. /\ at' = [at EXCEPT ![Writer] = "lock"] /\ item' = [item EXCEPT ![Writer] = I!Unflushed]
        /\ QueueSame /\ CondSame
    BY <1>9 DEF Q!push, Q!Goto, Q!queueVars, Q!condVars, QueueSame, CondSame
  <2>6. I!Unflushed \in Chunks /\ "lock" \in Q!Places
    BY UnflushedRuns DEF StreamInv, Q!Places
  <2>7. at'[Writer] = "lock" /\ item'[Writer] = I!Unflushed
    <3>1. at \in [Procs -> Q!Places] /\ item \in [Procs -> Chunks]
      BY Two DEF StreamInv, Q!TypeOK
    <3>2. QED
      BY <2>5, <3>1, Two
  <2>8. WritePlace'
    BY <1>9, <2>2, <2>3, <2>7 DEF WritePlace, Waiting
  <2>9. Given' = Given
    BY <1>3, <1>9, <2>2, <2>3, <2>7 DEF Given, Stored
  <2>10. Ends' >= Ends
    BY <1>2, <2>2 DEF Ends
  <2>11. QED
    BY <1>0, <1>1, <1>4, <2>2, <2>4, <2>5, <2>6, <2>8, <2>9, <2>10, WriterKeeps
<1>10. QED
  BY <1>1, <1>5, <1>6, <1>8, <1>9 DEF flush

LEMMA WriterReturn ==
  ASSUME StreamInv, NEW place, place # "out", Q!Return(Writer, place)
  PROVE  /\ QueueSame /\ CondSame /\ at' = [at EXCEPT ![Writer] = "out"]
         /\ item' = [item EXCEPT ![Writer] = << >>] /\ at[Writer] = place
         /\ at'[Writer] = "out" /\ item'[Writer] = << >>
         /\ Piped /\ write.pc \in {"raw", "closing", "destroying"}
         /\ "out" \in Q!Places /\ << >> \in Chunks /\ ~Stored'
<1>1. /\ at[Writer] = place /\ at' = [at EXCEPT ![Writer] = "out"]
      /\ item' = [item EXCEPT ![Writer] = << >>] /\ QueueSame /\ CondSame
  BY DEF Q!Return, Q!Goto, Q!queueVars, Q!condVars, QueueSame, CondSame
<1>2. at \in [Procs -> Q!Places] /\ item \in [Procs -> Chunks]
  BY Two DEF StreamInv, Q!TypeOK
<1>3. at'[Writer] = "out" /\ item'[Writer] = << >>
  BY <1>1, <1>2, Two
<1>4. ~Stored'
  BY <1>3 DEF Stored
<1>5. Piped /\ write.pc \in {"raw", "closing", "destroying"}
  BY <1>1 DEF StreamInv, WritePlace, WriteCall
<1>6. QED
  BY <1>1, <1>3, <1>4, <1>5, EmptyChunk DEF Q!Places

LEMMA PipeWriteStep ==
  ASSUME StreamInv, StreamSame, mPipe' = mPipe, PipeWrite
  PROVE  StreamInv' /\ UNCHANGED history
<1>1. write.pc = "raw" /\ wire' = wire /\ errors' = errors /\ UNCHANGED history
  BY DEF PipeWrite
<1>2. UNCHANGED <<sent, state>>
  BY <1>1 DEF history
<1>3. PICK place \in {"done", "failed"} :
        /\ Q!Return(Writer, place)
        /\ place = "done" => I!Flushed /\ FlushReturns
        /\ place = "failed" => UNCHANGED <<mOutBuffer, mOutIndex>> /\ write' = Gives
  BY DEF PipeWrite, WriteFails, Gives, outVars
<1>4. /\ QueueSame /\ CondSame /\ at' = [at EXCEPT ![Writer] = "out"]
      /\ item' = [item EXCEPT ![Writer] = << >>] /\ at[Writer] = place
      /\ at'[Writer] = "out" /\ item'[Writer] = << >> /\ Piped
      /\ "out" \in Q!Places /\ << >> \in Chunks /\ ~Stored'
  BY <1>3, WriterReturn
<1>5. FlushReturns \/ write' = Gives
  BY <1>3
<1>6. /\ WriteCall' /\ write'.pc \in {"turn", "close"} /\ write'.op # "gone"
      /\ write.op \notin {"idle", "gone"} /\ state = "open"
  BY <1>1, <1>2, <1>5, ReturnedCall
<1>7. /\ Passed \in Nat /\ Len(sent) \in Nat /\ I!Filling \in Nat /\ Len(sent) = Passed + I!Filling
      /\ Len(I!Unflushed) = I!Filling
  BY UnflushedRuns DEF StreamInv
<1>8. Given' = Passed'
  BY <1>4, <1>6 DEF Given
<1>9. OutBuffer' /\ Given' = Given
  <2>1. CASE place = "done"
    <3>1. OutBuffer' /\ Passed' = Len(sent)
      BY <1>2, <1>3, <2>1, FlushedBuffer DEF StreamInv
    <3>2. item[Writer] = I!Unflushed
      BY <1>1, <1>4 DEF StreamInv, WritePlace
    <3>3. Given = Passed + Len(item[Writer])
      BY <1>4, <2>1 DEF Given, Stored
    <3>4. Given = Len(sent)
      BY <1>7, <3>2, <3>3
    <3>5. QED
      BY <1>8, <3>1, <3>4
  <2>2. CASE place = "failed"
    <3>1. OutBuffer' /\ Passed' = Passed
      BY <1>2, <1>3, <2>2, SameBuffer DEF StreamInv
    <3>2. Given = Passed
      BY <1>4, <2>2 DEF Given, Stored
    <3>3. QED
      BY <1>8, <3>1, <3>2
  <2>3. QED
    BY <2>1, <2>2
<1>10. WritePlace' /\ EndState'
  BY <1>2, <1>4, <1>6 DEF WritePlace, EndState
<1>11. Rest'
  BY <1>1, KeepRest DEF StreamInv, RestSame, StreamSame
<1>12. Ends' >= Ends
  BY <1>2, <1>6 DEF Ends
<1>13. StreamInv'
  <2>1. "out" # "notify" /\ Kept(Given)
    BY <1>2, KeptSame
  <2>2. QED
    BY <1>1, <1>4, <1>6, <1>9, <1>10, <1>11, <1>12, <2>1, WriterKeeps
<1>14. QED
  BY <1>1, <1>13
------------------------------------------------------------------------------
(* The stream is closed and destroyed.                                     *)

(* The call at its end: only the place changes.                            *)
EndPlaces == {"destroy", "closing", "destroying"}

LEMMA EndCall ==
  ASSUME StreamInv, sent' = sent, write.op = "bind", UNCHANGED kind,
         \/ \E p \in EndPlaces : /\ write' = [write EXCEPT !.pc = p]
                                 /\ p \in {"closing", "destroying"} => Piped
         \/ write' = [NoWrite EXCEPT !.op = "gone"]
  PROVE  WriteCall'
<1>1. /\ write \in WriteTypes /\ write.rest = << >>
  BY DEF StreamInv, WriteCall
<1>2. Len(sent') + Len(<< >>) <= MaxBytes
  <2>1. Len(sent') <= MaxBytes /\ Len(sent') \in Nat
    BY Limits
  <2>2. QED
    BY <2>1
<1>3. ASSUME NEW p \in EndPlaces, write' = [write EXCEPT !.pc = p],
             p \in {"closing", "destroying"} => Piped
      PROVE  WriteCall'
  <2>1. write' \in WriteTypes /\ write'.op = "bind" /\ write'.rest = << >> /\ write'.pc = p
    BY <1>1, <1>3 DEF WriteTypes, EndPlaces
  <2>2. Piped' = Piped
    BY DEF Piped
  <2>3. p \notin {"turn", "raw"}
    BY DEF EndPlaces
  <2>4. QED
    BY <1>2, <1>3, <2>1, <2>2, <2>3 DEF WriteCall
<1>4. CASE write' = [NoWrite EXCEPT !.op = "gone"]
  <2>1. /\ write' \in WriteTypes /\ write'.op = "gone" /\ write'.rest = << >> /\ write'.pc = "turn"
    BY <1>4, NoWriteFacts
  <2>2. QED
    BY <1>2, <1>4, <2>1 DEF WriteCall
<1>5. QED
  BY <1>3, <1>4

LEMMA EndedClosing ==
  ASSUME Ended, UNCHANGED <<sent, mOutBuffer, mOutIndex>>, state = "open",
         write'.pc \in EndPlaces \/ write'.op = "gone"
  PROVE  EndState' /\ Abstract!Close /\ state' # "open"
<1>1. /\ state' = IF I!Filling = 0 THEN "closed" ELSE "cut"
      /\ UNCHANGED <<sent, taken, last>> /\ I!Filling' = I!Filling
  BY DEF Ended, I!Filling
<1>2. QED
  BY <1>1 DEF EndState, Abstract!Close, EndPlaces

(* A step of the end that calls the queue.                                 *)
LEMMA EndPush ==
  ASSUME StreamInv, StreamSame, wire' = wire, mPipe' = mPipe, errors' = errors,
         UNCHANGED <<mOutBuffer, mOutIndex, sent>>, Piped, write.op = "bind",
         write.pc \in {"close", "destroy"}, WriteCall', EndState', state' # "open",
         NEW p \in {"closing", "destroying"}, write'.pc = p, write'.op = "bind",
         p = "closing" => state = "open",
         NEW a, a = IF p = "closing" THEN "lock" ELSE "try",
         at' = [at EXCEPT ![Writer] = a], item' = [item EXCEPT ![Writer] = << >>],
         QueueSame, CondSame
  PROVE  StreamInv'
<1>1. at[Writer] = "out" /\ item[Writer] = << >> /\ Given = Passed
  BY OutPlace
<1>2. OutBuffer' /\ Passed' = Passed
  BY SameBuffer DEF StreamInv
<1>3. at'[Writer] = a /\ item'[Writer] = << >>
  <2>1. at \in [Procs -> Q!Places] /\ item \in [Procs -> Chunks]
    BY Two DEF StreamInv, Q!TypeOK
  <2>2. QED
    BY <2>1, Two
<1>4. Piped' = Piped
  BY DEF Piped, StreamSame
<1>5. WritePlace'
  BY <1>3, <1>4 DEF WritePlace, Waiting
<1>6. ~Stored /\ ~Stored'
  BY <1>1, <1>3 DEF Stored
<1>7. Given' = Given
  BY <1>1, <1>2, <1>4, <1>6 DEF Given
<1>8. Ends' >= Ends
  <2>1. Ends' = IF p = "closing" THEN 0 ELSE 1
    BY <1>6 DEF Ends
  <2>2. Ends \in {0, 1} /\ (state = "open" => Ends = 0)
    BY <1>6 DEF Ends
  <2>3. QED
    BY <2>1, <2>2
<1>9. Rest'
  BY KeepRest DEF StreamInv, RestSame, StreamSame
<1>10. << >> \in Chunks /\ a \in Q!Places /\ a # "notify"
  BY EmptyChunk DEF Q!Places
<1>11. Kept(Given)
  BY KeptSame
<1>12. QED
  BY <1>2, <1>5, <1>7, <1>8, <1>9, <1>10, <1>11, WriterKeeps

(* A step of the end without the queue.                                    *)
LEMMA EndOut ==
  ASSUME StreamInv, StreamSame, wire' = wire, mPipe' = mPipe, errors' = errors,
         UNCHANGED <<mOutBuffer, mOutIndex, sent>>, UNCHANGED queueVars, write.op = "bind",
         write.pc \in {"close", "destroy"}, WriteCall', EndState', state' # "open",
         write'.pc \in {"destroy", "turn"}
  PROVE  StreamInv'
<1>1. at[Writer] = "out" /\ item[Writer] = << >> /\ Given = Passed
  BY OutPlace
<1>2. OutBuffer' /\ Passed' = Passed
  BY SameBuffer DEF StreamInv
<1>3. at' = at
  BY DEF queueVars
<1>4. Given' = Given
  BY <1>1, <1>2, <1>3 DEF Given, Stored
<1>5. Rest'
  BY KeepRest DEF StreamInv, RestSame, StreamSame
<1>6. Kept(Given)
  BY KeptSame
<1>7. QED
  BY <1>1, <1>2, <1>4, <1>5, <1>6, OutStep

(* The queue's call returns at the end.                                    *)
LEMMA EndReturn ==
  ASSUME StreamInv, StreamSame, wire' = wire, mPipe' = mPipe, errors' = errors,
         UNCHANGED <<mOutBuffer, mOutIndex>>, UNCHANGED history,
         NEW place, place # "out", Q!Return(Writer, place), write.op = "bind",
         \/ write.pc = "closing" /\ write' = [write EXCEPT !.pc = "destroy"]
         \/ write.pc = "destroying" /\ write' = [NoWrite EXCEPT !.op = "gone"]
  PROVE  StreamInv'
<1>1. UNCHANGED <<sent, state>> /\ state # "open"
  BY DEF history, StreamInv, EndState
<1>2. /\ QueueSame /\ CondSame /\ at' = [at EXCEPT ![Writer] = "out"]
      /\ item' = [item EXCEPT ![Writer] = << >>]
      /\ at'[Writer] = "out" /\ item'[Writer] = << >> /\ Piped
      /\ "out" \in Q!Places /\ << >> \in Chunks /\ ~Stored'
  BY WriterReturn
<1>3. OutBuffer' /\ Passed' = Passed /\ I!Filling' = I!Filling
  BY <1>1, SameBuffer DEF StreamInv
<1>4. WriteCall'
  BY <1>1, EndCall DEF EndPlaces, StreamSame
<1>5. write'.pc = "destroy" \/ (write'.pc = "turn" /\ write'.op = "gone")
  BY NoWriteFacts DEF StreamInv, WriteCall, WriteTypes
<1>6. Piped' = Piped
  BY DEF Piped, StreamSame
<1>7. WritePlace'
  BY <1>2, <1>5 DEF WritePlace
<1>8. EndState'
  BY <1>1, <1>3, <1>5 DEF EndState, StreamInv
<1>9. Passed \in Nat /\ item[Writer] = << >>
  <2>1. item[Writer] = << >>
    BY DEF StreamInv, WritePlace
  <2>2. QED
    BY <2>1, UnflushedRuns DEF StreamInv
<1>10. Given' = Given
  <2>1. Given' = Passed
    BY <1>2, <1>3, <1>6 DEF Given
  <2>2. Given = Passed
    <3>1. Len(item[Writer]) = 0
      BY <1>9
    <3>2. QED
      BY <1>2, <1>9, <3>1 DEF Given
  <2>3. QED
    BY <2>1, <2>2
<1>11. Ends' >= Ends
  <2>1. write.op # "gone"
    OBVIOUS
  <2>2. CASE write.pc = "closing"
    <3>1. Ends \in {0, 1}
      BY <1>1, <2>1, <2>2 DEF Ends
    <3>2. write'.pc # "closing"
      BY <1>5
    <3>3. Ends' \in {1, 2}
      BY <1>1, <1>2, <3>2 DEF Ends
    <3>4. QED
      BY <3>1, <3>3
  <2>3. CASE write.pc = "destroying"
    <3>1. write'.op = "gone"
      BY <2>3, NoWriteFacts
    <3>2. Ends' = 2
      BY <1>1, <3>1 DEF Ends
    <3>3. Ends \in {1, 2}
      BY <1>1, <2>1, <2>3 DEF Ends
    <3>4. QED
      BY <3>2, <3>3
  <2>4. QED
    BY <2>2, <2>3
<1>12. Rest'
  BY KeepRest DEF StreamInv, RestSame, StreamSame
<1>13. "out" # "notify" /\ Kept(Given)
  BY <1>1, KeptSame
<1>14. QED
  BY <1>1, <1>2, <1>3, <1>4, <1>7, <1>8, <1>10, <1>11, <1>12, <1>13, WriterKeeps

LEMMA EndingStep ==
  ASSUME StreamInv, StreamSame, wire' = wire, mPipe' = mPipe, errors' = errors, Ending
  PROVE  StreamInv' /\ (UNCHANGED history \/ Abstract!Close)
<1>1. UNCHANGED <<mOutBuffer, mOutIndex>> /\ (close \/ CloseEnds \/ destroy \/ Destroyed)
  BY DEF Ending, outVars
<1>2. ASSUME write.pc \in {"close", "closing", "destroy", "destroying"}
      PROVE  write.op = "bind" /\ write \in WriteTypes /\ NoWrite.op = "idle"
  BY <1>2, NoWriteFacts DEF StreamInv, WriteCall
<1>3. ASSUME NEW p \in EndPlaces, write \in WriteTypes, write.op = "bind",
             write' = [write EXCEPT !.pc = p]
      PROVE  write'.pc = p /\ write'.op = "bind"
  BY <1>3 DEF WriteTypes
<1>4. CASE close
  <2>1. /\ write.pc = "close" /\ Ended /\ write.op = "bind" /\ write \in WriteTypes
    BY <1>2, <1>4 DEF close
  <2>2. state = "open" /\ sent' = sent
    BY <2>1 DEF StreamInv, EndState, Ended
  <2>3. CASE Piped /\ mPipe
    <3>1. Q!push(Writer, << >>) /\ write' = [write EXCEPT !.pc = "closing"]
      BY <1>4, <2>3 DEF close
    <3>2. "closing" \in EndPlaces
      BY DEF EndPlaces
    <3>3. write'.pc = "closing" /\ write'.op = "bind"
      BY <1>3, <2>1, <3>1, <3>2
    <3>4. WriteCall'
      BY <2>1, <2>2, <2>3, <3>1, <3>2, EndCall DEF StreamSame
    <3>5. EndState' /\ Abstract!Close /\ state' # "open"
      BY <1>1, <2>1, <2>2, <3>2, <3>3, EndedClosing
    <3>6. /\ at' = [at EXCEPT ![Writer] = "lock"] /\ item' = [item EXCEPT ![Writer] = << >>]
          /\ QueueSame /\ CondSame
      BY <3>1 DEF Q!push, Q!Goto, Q!queueVars, Q!condVars, QueueSame, CondSame
    <3>7. StreamInv'
      BY <1>1, <2>1, <2>2, <2>3, <3>3, <3>4, <3>5, <3>6, EndPush
    <3>8. QED
      BY <3>5, <3>7
  <2>4. CASE ~(Piped /\ mPipe)
    <3>1. UNCHANGED queueVars /\ write' = [write EXCEPT !.pc = "destroy"]
      BY <1>4, <2>4 DEF close
    <3>2. "destroy" \in EndPlaces
      BY DEF EndPlaces
    <3>3. write'.pc = "destroy" /\ write'.op = "bind"
      BY <1>3, <2>1, <3>1, <3>2
    <3>4. WriteCall'
      BY <2>1, <2>2, <3>1, <3>2, EndCall DEF StreamSame
    <3>5. EndState' /\ Abstract!Close /\ state' # "open"
      BY <1>1, <2>1, <2>2, <3>2, <3>3, EndedClosing
    <3>6. StreamInv'
      BY <1>1, <2>1, <2>2, <3>1, <3>3, <3>4, <3>5, EndOut
    <3>7. QED
      BY <3>5, <3>6
  <2>5. QED
    BY <2>3, <2>4
<1>5. CASE CloseEnds
  <2>1. PICK place \in {"done", "failed"} : Q!Return(Writer, place)
    BY <1>5 DEF CloseEnds
  <2>2. /\ write.pc = "closing" /\ write' = [write EXCEPT !.pc = "destroy"] /\ UNCHANGED history
        /\ write.op = "bind"
    BY <1>2, <1>5 DEF CloseEnds
  <2>3. StreamInv'
    BY <1>1, <2>1, <2>2, EndReturn
  <2>4. QED
    BY <2>2, <2>3
<1>6. CASE destroy
  <2>1. /\ write.pc = "destroy" /\ write.op = "bind" /\ write \in WriteTypes
        /\ IF state = "open" THEN Ended ELSE UNCHANGED history
    BY <1>2, <1>6 DEF destroy
  <2>2. sent' = sent
    BY <2>1 DEF Ended, history
  <2>3. ASSUME write'.pc \in EndPlaces \/ (write'.op = "gone" /\ write'.pc = "turn")
        PROVE  EndState' /\ (Abstract!Close \/ UNCHANGED history) /\ state' # "open"
    <3>1. CASE state = "open"
      BY <1>1, <2>1, <2>2, <2>3, <3>1, EndedClosing
    <3>2. CASE state # "open"
      BY <1>1, <2>1, <2>3, <3>2 DEF StreamInv, EndState, history, EndPlaces, I!Filling
    <3>3. QED
      BY <3>1, <3>2
  <2>4. CASE Piped /\ mPipe
    <3>1. Q!try_push(Writer, << >>) /\ write' = [write EXCEPT !.pc = "destroying"]
      BY <1>6, <2>4 DEF destroy
    <3>2. "destroying" \in EndPlaces
      BY DEF EndPlaces
    <3>3. write'.pc = "destroying" /\ write'.op = "bind"
      BY <1>3, <2>1, <3>1, <3>2
    <3>4. WriteCall'
      BY <2>1, <2>2, <2>4, <3>1, <3>2, EndCall DEF StreamSame
    <3>5. EndState' /\ (Abstract!Close \/ UNCHANGED history) /\ state' # "open"
      BY <2>3, <3>2, <3>3
    <3>6. /\ at' = [at EXCEPT ![Writer] = "try"] /\ item' = [item EXCEPT ![Writer] = << >>]
          /\ QueueSame /\ CondSame
      BY <3>1 DEF Q!try_push, Q!Goto, Q!queueVars, Q!condVars, QueueSame, CondSame
    <3>7. StreamInv'
      BY <1>1, <2>1, <2>2, <2>4, <3>3, <3>4, <3>5, <3>6, EndPush
    <3>8. QED
      BY <3>5, <3>7
  <2>5. CASE ~(Piped /\ mPipe)
    <3>1. UNCHANGED queueVars /\ write' = [NoWrite EXCEPT !.op = "gone"]
      BY <1>6, <2>5 DEF destroy
    <3>2. write'.op = "gone" /\ write'.pc = "turn"
      BY <3>1, NoWriteFacts
    <3>3. WriteCall'
      BY <2>1, <2>2, <3>1, EndCall DEF StreamSame
    <3>4. EndState' /\ (Abstract!Close \/ UNCHANGED history) /\ state' # "open"
      BY <2>3, <3>2
    <3>5. StreamInv'
      BY <1>1, <2>1, <2>2, <3>1, <3>2, <3>3, <3>4, EndOut
    <3>6. QED
      BY <3>4, <3>5
  <2>6. QED
    BY <2>4, <2>5
<1>7. CASE Destroyed
  <2>1. PICK place \in {"done", "refused"} : Q!Return(Writer, place)
    BY <1>7 DEF Destroyed
  <2>2. /\ write.pc = "destroying" /\ write' = [NoWrite EXCEPT !.op = "gone"] /\ UNCHANGED history
        /\ write.op = "bind"
    BY <1>2, <1>7 DEF Destroyed
  <2>3. StreamInv'
    BY <1>1, <2>1, <2>2, EndReturn
  <2>4. QED
    BY <2>2, <2>3
<1>8. QED
  BY <1>1, <1>4, <1>5, <1>6, <1>7

LEMMA StartsStep ==
  ASSUME StreamInv, StreamSame, mPipe' = mPipe, Program, UNCHANGED <<wire, errors>>
  PROVE  StreamInv' /\ (UNCHANGED history \/ Abstract!Put)
<1>1. Len(sent) \in Nat /\ Len(sent) <= MaxBytes
  BY Limits
<1>2. ASSUME NEW o \in {"puts", "putchunk"}, NEW n \in 1..MaxPut, StartPut(o, n)
      PROVE  StreamInv' /\ UNCHANGED history
  <2>1. /\ write = NoWrite /\ Len(sent) + n <= MaxBytes /\ UNCHANGED <<mOutBuffer, mOutIndex>>
        /\ UNCHANGED queueVars /\ UNCHANGED history
    BY <1>2 DEF StartPut, outVars
  <2>2. PICK r : r = Following(n)
    OBVIOUS
  <2>3. r \in Seq(Bytes) /\ Len(r) = n
    <3>1. n \in Nat
      BY Sizes
    <3>2. QED
      BY <1>1, <2>1, <2>2, <3>1, FollowingFacts
  <2>4. Len(sent) + Len(r) <= MaxBytes
    BY <2>1, <2>3
  <2>5. write' = [NoWrite EXCEPT !.op = o, !.rest = r]
    BY <1>2, <2>2 DEF StartPut
  <2>6. write' \in WriteTypes /\ write'.op = o /\ write'.pc = "turn" /\ write'.rest = r
    <3>1. r \in Seq(Bytes) /\ << >> \in Seq(Bytes)
      BY <2>3
    <3>2. QED
      BY <2>5, <3>1 DEF NoWrite, WriteTypes
  <2>7. StreamInv'
    BY <1>2, <2>1, <2>3, <2>4, <2>6, StartWriteStep
  <2>8. QED
    BY <2>1, <2>7
<1>3. ASSUME NEW o \in {"flush", "bind"}, NEW p \in {"flush", "destroy"}, p = "destroy" => o = "bind",
             write = NoWrite, write' = [NoWrite EXCEPT !.op = o, !.pc = p],
             UNCHANGED <<mOutBuffer, mOutIndex>>, UNCHANGED queueVars, UNCHANGED history
      PROVE  StreamInv'
  <2>1. Len(sent) + Len(<< >>) <= MaxBytes
    BY <1>1
  <2>2. write' \in WriteTypes /\ write'.op = o /\ write'.pc = p /\ write'.rest = << >>
    <3>1. << >> \in Seq(Bytes)
      OBVIOUS
    <3>2. QED
      BY <1>3, <3>1 DEF NoWrite, WriteTypes
  <2>3. QED
    BY <1>3, <2>1, <2>2, StartWriteStep
<1>4. ASSUME NEW n \in 1..MaxPut, trywrite(n) PROVE StreamInv' /\ Abstract!Put
  <2>1. n \in Nat
    BY Sizes
  <2>2. QED
    BY <1>4, <2>1, TryWriteStep
<1>5. CASE StartFlush
  <2>1. /\ write = NoWrite /\ write' = [NoWrite EXCEPT !.op = "flush", !.pc = "flush"]
        /\ UNCHANGED <<mOutBuffer, mOutIndex>> /\ UNCHANGED queueVars /\ UNCHANGED history
    BY <1>5 DEF StartFlush, outVars
  <2>2. QED
    BY <1>3, <2>1
<1>6. CASE \E p \in {"flush", "destroy"} : LastPart(p) /\ UNCHANGED outVars
  <2>1. PICK p \in {"flush", "destroy"} : LastPart(p) /\ UNCHANGED outVars
    BY <1>6
  <2>2. /\ write = NoWrite /\ write' = [NoWrite EXCEPT !.op = "bind", !.pc = p]
        /\ UNCHANGED <<mOutBuffer, mOutIndex>> /\ UNCHANGED queueVars /\ UNCHANGED history
    BY <2>1 DEF LastPart, outVars
  <2>3. QED
    BY <1>3, <2>2
<1>7. QED
  BY <1>2, <1>4, <1>5, <1>6 DEF Program

LEMMA WritingStep ==
  ASSUME StreamInv, Writing \/ WriterStarts
  PROVE  StreamInv' /\ (UNCHANGED history \/ Abstract!Step)
<1>1. UNCHANGED <<kind, mInBuffer, mInIndex, mInEnd, read>> /\ mPipe' = mPipe
  BY DEF Writing, WriterStarts, inVars
<1>2. taken' = taken
  BY DEF Writing, WriterStarts, WriterLocal, putspan, flush, Ending, close, CloseEnds, destroy,
         Destroyed, Ended, PipeWrite, SocketWrite, StringWrite, SocketWriteFails, Program,
         StartPut, trywrite, StartFlush, LastPart, Wrote, history
<1>3. StreamSame
  BY <1>1, <1>2 DEF StreamSame
<1>4. CASE WriterLocal
  <2>1. wire' = wire /\ errors' = errors /\ (putspan \/ flush \/ Ending)
    BY <1>4 DEF WriterLocal
  <2>2. StreamInv' /\ (UNCHANGED history \/ Abstract!Put \/ Abstract!Close)
    BY <1>1, <1>3, <2>1, PutspanStep, FlushStep, EndingStep
  <2>3. QED
    BY <2>2, Zenon DEF Abstract!Step
<1>5. CASE PipeWrite \/ SocketWrite \/ StringWrite
  BY <1>1, <1>3, <1>5, PipeWriteStep, SocketWriteStep, StringWriteStep
<1>8. CASE SocketWriteFails
  <2>1. StreamInv' /\ Abstract!Again
    BY <1>1, <1>3, <1>8, SocketWriteFailsStep
  <2>2. QED
    BY <2>1, Zenon DEF Abstract!Step
<1>6. CASE Program /\ UNCHANGED <<wire, errors>>
  <2>1. StreamInv' /\ (UNCHANGED history \/ Abstract!Put)
    BY <1>1, <1>3, <1>6, StartsStep
  <2>2. QED
    BY <2>1, Zenon DEF Abstract!Step
<1>7. QED
  BY <1>4, <1>5, <1>6, <1>8 DEF Writing, WriterStarts
------------------------------------------------------------------------------
(* In the queue: the requests.                                             *)

Most     == 2 * MaxBytes + 4
Masks    == {Q!kNonEmptyMask, Q!kNonFullMask}
Sleepers == [who : Procs, mask : Masks]

LEMMA CondTypes ==
  /\ Q!C!TypeOK <=> /\ mFutex \in 0..Most /\ old \in [Procs -> 0..Most]
                    /\ ring \in [Procs -> Seq(Q!C!Requests)] /\ asleep \in Seq(Sleepers)
                    /\ ended \in [Procs -> {"none", "woken", "cancelled"}]
  /\ Q!C!TypeOK' <=> /\ mFutex' \in 0..Most /\ old' \in [Procs -> 0..Most]
                     /\ ring' \in [Procs -> Seq(Q!C!Requests)] /\ asleep' \in Seq(Sleepers)
                     /\ ended' \in [Procs -> {"none", "woken", "cancelled"}]
<1>1. Q!Procs = Procs /\ {Writer, Reader} = Procs
  BY Two
<1>2. QED
  BY <1>1 DEF Q!C!TypeOK, Most, Masks, Sleepers

LEMMA RequestTypes ==
  /\ \A p \in Procs, m \in Masks : [op |-> "wait", who |-> p, mask |-> m] \in Q!C!Requests
  /\ \A m \in Masks : [op |-> "wake", mask |-> m] \in Q!C!Requests
  /\ \A p \in Procs : [op |-> "cancel", who |-> p] \in Q!C!Requests
  /\ \A r \in Q!C!Requests : /\ r.op \in {"wait", "wake", "cancel"}
                             /\ r.op = "wait" => r.who \in Procs /\ r.mask \in Masks
  BY Two DEF Q!C!Requests, Masks

LEMMA PrepareTypes ==
  ASSUME Q!C!TypeOK, NEW g \in Procs, NEW r \in Q!C!Requests, Q!C!Prepare(g, r)
  PROVE  ring' \in [Procs -> Seq(Q!C!Requests)]
<1>1. ring \in [Procs -> Seq(Q!C!Requests)] /\ ring' = [ring EXCEPT ![g] = Append(@, r)]
  BY CondTypes DEF Q!C!Prepare
<1>2. Append(ring[g], r) \in Seq(Q!C!Requests)
  BY <1>1
<1>3. QED
  BY <1>1, <1>2

LEMMA RingIn == \A p \in Procs : RingOf(p) \in Procs
  BY Two DEF RingOf

LEMMA RemovedTypes ==
  ASSUME NEW S, NEW s \in Seq(S), NEW n \in 1..Len(s), NEW t, t = Q!C!S!RemoveAt(s, n)
  PROVE  t \in Seq(S)
<1>1. Len(s) \in Nat /\ n \in Nat
  OBVIOUS
<1>2. SubSeq(s, 1, n - 1) \in Seq(S)
  <2>1. 1 \in Int /\ n - 1 \in Int /\ \A i \in 1..(n - 1) : s[i] \in S
    BY <1>1
  <2>2. QED
    BY <2>1, SubSeqProperties
<1>3. SubSeq(s, n + 1, Len(s)) \in Seq(S)
  <2>1. n + 1 \in Int /\ Len(s) \in Int /\ \A i \in (n + 1)..Len(s) : s[i] \in S
    BY <1>1
  <2>2. QED
    BY <2>1, SubSeqProperties
<1>4. t = SubSeq(s, 1, n - 1) \o SubSeq(s, n + 1, Len(s))
  BY DEF Q!C!S!RemoveAt
<1>5. SubSeq(s, 1, n - 1) \o SubSeq(s, n + 1, Len(s)) \in Seq(S)
  BY <1>2, <1>3, ConcatProperties, Zenon
<1>6. QED
  BY <1>4, <1>5

LEMMA CompleteTypes ==
  ASSUME Q!C!TypeOK, NEW p \in Procs, NEW how \in {"woken", "cancelled"}, Q!C!Complete(p, how)
  PROVE  ended' \in [Procs -> {"none", "woken", "cancelled"}]
<1>1. ended \in [Procs -> {"none", "woken", "cancelled"}]
  BY CondTypes
<1>2. ended' = [ended EXCEPT ![p] = how]
  BY DEF Q!C!Complete
<1>3. QED
  BY <1>1, <1>2

LEMMA KernelTypes ==
  ASSUME Q!C!TypeOK, NEW g \in Procs, Q!C!Kernel(g)
  PROVE  Q!C!TypeOK'
<1>1. /\ mFutex \in 0..Most /\ old \in [Procs -> 0..Most]
      /\ ring \in [Procs -> Seq(Q!C!Requests)] /\ asleep \in Seq(Sleepers)
      /\ ended \in [Procs -> {"none", "woken", "cancelled"}]
  BY CondTypes
<1>2. PICK r : r = Head(ring[g])
  OBVIOUS
<1> DEFINE n == Q!C!S!SelectInSeq(asleep, LAMBDA s : Q!C!Ends(r, s))
<1>3. n = 0 \/ n \in 1..Len(asleep)
  <2> DEFINE K == {i \in 1..Len(asleep) : Q!C!Ends(r, asleep[i])}
  <2>1. n = IF K # {} THEN Q!C!S!Min(K) ELSE 0
    BY DEF Q!C!S!SelectInSeq
  <2> HIDE DEF n
  <2>2. K \subseteq Nat /\ K \subseteq 1..Len(asleep)
    OBVIOUS
  <2> HIDE DEF K
  <2>3. K # {} => Q!C!S!Min(K) \in K
    BY <2>2, Least DEF Q!C!S!Min
  <2>4. QED
    BY <2>1, <2>2, <2>3
<1>4. /\ ring[g] # << >> /\ ring' = [ring EXCEPT ![g] = Tail(@)]
      /\ \/ /\ r.op = "wait" /\ mFutex = old[r.who]
            /\ asleep' = Append(asleep, [who |-> r.who, mask |-> r.mask])
            /\ UNCHANGED ended
         \/ /\ r.op = "wait" /\ mFutex # old[r.who]
            /\ Q!C!Complete(r.who, "woken")
            /\ UNCHANGED asleep
         \/ /\ r.op # "wait" /\ n > 0
            /\ asleep' = Q!C!S!RemoveAt(asleep, n)
            /\ Q!C!Complete(asleep[n].who, IF r.op = "wake" THEN "woken" ELSE "cancelled")
         \/ /\ r.op # "wait" /\ n = 0
            /\ UNCHANGED <<asleep, ended>>
      /\ UNCHANGED <<mFutex, old>>
  BY <1>2 DEF Q!C!Kernel
<1> HIDE DEF n
<1>5. ring[g] \in Seq(Q!C!Requests) /\ Tail(ring[g]) \in Seq(Q!C!Requests) /\ r \in Q!C!Requests
  BY <1>1, <1>2, <1>4
<1>6. ring' \in [Procs -> Seq(Q!C!Requests)]
  BY <1>1, <1>4, <1>5
<1>7. r.op = "wait" => r.who \in Procs /\ r.mask \in Masks
  BY <1>5, RequestTypes
<1>9. n > 0 => n \in 1..Len(asleep) /\ asleep[n] \in Sleepers /\ asleep[n].who \in Procs
  <2>1. n > 0 => n \in 1..Len(asleep)
    BY <1>3
  <2>2. \A x \in Sleepers : x.who \in Procs
    BY DEF Sleepers
  <2>3. QED
    BY <1>1, <2>1, <2>2
<1>10. asleep' \in Seq(Sleepers)
  <2>1. r.op = "wait" => [who |-> r.who, mask |-> r.mask] \in Sleepers
    BY <1>7 DEF Sleepers
  <2>2. r.op = "wait" => Append(asleep, [who |-> r.who, mask |-> r.mask]) \in Seq(Sleepers)
    BY <1>1, <2>1
  <2>3. n > 0 /\ asleep' = Q!C!S!RemoveAt(asleep, n) => asleep' \in Seq(Sleepers)
    BY <1>1, <1>9, RemovedTypes
  <2>4. QED
    BY <1>1, <1>4, <2>2, <2>3
<1>11. ended' \in [Procs -> {"none", "woken", "cancelled"}]
  <2>1. CASE UNCHANGED ended
    BY <1>1, <2>1
  <2>2. CASE r.op = "wait" /\ Q!C!Complete(r.who, "woken")
    BY <1>7, <2>2, CompleteTypes
  <2>3. CASE n > 0 /\ Q!C!Complete(asleep[n].who, IF r.op = "wake" THEN "woken" ELSE "cancelled")
    BY <1>9, <2>3, CompleteTypes
  <2>4. QED
    BY <1>4, <2>1, <2>2, <2>3
<1>12. QED
  BY <1>1, <1>4, <1>6, <1>10, <1>11, CondTypes
------------------------------------------------------------------------------
(* In the queue: the steps.                                                *)

StreamsSame == /\ UNCHANGED <<kind, mInBuffer, mInIndex, mInEnd, mOutBuffer, mOutIndex>>
               /\ UNCHANGED <<wire, write, read, mPipe, sent, taken, last, state>>

LEMMA StreamsKept ==
  ASSUME StreamsSame
  PROVE  /\ Consumed' = Consumed /\ Arrived' = Arrived /\ Passed' = Passed /\ Piped' = Piped
         /\ I!Filling' = I!Filling /\ I!Unflushed' = I!Unflushed /\ sent' = sent
<1>1. I!Filling' = I!Filling
  BY DEF I!Filling, StreamsSame
<1>2. QED
  BY <1>1 DEF Consumed, Arrived, Passed, Piped, I!Unflushed, StreamsSame

LEMMA QueueFrame ==
  ASSUME StreamInv, StreamsSame, errors' \in 0..MaxErrors,
         ReadPlace', WritePlace', Between', Q!TypeOK', Notified'
  PROVE  StreamInv'
<1>1. /\ Consumed' = Consumed /\ Arrived' = Arrived /\ Passed' = Passed /\ Piped' = Piped
      /\ I!Filling' = I!Filling /\ sent' = sent
  BY StreamsKept
<1>2. InBuffer' /\ ReadCall'
  <2>1. InBuffer'
    BY <1>1 DEF StreamInv, InBuffer, StreamsSame
  <2>2. ReadCall'
    BY <1>1 DEF StreamInv, ReadCall, StreamsSame, Runs
  <2>3. QED
    BY <2>1, <2>2
<1>3. OutBuffer'
  BY <1>1 DEF StreamInv, OutBuffer, StreamsSame
<1>4. WriteCall'
  <2>1. ~Piped => Given' = Given
    BY <1>1 DEF Given, StreamsSame
  <2>2. CASE Piped
    BY <1>1, <2>2 DEF StreamInv, WriteCall, StreamsSame, Runs
  <2>3. CASE ~Piped
    BY <1>1, <2>1, <2>3 DEF StreamInv, WriteCall, StreamsSame, Runs
  <2>4. QED
    BY <2>2, <2>3
<1>5. EndState' /\ Rest'
  BY <1>1 DEF StreamInv, EndState, Rest, StreamsSame
<1>6. QED
  BY <1>2, <1>3, <1>4, <1>5 DEF StreamInv

(* The places of both decide what has been given.                          *)
LEMMA GivenSame ==
  ASSUME StreamsSame, item'[Writer] = item[Writer], Stored' <=> Stored
  PROVE  Given' = Given /\ Passed' = Passed /\ Arrived' = Arrived /\ Ends' = Ends
<1>1. Passed' = Passed /\ Arrived' = Arrived /\ Piped' = Piped
  BY StreamsKept
<1>2. Given' = Given /\ Ends' = Ends
  BY <1>1 DEF Given, Ends, StreamsSame
<1>3. QED
  BY <1>1, <1>2

Places1 == {"lock", "unlocked", "waiting"}

(* A step that takes nothing from the queue and puts nothing in it.        *)
LEMMA PlaceStep ==
  ASSUME StreamInv, StreamsSame, errors' \in 0..MaxErrors, QueueSame, mFutex' = mFutex,
         item' = item, Q!C!TypeOK', NEW p \in Procs, NEW a, at' = [at EXCEPT ![p] = a],
         \/ at[p] = a
         \/ at[p] \in Places1 /\ a \in Places1 \cup {"failed"}
         \/ at[p] = "try" /\ a = "refused" /\ p = Writer
  PROVE  StreamInv'
<1>1. at \in [Procs -> Q!Places] /\ item \in [Procs -> Chunks]
  BY Two DEF StreamInv, Q!TypeOK
<1>2. a \in Q!Places
  BY <1>1 DEF Q!Places, Places1
<1>3. /\ at' \in [Procs -> Q!Places] /\ \A q \in Procs : at'[q] = IF q = p THEN a ELSE at[q]
  BY <1>1, <1>2
<1>4. Writer \in Procs /\ Reader \in Procs /\ Writer # Reader
  BY Two
<1>5. /\ at'[Writer] \in {"notify", "done"} <=> at[Writer] \in {"notify", "done"}
      /\ at'[Reader] \in {"notify", "done"} <=> at[Reader] \in {"notify", "done"}
      /\ \A q \in Procs : at'[q] = "notify" => at[q] = "notify"
  BY <1>3, <1>4 DEF Places1
<1>6. Piped' = Piped /\ I!Unflushed' = I!Unflushed /\ I!Filling' = I!Filling
  BY StreamsKept
<1>7. ReadPlace'
  <2>1. CASE p = Reader
    BY <1>3, <1>4, <1>6, <2>1 DEF StreamInv, ReadPlace, Waiting, Places1, StreamsSame
  <2>2. CASE p # Reader
    BY <1>3, <1>4, <1>6, <2>2 DEF StreamInv, ReadPlace, StreamsSame
  <2>3. QED
    BY <2>1, <2>2
<1>8. WritePlace'
  <2>1. CASE p = Writer
    <3>1. \/ at'[Writer] = at[Writer]
          \/ at[Writer] \in Waiting /\ at[Writer] \notin {"notify", "done"} /\ at'[Writer] \in Waiting
          \/ at[Writer] = "try" /\ at'[Writer] = "refused"
      BY <1>3, <1>4, <2>1 DEF Waiting, Places1
    <3>2. QED
      BY <1>6, <3>1 DEF StreamInv, WritePlace, Waiting, StreamsSame
  <2>2. CASE p # Writer
    BY <1>3, <1>4, <1>6, <2>2 DEF StreamInv, WritePlace, StreamsSame
  <2>3. QED
    BY <2>1, <2>2
<1>9. Stored' <=> Stored
  BY <1>5 DEF Stored
<1>10. Given' = Given /\ Passed' = Passed /\ Arrived' = Arrived /\ Ends' = Ends
  BY <1>9, GivenSame
<1>11. Between'
  <2>1. UNCHANGED <<kind, wire>> /\ state' = state /\ item'[Reader] = item[Reader]
    BY DEF StreamsSame
  <2>2. Kept(Given) /\ Given \in Nat
    BY StreamsKept, KeptSame
  <2>3. QED
    BY <1>5, <1>10, <2>1, <2>2, KeepBetween DEF StreamInv
<1>12. Q!TypeOK'
  <2>1. Q!R!TypeOK'
    BY DEF StreamInv, Q!TypeOK, Q!R!TypeOK, QueueSame
  <2>2. QED
    BY <1>1, <1>3, <2>1, Two DEF Q!TypeOK
<1>13. Notified'
  <2>1. Given \in Nat /\ Ends \in Nat
    BY Limits
  <2>2. Ends' \in Nat /\ Ends' >= Ends
    BY <1>10, <2>1
  <2>3. QED
    BY <1>5, <1>10, <2>1, <2>2, KeepNotified DEF StreamInv
<1>14. QED
  BY <1>7, <1>8, <1>11, <1>12, <1>13, QueueFrame

LEMMA OthersSame ==
  ASSUME UNCHANGED Others PROVE StreamsSame /\ UNCHANGED history
  BY DEF Others, inVars, outVars, history, StreamsSame

LEMMA LeaveStep ==
  ASSUME StreamInv, UNCHANGED <<Others, errors>>, NEW p \in Procs, NEW place,
         Q!Leave(p, place),
         \/ at[p] = "lock" /\ place = "unlocked"
         \/ at[p] = "try" /\ place = "refused" /\ p = Writer
  PROVE  StreamInv' /\ UNCHANGED history
<1>1. StreamsSame /\ UNCHANGED history /\ errors' \in 0..MaxErrors
  BY OthersSame DEF StreamInv, Rest
<1>2. /\ at' = [at EXCEPT ![p] = place] /\ QueueSame /\ CondSame /\ item' = item
  BY DEF Q!Leave, Q!Goto, Q!queueVars, Q!condVars, QueueSame, CondSame
<1>3. Q!C!TypeOK' /\ mFutex' = mFutex
  BY <1>2 DEF StreamInv, Q!TypeOK, Q!C!TypeOK, CondSame
<1>4. QED
  BY <1>1, <1>2, <1>3, PlaceStep DEF Places1

LEMMA WaitStep ==
  ASSUME StreamInv, UNCHANGED <<Others, errors>>, NEW p \in Procs, Q!Wait(RingOf(p), p)
  PROVE  StreamInv' /\ UNCHANGED history
<1>1. StreamsSame /\ UNCHANGED history /\ errors' \in 0..MaxErrors
  BY OthersSame DEF StreamInv, Rest
<1>2. PICK m \in Masks : Q!C!Wait(RingOf(p), p, m)
  BY DEF Q!Wait, Masks
<1>3. /\ at[p] = "unlocked" /\ at' = [at EXCEPT ![p] = "waiting"] /\ QueueSame
      /\ item' = item /\ ended' = ended
  BY DEF Q!Wait, Q!Goto, Q!queueVars, QueueSame
<1>4. /\ old' = [old EXCEPT ![p] = mFutex] /\ mFutex' = mFutex /\ asleep' = asleep
      /\ Q!C!Prepare(RingOf(p), [op |-> "wait", who |-> p, mask |-> m])
  BY <1>2 DEF Q!C!Wait, Q!C!FutexWait
<1>5. Q!C!TypeOK
  BY DEF StreamInv, Q!TypeOK
<1>6. ring' \in [Procs -> Seq(Q!C!Requests)]
  BY <1>4, <1>5, RequestTypes, RingIn, PrepareTypes
<1>7. Q!C!TypeOK'
  BY <1>3, <1>4, <1>5, <1>6, CondTypes
<1>8. QED
  BY <1>1, <1>3, <1>4, <1>7, PlaceStep DEF Places1

LEMMA WokenStep ==
  ASSUME StreamInv, UNCHANGED <<Others, errors>>, NEW p \in Procs, Q!Woken(RingOf(p), p)
  PROVE  StreamInv' /\ UNCHANGED history
<1>1. StreamsSame /\ UNCHANGED history /\ errors' \in 0..MaxErrors
  BY OthersSame DEF StreamInv, Rest
<1>2. at[p] = "waiting" /\ QueueSame /\ item' = item
  BY DEF Q!Woken, Q!queueVars, QueueSame
<1>3. at \in [Procs -> Q!Places] /\ Q!C!TypeOK
  BY Two DEF StreamInv, Q!TypeOK
<1>4. ended' = [ended EXCEPT ![p] = "none"]
  BY DEF Q!Woken, Q!C!Resumed
<1>5. ended' \in [Procs -> {"none", "woken", "cancelled"}]
  BY <1>3, <1>4, CondTypes
<1>6. CASE Q!WaitReturns(p)
  <2>1. old' = [old EXCEPT ![p] = 0] /\ UNCHANGED <<mFutex, ring, asleep>>
    BY <1>6 DEF Q!WaitReturns
  <2>2. Q!C!TypeOK'
    <3>1. 0 \in 0..Most
      BY Sizes DEF Most
    <3>2. QED
      BY <1>3, <1>5, <2>1, <3>1, CondTypes
  <2>3. \E a \in {"lock", "failed", "waiting"} : at' = [at EXCEPT ![p] = a]
    <3>1. at = [at EXCEPT ![p] = "waiting"]
      BY <1>2, <1>3
    <3>2. (\E a \in {"lock", "failed"} : at' = [at EXCEPT ![p] = a]) \/ at' = at
      BY DEF Q!Woken, Q!Goto
    <3>3. QED
      BY <3>1, <3>2
  <2>4. QED
    BY <1>1, <1>2, <2>1, <2>2, <2>3, PlaceStep DEF Places1
<1>7. CASE \E m \in Masks : Q!C!WaitAgain(RingOf(p), p, m) /\ UNCHANGED at
  <2>1. PICK m \in Masks : Q!C!WaitAgain(RingOf(p), p, m) /\ UNCHANGED at
    BY <1>7
  <2>2. /\ old' = old /\ mFutex' = mFutex /\ asleep' = asleep
        /\ Q!C!Prepare(RingOf(p), [op |-> "wait", who |-> p, mask |-> m])
    BY <2>1 DEF Q!C!WaitAgain, Q!C!FutexWait
  <2>3. ring' \in [Procs -> Seq(Q!C!Requests)]
    BY <1>3, <2>2, RequestTypes, RingIn, PrepareTypes
  <2>4. Q!C!TypeOK'
    BY <1>3, <1>5, <2>2, <2>3, CondTypes
  <2>5. at' = [at EXCEPT ![p] = "waiting"]
    BY <1>2, <1>3, <2>1
  <2>6. QED
    BY <1>1, <1>2, <2>2, <2>4, <2>5, PlaceStep DEF Places1
<1>8. QED
  BY <1>6, <1>7 DEF Q!Woken, Masks

LEMMA CancelStep ==
  ASSUME StreamInv, NEW p \in Procs, CancelWait(p)
  PROVE  StreamInv' /\ UNCHANGED history
<1>1. /\ errors < MaxErrors /\ errors' = errors + 1 /\ Q!Cancel(RingOf(p), p) /\ UNCHANGED Others
  BY DEF CancelWait
<1>2. StreamsSame /\ UNCHANGED history /\ errors' \in 0..MaxErrors
  BY <1>1, OthersSame, Sizes DEF StreamInv, Rest
<1>3. /\ Q!C!Prepare(RingOf(p), [op |-> "cancel", who |-> p]) /\ QueueSame /\ at' = at /\ item' = item
      /\ UNCHANGED <<mFutex, old, asleep, ended>>
  BY <1>1 DEF Q!Cancel, Q!C!Cancel, Q!queueVars, QueueSame
<1>4. at \in [Procs -> Q!Places] /\ Q!C!TypeOK
  BY Two DEF StreamInv, Q!TypeOK
<1>5. ring' \in [Procs -> Seq(Q!C!Requests)]
  BY <1>3, <1>4, RequestTypes, RingIn, PrepareTypes
<1>6. Q!C!TypeOK'
  BY <1>3, <1>4, <1>5, CondTypes
<1>7. at' = [at EXCEPT ![p] = at[p]]
  BY <1>3, <1>4
<1>8. QED
  BY <1>2, <1>3, <1>6, <1>7, PlaceStep

LEMMA KernelStep ==
  ASSUME StreamInv, NEW g \in Procs, Kernel(g)
  PROVE  StreamInv' /\ UNCHANGED history
<1>1. Q!Kernel(g) /\ UNCHANGED Others /\ errors' = errors
  BY DEF Kernel
<1>2. StreamsSame /\ UNCHANGED history /\ errors' \in 0..MaxErrors
  BY <1>1, OthersSame DEF StreamInv, Rest
<1>3. Q!C!Kernel(g) /\ QueueSame /\ at' = at /\ item' = item
  BY <1>1 DEF Q!Kernel, Q!queueVars, QueueSame
<1>4. mFutex' = mFutex
  BY <1>3 DEF Q!C!Kernel
<1>5. at \in [Procs -> Q!Places] /\ Q!C!TypeOK
  BY Two DEF StreamInv, Q!TypeOK
<1>6. Q!C!TypeOK'
  BY <1>3, <1>5, KernelTypes
<1>7. Writer \in Procs /\ at' = [at EXCEPT ![Writer] = at[Writer]]
  BY <1>3, <1>5, Two
<1>8. QED
  BY <1>2, <1>3, <1>4, <1>6, <1>7, PlaceStep

LEMMA Numbers ==
  ASSUME StreamInv
  PROVE  /\ mFutex \in Nat /\ mRead \in 0..QueueSize /\ mWrite \in 0..QueueSize
         /\ QueueSize \in Nat /\ QueueSize > 0 /\ Chunked \in Nat
         /\ Pending(Writer) \in 0..1 /\ Pending(Reader) \in 0..1
         /\ mFutex + Pending(Writer) + Pending(Reader) + Chunked <= Most
<1>1. /\ mFutex \in Nat /\ mRead \in 0..QueueSize /\ mWrite \in 0..QueueSize
  BY CondTypes DEF StreamInv, Q!TypeOK, Q!R!TypeOK
<1>2. QueueSize \in Nat /\ QueueSize > 0 /\ MaxBytes \in Nat
  BY Sizes
<1>3. Chunked \in Nat
  BY <1>1, <1>2 DEF Chunked
<1>4. Pending(Writer) \in 0..1 /\ Pending(Reader) \in 0..1
  BY DEF Pending
<1>5. Given \in Nat /\ Given <= MaxBytes /\ Ends \in 0..2
  <2>1. Given \in Nat /\ Len(sent) \in Nat /\ Given <= Len(sent) /\ Len(sent) <= MaxBytes
        /\ Ends \in 0..2
    BY Limits
  <2>2. QED
    BY <1>2, <2>1
<1>6. mFutex + Pending(Writer) + Pending(Reader) + Chunked <= 2 * (Given + Ends)
  BY DEF StreamInv, Notified
<1>7. mFutex + Pending(Writer) + Pending(Reader) + Chunked <= Most
  BY <1>1, <1>2, <1>3, <1>4, <1>5, <1>6 DEF Most
<1>8. QED
  BY <1>1, <1>2, <1>3, <1>4, <1>7

LEMMA NotifyStep ==
  ASSUME StreamInv, UNCHANGED <<Others, errors>>, NEW p \in Procs, Q!Notify(RingOf(p), p)
  PROVE  StreamInv' /\ UNCHANGED history
<1>1. StreamsSame /\ UNCHANGED history /\ errors' \in 0..MaxErrors
  BY OthersSame DEF StreamInv, Rest
<1>2. PICK m \in Masks : Q!C!NotifyOne(RingOf(p), m)
  BY DEF Q!Notify, Masks
<1>3. /\ at[p] = "notify" /\ at' = [at EXCEPT ![p] = "done"] /\ QueueSame
      /\ item' = item /\ ended' = ended
  BY DEF Q!Notify, Q!Goto, Q!queueVars, QueueSame
<1>4. /\ mFutex' = mFutex + 1 /\ old' = old /\ asleep' = asleep
      /\ Q!C!Prepare(RingOf(p), [op |-> "wake", mask |-> m])
  BY <1>2 DEF Q!C!NotifyOne
<1>5. Q!C!TypeOK /\ at \in [Procs -> Q!Places] /\ item \in [Procs -> Chunks]
  BY Two DEF StreamInv, Q!TypeOK
<1>6. ring' \in [Procs -> Seq(Q!C!Requests)]
  BY <1>4, <1>5, RequestTypes, RingIn, PrepareTypes
<1>7. \A q \in Procs : at'[q] = IF q = p THEN "done" ELSE at[q]
  BY <1>3, <1>5
<1>8. Writer \in Procs /\ Reader \in Procs /\ Writer # Reader /\ (p = Writer \/ p = Reader)
  BY Two
<1>9. /\ at'[Writer] \in {"notify", "done"} <=> at[Writer] \in {"notify", "done"}
      /\ at'[Reader] \in {"notify", "done"} <=> at[Reader] \in {"notify", "done"}
  BY <1>3, <1>7, <1>8
<1>10. Piped' = Piped /\ I!Unflushed' = I!Unflushed /\ I!Filling' = I!Filling
  BY <1>1, StreamsKept
<1>11. ReadPlace'
  <2>1. at'[Reader] = at[Reader] \/ (at[Reader] = "notify" /\ at'[Reader] = "done")
    BY <1>3, <1>7, <1>8
  <2>2. QED
    BY <1>1, <1>3, <1>10, <2>1 DEF StreamInv, ReadPlace, Waiting, StreamsSame
<1>12. WritePlace'
  <2>1. at'[Writer] = at[Writer] \/ (at[Writer] = "notify" /\ at'[Writer] = "done")
    BY <1>3, <1>7, <1>8
  <2>2. QED
    BY <1>1, <1>3, <1>10, <2>1 DEF StreamInv, WritePlace, Waiting, StreamsSame
<1>13. Stored' <=> Stored
  BY <1>9 DEF Stored
<1>14. Given' = Given /\ Passed' = Passed /\ Arrived' = Arrived /\ Ends' = Ends
  BY <1>1, <1>3, <1>13, GivenSame
<1>15. Between'
  <2>1. UNCHANGED <<kind, wire>> /\ state' = state /\ item'[Reader] = item[Reader]
    BY <1>1, <1>3 DEF StreamsSame
  <2>2. Kept(Given) /\ Given \in Nat
    BY <1>1, StreamsKept, KeptSame
  <2>3. QED
    BY <1>3, <1>9, <1>14, <2>1, <2>2, KeepBetween DEF StreamInv
<1>16. Pending(Writer)' + Pending(Reader)' + 1 = Pending(Writer) + Pending(Reader)
  BY <1>3, <1>7, <1>8 DEF Pending
<1>17. Pending(Writer)' \in 0..1 /\ Pending(Reader)' \in 0..1 /\ Chunked' = Chunked
  BY <1>3 DEF Pending, Chunked, QueueSame
<1>18. mFutex' \in 0..Most
  <2>1. PICK f \in Nat, w \in 0..1, r \in 0..1, c \in Nat :
          f = mFutex /\ w = Pending(Writer) /\ r = Pending(Reader) /\ c = Chunked
    BY Numbers
  <2>2. f + w + r + c <= Most /\ Most \in Nat /\ w + r >= 1
    <3>1. w + r >= 1
      BY <1>3, <1>8, <2>1 DEF Pending
    <3>2. QED
      BY <2>1, <3>1, Numbers, Sizes DEF Most
  <2>3. f + 1 \in 0..Most
    BY <2>2
  <2>4. QED
    BY <1>4, <2>1, <2>3
<1>19. Q!TypeOK'
  <2>1. Q!R!TypeOK'
    BY <1>3 DEF StreamInv, Q!TypeOK, Q!R!TypeOK, QueueSame
  <2>2. Q!C!TypeOK'
    BY <1>3, <1>4, <1>5, <1>6, <1>18, CondTypes
  <2>3. at' \in [Procs -> Q!Places]
    BY <1>3, <1>5 DEF Q!Places
  <2>4. QED
    BY <1>3, <1>5, <2>1, <2>2, <2>3, Two DEF Q!TypeOK
<1>20. Notified'
  <2>1. mFutex + Pending(Writer) + Pending(Reader) + Chunked <= 2 * (Given + Ends)
    BY DEF StreamInv, Notified
  <2>2. mFutex \in Nat /\ Chunked \in Nat /\ Pending(Writer) \in 0..1 /\ Pending(Reader) \in 0..1
    BY Numbers
  <2>3. mFutex' + Pending(Writer)' + Pending(Reader)' + Chunked'
        = mFutex + Pending(Writer) + Pending(Reader) + Chunked
    BY <1>4, <1>16, <1>17, <2>2
  <2>4. QED
    BY <1>14, <2>1, <2>3 DEF Notified
<1>21. QED
  BY <1>1, <1>11, <1>12, <1>15, <1>19, <1>20, QueueFrame

(* The positions of the ring.                                              *)
LEMMA AfterFacts ==
  /\ \A i \in 0..QueueSize : Q!R!After(i) \in 0..QueueSize /\ Q!R!After(i) # i
  /\ \A i, j \in 0..QueueSize : Q!R!After(i) = Q!R!After(j) => i = j
  BY Sizes DEF Q!R!After

LEMMA OneMore ==
  ASSUME mRead \in 0..QueueSize, mWrite \in 0..QueueSize, Q!R!After(mWrite) # mRead,
         mRead' = mRead, mWrite' = Q!R!After(mWrite)
  PROVE  /\ \A i \in 0..QueueSize : Occupied(i)' <=> Occupied(i) \/ i = mWrite
         /\ ~Occupied(Q!R!After(mWrite)) /\ ~Occupied(mWrite) /\ Chunked' = Chunked + 1
  BY Sizes DEF Q!R!After, Occupied, Chunked

LEMMA OneLess ==
  ASSUME mRead \in 0..QueueSize, mWrite \in 0..QueueSize, mRead # mWrite,
         mRead' = Q!R!After(mRead), mWrite' = mWrite
  PROVE  /\ \A i \in 0..QueueSize : Occupied(i)' => Occupied(i) /\ i # mRead
         /\ Occupied(mRead) /\ Chunked' + 1 = Chunked
  BY Sizes DEF Q!R!After, Occupied, Chunked

(* What push stores are the next bytes, or none at the end.                *)
LEMMA StoredItem ==
  ASSUME StreamInv, Piped, at[Writer] \in {"lock", "try"}
  PROVE  /\ Given = Passed /\ Passed \in Nat /\ item[Writer] \in Chunks
         /\ Passed + Len(item[Writer]) \in 0..MaxBytes /\ Len(item[Writer]) \in Nat
         /\ Runs(sent, item[Writer], Passed, Passed + Len(item[Writer]))
         /\ \/ Len(item[Writer]) > 0 /\ state = "open"
            \/ /\ item[Writer] = << >> /\ Len(item[Writer]) = 0 /\ write.op = "bind"
               /\ write.pc \in {"closing", "destroying"} /\ state # "open"
<1>1. Given = Passed
  BY DEF Given, Stored
<1>2. /\ Passed \in Nat /\ Len(sent) \in Nat /\ Len(sent) = Passed + I!Filling /\ I!Filling \in Nat
      /\ Len(I!Unflushed) = I!Filling /\ Len(sent) <= MaxBytes
      /\ Runs(sent, I!Unflushed, Passed, Len(sent))
  BY UnflushedRuns DEF StreamInv, OutBuffer
<1>3. item[Writer] \in Chunks
  BY Two DEF StreamInv, Q!TypeOK
<1>4. CASE write.pc = "raw"
  <2>1. item[Writer] = I!Unflushed /\ I!Filling > 0
    BY <1>4 DEF StreamInv, WritePlace
  <2>2. state = "open"
    <3>1. write.op # "gone"
      BY <1>4, NoWriteFacts DEF StreamInv, WriteCall
    <3>2. QED
      BY <1>4, <3>1 DEF StreamInv, EndState
  <2>3. Len(item[Writer]) = I!Filling
    BY <1>2, <2>1
  <2>4. Passed + Len(item[Writer]) = Len(sent)
    BY <1>2, <2>3
  <2>5. Runs(sent, item[Writer], Passed, Passed + Len(item[Writer]))
    BY <1>2, <2>1, <2>4
  <2>6. Passed + Len(item[Writer]) \in 0..MaxBytes
    <3>1. Len(sent) \in 0..MaxBytes
      BY <1>2, Sizes
    <3>2. QED
      BY <2>4, <3>1
  <2>7. Len(item[Writer]) \in Nat /\ Len(item[Writer]) > 0
    BY <1>2, <2>1, <2>3
  <2>8. QED
    BY <1>1, <1>2, <1>3, <2>2, <2>5, <2>6, <2>7
<1>5. CASE write.pc # "raw"
  <2>1. item[Writer] = << >> /\ write.pc \in {"closing", "destroying"}
    BY <1>5 DEF StreamInv, WritePlace
  <2>2. write.op = "bind" /\ state # "open"
    BY <2>1 DEF StreamInv, WriteCall, EndState
  <2>3. Runs(sent, << >>, Passed, Passed) /\ Len(<< >>) = 0
    <3>1. sent \in Seq(Bytes)
      BY DEF StreamInv, OutBuffer
    <3>2. Passed \in 0..Len(sent)
      BY <1>2
    <3>3. QED
      BY <3>1, <3>2, RunsEmpty
  <2>4. Passed + 0 = Passed /\ Passed \in 0..MaxBytes
    BY <1>2, Sizes
  <2>5. Len(item[Writer]) = 0 /\ Passed + Len(item[Writer]) = Passed
    BY <2>1, <2>3, <2>4
  <2>6. Runs(sent, item[Writer], Passed, Passed + Len(item[Writer]))
    BY <2>1, <2>3, <2>5
  <2>7. QED
    BY <1>1, <1>2, <1>3, <2>1, <2>2, <2>4, <2>5, <2>6
<1>6. QED
  BY <1>4, <1>5

LEMMA StoreStep ==
  ASSUME StreamInv, UNCHANGED <<Others, errors>>, Piped, Q!StoreItem(Writer),
         at[Writer] \in {"lock", "try"}
  PROVE  StreamInv' /\ UNCHANGED history
<1>1. StreamsSame /\ UNCHANGED history /\ errors' \in 0..MaxErrors
  BY OthersSame DEF StreamInv, Rest
<1>2. PICK a : /\ a \in {"notify", "done"} /\ at' = [at EXCEPT ![Writer] = a]
  BY DEF Q!StoreItem, Q!Goto
<1>3. /\ item' = item /\ CondSame /\ slots' = [slots EXCEPT ![mWrite] = item[Writer]]
      /\ mWrite' = Q!R!After(mWrite) /\ mRead' = mRead /\ Q!R!After(mWrite) # mRead
  BY DEF Q!StoreItem, Q!R!Store, Q!R!full, Q!condVars, CondSame
<1>4. /\ at \in [Procs -> Q!Places] /\ item \in [Procs -> Chunks]
      /\ slots \in [0..QueueSize -> Chunks] /\ mRead \in 0..QueueSize /\ mWrite \in 0..QueueSize
  BY Two DEF StreamInv, Q!TypeOK, Q!R!TypeOK
<1>5. /\ Writer \in Procs /\ Reader \in Procs /\ Writer # Reader
      /\ at'[Writer] = a /\ at'[Reader] = at[Reader]
  BY <1>2, <1>4, Two
<1>6. PICK v, d, e : v = item[Writer] /\ d = Given /\ e = Passed + Len(item[Writer])
  OBVIOUS
<1>7. /\ d = Passed /\ d \in Nat /\ e \in 0..MaxBytes /\ Runs(sent, v, d, e) /\ d <= e /\ v \in Chunks
      /\ \/ e > d /\ state = "open" /\ v # << >>
         \/ /\ e = d /\ state # "open" /\ write.op = "bind"
            /\ write.pc \in {"closing", "destroying"}
  <2>1. PICK l : l = Len(v)
    OBVIOUS
  <2>2. d = Passed /\ d \in Nat /\ v \in Chunks /\ e = d + l /\ e \in 0..MaxBytes /\ l \in Nat
        /\ Runs(sent, v, d, e)
    BY <1>6, <2>1, StoredItem
  <2>3. \/ l > 0 /\ state = "open"
        \/ /\ l = 0 /\ state # "open" /\ write.op = "bind"
           /\ write.pc \in {"closing", "destroying"}
    BY <1>6, <2>1, StoredItem
  <2>4. l > 0 => v # << >>
    BY <2>1
  <2>5. d <= e /\ (l > 0 => e > d) /\ (l = 0 => e = d)
    BY <2>2
  <2>6. QED
    BY <2>2, <2>3, <2>4, <2>5
<1>8. Passed' = Passed /\ Arrived' = Arrived /\ Piped' = Piped /\ sent' = sent
  BY <1>1, StreamsKept
<1>9. Given' = e
  BY <1>2, <1>3, <1>5, <1>6, <1>8 DEF Given, Stored
<1>10. ReadPlace'
  BY <1>1, <1>3, <1>5, <1>8 DEF StreamInv, ReadPlace, StreamsSame
<1>11. WritePlace'
  <2>1. I!Unflushed' = I!Unflushed /\ I!Filling' = I!Filling
    BY <1>1, StreamsKept
  <2>2. at[Writer] = "lock" => write.pc \in {"raw", "closing"}
    BY DEF StreamInv, WritePlace
  <2>3. at[Writer] = "try" => write.pc = "destroying"
    BY DEF StreamInv, WritePlace, Waiting
  <2>4. QED
    BY <1>1, <1>2, <1>3, <1>5, <1>8, <2>1, <2>2, <2>3
    DEF StreamInv, WritePlace, StreamsSame, Waiting
<1>12. Q!TypeOK'
  <2>1. slots' \in [0..QueueSize -> Chunks]
    BY <1>3, <1>4, <1>6, <1>7
  <2>2. Q!R!TypeOK'
    BY <1>3, <1>4, <2>1, AfterFacts DEF Q!R!TypeOK
  <2>3. Q!C!TypeOK'
    BY <1>3 DEF StreamInv, Q!TypeOK, Q!C!TypeOK, CondSame
  <2>4. at' \in [Procs -> Q!Places]
    BY <1>2, <1>4 DEF Q!Places
  <2>5. QED
    BY <1>3, <1>4, <2>2, <2>3, <2>4, Two DEF Q!TypeOK
<1>13. Chunked' = Chunked + 1
  BY <1>3, <1>4, OneMore
<1>14. Between'
  <2>1. PICK b \in [0..QueueSize -> 0..MaxBytes] : Chain(b)
    BY DEF StreamInv, Between
  <2>2. PICK w, x : w = mWrite /\ x = Q!R!After(w)
    OBVIOUS
  <2>3. /\ w \in 0..QueueSize /\ x \in 0..QueueSize /\ x # w /\ x # mRead
        /\ \A i \in 0..QueueSize : Q!R!After(i) \in 0..QueueSize
        /\ \A i \in 0..QueueSize : Q!R!After(i) = x => i = w
    BY <1>3, <1>4, <2>2, AfterFacts
  <2>4. /\ \A i \in 0..QueueSize : Occupied(i)' <=> Occupied(i) \/ i = w
        /\ ~Occupied(x) /\ ~Occupied(w)
    BY <1>3, <1>4, <2>2, OneMore
  <2>5. PICK c : c = [b EXCEPT ![x] = e]
    OBVIOUS
  <2>6. /\ c \in [0..QueueSize -> 0..MaxBytes] /\ c[x] = e
        /\ \A i \in 0..QueueSize : i # x => c[i] = b[i]
    BY <1>7, <2>3, <2>5
  <2>7. /\ Runs(sent, item[Reader], Arrived, b[mRead]) /\ b[mRead] <= d /\ b[w] = d
        /\ at[Reader] \in {"notify", "done"} /\ item[Reader] = << >> => AtEnd(Arrived)
    BY <1>6, <2>1, <2>2 DEF Chain
  <2>8. Runs(sent, item[Reader], Arrived, c[mRead])' /\ (c[mRead] <= Given /\ c[mWrite] = Given)'
    <3>1. c[mRead] = b[mRead] /\ c[mRead'] = b[mRead] /\ c[mWrite'] = e
      BY <1>3, <1>4, <2>2, <2>3, <2>6
    <3>2. b[mRead] \in Nat /\ b[mRead] <= e
      <4>1. PICK y \in Nat : y = b[mRead]
        BY <1>4, Sizes
      <4>2. y <= d
        BY <2>7, <4>1
      <4>3. y <= e
        BY <1>7, <4>1, <4>2, Sizes
      <4>4. QED
        BY <4>1, <4>3
    <3>3. Runs(sent', item'[Reader], Arrived', c[mRead'])
      BY <1>3, <1>8, <2>7, <3>1
    <3>4. QED
      BY <1>9, <3>1, <3>2, <3>3
  <2>9. (at[Reader] \in {"notify", "done"} /\ item[Reader] = << >> => AtEnd(Arrived))'
    BY <1>1, <1>3, <1>5, <1>8, <2>7 DEF AtEnd, StreamsSame
  <2>10. ASSUME NEW i \in 0..QueueSize, Occupied(i)'
         PROVE  /\ Runs(sent, slots[i], c[i], c[Q!R!After(i)])' /\ (c[Q!R!After(i)] <= Given)'
                /\ (slots[i] = << >> => AtEnd(c[i]))'
    <3>1. CASE i = w
      <4>1. c[i] = d /\ c[Q!R!After(i)] = e /\ slots'[i] = v
        BY <1>3, <1>4, <1>6, <2>2, <2>3, <2>6, <2>7, <3>1
      <4>2. v = << >> => AtEnd(d)'
        BY <1>1, <1>7, <1>8 DEF AtEnd, StreamsSame
      <4>3. e <= e
        BY <1>7
      <4>4. QED
        BY <1>7, <1>8, <1>9, <4>1, <4>2, <4>3
    <3>2. CASE i # w
      <4>1. Occupied(i) /\ i # x
        BY <2>4, <2>10, <3>2
      <4>2. PICK j \in 0..QueueSize : j = Q!R!After(i) /\ j # x
        BY <2>3, <3>2
      <4>3. c[i] = b[i] /\ c[j] = b[j] /\ slots'[i] = slots[i]
        BY <1>3, <1>4, <2>2, <2>6, <3>2, <4>1, <4>2
      <4>4. /\ Runs(sent, slots[i], b[i], b[j]) /\ b[j] <= d
            /\ slots[i] = << >> => AtEnd(b[i])
        BY <1>6, <2>1, <4>1, <4>2 DEF Chain
      <4>5. b[j] <= e
        <5>1. PICK y \in Nat : y = b[j]
          BY <4>2, Sizes
        <5>2. y <= d
          BY <4>4, <5>1
        <5>3. y <= e
          BY <1>7, <5>1, <5>2, Sizes
        <5>4. QED
          BY <5>1, <5>3
      <4>6. slots[i] = << >> => AtEnd(b[i])'
        BY <1>1, <1>8, <4>4 DEF AtEnd, StreamsSame
      <4>7. QED
        BY <1>8, <1>9, <4>2, <4>3, <4>4, <4>5, <4>6
    <3>3. QED
      BY <3>1, <3>2
  <2>11. Chain(c)'
    BY <2>6, <2>8, <2>9, <2>10 DEF Chain
  <2>12. wire' = << >>
    BY <1>1 DEF StreamInv, Between, StreamsSame
  <2>13. QED
    BY <1>8, <2>6, <2>11, <2>12 DEF Between
<1>15. Notified'
  <2>1. PICK f \in Nat, r \in 0..1, k \in Nat, s \in 0..2, t \in 0..2 :
          /\ f = mFutex /\ r = Pending(Reader) /\ k = Chunked /\ s = Ends /\ t = Ends'
    <3>1. Ends \in 0..2 /\ Ends' \in 0..2
      BY DEF Ends
    <3>2. mFutex \in Nat /\ Pending(Reader) \in 0..1 /\ Chunked \in Nat
      BY Numbers
    <3>3. QED
      BY <3>1, <3>2
  <2>2. f + r + k <= 2 * (d + s)
    <3>1. Pending(Writer) = 0
      BY DEF Pending
    <3>2. f + 0 + r + k <= 2 * (d + s)
      BY <1>6, <2>1, <3>1 DEF StreamInv, Notified
    <3>3. QED
      BY <2>1, <3>2
  <2>3. t >= s /\ (e > d \/ t = s + 1)
    <3>1. Stored' /\ ~Stored
      BY <1>2, <1>5 DEF Stored
    <3>2. write' = write /\ state' = state
      BY <1>1 DEF StreamsSame
    <3>3. state = "open" => Ends = 0 /\ Ends' = 0
      BY <3>2 DEF Ends
    <3>4. state # "open" /\ write.op = "bind" /\ write.pc \in {"closing", "destroying"}
          => Ends' = Ends + 1
      BY <3>1, <3>2 DEF Ends
    <3>5. QED
      BY <1>7, <2>1, <3>3, <3>4
  <2>4. f + 1 + r + (k + 1) <= 2 * (e + t)
    BY <1>7, <2>1, <2>2, <2>3, Sizes
  <2>5. PICK q \in 0..1 : Pending(Writer)' = q
    BY DEF Pending
  <2>6. Pending(Reader)' = r
    BY <1>5, <2>1 DEF Pending
  <2>7. mFutex' = f
    BY <1>3, <2>1 DEF CondSame
  <2>8. f + q + r + (k + 1) <= 2 * (e + t)
    BY <1>7, <2>1, <2>4, <2>5, Sizes
  <2>9. Chunked' = k + 1
    BY <1>13, <2>1
  <2>10. QED
    BY <1>9, <2>1, <2>5, <2>6, <2>7, <2>8, <2>9 DEF Notified
<1>16. QED
  BY <1>1, <1>10, <1>11, <1>12, <1>14, <1>15, QueueFrame

LEMMA TakeItemStep ==
  ASSUME StreamInv, UNCHANGED <<Others, errors>>, Piped, Q!TakeItem(Reader), at[Reader] = "lock",
         mRead < QueueSize
  PROVE  StreamInv' /\ UNCHANGED history
<1>1. StreamsSame /\ UNCHANGED history /\ errors' \in 0..MaxErrors
  BY OthersSame DEF StreamInv, Rest
<1>2. PICK a : /\ a \in {"notify", "done"} /\ at' = [at EXCEPT ![Reader] = a]
  BY DEF Q!TakeItem, Q!Goto
<1>3. /\ CondSame /\ slots' = slots /\ mWrite' = mWrite /\ mRead' = Q!R!After(mRead)
      /\ mRead # mWrite /\ item' = [item EXCEPT ![Reader] = slots[mRead]]
  BY DEF Q!TakeItem, Q!R!Drop, Q!R!Front, Q!R!empty, Q!condVars, CondSame
<1>4. /\ at \in [Procs -> Q!Places] /\ item \in [Procs -> Chunks]
      /\ slots \in [0..QueueSize -> Chunks] /\ mRead \in 0..QueueSize /\ mWrite \in 0..QueueSize
  BY Two DEF StreamInv, Q!TypeOK, Q!R!TypeOK
<1>5. /\ Writer \in Procs /\ Reader \in Procs /\ Writer # Reader
      /\ at'[Reader] = a /\ at'[Writer] = at[Writer]
      /\ item'[Reader] = slots[mRead] /\ item'[Writer] = item[Writer]
  BY <1>2, <1>3, <1>4, Two
<1>6. Passed' = Passed /\ Arrived' = Arrived /\ Piped' = Piped /\ sent' = sent
  BY <1>1, StreamsKept
<1>7. Stored' <=> Stored
  BY <1>5 DEF Stored
<1>8. Given' = Given /\ Ends' = Ends
  BY <1>1, <1>5, <1>7, GivenSame
<1>9. ReadPlace'
  <2>1. read.pc = "raw"
    BY DEF StreamInv, ReadPlace
  <2>2. QED
    BY <1>1, <1>2, <1>5, <1>6, <2>1 DEF ReadPlace, StreamsSame, Waiting
<1>10. WritePlace'
  <2>1. I!Unflushed' = I!Unflushed /\ I!Filling' = I!Filling
    BY <1>1, StreamsKept
  <2>2. QED
    BY <1>1, <1>5, <1>6, <2>1 DEF StreamInv, WritePlace, StreamsSame
<1>11. Q!TypeOK'
  <2>1. slots[mRead] \in Chunks /\ item' \in [Procs -> Chunks]
    BY <1>3, <1>4
  <2>2. Q!R!TypeOK'
    BY <1>3, <1>4, AfterFacts DEF Q!R!TypeOK
  <2>3. Q!C!TypeOK'
    BY <1>3 DEF StreamInv, Q!TypeOK, Q!C!TypeOK, CondSame
  <2>4. at' \in [Procs -> Q!Places]
    BY <1>2, <1>4 DEF Q!Places
  <2>5. QED
    BY <2>1, <2>2, <2>3, <2>4, Two DEF Q!TypeOK
<1>12. Chunked' + 1 = Chunked
  BY <1>3, <1>4, OneLess
<1>13. Between'
  <2>1. PICK b \in [0..QueueSize -> 0..MaxBytes] : Chain(b)
    BY DEF StreamInv, Between
  <2>2. PICK m, x : m = mRead /\ x = Q!R!After(m)
    OBVIOUS
  <2>3. m \in 0..QueueSize /\ x \in 0..QueueSize /\ mRead' = x /\ item'[Reader] = slots[m]
    BY <1>3, <1>4, <1>5, <2>2, AfterFacts
  <2>4. /\ \A i \in 0..QueueSize : Occupied(i)' => Occupied(i)
        /\ Occupied(m)
    BY <1>3, <1>4, <2>2, OneLess
  <2>5. b[m] = Arrived
    <3>1. item[Reader] = << >>
      BY DEF StreamInv, ReadPlace
    <3>2. Runs(sent, << >>, Arrived, b[m])
      BY <2>1, <2>2, <3>1 DEF Chain
    <3>3. QED
      BY <3>2 DEF Runs
  <2>6. /\ Runs(sent, slots[m], Arrived, b[x]) /\ b[x] <= Given /\ b[mWrite] = Given
        /\ slots[m] = << >> => AtEnd(Arrived)
    BY <2>1, <2>2, <2>3, <2>4, <2>5 DEF Chain
  <2>7. Runs(sent, item[Reader], Arrived, b[mRead])' /\ (b[mRead] <= Given /\ b[mWrite] = Given)'
    BY <1>3, <1>6, <1>8, <2>3, <2>6
  <2>8. (at[Reader] \in {"notify", "done"} /\ item[Reader] = << >> => AtEnd(Arrived))'
    BY <1>1, <1>6, <2>3, <2>6 DEF AtEnd, StreamsSame
  <2>9. ASSUME NEW i \in 0..QueueSize, Occupied(i)'
        PROVE  /\ Runs(sent, slots[i], b[i], b[Q!R!After(i)])' /\ (b[Q!R!After(i)] <= Given)'
               /\ (slots[i] = << >> => AtEnd(b[i]))'
    <3>1. Occupied(i)
      BY <2>4, <2>9
    <3>2. /\ Runs(sent, slots[i], b[i], b[Q!R!After(i)]) /\ b[Q!R!After(i)] <= Given
          /\ slots[i] = << >> => AtEnd(b[i])
      BY <2>1, <3>1 DEF Chain
    <3>3. slots[i] = << >> => AtEnd(b[i])'
      BY <1>1, <1>6, <3>2 DEF AtEnd, StreamsSame
    <3>4. QED
      BY <1>3, <1>6, <1>8, <3>2, <3>3
  <2>10. Chain(b)'
    BY <2>1, <2>7, <2>8, <2>9 DEF Chain
  <2>11. wire' = << >>
    BY <1>1 DEF StreamInv, Between, StreamsSame
  <2>12. QED
    BY <1>6, <2>1, <2>10, <2>11 DEF Between
<1>14. Notified'
  <2>1. PICK f \in Nat, w \in 0..1, k \in Nat, g \in Nat :
          f = mFutex /\ w = Pending(Writer) /\ k = Chunked' /\ g = 2 * (Given + Ends)
    <3>1. Chunked' \in Nat
      <4>1. QueueSize \in Nat /\ mRead' \in 0..QueueSize /\ mWrite' \in 0..QueueSize
        BY <1>3, <1>4, AfterFacts, Sizes
      <4>2. PICK r \in 0..QueueSize, z \in 0..QueueSize : r = mRead' /\ z = mWrite'
        BY <4>1
      <4>3. Chunked' = IF r <= z THEN z - r ELSE z + QueueSize + 1 - r
        BY <4>2 DEF Chunked
      <4>4. (r <= z => z - r \in Nat) /\ (~(r <= z) => z + QueueSize + 1 - r \in Nat)
        BY Sizes
      <4>5. QED
        BY <4>3, <4>4
    <3>2. Given \in Nat /\ Ends \in 0..2
      BY Limits
    <3>3. 2 * (Given + Ends) \in Nat
      BY <3>2
    <3>4. QED
      BY <3>1, <3>3, Numbers
  <2>2. f + w + 0 + (k + 1) <= g
    <3>1. Pending(Reader) = 0
      BY DEF Pending
    <3>2. Chunked = k + 1
      BY <1>12, <2>1
    <3>3. QED
      BY <2>1, <3>1, <3>2 DEF StreamInv, Notified
  <2>3. PICK q \in 0..1 : Pending(Reader)' = q
    BY DEF Pending
  <2>5. f + w + q + k <= g
    BY <2>2
  <2>6. mFutex' = f /\ Pending(Writer)' = w /\ 2 * (Given' + Ends') = g
    BY <1>3, <1>5, <1>8, <2>1 DEF CondSame, Pending
  <2>7. QED
    BY <2>1, <2>3, <2>5, <2>6 DEF Notified
<1>15. QED
  BY <1>1, <1>9, <1>10, <1>11, <1>13, <1>14, QueueFrame

LEMMA InQueueStep ==
  ASSUME StreamInv, NEW p \in Procs, InQueue(p), mRead' = mRead \/ mRead < QueueSize
  PROVE  StreamInv' /\ UNCHANGED history
<1>1. Piped /\ UNCHANGED <<Others, errors>>
  BY DEF InQueue
<1>2. CASE p = Writer /\ (Q!Push(p) \/ Q!TryPush(p))
  <2>1. \/ at[Writer] \in {"lock", "try"} /\ Q!StoreItem(Writer)
        \/ at[p] = "lock" /\ Q!Leave(p, "unlocked")
        \/ at[p] = "try" /\ Q!Leave(p, "refused") /\ p = Writer
    BY <1>2 DEF Q!Push, Q!TryPush
  <2>2. QED
    BY <1>1, <2>1, StoreStep, LeaveStep
<1>3. CASE p = Reader /\ Q!Pop(p)
  <2>1. \/ at[Reader] = "lock" /\ Q!TakeItem(Reader)
        \/ at[p] = "lock" /\ Q!Leave(p, "unlocked")
    BY <1>3 DEF Q!Pop
  <2>2. Q!TakeItem(Reader) => mRead < QueueSize
    <3>1. mRead \in 0..QueueSize /\ (Q!TakeItem(Reader) => mRead' = Q!R!After(mRead))
      BY DEF StreamInv, Q!TypeOK, Q!R!TypeOK, Q!TakeItem, Q!R!Drop
    <3>2. Q!TakeItem(Reader) => mRead' # mRead
      BY <3>1, AfterFacts
    <3>3. QED
      BY <3>2
  <2>3. QED
    BY <1>1, <1>3, <2>1, <2>2, TakeItemStep, LeaveStep
<1>4. CASE Q!Notify(RingOf(p), p)
  BY <1>1, <1>4, NotifyStep
<1>5. CASE Q!Wait(RingOf(p), p)
  BY <1>1, <1>5, WaitStep
<1>6. CASE Q!Woken(RingOf(p), p)
  BY <1>1, <1>6, WokenStep
<1>7. QED
  BY <1>2, <1>3, <1>4, <1>5, <1>6 DEF InQueue

(* What is popped past the array has the type of a chunk, and no more is   *)
(* known of it.                                                            *)
LEMMA SeamStep ==
  ASSUME PipeTypeOK, NEW p \in Procs, InQueue(p), ~(mRead' = mRead \/ mRead < QueueSize)
  PROVE  PipeTypeOK'
<1>1. p = Reader /\ Q!TakeItem(Reader)
  BY DEF InQueue, Q!Push, Q!TryPush, Q!Pop, Q!StoreItem, Q!R!Store, Q!Leave, Q!Notify, Q!Wait,
         Q!Woken, Q!queueVars
<1>2. UNCHANGED Others /\ errors' = errors /\ defined' \in BOOLEAN
  BY DEF InQueue, PipeTypeOK
<1>3. /\ CondSame /\ slots' = slots /\ mWrite' = mWrite /\ mRead' = Q!R!After(mRead)
  BY <1>1 DEF Q!TakeItem, Q!R!Drop, Q!condVars, CondSame
<1>4. /\ at \in [Procs -> Q!Places] /\ item \in [Procs -> Chunks]
      /\ slots \in [0..QueueSize -> Chunks] /\ mRead \in 0..QueueSize /\ mWrite \in 0..QueueSize
  BY Two DEF PipeTypeOK, Q!TypeOK, Q!R!TypeOK
<1>5. at' \in [Procs -> Q!Places]
  <2>1. PICK a \in {"notify", "done"} : at' = [at EXCEPT ![Reader] = a]
    BY <1>1 DEF Q!TakeItem, Q!Goto
  <2>2. a \in Q!Places
    BY DEF Q!Places
  <2>3. QED
    BY <1>4, <2>1, <2>2
<1>6. item' \in [Procs -> Chunks]
  <2>1. PICK v \in Q!R!Front : item' = [item EXCEPT ![Reader] = v]
    BY <1>1 DEF Q!TakeItem
  <2>2. v \in Chunks
    BY <1>4 DEF Q!R!Front
  <2>3. QED
    BY <1>4, <2>1, <2>2
<1>7. Q!TypeOK'
  <2>1. Q!R!TypeOK'
    BY <1>3, <1>4, AfterFacts DEF Q!R!TypeOK
  <2>2. Q!C!TypeOK'
    BY <1>3 DEF PipeTypeOK, Q!TypeOK, Q!C!TypeOK, CondSame
  <2>3. QED
    BY <1>5, <1>6, <2>1, <2>2, Two DEF Q!TypeOK
<1>8. I!TypeOK'
  BY <1>2 DEF PipeTypeOK, I!TypeOK, Others, inVars, outVars
<1>9. QED
  BY <1>2, <1>7, <1>8 DEF PipeTypeOK, Others, history
------------------------------------------------------------------------------
(* The theorems.                                                           *)

(* The invariant, until a step whose effect C++ does not define, which is  *)
(* the last.                                                               *)
StreamSafe == defined \in BOOLEAN /\ IF defined THEN StreamInv ELSE PipeTypeOK

LEMMA StreamInit == ASSUME PipeInit PROVE StreamInv /\ defined = TRUE /\ Abstract!Init
<1>1. /\ kind \in Media /\ mInBuffer = << >> /\ mInIndex = 0 /\ mInEnd = 0
      /\ mOutBuffer = << >> /\ mOutIndex \in Unset /\ I!Filling = 0 /\ defined = TRUE
      /\ wire = << >> /\ write = NoWrite /\ read = NoRead /\ mPipe = TRUE /\ errors = 0
      /\ sent = << >> /\ taken = 0 /\ state = "open" /\ last = NoResult
  BY DEF PipeInit, I!Init, I!Filling
<1>2. /\ slots = [i \in 0..QueueSize |-> << >>] /\ mRead = 0 /\ mWrite = 0
      /\ mFutex = 0 /\ old = [p \in Procs |-> 0]
      /\ ring = [g \in Procs |-> << >>] /\ asleep = << >>
      /\ ended = [p \in Procs |-> "none"]
      /\ at = [p \in Procs |-> "out"] /\ item = [p \in Procs |-> << >>]
  <2>1. {Writer, Reader} = Procs
    BY Two
  <2>2. QED
    BY <2>1, Two DEF PipeInit, Q!Init, Q!R!Init, Q!C!Init
<1>3. /\ at[Writer] = "out" /\ at[Reader] = "out" /\ item[Reader] = << >> /\ item[Writer] = << >>
      /\ "out" \notin {"notify", "done"}
  BY <1>2, Two
<1>4. Consumed = 0 /\ Arrived = 0 /\ Passed = 0 /\ Given = 0 /\ Len(sent) = 0
  <2>1. Consumed = 0 /\ Arrived = 0 /\ Passed = 0 /\ Len(sent) = 0
    BY <1>1, NoReadFacts DEF Consumed, Arrived, Passed
  <2>2. QED
    BY <1>1, <1>3, <2>1, NoWriteFacts DEF Given, Stored
<1>5. InBuffer
  BY <1>1, <1>4 DEF InBuffer, I!Buffers
<1>6. ReadCall
  <2>1. read \in ReadTypes
    BY <1>1, Sizes DEF NoRead, ReadTypes
  <2>2. read.op = "idle" /\ read.pc = "turn" /\ read.s = << >>
    BY <1>1 DEF NoRead
  <2>3. QED
    BY <1>1, <2>1, <2>2 DEF ReadCall, Gets
<1>7. ReadPlace
  BY <1>1, <1>3, NoReadFacts DEF ReadPlace
<1>8. OutBuffer
  <2>1. sent \in Seq(Bytes)
    BY <1>1
  <2>2. QED
    BY <1>1, <1>4, <2>1, Sizes DEF OutBuffer, I!Buffers
<1>9. WriteCall
  <2>1. write \in WriteTypes
    BY <1>1 DEF NoWrite, WriteTypes
  <2>2. write.op = "idle" /\ write.pc = "turn" /\ write.rest = << >>
    BY <1>1 DEF NoWrite
  <2>3. Len(sent) + Len(write.rest) <= MaxBytes
    BY <1>4, <2>2, Sizes
  <2>4. QED
    BY <1>1, <2>1, <2>2, <2>3 DEF WriteCall
<1>10. WritePlace
  BY <1>1, <1>3, NoWriteFacts DEF WritePlace
<1>11. EndState
  BY <1>1, NoWriteFacts DEF EndState
<1>12. Between
  <2>1. CASE Piped
    <3>1. PICK b : b = [i \in 0..QueueSize |-> 0]
      OBVIOUS
    <3>2. b \in [0..QueueSize -> 0..MaxBytes] /\ b[mRead] = 0 /\ b[mWrite] = 0
      BY <1>2, <3>1, Sizes
    <3>3. \A i \in 0..QueueSize : ~Occupied(i)
      BY <1>2, Sizes DEF Occupied
    <3>4. Runs(sent, item[Reader], Arrived, b[mRead])
      <4>1. sent \in Seq(Bytes) /\ 0 \in 0..Len(sent)
        BY <1>1, <1>4
      <4>2. QED
        BY <1>3, <1>4, <3>2, <4>1, RunsEmpty
    <3>5. Chain(b)
      BY <1>3, <1>4, <3>2, <3>3, <3>4 DEF Chain
    <3>6. QED
      BY <1>1, <2>1, <3>2, <3>5 DEF Between
  <2>2. CASE ~Piped
    <3>1. sent \in Seq(Bytes) /\ 0 \in 0..Len(sent)
      BY <1>1, <1>4
    <3>2. QED
      BY <1>1, <1>4, <2>2, <3>1, RunsEmpty DEF Between
  <2>3. QED
    BY <2>1, <2>2
<1>13. Rest
  BY <1>1, Sizes DEF Rest
<1>14. Q!TypeOK
  <2>1. Q!C!TypeOK
    <3>1. 0 \in 0..Most
      BY Sizes DEF Most
    <3>2. QED
      BY <1>2, <3>1, CondTypes
  <2>2. Q!R!TypeOK
    BY <1>2, EmptyChunk, Sizes DEF Q!R!TypeOK
  <2>3. at \in [Procs -> Q!Places] /\ item \in [Procs -> Chunks]
    BY <1>2, EmptyChunk DEF Q!Places
  <2>4. QED
    BY <2>1, <2>2, <2>3, Two DEF Q!TypeOK
<1>15. Notified
  BY <1>1, <1>2, <1>3, <1>4 DEF Notified, Pending, Chunked, Ends
<1>16. Abstract!Init
  BY <1>1 DEF Abstract!Init, Abstract!NoResult, NoResult
<1>17. QED
  BY <1>1, <1>5, <1>6, <1>7, <1>8, <1>9, <1>10, <1>11, <1>12, <1>13, <1>14, <1>15, <1>16 DEF StreamInv

LEMMA StillStep == ASSUME StreamInv, UNCHANGED pipeVars PROVE StreamInv' /\ UNCHANGED history
<1>1. /\ StreamsSame /\ errors' = errors /\ QueueSame /\ CondSame /\ at' = at /\ item' = item
      /\ UNCHANGED history
  BY DEF pipeVars, inVars, outVars, queueVars, history, StreamsSame, QueueSame, CondSame
<1>2. errors' \in 0..MaxErrors
  BY <1>1 DEF StreamInv, Rest
<1>3. at \in [Procs -> Q!Places] /\ Q!C!TypeOK
  BY Two DEF StreamInv, Q!TypeOK
<1>4. Q!C!TypeOK' /\ mFutex' = mFutex
  BY <1>1, <1>3 DEF Q!C!TypeOK, CondSame
<1>5. Writer \in Procs /\ at' = [at EXCEPT ![Writer] = at[Writer]]
  BY <1>1, <1>3, Two
<1>6. QED
  BY <1>1, <1>2, <1>4, <1>5, PlaceStep

LEMMA StreamTypes == ASSUME StreamInv, defined \in BOOLEAN PROVE PipeTypeOK
<1>1. /\ Arrived \in Nat /\ Given \in Nat /\ Arrived <= Given /\ Given <= Len(sent)
      /\ Len(sent) <= MaxBytes /\ Len(sent) \in Nat /\ Consumed <= Arrived /\ Consumed \in Nat
  BY Limits
<1>2. wire \in Seq(Bytes) /\ Len(wire) <= IF kind = "string" THEN Len(sent) ELSE WireSize
  <2>1. CASE Piped
    <3>1. wire = << >> /\ kind # "string"
      BY <2>1 DEF StreamInv, Between, Piped
    <3>2. QED
      BY <3>1, Sizes
  <2>2. CASE ~Piped
    <3>1. Runs(sent, wire, Arrived, Given)
      BY <2>2 DEF StreamInv, Between
    <3>2. Len(wire) \in Nat /\ Given = Arrived + Len(wire)
      BY <3>1 DEF Runs
    <3>3. PICK g \in Nat, a \in Nat, l \in Nat, s \in Nat :
            g = Given /\ a = Arrived /\ l = Len(wire) /\ s = Len(sent)
      BY <1>1, <3>2
    <3>4. g = a + l /\ g <= s /\ s <= MaxBytes
      BY <1>1, <3>2, <3>3
    <3>5. l <= s /\ g <= MaxBytes
      BY <3>4, Sizes
    <3>6. wire \in Seq(Bytes)
      BY <3>1, <3>3, <3>5, RunsBytes
    <3>7. kind = "string" \/ (kind = "socket" /\ Len(wire) <= WireSize)
      BY <2>2, PipeAssumption DEF StreamInv, Rest, Piped
    <3>8. QED
      BY <3>3, <3>5, <3>6, <3>7
  <2>3. QED
    BY <2>1, <2>2
<1>3. sent \in Seq(Bytes) /\ taken \in 0..Len(sent)
  <2>1. sent \in Seq(Bytes)
    BY DEF StreamInv, OutBuffer
  <2>2. taken \in Nat /\ taken <= Consumed /\ Consumed <= Len(sent)
    BY UnreadRuns
  <2>3. PICK t \in Nat, c \in Nat, s \in Nat : t = taken /\ c = Consumed /\ s = Len(sent)
    BY <1>1, <2>2
  <2>4. t \in 0..s
    BY <2>2, <2>3
  <2>5. QED
    BY <1>1, <2>1, <2>3, <2>4, RunsBytes
<1>4. I!TypeOK
  BY DEF StreamInv, InBuffer, OutBuffer, I!TypeOK, I!Filling
<1>5. /\ write.rest \in Seq(Bytes) /\ write.buf \in Seq(Bytes)
      /\ read.left \in 0..MaxTake /\ read.s \in Seq(Bytes)
  BY DEF StreamInv, ReadCall, WriteCall, ReadTypes, WriteTypes
<1>6. QED
  BY <1>2, <1>3, <1>4, <1>5 DEF StreamInv, Rest, PipeTypeOK

LEMMA StreamTypesNext == (StreamInv /\ defined \in BOOLEAN => PipeTypeOK)'
<1>1. StreamInv /\ defined \in BOOLEAN => PipeTypeOK
  BY StreamTypes
<1>2. QED
  BY <1>1, PTL

(* A step that changes none of the variables but defined.                  *)
LEMMA TypesSame ==
  ASSUME PipeTypeOK, defined' \in BOOLEAN,
         UNCHANGED <<kind, inVars, outVars, queueVars, wire, write, read, mPipe, errors, history>>
  PROVE  PipeTypeOK'
<1>1. I!TypeOK'
  BY DEF PipeTypeOK, I!TypeOK, inVars, outVars
<1>2. Q!TypeOK'
  BY DEF PipeTypeOK, Q!TypeOK, Q!R!TypeOK, Q!C!TypeOK, queueVars
<1>3. QED
  BY <1>1, <1>2 DEF PipeTypeOK, history

(* After a step that C++ does not define there is no other.                *)
LEMMA UndefinedStep ==
  ASSUME PipeNext, ~defined
  PROVE  UNCHANGED pipeVars
<1>1. \A p \in Procs : ~MayRun(p) /\ ~InQueue(p) /\ ~CancelWait(p) /\ ~Kernel(p)
  BY DEF MayRun, InQueue, CancelWait, Kernel
<1>2. ~MayRun(Reader) /\ ~MayRun(Writer)
  BY <1>1, Two
<1>3. ~Reading /\ ~MayRead /\ ~CloseReader
  BY <1>2 DEF Reading, BlockingRead, StartRead, ReadTurn, PipeRead, SocketRead, StringRead,
              MayRead, tryread, SocketReadFails, CloseReader
<1>4. ~Writing /\ ~WriterStarts /\ ~Crash
  BY <1>2 DEF Writing, WriterLocal, putspan, flush, Ending, close, CloseEnds, destroy, Destroyed,
              PipeWrite, SocketWrite, StringWrite, WriterStarts, Program, StartPut, trywrite,
              StartFlush, LastPart, SocketWriteFails, Crash, WildPut, NullClose
<1>5. QED
  BY <1>1, <1>3, <1>4 DEF PipeNext, Terminated

(* Every step keeps the invariant and is a step of the byte stream or none. *)
LEMMA StreamStep ==
  ASSUME StreamSafe, [PipeNext]_pipeVars
  PROVE  StreamSafe' /\ [Abstract!Next]_(Abstract!vars)
<1>1. CASE UNCHANGED pipeVars
  <2>1. UNCHANGED history /\ defined' = defined
    BY <1>1 DEF pipeVars, history
  <2>2. CASE defined
    BY <1>1, <2>1, <2>2, StillStep DEF StreamSafe, history, Abstract!vars
  <2>3. CASE ~defined
    <3>1. PipeTypeOK'
      BY <1>1, <2>1, <2>3, TypesSame DEF StreamSafe, pipeVars
    <3>2. QED
      BY <2>1, <2>3, <3>1 DEF StreamSafe, history, Abstract!vars
  <2>4. QED
    BY <2>2, <2>3
<1>2. CASE PipeNext /\ defined /\ defined' = defined
  <2>1. StreamInv /\ defined \in BOOLEAN /\ defined' \in BOOLEAN
    BY <1>2 DEF StreamSafe
  <2>2. StreamInv' /\ (UNCHANGED history \/ Abstract!Step)
    <3>1. CASE Reading \/ MayRead
      BY <2>1, <3>1, ReadingStep
    <3>2. CASE CloseReader
      BY <2>1, <3>2, CloseReaderStep
    <3>3. CASE Writing \/ WriterStarts
      BY <2>1, <3>3, WritingStep
    <3>4. CASE \E p \in Procs : InQueue(p)
      <4>1. PICK p \in Procs : InQueue(p)
        BY <3>4
      <4>2. mRead' = mRead \/ mRead < QueueSize
        <5>1. defined' = (defined /\ InArray)
          BY <4>1 DEF InQueue
        <5>2. defined /\ defined'
          BY <1>2
        <5>3. InArray
          BY <5>1, <5>2, Zenon
        <5>4. QED
          BY <5>3 DEF InArray
      <4>3. QED
        BY <2>1, <4>1, <4>2, InQueueStep
    <3>5. CASE \E p \in Procs : CancelWait(p) \/ Kernel(p)
      BY <2>1, <3>5, CancelStep, KernelStep
    <3>6. CASE Terminated
      BY <2>1, <3>6, StillStep DEF Terminated
    <3>7. ~Crash
      BY <1>2 DEF Crash
    <3>8. QED
      BY <1>2, <3>1, <3>2, <3>3, <3>4, <3>5, <3>6, <3>7 DEF PipeNext
  <2>3. StreamSafe'
    BY <1>2, <2>1, <2>2 DEF StreamSafe
  <2>4. UNCHANGED Abstract!vars \/ Abstract!Next
    BY <1>2, <2>2 DEF history, Abstract!vars, Abstract!Next
  <2>5. QED
    BY <2>3, <2>4
<1>3. CASE PipeNext /\ defined /\ defined' # defined
  <2>1. StreamInv /\ PipeTypeOK
    BY <1>3, StreamTypes DEF StreamSafe
  <2>2. Crash \/ \E p \in Procs : InQueue(p)
    BY <1>3 DEF PipeNext, Reading, MayRead, CloseReader, Writing, WriterStarts, CancelWait, Kernel,
                Terminated, pipeVars
  <2>3. defined' = FALSE
    BY <1>3, <2>2 DEF Crash, InQueue, StreamSafe
  <2>4. PipeTypeOK'
    <3>1. CASE Crash
      BY <2>1, <2>3, <3>1, TypesSame DEF Crash
    <3>2. CASE \E p \in Procs : InQueue(p)
      <4>1. PICK p \in Procs : InQueue(p)
        BY <3>2
      <4>2. CASE mRead' = mRead \/ mRead < QueueSize
        <5>1. StreamInv' /\ defined' \in BOOLEAN
          BY <2>1, <2>3, <4>1, <4>2, InQueueStep
        <5>2. QED
          BY <5>1, StreamTypesNext
      <4>3. CASE ~(mRead' = mRead \/ mRead < QueueSize)
        BY <2>1, <4>1, <4>3, SeamStep
      <4>4. QED
        BY <4>2, <4>3
    <3>3. QED
      BY <2>2, <3>1, <3>2
  <2>5. QED
    BY <2>3, <2>4 DEF StreamSafe, Abstract!Next
<1>4. CASE PipeNext /\ ~defined
  BY <1>1, <1>4, UndefinedStep
<1>5. QED
  BY <1>1, <1>2, <1>3, <1>4

(* The variables of the two streams have their types, and their indices    *)
(* stay in their buffers, also after a step that C++ does not define.      *)
THEOREM PipeTypeCorrect == PipeSpec => []PipeTypeOK
<1>1. PipeInit => StreamSafe
  BY StreamInit DEF StreamSafe
<1>2. StreamSafe /\ [PipeNext]_pipeVars => StreamSafe'
  BY StreamStep
<1>3. StreamSafe => PipeTypeOK
  BY StreamTypes DEF StreamSafe
<1>4. QED
  BY <1>1, <1>2, <1>3, PTL DEF PipeSpec

(* Two buffered streams over a pipe, a socket or a string are a byte       *)
(* stream until the first undefined step: a read returns the oldest bytes  *)
(* written and not read, and an end of file comes after all of them.       *)
THEOREM PipeIsStream == PipeSpec => ImplementsByteStream
<1>1. PipeInit => StreamSafe /\ Abstract!Init
  BY StreamInit DEF StreamSafe
<1>2. StreamSafe /\ [PipeNext]_pipeVars => StreamSafe' /\ [Abstract!Next]_(Abstract!vars)
  BY StreamStep
<1>3. QED
  BY <1>1, <1>2, PTL DEF PipeSpec, ImplementsByteStream, Abstract!Spec
=============================================================================
