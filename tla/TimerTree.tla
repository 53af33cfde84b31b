------------------------------ MODULE TimerTree ------------------------------
(***************************************************************************)
(* The timers of GenericIOContext in their red-black tree: RbTree          *)
(* (utils/rbtree.hpp), pointer by pointer, under the three operations of   *)
(* generic_io.cpp.  Each TimerNode is a member of Timers; Nil is a null    *)
(* pointer.  The clock is left out: any timer may be due, in the order the *)
(* tree gives.  An insertion or an erasure is one step up to its call of   *)
(* fixViolation, and each iteration of that loop is one more; no other     *)
(* operation starts before the loop has ended.  The tree that the erasure  *)
(* of a node with two children leaves is the last of a behaviour: what the *)
(* program does with it is not followed.                                   *)
(***************************************************************************)
EXTENDS Naturals, Sequences, FiniteSets

Ext == INSTANCE SequencesExt

CONSTANTS Timers,             \* TimerNodes, one per coSleep frame
          Times,              \* values of mExpires
          Nil                 \* nullptr

ASSUME TreeAssumption == /\ Nil \notin Timers /\ IsFiniteSet(Timers)
                         /\ Times \subseteq Nat

VARIABLES tree,       \* the RbNode fields of every node, and the root
          mExpires,   \* [Timers -> Times]
          mCancelled, \* [Timers -> BOOLEAN], as await_resume last read it
          order,      \* the timers armed and not yet fired or cancelled
          fault,      \* a null pointer was dereferenced
          spoiled,    \* history: a node with two children was cancelled
          fixing      \* node in fixViolation, Nil when that is not running

treeVars == <<tree, mExpires, mCancelled, order, fault, spoiled, fixing>>

TreeInit ==
        /\ tree = [root |-> Nil,
                   left |-> [t \in Timers |-> Nil],
                   right |-> [t \in Timers |-> Nil],
                   parent |-> [t \in Timers |-> Nil],
                   red |-> [t \in Timers |-> TRUE]]
        /\ mExpires = [t \in Timers |-> 0]
        /\ mCancelled = [t \in Timers |-> FALSE]
        /\ order = << >>
        /\ fault = FALSE
        /\ spoiled = FALSE
        /\ fixing = Nil

------------------------------------------------------------------------------
(* RbTree.                                                                 *)

(* The place that points at n (the root if top, else its parent's link)    *)
(* gets m.                                                                 *)
Relink(T, n, m, top) ==
  IF top THEN [T EXCEPT !.root = m]
  ELSE IF T.left[T.parent[n]] = n THEN [T EXCEPT !.left[T.parent[n]] = m]
  ELSE [T EXCEPT !.right[T.parent[n]] = m]

SetParent(T, n, p) == IF n = Nil THEN T ELSE [T EXCEPT !.parent[n] = p]

rotateLeft(T, n) ==
  LET r == T.right[n]
      up == [Relink(T, n, r, T.parent[n] = Nil) EXCEPT !.right[n] = T.left[r],
                                                       !.left[r] = n]
  IN  [SetParent(up, T.left[r], n) EXCEPT !.parent[r] = T.parent[n], !.parent[n] = r]

(* Mutant: the subtree that changes sides keeps its parent pointer.        *)
RotateNoParent(T, n) ==
  LET l == T.left[n]
      up == [Relink(T, n, l, T.parent[n] = Nil) EXCEPT !.left[n] = T.right[l],
                                                       !.right[l] = n]
  IN  [up EXCEPT !.parent[l] = T.parent[n], !.parent[n] = l]

rotateRight(T, n) ==
  LET l == T.left[n]
      up == [Relink(T, n, l, T.parent[n] = Nil) EXCEPT !.left[n] = T.right[l],
                                                       !.right[l] = n]
  IN  [SetParent(up, T.right[l], n) EXCEPT !.parent[l] = T.parent[n], !.parent[n] = l]

Red(T, n) == n # Nil /\ T.red[n]

(* The loop condition of fixViolation.                                     *)
Violation(T, n) == n # T.root /\ T.red[n] /\ T.red[T.parent[n]]

(* A red uncle: the grandparent g takes the red of both of its children.   *)
Recolor(T, p, g, uncle) ==
  [T EXCEPT !.red[g] = TRUE, !.red[p] = FALSE, !.red[uncle] = FALSE]

(* std::swap of the two colours                                            *)
SwapColors(T, a, b) == [T EXCEPT !.red[a] = T.red[b], !.red[b] = T.red[a]]

(* Otherwise p, the parent of n, is rotated into the place of g; when n is *)
(* an inner grandchild it is n, rotated first into the place of p.         *)
RotateUp(T, n, p, g) ==
  LET onLeft == p = T.left[g]
      inner  == n = (IF onLeft THEN T.right[p] ELSE T.left[p])
      first  == IF ~inner THEN T
                ELSE IF onLeft THEN rotateLeft(T, p) ELSE rotateRight(T, p)
      top    == IF inner THEN n ELSE p
      second == IF onLeft THEN rotateRight(first, g) ELSE rotateLeft(first, g)
  IN  [t |-> SwapColors(second, top, g), fix |-> top]

(* One iteration of fixViolation, and the node of the next.                *)
fixViolation(T, n) ==
  LET p == T.parent[n]
      g == T.parent[p]
      uncle == IF p = T.left[g] THEN T.right[g] ELSE T.left[g]
  IN  IF Red(T, uncle) THEN [t |-> Recolor(T, p, g, uncle), fix |-> g]
      ELSE RotateUp(T, n, p, g)

(* Where a loop that starts at n and follows next until it is null ends:   *)
(* in every set that holds n and is closed under next.                     *)
EndOf(next, n) ==
  CHOOSE m \in Timers :
    /\ next[m] = Nil
    /\ \A C \in SUBSET Timers :
         n \in C /\ (\A t \in C : next[t] \in C \cup {Nil}) => m \in C

(* TimerNode::operator<                                                    *)
Before(a, b) == mExpires'[a] < mExpires'[b]

(* The node the descent of doInsert ends at.                               *)
Descend(T, n) ==
  EndOf([cur \in Timers |-> IF Before(n, cur) THEN T.left[cur] ELSE T.right[cur]],
        T.root)

(* doInsert up to fixViolation(n), after mExpires of the node was set.     *)
doInsert(T, n) ==
  LET fresh == [T EXCEPT !.left[n] = Nil, !.right[n] = Nil, !.red[n] = TRUE]
      p == Descend(T, n)
      hung == [fresh EXCEPT !.parent[n] = p]
  IN  IF T.root = Nil THEN [fresh EXCEPT !.parent[n] = Nil, !.root = n]
      ELSE IF Before(n, p) THEN [hung EXCEPT !.left[p] = n]
      ELSE [hung EXCEPT !.right[p] = n]

(* Mutant: the root for the leftmost node.                                 *)
FrontIsRoot(T) == T.root

getFront(T) == EndOf(T.left, T.root)

TwoChildren(T, c) == T.left[c] # Nil /\ T.right[c] # Nil

(* doErase of a node with two children, up to line 201: its successor r is *)
(* put in its place.  When r is deeper than the right child, the link that *)
(* is redirected is that of the parent of the erased node.                 *)
Successor(T, c) == EndOf(T.left, T.right[c])

NullParent(T, c) == /\ TwoChildren(T, c) /\ T.parent[c] = Nil
                    /\ T.parent[Successor(T, c)] # c

Replaced(T, c) ==
  LET r == Successor(T, c)
      deep == IF T.parent[r] = c THEN T
              ELSE [T EXCEPT !.left[T.parent[c]] = T.right[r],
                             !.right[r] = T.right[c],
                             !.parent[T.right[c]] = r]
      moved == Relink(deep, c, r, c = T.root)
  IN  [moved EXCEPT !.left[r] = T.left[c], !.parent[T.left[c]] = r]

(* The rest of doErase: node is unlinked, its child takes its place, and   *)
(* fixViolation starts there or above when the node was black.             *)
Unlink(T, node, child) ==
  LET gone == Relink(SetParent(T, child, T.parent[node]), node, child, node = T.root)
  IN  [t |-> gone,
       fix |-> IF T.red[node] \/ gone.root = Nil THEN Nil
               ELSE IF child # Nil THEN child ELSE gone.parent[node]]

(* doErase: a node with two children gives way to its successor.           *)
doErase(T, c) ==
  IF TwoChildren(T, c)
  THEN LET r == Successor(T, c)
           R == Replaced(T, c)
       IN  Unlink(R, r, R.right[r])
  ELSE Unlink(T, c, IF T.left[c] # Nil THEN T.left[c] ELSE T.right[c])

------------------------------------------------------------------------------
(* GenericIOContext.                                                       *)

Active == {order[i] : i \in 1..Len(order)}

(* No operation is in progress.                                            *)
Idle == fixing = Nil /\ ~spoiled

(* Awaiter::await_suspend: set mExpires, enter the tree.                   *)
Arm(t, e) == /\ Idle /\ t \notin Active
             /\ mExpires' = [mExpires EXCEPT ![t] = e]
             /\ mCancelled' = [mCancelled EXCEPT ![t] = FALSE]
             /\ tree' = doInsert(tree, t)
             /\ fixing' = t
             /\ order' = Append(order, t)
             /\ UNCHANGED <<fault, spoiled>>

(* The coroutine resumes and its frame, the node in it, is destroyed: the  *)
(* next coSleep constructs the node and its time anew.  Nothing links to   *)
(* the node after it is unlinked, fixViolation does not come back to it.   *)
Forget(T, t) == [T EXCEPT !.left[t] = Nil, !.right[t] = Nil, !.parent[t] = Nil,
                          !.red[t] = TRUE]

(* t leaves the tree and is forgotten.                                     *)
TakeOut(t) == /\ tree' = Forget(doErase(tree, t).t, t)
              /\ fixing' = doErase(tree, t).fix
              /\ mExpires' = [mExpires EXCEPT ![t] = 0]

Drop(t) == \E i \in 1..Len(order) : order[i] = t /\ order' = Ext!RemoveAt(order, i)

(* runDuration: the front of a tree that is not empty is taken out.        *)
Fire == /\ Idle /\ tree.root # Nil
        /\ LET t == getFront(tree)
           IN  /\ mCancelled' = [mCancelled EXCEPT ![t] = FALSE]
               /\ TakeOut(t) /\ Drop(t)
        /\ UNCHANGED <<fault, spoiled>>

(* doCancel, wherever the node is in the tree.                             *)
Cancel(t) == /\ Idle /\ t \in Active
             /\ spoiled' = TwoChildren(tree, t)
             /\ fault' = NullParent(tree, t)
             /\ IF fault' THEN UNCHANGED <<tree, fixing, mExpires, mCancelled, order>>
                ELSE /\ mCancelled' = [mCancelled EXCEPT ![t] = TRUE]
                     /\ TakeOut(t) /\ Drop(t)

(* The loop of fixViolation goes round, and ends: the root becomes black.  *)
Fix == /\ fixing # Nil /\ ~spoiled /\ Violation(tree, fixing)
       /\ tree' = fixViolation(tree, fixing).t
       /\ fixing' = fixViolation(tree, fixing).fix
       /\ UNCHANGED <<mExpires, mCancelled, order, fault, spoiled>>

Fixed == /\ fixing # Nil /\ ~spoiled /\ ~Violation(tree, fixing)
         /\ tree' = [tree EXCEPT !.red[tree.root] = FALSE]
         /\ fixing' = Nil
         /\ UNCHANGED <<mExpires, mCancelled, order, fault, spoiled>>

(* Nothing is said of a program that goes on with a spoiled tree.          *)
Spoilt == spoiled /\ UNCHANGED treeVars

TreeNext == \/ \E t \in Timers : (\E e \in Times : Arm(t, e)) \/ Cancel(t)
            \/ Fire \/ Fix \/ Fixed \/ Spoilt

TreeSpec == TreeInit /\ [][TreeNext]_treeVars
------------------------------------------------------------------------------
(* Properties.                                                             *)

(* The nodes that can be reached from the root: those in every set that    *)
(* holds the root and the children of its members.                         *)
InTree ==
  {t \in Timers : \A C \in SUBSET Timers :
     /\ tree.root \in C \cup {Nil}
     /\ \A u \in C : {tree.left[u], tree.right[u]} \subseteq C \cup {Nil}
     => t \in C}

Linked == /\ tree.root # Nil => tree.parent[tree.root] = Nil
          /\ \A t \in InTree : \A c \in {tree.left[t], tree.right[t]} :
               c # Nil => tree.parent[c] = t

NoRedRed == fixing = Nil =>
            /\ tree.root # Nil => ~tree.red[tree.root]
            /\ \A t \in InTree : tree.red[t] =>
                 ~Red(tree, tree.left[t]) /\ ~Red(tree, tree.right[t])

(* mTimers is a tree of all active timers: those that were armed and have  *)
(* neither fired nor been cancelled can be reached from the root, links    *)
(* and parent pointers agree, so that any of them can unlink itself, and   *)
(* no red node has a red parent between operations, whatever the erasures  *)
(* left behind, so that the fix of the next insertion finds the            *)
(* grandparent it relies on.                                               *)
Whole ==
  /\ tree \in [root : Timers \cup {Nil}, left : [Timers -> Timers \cup {Nil}],
               right : [Timers -> Timers \cup {Nil}],
               parent : [Timers -> Timers \cup {Nil}], red : [Timers -> BOOLEAN]]
  /\ ~fault /\ InTree = Active
  /\ Linked /\ NoRedRed

(* The tree is whole, in any order of arming, firing and cancelling, until *)
(* a timer is cancelled whose node has two children; that always spoils it.*)
AllActive == Whole <=> ~spoiled

(* The tree is the timer set the event loop relies on: timers fire in the  *)
(* order of their times and of their arming, until the tree is spoiled.    *)
TimersOf == INSTANCE TimerSet WITH
  armed <- [i \in 1..Len(order) |-> [timer |-> order[i], at |-> mExpires[order[i]]]],
  cancelled <- mCancelled
ImplementsTimerSet == TimersOf!Spec
==============================================================================
