----------------------------- MODULE IntrusiveList ----------------------------
(***************************************************************************)
(* ListHead (utils/ilist.hpp): a ring of nodes through its root.  A list   *)
(* is the record of its links; a node outside every list has null links.   *)
(***************************************************************************)
EXTENDS Naturals, FiniteSets

CONSTANTS Nodes,    \* list nodes
          Root,     \* ListHead::root
          Nil       \* nullptr

Places == Nodes \cup {Root}
Lists  == [next : [Places -> Places \cup {Nil}], prev : [Places -> Places \cup {Nil}]]

(* ListHead's constructor: the root points at itself.                      *)
EmptyList == LET self == [n \in Places |-> IF n = Root THEN Root ELSE Nil]
             IN  [next |-> self, prev |-> self]

(* doPushFront: n between the root and the node that was first.            *)
doPushFront(L, n) ==
  [next |-> [L.next EXCEPT ![n] = L.next[Root], ![Root] = n],
   prev |-> [L.prev EXCEPT ![n] = Root, ![L.next[Root]] = n]]

(* erase_from_parent, called by every node's destructor.                   *)
Unlinked(L, n) ==
  IF L.next[n] = Nil THEN L
  ELSE [next |-> [L.next EXCEPT ![L.prev[n]] = L.next[n], ![n] = Nil],
        prev |-> [L.prev EXCEPT ![L.next[n]] = L.prev[n], ![n] = Nil]]

(* doClear leaves an empty list and nodes with null links.                 *)
doClear(L) == EmptyList

(* The nodes for (auto &n : list) visits: from root.next on, up to but not *)
(* including end(), which is root.prev.                                    *)
Visited(L) ==
  LET node[k \in Nat] == IF k = 0 THEN L.next[Root] ELSE L.next[node[k - 1]]
      stop == CHOOSE k \in 0..Cardinality(Nodes) :
                /\ node[k] = L.prev[Root]
                /\ \A j \in 0..(k - 1) : node[j] # L.prev[Root]
  IN  [k \in 1..stop |-> node[k - 1]]

(* Every link has its counterpart and only members have links.             *)
Ring(L, members) ==
  /\ \A n \in members \cup {Root} :
       /\ L.next[n] \in members \cup {Root} /\ L.prev[L.next[n]] = n
       /\ L.prev[n] \in members \cup {Root} /\ L.next[L.prev[n]] = n
  /\ \A n \in Nodes \ members : L.next[n] = Nil /\ L.prev[n] = Nil
==============================================================================
