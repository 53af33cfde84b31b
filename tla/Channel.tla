-------------------------------- MODULE Channel -------------------------------
(***************************************************************************)
(* A bounded channel: what is received is what was sent, in that order,    *)
(* and no more than Capacity values are under way.  The values pass over   *)
(* the places 0..Capacity in turn, and the place Capacity is a loose one:  *)
(* any value may come out of it.                                           *)
(***************************************************************************)
EXTENDS Naturals, Sequences

CONSTANTS Values, Capacity

VARIABLES sent, received,   \* the values so far, in order
          turn              \* the place of the next value received

vars == <<sent, received, turn>>

Init == sent = << >> /\ received = << >> /\ turn = 0

Send(v) == /\ Len(sent) - Len(received) < Capacity
           /\ sent' = Append(sent, v)
           /\ UNCHANGED <<received, turn>>

Receive == /\ Len(received) < Len(sent)
           /\ \E v \in Values : /\ turn < Capacity => v = sent[Len(received) + 1]
                               /\ received' = Append(received, v)
           /\ turn' = IF turn = Capacity THEN 0 ELSE turn + 1
           /\ UNCHANGED sent

Next == (\E v \in Values : Send(v)) \/ Receive

Spec == Init /\ [][Next]_vars
==============================================================================
