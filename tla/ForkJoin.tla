------------------------------- MODULE ForkJoin -------------------------------
(***************************************************************************)
(* What a race of tasks promises its caller: it returns once, after every  *)
(* task has ended, with the task that ended first.                         *)
(***************************************************************************)
CONSTANTS Tasks, None

VARIABLES status,     \* [Tasks -> {"new", "active", "ended"}]
          first,      \* the task that ended first, or None
          returned,   \* whether the caller goes on
          result      \* what it goes on with

vars == <<status, first, returned, result>>

Init == /\ status = [t \in Tasks |-> "new"]
        /\ first = None /\ result = None
        /\ returned = FALSE

Begin(t) == /\ status[t] = "new"
            /\ status' = [status EXCEPT ![t] = "active"]
            /\ UNCHANGED <<first, returned, result>>

End(t) == /\ status[t] = "active"
          /\ status' = [status EXCEPT ![t] = "ended"]
          /\ first' = IF first = None THEN t ELSE first
          /\ UNCHANGED <<returned, result>>

Return == /\ ~returned
          /\ \A t \in Tasks : status[t] = "ended"
          /\ returned' = TRUE /\ result' = first
          /\ UNCHANGED <<status, first>>

Next == (\E t \in Tasks : Begin(t) \/ End(t)) \/ Return

Spec == Init /\ [][Next]_vars
==============================================================================
