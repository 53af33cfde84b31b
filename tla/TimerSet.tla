------------------------------- MODULE TimerSet ------------------------------
(***************************************************************************)
(* What GenericIOContext needs of its set of timers: the one that is taken *)
(* out is the earliest, the first armed among equals, and a timer is in    *)
(* the set from the moment it is armed until it fires or is cancelled, and *)
(* its sleeper is told which of the two it was.                            *)
(***************************************************************************)
EXTENDS Naturals, Sequences

CONSTANTS Timers, Times

VARIABLES armed,      \* [timer, at]: armed timers in the order of arming
          cancelled   \* [Timers -> BOOLEAN]: what its last sleep was told

vars == <<armed, cancelled>>

Init == armed = << >> /\ cancelled = [t \in Timers |-> FALSE]

Without(i) == SubSeq(armed, 1, i - 1) \o SubSeq(armed, i + 1, Len(armed))

Arm(t, e) == /\ \A i \in 1..Len(armed) : armed[i].timer # t
             /\ armed' = Append(armed, [timer |-> t, at |-> e])
             /\ cancelled' = [cancelled EXCEPT ![t] = FALSE]

Earliest(i) == \A j \in 1..Len(armed) : /\ armed[i].at <= armed[j].at
                                       /\ j < i => armed[i].at < armed[j].at

Fire == \E i \in 1..Len(armed) : /\ Earliest(i)
                                 /\ armed' = Without(i)
                                 /\ UNCHANGED cancelled

Cancel(t) == \E i \in 1..Len(armed) : /\ armed[i].timer = t
                                      /\ armed' = Without(i)
                                      /\ cancelled' = [cancelled EXCEPT ![t] = TRUE]

Next == \/ \E t \in Timers, e \in Times : Arm(t, e)
        \/ \E t \in Timers : Cancel(t)
        \/ Fire

Spec == Init /\ [][Next]_vars
==============================================================================
