------------------------------ MODULE MCTimerTree ----------------------------
(* The timers of a TimerTree are interchangeable: no action and no property  *)
(* names one.                                                                *)
EXTENDS TimerTree, TLC

Symmetry == Permutations(Timers)
==============================================================================
