SPECIFICATION TreeSpec
CONSTANTS
  Timers = {t1, t2, t3, t4, t5}
  Times = {0, 1, 2, 3, 4}
  Nil = Nil
SYMMETRY Symmetry
INVARIANTS AllActive
PROPERTIES ImplementsTimerSet
