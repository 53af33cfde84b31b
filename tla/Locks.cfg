SPECIFICATION OnceFairSpec
CONSTANTS
  Procs = {p1, p2, p3}
  MaxCalls = 4
  MaxWakes = 2
INVARIANTS TypeOK MutualExclusion NoLostWakeup InitOnce
PROPERTIES EveryLockEnds
