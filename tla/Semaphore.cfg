SPECIFICATION Spec
CONSTANTS
  Procs = {a, b}
  mMaxCount = 2
  initialCount = 2
  MaxCalls = 4
  OneThread = FALSE
INVARIANT Counted
CHECK_DEADLOCK FALSE
