SPECIFICATION FairSpec
CONSTANTS
  Callers = {c1, c2}
  MaxCalls = 3
  MaxThreads = 2
  Cancellable = {c1}
  None = None
INVARIANTS TypeOK NoJobLost FrameAlive
PROPERTIES RunEnds
