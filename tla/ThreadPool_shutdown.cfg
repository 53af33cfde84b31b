SPECIFICATION FairSpec
CONSTANTS
  Callers = {c1}
  MaxCalls = 1
  MaxThreads = 1
  Cancellable = {}
  None = None
PROPERTIES DtorEnds
