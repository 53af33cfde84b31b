SPECIFICATION FairSpec
CONSTANTS
  NumTasks = 3
  Delays = {0, 1, 2}
  MaxSleeps = 2
  MaxTime = 4
  MaxSetBacks = 1
INVARIANT TypeOK
PROPERTIES ImplementsReactor AllRead
