SPECIFICATION FairSpec
CONSTANTS
  NumTasks = 4
  MaxOps = 2
  MaxLong = 1
  Kinds = {"io", "sleep"}
  Root = Root
  Nil = Nil
INVARIANT CalledAlive
PROPERTIES CancelledEnds Returns ImplementsForkJoin
