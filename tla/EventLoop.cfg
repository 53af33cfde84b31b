SPECIFICATION FairSpec
CONSTANTS
  Coros = {c1, c2}
  Sqes = {s1, s2}
  Nobody = Nobody
  Kinds = {"plain", "detached", "linked"}
  SQSize = 1
  MaxSleep = 2
  Delays = {1, 3}
  MaxTime = 3
INVARIANTS TypeOK PendingExact OneHandle NoReentry NoOversleep
PROPERTIES Resumed ImplementsReactor
