SPECIFICATION FairSpec
CONSTANTS
  Producers = {p1, p2}
  Consumers = {c1, c2}
  Size = 2
  MaxCalls = 6
  MaxCancels = 1
INVARIANTS NoStranded
PROPERTIES Served ImplementsChannel
