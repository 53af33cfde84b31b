SPECIFICATION FairSpec
CONSTANTS
  BufSize = 2
  QueueSize = 3
  WireSize = 2
  MaxBytes = 3
  Eol = {2}
  MaxPut = 3
  MaxTake = 2
  MaxErrors = 1
  Unset = {0, 1}
  Media = {"pipe", "threads", "socket", "string"}
INVARIANTS PipeTypeOK
PROPERTIES ImplementsByteStream AllDelivered
