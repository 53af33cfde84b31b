SPECIFICATION Spec
CONSTANTS
  MaxFrames = 4
  Tokens = {t1}
  None = None
  GenThrows = FALSE
  BindCalled = FALSE
INVARIANTS TypeOK OneOwner NotLost OneToken
PROPERTY ImplementsCalls
CHECK_DEADLOCK FALSE
