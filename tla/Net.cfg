SPECIFICATION Spec
CONSTANTS
  server = server
  client = client
  source = source
  Tokens <- MCTokens
  TokenOf <- MCTokenOf
  Root = root
  Nil = nil
  Actors <- MCActors
  Calls <- MCCalls
  MaxFd = 2
INVARIANTS TypeOK OneHolder RightFile
PROPERTY CallsEnd
