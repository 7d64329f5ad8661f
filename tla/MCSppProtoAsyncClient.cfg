CONSTANTS
  Calls = {1, 2, 3}
  Addr <- MCAddr
  Parts <- MCParts
  Tasks = {1, 2, 3}
  Handlers = {1, 2, 3}
  Fds = {1, 2, 3}
  MaxConcurrent = 2
  TaskPoolLimit = 1
  Second = 2
  ConnTimeout = 2
  SendTimeout = 1
  RecvTimeout = 2
  MaxLate = 1
SPECIFICATION FairSpec
INVARIANTS
  CallsAreAnswered
  ResourcesAreOwned
PROPERTY
  EveryCallEnds
