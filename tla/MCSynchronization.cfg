CONSTANTS
  Threads = {t1, t2, t3}
  MaxCalls = 9
  Callers = {t1, t2, t3}
  max_elements = 2
SPECIFICATION BoundedSpec
INVARIANTS
  OwnershipIsSound
  NobodyIsForgotten
  NothingIsMissed
PROPERTIES
  ImplementsSharedLock
  EveryCallReturns
  NobodySleepsForNothing
