CONSTANTS
  Callers = {c1}
  TimerThread = timer_thread
  Closures = {k1, k2}
  NULL = NULL
  Intervals = {1, 7}
  Operations <- AllOperations
  RevMod = 2
  IntMod = 6
  MaxTimers = 1
  MaxTime = 2
  MaxRevision = 2
  MaxTimeouts = 2
PROPERTY
  DispatchGoesOn
CHECK_DEADLOCK FALSE
SPECIFICATION FairSpec
