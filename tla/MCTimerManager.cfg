CONSTANTS
  Callers = {c1}
  TimerThread = timer_thread
  Closures = {k1, k2, k3}
  NULL = NULL
  Intervals = {1, 4}
  Operations <- AllOperations
  RevMod = 2
  IntMod = 6
  MaxTimers = 2
  MaxTime = 1
  MaxRevision = 2
  MaxTimeouts = 2
SYMMETRY Symmetry
INVARIANTS
  TimersAreScheduled
  CallbacksAreOwned
CHECK_DEADLOCK FALSE
SPECIFICATION Spec
