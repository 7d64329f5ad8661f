CONSTANTS
  Threads = {w1, w2, w3}
  Controllers = {c1, c2}
  Tasks = {t1, t2, t3}
  Size = 2
SPECIFICATION FairPoolSpec
INVARIANT
  PoolIsSound
PROPERTIES
  AcceptedTasksRun
  ImplementsExecutor
