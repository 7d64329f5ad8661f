CONSTANTS
  Controllers = {c1, c2}
  Tasks = {t1, t2, t3}
SPECIFICATION FairSpec
INVARIANT
  WorkerIsSound
PROPERTIES
  WorkerGoesOn
  ImplementsExecutor
