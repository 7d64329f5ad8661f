CONSTANTS
  Threads = {w1, w2}
  Controllers = {c1, c2}
  Tasks = {t1}
  Size = 1
SPECIFICATION FairPoolSpec
PROPERTY
  WaitEndsWithWorkers
