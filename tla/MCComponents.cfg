CONSTANTS
  QueuedTasks = {t1, t2, t3, t4, t5}
  Times = {1, 2, 3}
  MaxEvents = 4
  Clients = {c1, c2}
  Items = {read}
  OpenAcl = anyone
  MaxVersion = 2
  MinerThreads = {t1, t2}
  Dict = dict
  Loaded = {topic}
  UponDict = {token}
  MaxObjects = 4
  MaxGets = 2
  kTimeWindowSize = 3
  MaxTime = 6
  Values = {1, 3}
  MaxAdds = 4
  Low <- MCLow
  High = 2
  EventThreads = {t1, t2, t3}
  MaxSets = 3
  MaxWaits = 4
  BlockerThreads = {t1, t2}
  MaxCount = 4
  Runners = {t1, t2, t3, t4}
  TableThreads = {t1, t2, t3}
  Keys = {1, 2}
  MaxInserts = 2
  None = none
  NoBound = NoBound
  none = none
SPECIFICATION Spec
INVARIANTS
  HeapIsSound
  MachineIsSound
  ModulesInOrder
  CacheIsSound
  SessionIsSound
  RecordsInOrder
  OnlyDamageIsSkipped
  ResourcesAreComplete
  
  
  CandidatesAreFound
  StatsAreExact
  IntervalsAreExact
  ListIsSound
  PrefixIsFound
  EventsRelease
  BlockerReleases
  BarrierIsSafe
  HandedToOne
PROPERTIES
  KnownVersionLosesNothing
CHECK_DEADLOCK FALSE
