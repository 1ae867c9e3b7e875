SPECIFICATION FairSpec
CONSTANTS
  Agent = {"a"}
  Runtime = {"r"}
  Work <- Chat
  Capacity <- Two
  Escalates <- NoFallback
  Events = {"server", "daemon", "late"}
  DefaultAttempts = 2
  MaxTask = 3
  MaxGen = 2
  MaxBatch = 1
  MaxFault = 1
INVARIANT RetriedOnce
PROPERTIES RetryGoesFirst EveryTaskEnds
CHECK_DEADLOCK FALSE
