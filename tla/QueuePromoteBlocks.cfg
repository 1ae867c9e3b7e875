SPECIFICATION FairSpec
CONSTANTS
  Agent = {"a", "b"}
  Runtime = {"r"}
  Work <- TwoAgents
  Capacity <- One
  Escalates <- Fallback
  Events = {}
  DefaultAttempts = 2
  MaxTask = 3
  MaxGen = 1
  MaxBatch = 1
  MaxFault = 0
PROPERTY QueuedIsClaimed
CHECK_DEADLOCK FALSE
