SPECIFICATION Spec
CONSTANTS
  Agent = {"a"}
  Runtime = {"r"}
  Work <- Issue
  Capacity <- Two
  Escalates <- NoFallback
  Events = {}
  DefaultAttempts = 2
  MaxTask = 3
  MaxGen = 1
  MaxBatch = 1
  MaxFault = 0
INVARIANT FailureLands
CHECK_DEADLOCK FALSE
