SPECIFICATION Spec
CONSTANTS
  Agent = {"a"}
  Runtime = {"r"}
  Work <- Issue
  Capacity <- Two
  Escalates <- NoFallback
  Events = {"cancel", "daemon", "late", "net", "server"}
  DefaultAttempts = 2
  MaxTask = 2
  MaxGen = 3
  MaxBatch = 1
  MaxFault = 2
INVARIANTS QueueInv DeliveredStaysOut OneActivePerWork
PROPERTY ImplementsDispatch
CHECK_DEADLOCK FALSE
