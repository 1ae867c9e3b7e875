SPECIFICATION Spec
CONSTANTS
  Agent = {"a"}
  Runtime = {"r"}
  Work <- Chat
  Capacity <- Two
  Escalates <- NoFallback
  Events = {}
  DefaultAttempts = 2
  MaxTask = 4
  MaxGen = 1
  MaxBatch = 1
  MaxFault = 0
PROPERTY NoTurnJumpsAhead
CHECK_DEADLOCK FALSE
