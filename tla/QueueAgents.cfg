SPECIFICATION Spec
CONSTANTS
  Agent = {"a", "b"}
  Runtime = {"r", "s"}
  Work <- ThreadAndQuick
  Capacity <- One
  Escalates <- Fallback
  Events = {"expire"}
  DefaultAttempts = 2
  MaxTask = 3
  MaxGen = 1
  MaxBatch = 2
  MaxFault = 0
INVARIANT WithinCapacity
CHECK_DEADLOCK FALSE
