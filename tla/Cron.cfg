SPECIFICATION FairSpec
CONSTANTS
  Runner = {"r1", "r2"}
  Scope = {"global"}
  Mode = "every_plan"
  TickInterval = 1
  Cadence = 2
  ScheduleDelay = 0
  CatchUpWindow = 3
  MaxPlansPerTick = 2
  MaxLateness = 0
  RunTimeout = 2
  StaleTimeout = 3
  HeartbeatInterval = 2
  AllowStaleReentry = TRUE
  MaxAttempts = 2
  RetryBackoff = 1
  Prompt = TRUE
  MaxTime = 6
  LastFault = 1
  MaxFault = 2
INVARIANTS LeaseInv LeaseRespected NoGap
PROPERTIES FinalStays PlanEnds
CHECK_DEADLOCK FALSE
