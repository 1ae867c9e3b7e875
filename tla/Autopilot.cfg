SPECIFICATION AutopilotSpec
CONSTANTS
  Runner = {"r1", "r2"}
  Scope = {"trigger"}
  Mode = "hook"
  TickInterval = 1
  Cadence = 4
  ScheduleDelay = 0
  CatchUpWindow = 8
  MaxPlansPerTick = 1
  MaxLateness = 2
  RunTimeout = 1
  StaleTimeout = 2
  HeartbeatInterval = 1
  AllowStaleReentry = TRUE
  MaxAttempts = 3
  RetryBackoff = 1
  Prompt = FALSE
  MaxTime = 7
  LastFault = 7
  MaxFault = 3
INVARIANTS HandlerInv OneIssue SuccessIsVisible
CHECK_DEADLOCK FALSE
