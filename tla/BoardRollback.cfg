SPECIFICATION Spec
CONSTANTS
  N = 2
  Statuses <- TwoStatuses
  Lists = {"board"}
  Page = 1
  Start <- OneMine
  Patches <- SomePatches
  MaxEdits = 1
  MaxActs = 2
  None = None
PROPERTIES OnErrorReconciles
CHECK_DEADLOCK FALSE
