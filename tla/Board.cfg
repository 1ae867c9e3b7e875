SPECIFICATION Spec
CONSTANTS
  N = 2
  Statuses <- TwoStatuses
  Lists = {"board", "mine"}
  Page = 1
  Start <- OneMine
  Patches <- SomePatches
  MaxEdits = 1
  MaxActs = 2
  None = None
INVARIANTS TypeOK
PROPERTIES EventsReconcile EntersOrMarked EditsReconcile
CHECK_DEADLOCK FALSE
