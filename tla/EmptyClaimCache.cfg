SPECIFICATION FairSpec
CONSTANTS
  Task <- MCTask
  Claimer = {c1, c2}
  EmptyTTL = 1
  VersionTTL = 2
  MaxRequeue = 1
INVARIANTS CacheInv NoStaleVerdict
PROPERTY QueuedIsClaimed
