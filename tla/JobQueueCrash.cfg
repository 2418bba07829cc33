SPECIFICATION FairSpec
CONSTANTS
  Drivers = {"json"}
  Enqueuers = {e1}
  NoKey = nokey
  Workers = {w1}
  Keys = {k1}
  MaxAttempts = 2
  MaxJobs = 1
  MaxLosses = 1
  LostReplies = FALSE
  SilentErrors = FALSE
PROPERTY EveryJobSettles
CHECK_DEADLOCK FALSE
