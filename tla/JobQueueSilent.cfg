SPECIFICATION Spec
CONSTANTS
  Drivers = {"json"}
  Enqueuers = {e1}
  NoKey = nokey
  Workers = {w1}
  Keys = {k1}
  MaxAttempts = 2
  MaxJobs = 1
  MaxLosses = 0
  LostReplies = FALSE
  SilentErrors = TRUE
INVARIANT CompletedWasChecked
CHECK_DEADLOCK FALSE
