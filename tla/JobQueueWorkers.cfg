SPECIFICATION Spec
CONSTANTS
  Drivers = {"json", "postgres"}
  Enqueuers = {e1}
  NoKey = nokey
  Workers = {w1, w2}
  Keys = {k1, k2}
  MaxAttempts = 2
  MaxJobs = 3
  MaxLosses = 1
  LostReplies = TRUE
  SilentErrors = FALSE
SYMMETRY QueueSymmetry
INVARIANT TypeOK
INVARIANT OneWorkerPerJob
INVARIANT RetriesBounded
INVARIANT CompletedWasChecked
CHECK_DEADLOCK FALSE
