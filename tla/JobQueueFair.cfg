SPECIFICATION StorageSpec
CONSTANTS
  Drivers = {"json", "postgres"}
  Enqueuers = {e1, e2}
  NoKey = nokey
  Workers = {w1, w2}
  Keys = {k1, k2}
  MaxAttempts = 2
  MaxJobs = 3
  MaxLosses = 1
  LostReplies = FALSE
  SilentErrors = TRUE
  Txns = {t1, t2, t3}
  NoTxn = none
INVARIANT LivePerKeyBounded
PROPERTY SettledStays
PROPERTY DroppedOrSettled
PROPERTY DocumentPromised
PROPERTY CallsSettle
CHECK_DEADLOCK FALSE
