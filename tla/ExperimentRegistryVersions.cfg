SPECIFICATION Spec
CONSTANTS
  Requests = {r1, r2}
  MaxClock = 3

INVARIANT VersionsDistinct
CHECK_DEADLOCK FALSE
