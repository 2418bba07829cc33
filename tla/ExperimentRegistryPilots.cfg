SPECIFICATION Spec
CONSTANTS
  Requests = {r1, r2}
  MaxClock = 3

INVARIANT OneOpenPilot
CHECK_DEADLOCK FALSE
