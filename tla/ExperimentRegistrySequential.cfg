SPECIFICATION Spec
CONSTANTS
  Requests = {r1}
  MaxClock = 6

INVARIANT LookupsAgree
PROPERTY PromiseKept
CHECK_DEADLOCK FALSE
