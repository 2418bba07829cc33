SPECIFICATION Spec
CONSTANTS
  Requests = {r1, r2}
  MaxClock = 4

SYMMETRY RequestSymmetry
INVARIANT TypeOK
INVARIANT SupersedesChain
INVARIANT StatusTracksOutcomes
PROPERTY StudiesMoveAsRead
CHECK_DEADLOCK FALSE
