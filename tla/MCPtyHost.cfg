SPECIFICATION FairSpec
CONSTANTS
  Requests = {r1, r2}
  MaxOutput = 1
CHECK_DEADLOCK FALSE
INVARIANT PtySafety

PROPERTIES
  KeepsContract EverythingEnds
