\* Two calls at a time, up to four failures, restarts and deletions.
SPECIFICATION FairSpec
CONSTANTS
  Calls = {c1, c2}
  MaxTrouble = 4
CHECK_DEADLOCK FALSE
INVARIANTS
  IInv
PROPERTIES
  NoWorkLost
  RetriesFinish
