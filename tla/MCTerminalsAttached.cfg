SPECIFICATION Spec
CONSTANTS
  Sessions = {s1}
  Starting = {}
  MaxAttempts = 2
  MaxActs = 0
  MaxRenders = 1
  MaxEnds = 0
  None = None
CHECK_DEADLOCK FALSE
INVARIANT ConnectedIsAttached
