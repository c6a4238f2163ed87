\* One desktop process, two calls at a time: liveness.
SPECIFICATION FairSpec
CONSTANTS
  Desktops = {d1}
  Runs = {r1}
  NoDesktop = NoDesktop
  Outcomes = {"PASSED"}
  Sessions = {s1}
  Reviews = {v1}
  Calls = {c1, c2}
  Task = t1
  MaxCode = 1
  MaxArtifacts = 0
  MayQuit = {d1}
CHECK_DEADLOCK FALSE
PROPERTY
  EveryCallReturns
