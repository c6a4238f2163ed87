\* Two desktop processes on one store, two calls at a time.
SPECIFICATION Spec
CONSTANTS
  Desktops = {d1, d2}
  Runs = {r1}
  NoDesktop = NoDesktop
  Outcomes = {"PASSED"}
  Sessions = {s1}
  Reviews = {v1, v2}
  Calls = {c1, c2}
  Task = t1
  MaxCode = 1
  MaxArtifacts = 0
  MayQuit = {}
SYMMETRY ReviewSymmetry
CHECK_DEADLOCK FALSE
INVARIANTS
  ReviewsGovernTask
  EvidenceHolds
