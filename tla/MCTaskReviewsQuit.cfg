\* One desktop process that quits, beside agents, gates and artifacts that outlive it.
SPECIFICATION Spec
CONSTANTS
  Desktops = {d1}
  Runs = {r1}
  NoDesktop = NoDesktop
  Outcomes = {"PASSED"}
  Sessions = {s1,s2}
  Reviews = {v1}
  Calls = {c1,c2}
  Task = t1
  MaxCode = 1
  MaxArtifacts = 1
  MayQuit = {d1}
SYMMETRY ReviewSymmetry
CHECK_DEADLOCK FALSE
INVARIANT EvidenceHolds
