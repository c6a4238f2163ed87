\* Two attempts of one Task: starts, stops, reports, failures, crashes and restarts.
SPECIFICATION Spec
CONSTANTS
  Sessions = {s1, s2}
  Tasks = {t1}
  TaskOf <- SameTask
  NoSession = NoSession
  Reported = {"IDLE"}
  Faulty = {}
  MaxHistory = 3
SYMMETRY SessionSymmetry
CHECK_DEADLOCK FALSE
INVARIANTS
  OneWriter
  SettledMeansStopped
  OneOwnedProcess
  WriterIsOwned
PROPERTY
  LeaseSpec
