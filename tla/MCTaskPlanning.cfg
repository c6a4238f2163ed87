\* Two Tasks, two attempts of the first, two desktop processes of which one may quit, two calls at a time, a store that may refuse audit rows.
SPECIFICATION Spec
CONSTANTS
  t1 = t1
  t2 = t2
  Tasks = {t1, t2}
  Sessions = {s1, s2}
  TaskOf <- FirstTask
  NoSession = NoSession
  Desktops = {d1, d2}
  Calls = {c1, c2}
  MaxPlans <- Plans
  Dependable <- Pairs
  Faulty = {t1}
  MayQuit = {d1}
SYMMETRY CallSymmetry
CHECK_DEADLOCK FALSE
INVARIANTS
  WriterFitsPhase
  PlanGovernsExecution
  NoCycle
  IInv
PROPERTY
  StartsUnblocked
