\* One Session with status reports and one failed write: liveness and the inductive invariant.
SPECIFICATION FairSpec
CONSTANTS
  Sessions = {s1}
  Tasks = {t1}
  TaskOf <- SameTask
  NoSession = NoSession
  Reported = {"WORKING", "WAITING_INPUT"}
  Faulty = {s1}
  MaxHistory = 5
CHECK_DEADLOCK FALSE
INVARIANTS
  IInv
PROPERTIES
  SettlementIsFinal
  EndsAreTold
