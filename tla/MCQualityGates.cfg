\* Two desktop processes on one store, two runs, a store that may fail for one of them.
SPECIFICATION FairSpec
CONSTANTS
  Desktops = {d1, d2}
  Runs = {r1, r2}
  NoDesktop = NoDesktop
  Outcomes = {"PASSED", "TIMED_OUT", "LAUNCH_FAILED"}
  Faulty = {r1}
CHECK_DEADLOCK FALSE
INVARIANTS
  GInv
PROPERTIES
  RowsAreFinal
  GatesComeBack
