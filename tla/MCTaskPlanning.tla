--------------------------- MODULE MCTaskPlanning ---------------------------
(* Model checking instances of TaskPlanning.                               *)
EXTENDS TaskPlanning, TLC

CONSTANTS t1, t2

FirstTask == [s \in Sessions |-> t1]
Pairs == Tasks \X Tasks
Plans == [t \in Tasks |-> IF t = t1 THEN 2 ELSE 0]
CallSymmetry == Permutations(Calls) \cup Permutations(Sessions)
=============================================================================
