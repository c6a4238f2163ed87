--------------------------- MODULE MCAgentSessions ---------------------------
(* Small instances of AgentSessions for TLC.                               *)
EXTENDS AgentSessions, TLC

SameTask == [s \in Sessions |-> CHOOSE t \in Tasks : TRUE]
SessionSymmetry == Permutations(Sessions)
=============================================================================
