---------------------------- MODULE MCQualityGates ----------------------------
(* Small instances of QualityGates for TLC.                                *)
EXTENDS QualityGates, TLC

GateSymmetry == Permutations(Desktops) \cup Permutations(Runs)
=============================================================================
