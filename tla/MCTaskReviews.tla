---------------------------- MODULE MCTaskReviews ----------------------------
(* Small instances of TaskReviews for TLC.                                 *)
EXTENDS TaskReviews, TLC

ReviewSymmetry ==
  Permutations(Desktops) \cup Permutations(Runs) \cup Permutations(Sessions)
    \cup Permutations(Reviews) \cup Permutations(Calls)
=============================================================================
