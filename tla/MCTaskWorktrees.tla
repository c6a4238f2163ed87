--------------------------- MODULE MCTaskWorktrees ---------------------------
(* A small instance of TaskWorktrees for TLC.                              *)
EXTENDS TaskWorktrees
=============================================================================
