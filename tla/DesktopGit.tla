---------------------------- MODULE DesktopGit ----------------------------
(***************************************************************************)
(* The parts of the application that TaskWorktrees_proof is about beside   *)
(* the Worktree of a Task: Pull Requests, which GitHub has, the capture of *)
(* a Review's code, from a Worktree that others edit, and what is asked of *)
(* Git about a repository that others change.                              *)
(***************************************************************************)
EXTENDS DesktopParts

\* Those of the parts; each is described where its part declares it.
CONSTANTS
  Commits, Ancestors, Base, ReviewLists, CheckLists, MaxAskedOfGitHub,
  MaxGitHubChanges, MaxClock, MaxPulls,
  CaptureMaxPath, CaptureStarts, MaximumChanged, MaximumEntries, MaxEdits,
  ConflictFiles, ConflictOrder, MaxCommits, MaxRepositoryChanges, MaxProbes

-----------------------------------------------------------------------------
(* The parts.                                                              *)

PR == INSTANCE PullRequests WITH
  head <- v1, dirty <- v2, tracking <- v3, remote <- v4, pulls <- v5,
  usable <- v6, clock <- v7, changes <- v8, rows <- v9, history <- v10,
  ops <- v11, asked <- v12, inspecting <- v13, shown <- v14,
  MaxAsked <- MaxAskedOfGitHub, MaxChanges <- MaxGitHubChanges

RC == INSTANCE ReviewCapture WITH
  tree <- v1, stamps <- v2, past <- v3, restored <- v4, edits <- v5,
  stage <- v6, seen <- v7, current <- v8, first <- v9, answer <- v10,
  MaxPath <- CaptureMaxPath, Starts <- CaptureStarts

GI == INSTANCE GitProbes WITH
  repo <- v1, installed <- v2, cache <- v3, record <- v4, call <- v5,
  seen <- v6, past <- v7, troubled <- v8, answer <- v9, changes <- v10,
  calls <- v11,
  Files <- ConflictFiles, FileOrder <- ConflictOrder,
  MaxChanges <- MaxRepositoryChanges, MaxCalls <- MaxProbes

\* What GitHub may answer is a list of reviews or of checks.
ASSUME PullsWellFormed == PR!WellFormed

\* A Worktree has paths, and the states it starts from are those of one.
ASSUME CaptureWellFormed == RC!WellFormed

\* Git reports the files of a merge in an order.
ASSUME ProbesWellFormed == GI!WellFormed

-----------------------------------------------------------------------------
GitInit ==
  /\ part \in Parts
  /\ \/ part = "pulls" /\ PR!Init
     \/ part = "capture" /\ RC!Init /\ Rest11
     \/ part = "probes" /\ GI!Init /\ Rest12

GitNext ==
  \/ Moves("pulls") /\ PR!Next
  \/ Moves("capture") /\ RC!Next /\ Stays11
  \/ Moves("probes") /\ GI!Next /\ Stays12

GitSpec == GitInit /\ [][GitNext]_desktopVars

-----------------------------------------------------------------------------
(* What must hold of the part that runs.                                   *)

\* Pull Requests: what is stored never goes back to what GitHub said earlier, a
\* row is the end of its history, and a summary of reviews is a fair one.
PullRequestsSound == [][part = "pulls" => PR!PullRequestStepIsSound]_desktopVars

\* The inspection of a Review's code: what is captured was in the Worktree in
\* one moment, whatever was edited meanwhile.
CaptureWasTrue == part = "capture" => RC!CaptureWasTrue

\* Merge probes and repository inspections: an answer was true in some moment of
\* the question.
ProbesAreTrue == part = "probes" => GI!ProbesAreTrue
=============================================================================
