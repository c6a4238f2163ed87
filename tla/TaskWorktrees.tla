---------------------------- MODULE TaskWorktrees ----------------------------
(***************************************************************************)
(* The Worktree of one Task: the durable record with its checkpoints, what *)
(* Git and the file system really hold, and ensureTaskWorktree and         *)
(* cleanupTaskWorktree, which bring the two together although the desktop  *)
(* process may die, the store or Git may fail and the user may delete the  *)
(* directory between any two of their steps.                               *)
(*                                                                         *)
(* record    SQLite: the lifecycle state of the task_worktrees row         *)
(* tree      the file system and Git's registration of the Worktree        *)
(* files     what the Worktree holds that no commit has                    *)
(* at, job, read   memory of the desktop process                           *)
(*                                                                         *)
(* One desktop process: ADR-006 leaves several on one store out of the     *)
(* contract.  Its callers own the Worktree exclusively during a cleanup    *)
(* (the comment of cleanupTaskWorktree): no agent runs then.               *)
(***************************************************************************)
EXTENDS Naturals

CONSTANTS
  Calls,      \* calls of the two use cases
  MaxTrouble  \* bound: failures, crashes and deletions by the user

ASSUME MaxTroubleType == MaxTrouble \in Nat

VARIABLES
  record,
  branch,     \* does the branch of the Task exist?
  tree,
  files,
  agent,      \* does an agent run in the Worktree?
  at,         \* Call -> where it is
  job,        \* Call -> which use case it is of
  read,       \* Call -> the record and the tree that it has read
  trouble,    \* number of failures, crashes and deletions
  meddled     \* history variable: the user has removed the directory that
              \* `git worktree add' created last, or its record

gitVars == <<branch, tree, files>>
callVars == <<at, job, read>>
vars == <<record, gitVars, agent, callVars, trouble, meddled>>

Record == {"none", "PROVISIONING", "PRESENT", "REMOVING", "REMOVED"}

\* "stale": registered, the directory is gone; "leftover": a directory that
\* is not registered.
Tree == {"absent", "present", "stale", "leftover"}
File == {"ignored", "unsaved", "staged"}

Ensuring == {"provisioning", "branching", "adding", "verifying"}
Cleaning == {"removing", "removable", "closing"}
Place == {"idle", "adopting", "reserving", "recording", "marking"}
           \cup Ensuring \cup Cleaning

TypeOK ==
  /\ record \in Record
  /\ branch \in BOOLEAN
  /\ tree \in Tree
  /\ files \subseteq File
  /\ agent \in BOOLEAN
  /\ at \in [Calls -> Place]
  /\ job \in [Calls -> {"ensure", "cleanup"}]
  /\ read \in [Calls -> [record : Record, tree : Tree]]
  /\ trouble \in Nat
  /\ meddled \in BOOLEAN

\* A new store; the branch and the Worktree, or its registration, may be there
\* from a store that the user deleted.
Init ==
  /\ record = "none"
  /\ branch \in BOOLEAN
  /\ tree \in {"absent", "present", "stale"}
  /\ tree # "absent" => branch
  /\ files \in SUBSET (CASE tree = "absent" -> {}
                          [] tree = "stale" -> {"staged"}
                          [] tree = "present" -> File)
  /\ agent = FALSE
  /\ at = [c \in Calls |-> "idle"]
  /\ job = [c \in Calls |-> "ensure"]
  /\ read = [c \in Calls |-> [record |-> "none", tree |-> "absent"]]
  /\ trouble = 0
  /\ meddled = (tree # "absent")

\* serializeTaskWorktreeOperation.
Free == \A c \in Calls : at[c] = "idle"

\* Mutant: files that Git ignores do not count.
CleanOfChanges(fs) == fs \subseteq {"ignored"}

\* Neither changes nor ignored files.
Clean(fs) == fs = {}

Goes(c, place) == at' = [at EXCEPT ![c] = place]
Reads(c) == read' = [read EXCEPT ![c] = [record |-> record, tree |-> tree]]

-----------------------------------------------------------------------------
(* ensureTaskWorktree.                                                     *)

\* Mutant: a PROVISIONING record belongs to another operation.
EnsureCallOnce(c) ==
  /\ Free
  /\ record \notin {"PROVISIONING", "REMOVING"}
  /\ tree # "leftover" /\ (tree = "stale" => "staged" \notin files)
  /\ job' = [job EXCEPT ![c] = "ensure"]
  /\ Reads(c)
  /\ Goes(c, IF tree = "present" THEN "adopting" ELSE "reserving")
  /\ UNCHANGED <<record, gitVars, agent, trouble, meddled>>

\* The record and Git are read.  A cleanup under way (OPERATION_IN_PROGRESS),
\* an occupied path and staged work in a stale registration refuse the call.
EnsureCall(c) ==
  /\ Free
  /\ record # "REMOVING"
  /\ tree # "leftover" /\ (tree = "stale" => "staged" \notin files)
  /\ job' = [job EXCEPT ![c] = "ensure"]
  /\ Reads(c)
  /\ Goes(c, IF tree = "present" THEN "adopting" ELSE "reserving")
  /\ UNCHANGED <<record, gitVars, agent, trouble, meddled>>

\* persistProvisioning: an insert, a compare-and-set, or nothing.
Reserve(c) ==
  /\ at[c] \in {"adopting", "reserving"}
  /\ \/ read[c].record = "PROVISIONING" /\ UNCHANGED record
     \/ /\ read[c].record # "PROVISIONING"
        /\ record = read[c].record
        /\ record' = "PROVISIONING"
  /\ Goes(c, IF at[c] = "adopting" THEN "recording" ELSE "provisioning")
  /\ UNCHANGED <<gitVars, agent, job, read, trouble, meddled>>

\* git.ensure looks again; it removes the registration of a stale Worktree
\* without staged work and looks once more.
GitInspects(c) ==
  /\ at[c] = "provisioning"
  /\ \/ tree = "present" /\ Goes(c, "recording") /\ UNCHANGED <<tree, files>>
     \/ tree = "absent" /\ Goes(c, "branching") /\ UNCHANGED <<tree, files>>
     \/ /\ tree = "stale" /\ "staged" \notin files
        /\ tree' = "absent" /\ files' = {}
        /\ UNCHANGED at
  /\ UNCHANGED <<record, branch, agent, job, read, trouble, meddled>>

\* An existing branch is adopted as it is.
GitBranches(c) ==
  /\ at[c] = "branching"
  /\ branch' = TRUE
  /\ Goes(c, "adding")
  /\ UNCHANGED <<record, tree, files, agent, job, read, trouble, meddled>>

\* `git worktree add' does nothing when the path is taken or registered.
GitAdds(c) ==
  /\ at[c] = "adding"
  /\ IF tree = "absent"
     THEN tree' = "present" /\ files' = {} /\ meddled' = FALSE
     ELSE UNCHANGED <<tree, files, meddled>>
  /\ Goes(c, "verifying")
  /\ UNCHANGED <<record, branch, agent, job, read, trouble>>

GitVerifies(c) ==
  /\ at[c] = "verifying"
  /\ tree = "present"
  /\ Goes(c, "recording")
  /\ UNCHANGED <<record, gitVars, agent, job, read, trouble, meddled>>

\* transitionToPresent; a cleanup without a record adopts the Worktree first.
RecordPresent(c) ==
  /\ at[c] = "recording"
  /\ record = "PROVISIONING"
  /\ record' = "PRESENT"
  /\ IF job[c] = "ensure"
     THEN Goes(c, "idle") /\ UNCHANGED read
     ELSE /\ Goes(c, "marking")
          /\ read' = [read EXCEPT ![c].record = "PRESENT"]
  /\ UNCHANGED <<gitVars, agent, job, trouble, meddled>>

-----------------------------------------------------------------------------
(* cleanupTaskWorktree.                                                    *)

\* A creation under way, an occupied path and files that are not committed
\* refuse the call; what is already gone needs none.
CleanupCall(c) ==
  /\ Free /\ ~agent
  /\ record # "PROVISIONING"
  /\ tree # "leftover" /\ (tree # "absent" => Clean(files))
  /\ tree = "absent" => record \notin {"none", "REMOVED"}
  /\ job' = [job EXCEPT ![c] = "cleanup"]
  /\ Reads(c)
  /\ Goes(c, IF record = "none" THEN "adopting" ELSE "marking")
  /\ UNCHANGED <<record, gitVars, agent, trouble, meddled>>

\* transitionToRemoving: a compare-and-set, or nothing.
MarkRemoving(c) ==
  /\ at[c] = "marking"
  /\ \/ read[c].record = "REMOVING" /\ UNCHANGED record
     \/ /\ read[c].record # "REMOVING"
        /\ record = read[c].record
        /\ record' = "REMOVING"
  /\ Goes(c, IF read[c].tree = "absent" THEN "closing" ELSE "removing")
  /\ UNCHANGED <<gitVars, agent, job, read, trouble, meddled>>

\* git.cleanup looks again.
GitInspectsClean(c) ==
  /\ at[c] = "removing"
  /\ \/ tree = "absent" /\ Goes(c, "closing")
     \/ tree \in {"present", "stale"} /\ Clean(files) /\ Goes(c, "removable")
  /\ UNCHANGED <<record, gitVars, agent, job, read, trouble, meddled>>

\* `git worktree remove' without force refuses changes but not ignored files,
\* and may fail with the registration gone and a part of the directory left.
GitRemoves(c) ==
  /\ at[c] = "removable"
  /\ files \subseteq {"ignored"}
  /\ \/ tree' = "absent" /\ files' = {} /\ Goes(c, "closing")
        /\ UNCHANGED trouble
     \/ /\ tree = "present" /\ trouble < MaxTrouble
        /\ tree' = "leftover" /\ files' = {} /\ Goes(c, "idle")
        /\ trouble' = trouble + 1
  /\ UNCHANGED <<record, branch, agent, job, read, meddled>>

\* Mutant: the record takes what Git has seen for its state.
RecordRemovedAsSeen(c) ==
  /\ at[c] = "closing"
  /\ record = "REMOVING"
  /\ record' = read[c].tree
  /\ Goes(c, "idle")
  /\ UNCHANGED <<gitVars, agent, job, read, trouble, meddled>>

\* The verified terminal checkpoint: a compare-and-set.
RecordRemoved(c) ==
  /\ at[c] = "closing"
  /\ record = "REMOVING"
  /\ record' = "REMOVED"
  /\ Goes(c, "idle")
  /\ UNCHANGED <<gitVars, agent, job, read, trouble, meddled>>

-----------------------------------------------------------------------------
(* Failures, agents and the user.                                          *)

\* The store or Git fails, or a check of git.ensure or git.cleanup does: the
\* call ends with an error and undoes nothing.
CallFails(c) ==
  /\ at[c] # "idle"
  /\ trouble < MaxTrouble
  /\ trouble' = trouble + 1
  /\ Goes(c, "idle")
  /\ UNCHANGED <<record, gitVars, agent, job, read, meddled>>

\* A check that cannot succeed any more, without a failure of its own.
CallRefused(c) ==
  /\ \/ at[c] = "provisioning" /\ (tree = "leftover" \/ files # {})
     \/ at[c] = "verifying" /\ tree # "present"
     \/ at[c] = "removing" /\ (tree = "leftover" \/ ~Clean(files))
  /\ Goes(c, "idle")
  /\ UNCHANGED <<record, gitVars, agent, job, read, trouble, meddled>>

\* The desktop process ends and is started again; its agent may run on.
Restart ==
  /\ trouble < MaxTrouble
  /\ trouble' = trouble + 1
  /\ at' = [c \in Calls |-> "idle"]
  /\ UNCHANGED <<record, gitVars, agent, job, read, meddled>>

\* An agent starts in a Worktree that an ensure has returned.
AgentStarts ==
  /\ Free /\ ~agent
  /\ record = "PRESENT" /\ tree = "present"
  /\ agent' = TRUE
  /\ UNCHANGED <<record, gitVars, callVars, trouble, meddled>>

AgentWrites ==
  /\ agent /\ tree = "present"
  /\ \E f \in File : files' = files \cup {f}
  /\ UNCHANGED <<record, branch, tree, agent, callVars, trouble, meddled>>

AgentCommits ==
  /\ agent /\ tree = "present"
  /\ files' = files \ {"unsaved", "staged"}
  /\ UNCHANGED <<record, branch, tree, agent, callVars, trouble, meddled>>

AgentEnds ==
  /\ agent
  /\ agent' = FALSE
  /\ UNCHANGED <<record, gitVars, callVars, trouble, meddled>>

\* Only the index, in the repository, outlives the directory.
UserDeletes ==
  /\ tree = "present" /\ ~agent
  /\ trouble < MaxTrouble
  /\ trouble' = trouble + 1
  /\ tree' = "stale" /\ files' = files \cap {"staged"}
  /\ meddled' = TRUE
  /\ UNCHANGED <<record, branch, agent, callVars>>

\* `git worktree prune', or the rest of a directory is deleted.
UserPrunes ==
  /\ tree \in {"stale", "leftover"}
  /\ tree' = "absent" /\ files' = {}
  /\ UNCHANGED <<record, branch, agent, callVars, trouble, meddled>>

-----------------------------------------------------------------------------
(* Specification.                                                          *)

CallStep(c) ==
  \/ Reserve(c) \/ GitInspects(c) \/ GitBranches(c) \/ GitAdds(c)
  \/ GitVerifies(c) \/ RecordPresent(c)
  \/ MarkRemoving(c) \/ GitInspectsClean(c) \/ GitRemoves(c) \/ RecordRemoved(c)
  \/ CallRefused(c)

Next ==
  \/ \E c \in Calls : EnsureCall(c) \/ CleanupCall(c) \/ CallStep(c)
                      \/ CallFails(c)
  \/ Restart
  \/ AgentStarts \/ AgentWrites \/ AgentCommits \/ AgentEnds
  \/ UserDeletes \/ UserPrunes

Spec == Init /\ [][Next]_vars

\* A call goes on; both use cases are tried again and again, and a try gets
\* the lock (ADR-006: the caller must retry).
Fairness ==
  /\ \A c \in Calls : WF_vars(CallStep(c))
  /\ SF_vars(\E c \in Calls : EnsureCall(c))
  /\ SF_vars(\E c \in Calls : CleanupCall(c))

FairSpec == Spec /\ Fairness

-----------------------------------------------------------------------------
(* Properties.                                                             *)

\* Only the user ever removes what no commit has: a cleanup, or the recreation
\* of a stale Worktree, never does.
NoWorkLost ==
  [][tree' # tree /\ ~UserDeletes /\ ~UserPrunes => files = {}]_vars

\* The record never says more than Git and the file system hold, except for
\* what the user has removed: what exists has a record that says so or is an
\* intermediate checkpoint, and what is PRESENT exists.
RecordIsHonest ==
  /\ tree = "present" =>
       \/ record \in {"PROVISIONING", "PRESENT", "REMOVING"}
       \/ record = "none" /\ meddled
  /\ record = "PRESENT" => tree = "present" \/ meddled
  /\ tree = "present" => branch

\* Git works for a call only under the checkpoint of its direction (ADR-006:
\* ensure and cleanup cannot take the Task in opposite directions).
OneDirection ==
  \A c \in Calls :
    /\ at[c] \in Ensuring \cup {"recording"} => record = "PROVISIONING"
    /\ at[c] \in Cleaning => record = "REMOVING"

-----------------------------------------------------------------------------
(* The inductive strengthening of the properties above.                    *)

\* serializeTaskWorktreeOperation: one call of the Task at a time, which has
\* the process to itself during a cleanup.
Serialized ==
  \A c \in Calls : at[c] # "idle" =>
    /\ \A d \in Calls : at[d] # "idle" => d = c
    /\ at[c] \in Ensuring \cup {"reserving"} => job[c] = "ensure"
    /\ at[c] \in Cleaning \cup {"marking"} => job[c] = "cleanup"
    /\ job[c] = "cleanup" => ~agent

\* What a call has read still holds but for what the user has removed.
ReadsHold ==
  \A c \in Calls :
    /\ at[c] \in {"adopting", "reserving", "marking"} => record = read[c].record
    /\ at[c] = "adopting" => record # "REMOVING"
    /\ at[c] \in {"adopting", "recording"} => tree = "present" \/ meddled
    /\ at[c] # "idle" /\ job[c] = "cleanup" /\ read[c].tree = "absent" =>
         tree # "present"
    /\ at[c] = "adding" => branch
    /\ at[c] = "closing" => tree # "present"
    /\ at[c] = "removable" => files = {}

\* Work that no commit has is in the directory, or staged in what Git keeps of
\* a directory that the user has removed.
WorkIsHeld ==
  /\ tree \in {"absent", "leftover"} => files = {}
  /\ tree = "stale" => files \subseteq {"staged"} /\ meddled

IInv ==
  /\ TypeOK
  /\ RecordIsHonest
  /\ OneDirection
  /\ Serialized
  /\ ReadsHold
  /\ WorkIsHeld

-----------------------------------------------------------------------------
(* Liveness.                                                               *)

\* Retries of ensureTaskWorktree complete what was interrupted, unless staged
\* work in a Worktree that the user deleted must be recovered first.
EnsureResumes ==
  record = "PROVISIONING" ~>
    record = "PRESENT" \/ (tree = "stale" /\ files # {})

\* Retries of cleanupTaskWorktree complete what was interrupted, unless Git
\* left a part of the directory that only the user can remove.
CleanupResumes ==
  record = "REMOVING" ~> record = "REMOVED" \/ tree = "leftover"

\* What was interrupted is finished by retries, in either direction.
RetriesFinish == EnsureResumes /\ CleanupResumes
=============================================================================
