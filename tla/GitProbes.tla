------------------------------ MODULE GitProbes ------------------------------
(***************************************************************************)
(* What is asked of Git about a repository in several commands: whether the*)
(* branch of a Task can be merged (checkTaskMergeConflicts), and what a    *)
(* repository's head, base branch and status are (inspect).  Others commit,*)
(* check out and delete branches between two of these commands.            *)
(*                                                                         *)
(* The files of a merge and the lines that Git writes of it are kept; ids, *)
(* paths and the time of a command are not.                                *)
(***************************************************************************)
EXTENDS Naturals, Sequences, FiniteSets, SequencesExt

CONSTANTS
  Files,         \* bound: the files that a merge may leave in conflict
  FileOrder,     \* the order in which Git reports them
  MaxCommits,    \* bound: commits in the repository
  MaxChanges,    \* bound: changes of the repository while it is asked
  MaxCalls,      \* bound: questions
  None

VARIABLES
  repo,       \* [dir, branch, commit, refs, content, removed, status]
  installed,  \* the Git that can be found: "none", "old" (before 2.45) or "new"
  cache,      \* GitCli's resolvedExecutable and resolvedVersion, None at first
  record,     \* what is stored of the Task: "none", "task" or "worktree"
  call,       \* [kind, stage], or None
  seen,       \* what the commands of this call have said
  past,       \* the states of the repository during this call
  troubled,   \* a command of this call failed
  answer,     \* the last answer, or None
  changes, calls

outside == <<repo, installed, record, changes>>
probeVars == <<outside, cache, call, seen, past, troubled, answer, calls>>

Refs == {"origin/HEAD", "main", "master"}
Branches == {"task", "other"}

\* The branch that is checked out, or "detached"; a branch with no commit is
\* unborn.  "content" are the files that a merge of the base and the head leaves
\* with conflicting changes, "removed" those that only one of them has changed
\* and the other removed.  "origin/HEAD" is there when it names a branch.
Repositories ==
  [dir : {TRUE}, branch : {"task"}, commit : {0, 1}, refs : {{}, {"origin/HEAD", "main"}},
   content : {{}}, removed : {{}}, status : {{}}]

Init ==
  /\ repo \in Repositories
  /\ installed \in {"none", "old", "new"} /\ cache = [git |-> None, version |-> None]
  /\ record = "worktree"
  /\ call = None /\ seen = << >> /\ past = {} /\ troubled = FALSE /\ answer = None
  /\ changes = 0 /\ calls = 0

-----------------------------------------------------------------------------
(* What others do.                                                         *)

Changed(r) ==
  /\ call # None /\ r # repo /\ changes < MaxChanges /\ changes' = changes + 1
  /\ repo' = r /\ past' = past \union {r}
  /\ UNCHANGED <<installed, record, cache, call, seen, troubled, answer, calls>>

CommitChanges ==
  /\ repo.commit < MaxCommits
  /\ \E content \in SUBSET Files : \E removed \in {{}, Files \ content} :
       Changed([repo EXCEPT !.commit = @ + 1, !.content = content, !.removed = removed])

CheckOut ==
  \E branch \in Branches \union {"detached"} :
    /\ repo.commit > 0
    /\ Changed([repo EXCEPT !.branch = branch])

ChangeRef ==
  \E ref \in Refs :
    Changed([repo EXCEPT !.refs = IF ref \in @ THEN @ \ {ref} ELSE @ \union {ref}])

\* The records that git status writes of a working tree.
Ordinary(file, index, worktree) ==
  [kind |-> "1", file |-> file, index |-> index, worktree |-> worktree]
Record(kind, file) == [kind |-> kind, file |-> file, index |-> FALSE, worktree |-> FALSE]

EditFiles ==
  LET f == Head(FileOrder)
      g == Last(FileOrder)
  IN  \E status \in {{}, {Ordinary(f, TRUE, TRUE)}, {Ordinary(f, FALSE, TRUE), Record("?", g)},
                     {Record("u", f)}} :
        Changed([repo EXCEPT !.status = status])

RemoveDirectory == Changed([repo EXCEPT !.dir = FALSE])

\* Git is installed or removed; the Task or its Worktree's record goes.
ChangeOutside ==
  /\ changes < MaxChanges /\ changes' = changes + 1
  /\ \/ installed' \in {"none", "old", "new"} \ {installed} /\ UNCHANGED record
     \/ record = "worktree" /\ record' \in {"none", "task"} /\ UNCHANGED installed
  /\ UNCHANGED <<repo, cache, call, seen, past, troubled, answer, calls>>

Others ==
  \/ CommitChanges \/ CheckOut \/ ChangeRef \/ EditFiles \/ RemoveDirectory
  \/ ChangeOutside

-----------------------------------------------------------------------------
(* A command.                                                              *)

At(kind, stage) == call = [kind |-> kind, stage |-> stage]

Goes(stage, says) ==
  /\ call' = [call EXCEPT !.stage = stage]
  /\ seen' = Append(seen, says)
  /\ UNCHANGED <<outside, past, troubled, answer, calls>>

Answers(result) ==
  /\ answer' = [kind |-> call.kind, says |-> result, past |-> past, troubled |-> troubled']
  /\ call' = None /\ seen' = << >> /\ past' = {}
  /\ UNCHANGED <<outside, calls>>

Unavailable(reason) == [is |-> "unavailable", reason |-> reason]
Throws(reason) == [is |-> "error", reason |-> reason]

\* getExecutable: the first search is the only one, whatever it found.
Finds ==
  [cache EXCEPT !.git = IF @ = None THEN IF installed # "none" THEN "found" ELSE "missing" ELSE @]

\* run: there is no Git; the command fails or is too long; or it ends, and then
\* what it says depends on the repository.
IsThere == Finds.git = "found" /\ installed # "none"

NotAvailable(effect) == ~IsThere /\ troubled' = TRUE /\ effect

CommandFails(effect) == IsThere /\ troubled' = TRUE /\ effect

CommandEnds(effect) == IsThere /\ UNCHANGED troubled /\ effect

-----------------------------------------------------------------------------
(* Both questions begin with the root of the working tree.                 *)

Ask ==
  /\ call = None /\ calls < MaxCalls /\ calls' = calls + 1
  /\ troubled' = FALSE
  /\ \E kind \in {"probe", "inspect"} :
       IF kind = "probe" /\ record # "worktree"
       THEN /\ answer' = [kind |-> kind, past |-> {repo}, troubled |-> FALSE,
                          says |-> Unavailable(IF record = "none" THEN "TASK_NOT_FOUND"
                                               ELSE "WORKTREE_NOT_READY")]
            /\ UNCHANGED <<call, past>>
       ELSE /\ call' = [kind |-> kind, stage |-> "root"]
            /\ past' = {repo} /\ answer' = None
  /\ UNCHANGED <<outside, cache, seen>>

\* resolveWorkingTreeRoot; inspect answers a directory that is no working tree,
\* and a probe throws.
NotWorkingTree ==
  IF call.kind = "inspect" THEN [is |-> "not-working-tree"] ELSE Throws("NOT_WORKING_TREE")

FindRoot ==
  /\ call # None /\ call.stage = "root"
  /\ IF ~repo.dir
     THEN UNCHANGED <<cache, troubled>> /\ Answers(Throws("PATH_NOT_FOUND"))
     ELSE /\ cache' = Finds
          /\ \/ NotAvailable(Answers(Throws("GIT_NOT_AVAILABLE")))
             \/ CommandFails(Answers(Throws("GIT_INSPECTION_FAILED")))
             \/ CommandFails(Answers(NotWorkingTree))
             \/ CommandEnds(Goes(IF call.kind = "probe" THEN "head commit" ELSE "version", "root"))

-----------------------------------------------------------------------------
(* mergeTreeConflictProbe.                                                 *)

\* validateMergeTreeRefs for the head: its commit, then its name.
ReadHeadCommit ==
  /\ At("probe", "head commit") /\ cache' = Finds
  /\ \/ NotAvailable(Answers(Unavailable("NOT_HEAD_ATTACHED")))
     \/ CommandFails(Answers(Unavailable("NOT_HEAD_ATTACHED")))
     \/ CommandEnds(IF repo.commit = 0 THEN Answers(Unavailable("NOT_HEAD_ATTACHED"))
                    ELSE Goes("head name", repo.commit))

\* Mutant of HeadIsAttached: only a head that cannot be resolved is refused, as
\* it is for the base.
AnyHead == TRUE

HeadIsAttached == repo.branch # "detached"

ReadHeadName ==
  /\ At("probe", "head name") /\ cache' = Finds
  /\ \/ NotAvailable(Goes("base", "unknown"))
     \/ CommandFails(Goes("base", "unknown"))
     \/ CommandEnds(IF HeadIsAttached THEN Goes("base", repo.branch)
                    ELSE Answers(Unavailable("NOT_HEAD_ATTACHED")))

ReadBase ==
  /\ At("probe", "base") /\ cache' = Finds
  /\ \/ NotAvailable(Answers(Unavailable("NO_BASE_REF")))
     \/ CommandFails(Answers(Unavailable("NO_BASE_REF")))
     \/ CommandEnds(IF "main" \in repo.refs THEN Goes("merge", "main")
                    ELSE Answers(Unavailable("NO_BASE_REF")))

Line(tag, file) == [tag |-> tag, file |-> file]

\* What git merge-tree writes: the tree, then for each file what it did.
MergeOutput(r) ==
  <<Line("text", None)>> \o
  FlattenSeq([i \in DOMAIN FileOrder |->
    LET f == FileOrder[i]
    IN  CASE f \in r.content -> <<Line("auto-merging", f), Line("merge conflict", f)>>
          [] f \in r.removed -> <<Line("other conflict", f)>>
          [] OTHER -> << >>])

\* parseMergeTreeConflictProbe: the files of the lines that it knows, each with
\* the lines behind it that it does not.
Parsed(lines) ==
  LET step(files, line) ==
        CASE line.tag = "merge conflict" ->
               IF \E i \in DOMAIN files : files[i].file = line.file THEN files
               ELSE Append(files, [file |-> line.file, hunks |-> 0])
          [] line.tag = "text" /\ files # << >> ->
               [files EXCEPT ![Len(files)].hunks = @ + 1]
          [] OTHER -> files
  IN  FoldLeft(step, << >>, lines)

Probed(lines) ==
  LET files == Parsed(lines)
  IN  [is |-> IF files = << >> THEN "clean" ELSE "conflicts", files |-> files]

\* The code of a command that ended is not looked at.
MergeTree ==
  /\ At("probe", "merge") /\ cache' = Finds
  /\ \/ NotAvailable(Answers(Unavailable("GIT_INSPECTION_FAILED")))
     \/ CommandFails(Answers(Throws("GIT_CLI_ERROR")))
     \/ CommandFails(Answers(Probed(<< >>)))
     \/ CommandEnds(Answers(Probed(MergeOutput(repo))))

-----------------------------------------------------------------------------
(* inspect.                                                                *)

\* assertSupportedVersion: the version is read once, whatever comes of it.
Version(read) ==
  /\ cache' = [Finds EXCEPT !.version = read]
  /\ CASE read = "new" -> Goes("branch", read)
       [] read = "old" -> Answers(Throws("GIT_VERSION_UNSUPPORTED"))
       [] read = "none" -> Answers(Throws("GIT_NOT_AVAILABLE"))
       [] read = "failed" -> Answers(Throws("GIT_INSPECTION_FAILED"))

InspectVersion ==
  /\ At("inspect", "version")
  /\ \/ cache.version # None /\ UNCHANGED troubled /\ Version(cache.version)
     \/ /\ cache.version = None
        /\ \/ NotAvailable(Version("none"))
           \/ CommandFails(Version("failed"))
           \/ CommandEnds(Version(installed))

Breaks ==
  \/ CommandFails(Answers(Throws("GIT_INSPECTION_FAILED")))
  \/ NotAvailable(Answers(Throws("GIT_NOT_AVAILABLE")))

InspectStep(stage, next, says) ==
  /\ At("inspect", stage) /\ cache' = Finds
  /\ Breaks \/ CommandEnds(Goes(next, says))

InspectBranch == InspectStep("branch", "commit", repo.branch)
InspectCommit == InspectStep("commit", "main", repo.commit)
InspectMain   == InspectStep("main", "master", "main" \in repo.refs)
InspectMaster == InspectStep("master", "remote", "master" \in repo.refs)
InspectRemote == InspectStep("remote", "status", "origin/HEAD" \in repo.refs)

\* parseHead: two commands tell which of the three it is, or that it is none.
HeadOf(branch, commit) ==
  CASE branch # "detached" /\ commit > 0 -> "attached"
    [] branch # "detached" /\ commit = 0 -> "unborn"
    [] OTHER -> IF commit > 0 THEN "detached" ELSE "failed"

\* selectBaseBranch.
BaseBranch(head, branch, main, master, remote) ==
  CASE remote -> "origin/HEAD"
    [] ~remote /\ main -> "main"
    [] ~remote /\ ~main /\ master -> "master"
    [] OTHER -> IF head = "attached" THEN branch ELSE "none"

\* parseStatus.
ParsedStatus(records) ==
  LET files(P(_)) == {r.file : r \in {q \in records : P(q)}}
  IN  [staged |-> files(LAMBDA r : r.kind = "1" /\ r.index),
       unstaged |-> files(LAMBDA r : r.kind = "1" /\ r.worktree),
       conflicted |-> files(LAMBDA r : r.kind = "u"),
       untracked |-> files(LAMBDA r : r.kind = "?")]

Inspected(records) ==
  LET head == HeadOf(seen[3], seen[4])
      status == ParsedStatus(records)
  IN  [is |-> "repository", head |-> head, branch |-> seen[3], commit |-> seen[4],
       base |-> BaseBranch(head, seen[3], seen[5], seen[6], seen[7]),
       status |-> status, dirty |-> \E k \in DOMAIN status : status[k] # {}]

InspectStatus ==
  /\ At("inspect", "status") /\ cache' = Finds
  /\ \/ Breaks
     \/ CommandEnds(IF HeadOf(seen[3], seen[4]) = "failed"
                    THEN Answers(Throws("GIT_INSPECTION_FAILED"))
                    ELSE Answers(Inspected(repo.status)))

Next ==
  \/ Others \/ Ask \/ FindRoot
  \/ ReadHeadCommit \/ ReadHeadName \/ ReadBase \/ MergeTree
  \/ InspectVersion \/ InspectBranch \/ InspectCommit
  \/ InspectMain \/ InspectMaster \/ InspectRemote \/ InspectStatus

Spec == Init /\ [][Next]_probeVars

-----------------------------------------------------------------------------
(* Properties.                                                             *)

Says(is) == answer # None /\ answer.says.is = is

\* A merge probe's answer is about the repository as it was at some moment of
\* the probe: the files in conflict are all the files with conflicting changes
\* that it had then, each once; the head was attached and the base was there;
\* and a head or a base that is missed was missing, unless a command failed.
ProbeWasTrue ==
  answer # None /\ answer.kind = "probe" =>
    LET names == {answer.says.files[i].file : i \in DOMAIN answer.says.files}
        once == \E r \in answer.past : r.commit > 0 /\ (r.branch # "detached" \/ answer.troubled)
    IN  /\ Says("conflicts") =>
             /\ once
             /\ \E r \in answer.past : names = r.content
             /\ Cardinality(names) = Len(answer.says.files)
        /\ Says("clean") => once /\ (answer.troubled \/ \E r \in answer.past : r.content = {})
        /\ Says("unavailable") =>
             /\ answer.says.reason = "NOT_HEAD_ATTACHED" =>
                  answer.troubled \/ \E r \in answer.past : r.branch = "detached" \/ r.commit = 0
             /\ answer.says.reason = "NO_BASE_REF" =>
                  answer.troubled \/ \E r \in answer.past : "main" \notin r.refs

\* The head that an inspection names, its branch and its commit, is one that the
\* repository had, unless the head moved meanwhile; so is the base branch that it
\* suggests, and a better one was not there all the time; and a working tree is
\* said to be clean only when nothing was changed in it.
InspectionWasTrue ==
  Says("repository") =>
    LET says == answer.says
    IN  /\ (\A r, s \in answer.past : r.branch = s.branch /\ r.commit = s.commit) =>
             \E r \in answer.past : /\ HeadOf(r.branch, r.commit) = says.head
                                    /\ r.branch = says.branch /\ r.commit = says.commit
        /\ says.base \in Refs => \E r \in answer.past : says.base \in r.refs
        /\ says.base # "origin/HEAD" => \E r \in answer.past : "origin/HEAD" \notin r.refs
        /\ ~says.dirty => \E r \in answer.past : r.status = {}

ProbesAreTrue == ProbeWasTrue /\ InspectionWasTrue

\* What the constants must be.
Calls == [kind : {"probe", "inspect"},
          stage : {"root", "head commit", "head name", "base", "merge", "version", "branch",
                   "commit", "main", "master", "remote", "status"}]
Versions == {"none", "old", "new", "failed"}
Records == {q \in [kind : {"1", "u", "?"}, file : Files, index : BOOLEAN, worktree : BOOLEAN] :
             q.kind = "1" => q.index \/ q.worktree}

WellFormed ==
  /\ FileOrder \in Seq(Files) /\ FileOrder # << >> /\ Files \subseteq ToSet(FileOrder)
  /\ None \notin Calls /\ None \notin Versions

TypeOK ==
  /\ repo \in [dir : BOOLEAN, branch : Branches \union {"detached"}, commit : Nat,
              refs : SUBSET Refs, content : SUBSET Files, removed : SUBSET Files,
              status : SUBSET Records]
  /\ repo.content \intersect repo.removed = {}
  /\ installed \in {"none", "old", "new"}
  /\ cache \in [git : {"found", "missing", None}, version : Versions \union {None}]
  /\ call = None \/ call \in Calls
  /\ troubled \in BOOLEAN

\* What a probe has read was so, and the head that it has found stays.
ProbeReadTrue ==
  /\ At("probe", "head name") => repo.commit > 0
  /\ At("probe", "base") \/ At("probe", "merge") =>
       \E r \in past : r.commit > 0 /\ (r.branch # "detached" \/ troubled)

\* How many commands of an inspection have ended.
Ended(stage) ==
  CASE stage = "root" -> 0 [] stage = "version" -> 1 [] stage = "branch" -> 2
    [] stage = "commit" -> 3 [] stage = "main" -> 4 [] stage = "master" -> 5
    [] stage = "remote" -> 6 [] stage = "status" -> 7

\* What the commands of an inspection say of a repository.
Reading(r) ==
  <<"root", "version", r.branch, r.commit, "main" \in r.refs, "master" \in r.refs,
    "origin/HEAD" \in r.refs>>

\* Each of them has read what was so.
InspectionReadTrue ==
  call # None /\ call.kind = "inspect" =>
    LET n == Ended(call.stage)
    IN  /\ call.stage \in {"root", "version", "branch", "commit", "main", "master",
                           "remote", "status"}
        /\ Len(seen) = n /\ seen = [i \in 1..n |-> seen[i]]
        /\ \A i \in 3..n : \E r \in past : seen[i] = Reading(r)[i]
        /\ n >= 3 => seen[3] \in Branches \union {"detached"}

\* What the proof of ProbesAreTrue rests on.
IInv ==
  /\ TypeOK /\ ProbesAreTrue
  /\ call = None => seen = << >>
  /\ call # None => repo \in past
  /\ call # None /\ call.stage = "root" => seen = << >>
  /\ ProbeReadTrue /\ InspectionReadTrue

\* Not true: a branch that is said to be clean can be merged.  Files that one side has
\* changed and the other removed are not counted, nor is the code that Git ended
\* with.
CleanMeansMergeable == Says("clean") => \E r \in answer.past : r.content \union r.removed = {}

\* Not true: when Git is there, no question is answered with Git missing (a failed
\* search is kept).
GitIsFoundAgain ==
  [][answer' # answer /\ answer' # None /\ installed = "new" /\ call # None
       => answer'.says # Throws("GIT_NOT_AVAILABLE")]_probeVars
=============================================================================
