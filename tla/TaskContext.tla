----------------------------- MODULE TaskContext -----------------------------
(***************************************************************************)
(* Files that the user attaches to a Task: their import into the private   *)
(* store and the database, and the handoff that copies some of them into   *)
(* the Task's Worktree and prepares a prompt naming the copies. Two        *)
(* desktops may have the same data directory; the locks of the Task and of *)
(* its Worktree are each process's own. One window is modelled, that of    *)
(* Viewer.                                                                 *)
(*                                                                         *)
(* One Task. Every file is a small text file, which a handoff may copy;    *)
(* files are told apart by their ids. The preflight's reads are taken in   *)
(* one moment.                                                             *)
(***************************************************************************)
EXTENDS Naturals, Sequences, FiniteSets, SequencesExt

CONSTANTS
  Setups,     \* which desktops there may be: [desktops, viewer, files]
  Limit,      \* attachments of a Task, and files of its directory
  MaxBatch,   \* files of one import
  MaxChanges, \* bound: gates, crashes, ended Sessions, edits and failed writes
  None

VARIABLES
  files,     \* the files of the Task's directory: "partial" or "whole", by id
  rows,      \* the ids in the database, in order
  batches,   \* the sets of ids whose import reached the database
  copies,    \* of each id the copy in the Worktree
  live,      \* the target Session is live and the latest
  gates,     \* the desktops that run a Quality Gate of the Task
  changes,   \* so far
  job,       \* what each desktop does under the Task's lock, or None
  panel,     \* the attachments: [items, list, saving]
  handoff,   \* the handoff panel: [ready, selected, consent, approved, busy, prompt]
  setup      \* the desktops, which stay

store == <<files, rows, batches>>
worktree == <<copies, live, gates>>
window == <<panel, handoff>>
contextVars == <<store, worktree, changes, job, window, setup>>

Desktops == setup.desktops
Viewer == setup.viewer   \* the desktop whose window is modelled, or None
MaxFiles == setup.files  \* bound: files that are ever put

Ids == 1..MaxFiles

\* A mounted panel reads the list and asks for the preflight.
Asked == [at |-> "asked", rows |-> << >>]
Mounted == [items |-> << >>, list |-> Asked, saving |-> FALSE]
Targeted ==
  [ready |-> "asked", selected |-> << >>, consent |-> FALSE, approved |-> << >>,
   busy |-> FALSE, prompt |-> None]

Init ==
  /\ setup \in Setups
  /\ files = << >> /\ rows = << >> /\ batches = {}
  /\ copies = [i \in Ids |-> "none"] /\ live = TRUE /\ gates = {} /\ changes = 0
  /\ job = [d \in Desktops |-> None]
  /\ panel = Mounted /\ handoff = Targeted

Changes == changes < MaxChanges /\ changes' = changes + 1

-----------------------------------------------------------------------------
(* Import.                                                                 *)

\* A call waits for the lock of its process, and begins with a check of the rows.
Importing(size) == [kind |-> "import", at |-> "put", left |-> size, ids |-> << >>]

BeginImport(d, size) ==
  /\ job[d] = None
  /\ Len(rows) + size <= Limit
  /\ job' = [job EXCEPT ![d] = Importing(size)]

At(d, kind, at) == job[d] # None /\ job[d].kind = kind /\ job[d].at = at

\* A call has answered: what that does to the window of its desktop.
EndImport(d, saved) ==
  /\ job' = [job EXCEPT ![d] = None]
  /\ panel' = IF d # Viewer THEN panel
              ELSE [panel EXCEPT !.saving = FALSE, !.items = @ \o saved]

\* put: the directory's files are counted ...
CountFiles(d) ==
  /\ At(d, "import", "put")
  /\ IF Len(files) < Limit
     THEN job' = [job EXCEPT ![d].at = "open"] /\ UNCHANGED panel
     ELSE EndImport(d, << >>)
  /\ UNCHANGED <<changes, store, worktree, handoff>>

\* ... the file is made ...
OpenFile(d) ==
  /\ At(d, "import", "open") /\ Len(files) < MaxFiles
  /\ files' = Append(files, "partial")
  /\ job' = [job EXCEPT ![d].at = "write", ![d].ids = Append(@, Len(files) + 1)]
  /\ UNCHANGED <<changes, rows, batches, worktree, window>>

\* Mutant of WriteFile: the import goes on when a write has failed.
WriteFileAnyway(d) ==
  /\ At(d, "import", "write")
  /\ \/ files' = [files EXCEPT ![Last(job[d].ids)] = "whole"] /\ UNCHANGED changes
     \/ Changes /\ UNCHANGED files
  /\ job' = [job EXCEPT ![d].left = @ - 1,
                        ![d].at = IF job[d].left = 1 THEN "insert" ELSE "put"]
  /\ UNCHANGED <<rows, batches, worktree, window>>

\* ... and written, which may fail.
WriteFile(d) ==
  /\ At(d, "import", "write")
  /\ \/ /\ files' = [files EXCEPT ![Last(job[d].ids)] = "whole"]
        /\ job' = [job EXCEPT ![d].left = @ - 1,
                              ![d].at = IF job[d].left = 1 THEN "insert" ELSE "put"]
        /\ UNCHANGED <<changes, panel>>
     \/ Changes /\ EndImport(d, << >>) /\ UNCHANGED files
  /\ UNCHANGED <<rows, batches, worktree, handoff>>

\* insertBatch: one transaction; the trigger counts the rows.
InsertBatch(d) ==
  LET ids == job[d].ids
      fits == Len(rows) + Len(ids) <= Limit
  IN  /\ At(d, "import", "insert")
      /\ rows' = IF fits THEN rows \o ids ELSE rows
      /\ batches' = batches \union {Range(ids)}
      /\ EndImport(d, IF fits THEN ids ELSE << >>)
      /\ UNCHANGED <<changes, files, worktree, handoff>>

-----------------------------------------------------------------------------
(* Handoff.                                                                *)

\* inspectTaskContextHandoff, of all that other parts of the program decide.
CanPrepare == live /\ gates = {}

BeginHandoff(d, ids) ==
  /\ job[d] = None
  /\ job' = [job EXCEPT ![d] = [kind |-> "handoff", at |-> "check", left |-> 0, ids |-> ids]]

EndHandoff(d, prompt) ==
  /\ job' = [job EXCEPT ![d] = None]
  /\ handoff' = IF d # Viewer THEN handoff
                ELSE [handoff EXCEPT !.busy = FALSE, !.prompt = prompt]

\* The checks under both locks, of the target and of the records.
CheckTarget(d) ==
  /\ At(d, "handoff", "check")
  /\ IF CanPrepare /\ Range(job[d].ids) \subseteq Range(rows)
     THEN job' = [job EXCEPT ![d].at = "open"] /\ UNCHANGED handoff
     ELSE EndHandoff(d, None)
  /\ UNCHANGED <<changes, store, worktree, panel>>

Exported(d) == job[d].ids[job[d].left + 1]

\* readVerifiedContext of a copy: then the next one's turn.
Verified(d) ==
  IF copies[Exported(d)] # "whole" THEN EndHandoff(d, None)
  ELSE IF job[d].left + 1 < Len(job[d].ids)
       THEN job' = [job EXCEPT ![d].left = @ + 1, ![d].at = "open"] /\ UNCHANGED handoff
       ELSE EndHandoff(d, job[d].ids)

\* exportToWorktree: the source is verified, the copy is made unless it is there ...
OpenCopy(d) ==
  LET id == Exported(d)
  IN  /\ At(d, "handoff", "open")
      /\ IF files[id] # "whole" THEN EndHandoff(d, None) /\ UNCHANGED copies
         ELSE IF copies[id] = "none"
         THEN /\ copies' = [copies EXCEPT ![id] = "partial"]
              /\ job' = [job EXCEPT ![d].at = "write"]
              /\ UNCHANGED handoff
         ELSE Verified(d) /\ UNCHANGED copies
      /\ UNCHANGED <<changes, store, live, gates, panel>>

\* ... written, which may fail ...
WriteCopy(d) ==
  /\ At(d, "handoff", "write")
  /\ \/ /\ copies' = [copies EXCEPT ![Exported(d)] = "whole"]
        /\ job' = [job EXCEPT ![d].at = "verify"]
        /\ UNCHANGED <<changes, handoff>>
     \/ Changes /\ EndHandoff(d, None) /\ UNCHANGED copies
  /\ UNCHANGED <<store, live, gates, panel>>

\* ... and verified.
VerifyCopy(d) ==
  /\ At(d, "handoff", "verify")
  /\ Verified(d)
  /\ UNCHANGED <<changes, store, worktree, panel>>

-----------------------------------------------------------------------------
(* The window.                                                             *)

\* Refresh of the attachments; an answer on its way is dropped.
RefreshList ==
  /\ Viewer # None /\ ~panel.saving /\ panel.list # Asked
  /\ panel' = [panel EXCEPT !.list = Asked]
  /\ UNCHANGED <<changes, store, worktree, job, handoff>>

ReadList ==
  /\ Viewer # None /\ panel.list = Asked
  /\ panel' = [panel EXCEPT !.list = [at |-> "read", rows |-> rows]]
  /\ UNCHANGED <<changes, store, worktree, job, handoff>>

ShowList ==
  /\ panel.list.at = "read"
  /\ panel' = [panel EXCEPT !.list = [at |-> "shown", rows |-> << >>],
                            !.items = panel.list.rows]
  /\ UNCHANGED <<changes, store, worktree, job, handoff>>

\* save: one import at a time. A call that has to wait for the lock is made later.
Save ==
  /\ Viewer # None /\ ~panel.saving
  /\ \E size \in 1..MaxBatch : BeginImport(Viewer, size)
  /\ panel' = [panel EXCEPT !.saving = TRUE]
  /\ UNCHANGED <<changes, store, worktree, handoff>>

\* Refresh of the handoff, which keeps the selection and the consent.
RefreshHandoff ==
  /\ ~handoff.busy /\ handoff.ready # "asked"
  /\ handoff' = [handoff EXCEPT !.ready = "asked", !.prompt = None]
  /\ UNCHANGED <<changes, store, worktree, job, panel>>

ShowReadiness ==
  /\ Viewer # None /\ handoff.ready = "asked"
  /\ handoff' = [handoff EXCEPT !.ready = IF CanPrepare THEN "yes" ELSE "no"]
  /\ UNCHANGED <<changes, store, worktree, job, panel>>

Usable == handoff.ready = "yes" /\ ~handoff.busy

\* A change of the selection takes the consent and the prompt away.
Selects(ids) ==
  handoff' = [handoff EXCEPT !.selected = ids, !.consent = FALSE, !.prompt = None]

Select ==
  /\ Usable
  /\ \/ \E id \in Range(panel.items) \ Range(handoff.selected) :
          Selects(Append(handoff.selected, id))
     \/ \E i \in DOMAIN handoff.selected :
          handoff.selected[i] \in Range(panel.items) /\ Selects(RemoveAt(handoff.selected, i))
  /\ UNCHANGED <<changes, store, worktree, job, panel>>

Consent ==
  /\ Usable
  /\ handoff' = [handoff EXCEPT
       !.consent = ~@,
       !.approved = IF handoff.consent THEN << >> ELSE handoff.selected]
  /\ UNCHANGED <<changes, store, worktree, job, panel>>

Prepare ==
  /\ Usable /\ handoff.consent /\ handoff.selected # << >>
  /\ BeginHandoff(Viewer, handoff.selected)
  /\ handoff' = [handoff EXCEPT !.busy = TRUE, !.prompt = None]
  /\ UNCHANGED <<changes, store, worktree, panel>>

-----------------------------------------------------------------------------
(* What happens meanwhile.                                                 *)

\* The other desktops, without their windows.
OtherImport ==
  /\ \E d \in Desktops \ {Viewer} : \E size \in 1..MaxBatch : BeginImport(d, size)
  /\ UNCHANGED <<changes, store, worktree, window>>

OtherHandoff ==
  /\ \E d \in Desktops \ {Viewer} : \E id \in Range(rows) : BeginHandoff(d, <<id>>)
  /\ UNCHANGED <<changes, store, worktree, window>>

\* The agent works in the Worktree, the copies included.
AgentEdits ==
  /\ Changes
  /\ \E id \in Ids :
       copies[id] = "whole" /\ copies' = [copies EXCEPT ![id] = "changed"]
  /\ UNCHANGED <<store, live, gates, job, window>>

SessionEnds ==
  /\ Changes
  /\ live /\ live' = FALSE
  /\ UNCHANGED <<store, copies, gates, job, window>>

\* A gate starts under the Worktree's lock, which a handoff of its process holds.
GateStarts ==
  /\ Changes
  /\ gates = {}
  /\ \E d \in Desktops :
       /\ job[d] # None => job[d].kind = "import"
       /\ gates' = {d}
  /\ UNCHANGED <<store, copies, live, job, window>>

GateEnds ==
  /\ gates # {} /\ gates' = {}
  /\ UNCHANGED <<changes, store, copies, live, job, window>>

Crash ==
  /\ Changes
  /\ \E d \in Desktops :
       /\ job[d] # None
       /\ job' = [job EXCEPT ![d] = None]
       /\ gates' = gates \ {d}
       /\ IF d = Viewer THEN panel' = Mounted /\ handoff' = Targeted ELSE UNCHANGED window
  /\ UNCHANGED <<store, copies, live>>

Acts ==
  \/ \E d \in Desktops :
       \/ CountFiles(d) \/ OpenFile(d) \/ WriteFile(d) \/ InsertBatch(d)
       \/ CheckTarget(d) \/ OpenCopy(d) \/ WriteCopy(d) \/ VerifyCopy(d)
  \/ RefreshList \/ ReadList \/ ShowList \/ Save
  \/ RefreshHandoff \/ ShowReadiness \/ Select \/ Consent \/ Prepare
  \/ OtherImport \/ OtherHandoff \/ AgentEdits \/ SessionEnds
  \/ GateStarts \/ GateEnds \/ Crash

Next == Acts /\ UNCHANGED setup

Spec == Init /\ [][Next]_contextVars

-----------------------------------------------------------------------------
(* What must hold.                                                         *)

\* importTaskContext: whatever fails or runs at the same time, a row's file is
\* whole, an import is in the database as a whole or not at all, within the limit.
ImportsAreWhole ==
  /\ \A i \in 1..Len(rows) : files[rows[i]] = "whole"
  /\ \A batch \in batches : batch \subseteq Range(rows) \/ batch \cap Range(rows) = {}
  /\ Len(rows) <= Limit /\ IsInjective(rows)

\* The window shows, as saved, only what is stored.
ShownIsStored == Range(panel.items) \subseteq Range(rows)

\* prepareTaskContextHandoff: the prompt that is shown names the selected files,
\* whose copies were whole when they were found, and later ones were not theirs.
PromptIsTrue ==
  handoff.prompt # None =>
    /\ handoff.prompt = handoff.selected
    /\ \A id \in Range(handoff.prompt) : copies[id] \in {"whole", "changed"}

Copying(d) == job[d] # None /\ job[d].kind = "handoff" /\ job[d].at \in {"open", "write", "verify"}

\* No file is copied that the user has not approved in just this selection, nor
\* while the same desktop runs a gate in the Worktree.
CopiesAreApproved ==
  /\ Viewer # None =>
       (Copying(Viewer) => job[Viewer].ids = handoff.approved /\ handoff.consent)
  /\ \A d \in Desktops : Copying(d) => d \notin gates

\* All of these.
ContextIsKept == ImportsAreWhole /\ ShownIsStored /\ PromptIsTrue /\ CopiesAreApproved

-----------------------------------------------------------------------------
(* Not true: what the docs, the comments or the layout of the code suggest.*)

\* Not true: each attachment that was saved stays in the list, and once (the list
\* that a Refresh asked for before the import replaces the items or is added to).
ListIsWhole ==
  /\ IsInjective(panel.items)
  /\ panel.list.at = "shown" /\ ~panel.saving => Range(panel.items) = Range(rows)

\* Not true: "Existing matching copies are reused" (docs/context-handoff.md): one
\* that a failed write or a crash left behind never matches, so that each later
\* handoff of the attachment fails.
CopiesCanBeReused ==
  (\A d \in Desktops : job[d] = None) => \A id \in Ids : copies[id] # "partial"

\* Not true: "the store bounds orphan count" (task-context.ts): two desktops count
\* the files before either makes one.
FilesAreBounded == Len(files) <= Limit

\* Not true: no gate of the Task runs while files are copied into its Worktree: one
\* of the other desktop may.
NoGateMeetsACopy == \A d \in Desktops : Copying(d) => gates = {}

-----------------------------------------------------------------------------
(* An inductive invariant.                                                 *)

\* What the proofs assume: a window is that of a desktop.
WellFormed ==
  /\ Limit \in Nat
  /\ \A s \in Setups :
       s.viewer \in s.desktops \cup {None} /\ None \notin s.desktops /\ s.files \in Nat

Jobs ==
  [kind : {"import"}, at : {"put", "open", "write", "insert"}, left : Int, ids : Seq(Ids)]
    \cup [kind : {"handoff"}, at : {"check", "open", "write", "verify"}, left : Nat,
          ids : Seq(Ids)]

Panels ==
  [items : Seq(Ids), list : [at : {"asked", "read", "shown"}, rows : Seq(Ids)],
   saving : BOOLEAN]

Handoffs ==
  [ready : {"asked", "yes", "no"}, selected : Seq(Ids), consent : BOOLEAN,
   approved : Seq(Ids), busy : BOOLEAN, prompt : Seq(Ids) \cup {None}]

TypeOK ==
  /\ setup \in Setups
  /\ files \in Seq({"partial", "whole"}) /\ DOMAIN files \subseteq Ids
  /\ rows \in Seq(Ids) /\ Range(rows) \subseteq DOMAIN files
  /\ batches \subseteq SUBSET (DOMAIN files)
  /\ copies \in [Ids -> {"none", "partial", "whole", "changed"}]
  /\ gates \subseteq Desktops
  /\ job \in [Desktops -> Jobs \cup {None}]
  /\ panel \in Panels /\ handoff \in Handoffs

Does(d, kind) == job[d] # None /\ job[d].kind = kind

\* The files of an import are whole but for the one that is written, and nobody
\* else's.
FilesAreOfOne ==
  /\ \A d \in Desktops : Does(d, "import") =>
       /\ Range(job[d].ids) \subseteq DOMAIN files \ Range(rows)
       /\ \A batch \in batches : batch \cap Range(job[d].ids) = {}
       /\ IsInjective(job[d].ids)
       /\ \A i \in DOMAIN job[d].ids :
            files[job[d].ids[i]] = "whole" \/ (job[d].at = "write" /\ i = Len(job[d].ids))
       /\ job[d].at = "write" => job[d].ids # << >>
  /\ \A d, e \in Desktops :
       d # e /\ Does(d, "import") /\ Does(e, "import")
         => Range(job[d].ids) \cap Range(job[e].ids) = {}

Found(id) == copies[id] \in {"whole", "changed"}

\* A handoff has found the copies of the files that it has done, and its process
\* starts no gate.
HandoffsVerify ==
  \A d \in Desktops : Does(d, "handoff") =>
    /\ job[d].left < Len(job[d].ids)
    /\ \A k \in 1..job[d].left : Found(job[d].ids[k])
    /\ job[d].at # "check" => d \notin gates
    /\ job[d].at = "check" => job[d].left = 0

\* What the window shows and waits for.
WindowFollows ==
  /\ ShownIsStored /\ Range(panel.list.rows) \subseteq Range(rows)
  /\ handoff.consent => handoff.approved = handoff.selected
  /\ handoff.ready # "asked" => Viewer # None
  /\ Viewer # None /\ Does(Viewer, "handoff") =>
       handoff.busy /\ handoff.consent /\ job[Viewer].ids = handoff.selected
  /\ PromptIsTrue

IInv == TypeOK /\ ImportsAreWhole /\ FilesAreOfOne /\ HandoffsVerify /\ WindowFollows
=============================================================================
