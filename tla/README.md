# AgentTerm in TLA+

AgentTerm is a desktop application (Electron, TypeScript, SQLite) that runs
coding agents in terminals. A *Project* is a local Git repository, a *Task* is a
piece of work on it with its own Git Worktree, and an *Agent Session* is one run
of an agent process in that Worktree. A Task goes from BACKLOG over PLANNING,
RUNNING and REVIEW to DONE; agents, quality gates (commands such as a test run)
and reviews act on it in between.

This directory models the part of it that decides *who may write in a Worktree,
when a Task may move on, and on which evidence*: that is where processes,
transactions, callbacks and crashes meet. Every definition is translated from
the source; the comments in the modules name the functions by the names they
have there, and `PROJECT.json` gives the lines.

## 1. Inventory

"Store" below is the SQLite database. Each of its methods runs synchronously:
one transaction, which is one atomic step. Everything above it is asynchronous
and interleaves at every `await`.

| Component | State | Operations | What is hard |
|---|---|---|---|
| Session history (domain) | an append-only event list, a status replayed from it | record a status, a stop request, a failure, an exit; `hasUnsettledTaskCodeWriter` | which event sequences are legal; which ones prove that the process is gone |
| Session store | `agent_sessions`, `agent_session_events` | insert (with the writer check), append (compare-and-set on the length), list | two inserts for one Task; appends from stale snapshots |
| Session coordinator | owned runtimes, a promise chain and an event buffer per runtime, start and stop promises | start, stop, reportStatus, runtime events | events before `open` returns; stop racing exit; failures of the store in the middle |
| ConPTY handle, host client, host | handle state, pending requests, timers, the IPC channel | open, write, resize, terminate, exit | time-outs, late answers, a channel that breaks, either process dying |
| Restart recovery | the list read at startup | settle lost Sessions, resume one per Task | crash between two steps, resume while others are still listed, abandoned startup |
| Quality gates | `quality_gate_runs`, a process tree per run | run, finalize, reconcile at startup | finalize against reconcile, crash before finalize, a process that cannot be killed |
| Locks | per process and Task: a workflow lock, a Worktree lock (promise queues) | serialize | held across long awaits; not shared between processes |
| Reviews | `task_reviews` with evidence | request, approve, request changes | evidence read with many awaits before the transaction |
| Research, planning, phases | Task phase, artifacts, audit log | transition, automatic advance, create and accept a plan | calls with no lock beside calls with one |
| Dependencies | pairs of Tasks | add, remove, block starts | cycles closed by two concurrent additions |
| Worktree lifecycle | `task_worktrees` (PROVISIONING, PRESENT, REMOVING, REMOVED), Git's own registration, the directory | ensure, inspect, clean up | a crash between a checkpoint and its Git step |
| Gate runner | a process, on Windows a Job host around it, kept output, two timers | run | a time-out beside the end of the process, lost hosts and pipes, a value cut by the output limit |
| Gate catalogue | `quality-gates.json`, a Map per main process, the window's list | register, remove, list, import, export | a torn file, two processes with one file, a list read before a change |
| Review inspection | none | two captures of a Worktree, compared | seven Git commands and file reads beside edits |
| Merge probes, repository inspection | a cached executable and version | check, inspect | several commands over a repository that changes |
| Pull requests | one row and a history per Task; the branch and the Pull Request on GitHub | inspect, push, create, refresh, record | answers out of order, a clock that is set back, others on GitHub |
| Settings, layout, plugin bindings | a document with a revision | load, update | two windows on one revision |
| Workflow plugins | plugin files, a binding per Task, the panel | install, switch, remove, advance, resolve | files rewritten behind a binding, overlapping requests of one panel |
| Task context | private files, rows, copies in the Worktree, two panels | import, list, preflight, hand off | an import that fails half-way, copies that a crash left, a stale preflight |
| Session notes | artifacts of the Task, the overlay | submit, store | the Task or its Session moves on meanwhile |
| MCP server | the stdio buffer, the connection's state | initialize, list and call read-only tools | lines cut into chunks, oversized lines |
| Workspace controller | a snapshot, generations of requests, the chain of layout saves | load, refresh, select, inspect, act, save | stale answers after a later command |
| Terminals | attachment and input queue per pane, the holder per Session | attach, type, paste, detach | answers of an older attachment, renders that replace a controller |
| Pane layout | tabs, panes, focus, revision | open, split, close, reconcile, restore | long sequences of legal commands |
| Command palette, mnemonics | query, active entry, recent commands | search, move, run | a list rebuilt under the user's hand |
| Projects, read models (overview, activity, attention, MCP views) | rows; none | register, list; projections | none that a model checker reaches, but for the inspection above |
| Agent adapters, migrations, website | none | command lines; SQL scripts; static pages | none that a model checker reaches |

How they interact. The desktop main process composes everything
(`desktop-application.ts`): IPC handlers call use cases, use cases take the
workflow lock of the Task (and, where a Worktree is used, its Worktree lock),
call Git and the store, and hand agents to the coordinator. The coordinator
receives callbacks of the runtime. Two desktop processes share only the data
directory (the store, `quality-gates.json`, the files of Task context) and the
Worktrees, and nothing stops a user from starting two (`main.ts` takes no
single-instance lock). When the application quits (`will-quit`) it closes the
store without stopping agents or gates: for the store that is a crash.

What makes each component correct:

* Sessions: one writer per Task; a Session is settled only when its process is
  gone; what is unsettled can be stopped; a stored history can be read back.
* Gates: an observed verdict implies that the process tree has ended; a row is
  final; a crash leaves no row RUNNING for ever; calls return.
* Reviews: open and approved Reviews match the phase; nothing writes meanwhile;
  the evidence and the code are those the user decided on.
* Planning: agents run in the phase they were started for; execution follows the
  latest accepted plan and planning follows research; moves are audited; the
  dependency graph has no cycle and blocks starts.
* Worktrees: no work is lost by a cleanup, an interrupted operation can be
  resumed, the branch survives.
* The ConPTY host: a promise resolves only for what was done; an
  exit means that the process has ended; every request comes back.
* Gate runner: a verdict means that the command has ended; something always ends
  the wait; no redacted value is in the output. Catalogue: what was answered as
  registered is on disk.
* Review inspection, probes: what is answered was true in one moment.
* Revision stores, plugins, pull requests: no update is lost, an older snapshot
  never replaces a newer one, an active phase is one that the plugin declares.
* Task context, notes: imports are whole or absent; only approved files are
  copied; a stored note is what was submitted, with the phase of that moment.
* Window: what is shown belongs to what is selected; typed input reaches the
  Session it was typed for; no pane shows a foreign Session; the palette runs what
  it shows. MCP: each line is answered once, in order, however it was cut.

`PROJECT.json` lists every component with what is modelled of it, and under
"hazards" each place where this code could go wrong in a way a test would hardly
reach.

## 2. Modules

| Module | Models | Composes |
|---|---|---|
| `SessionHistory` | event kinds, status table, replay, the writer-settlement rule | |
| `TaskWriterLease` | abstract: the right to write in a Worktree as a lease | |
| `AgentSessions` | store, coordinator, ConPTY handle, agent process, restart recovery | `SessionHistory`, implements `TaskWriterLease` |
| `QualityGates` | gate rows, processes, calls, reconciliation, several desktops | |
| `TaskReviews` | Reviews, evidence, agents and gates that write, both locks, several desktops | `TaskWriterLease`, `QualityGates` |
| `TaskPlanning` | research, advance, plans, audit, dependencies, agent starts | `TaskWriterLease` |
| `TaskWorktrees` | the Worktree record, Git and the directory; ensure and cleanup | |
| `PtyContract` | abstract: what the runtime promises the coordinator about one agent process | |
| `PtyHost` | handle, host client, IPC channel, host process, agent | implements `PtyContract` |
| `GateProcess`, `GateOutput` | the runner of one gate command; the output it keeps and redacts | |
| `QualityGateCatalogue` | the catalogue with its file, imports and exports, the window's list | |
| `ReviewCapture` | the inspection of a Review's code, with edits in between | |
| `GitProbes` | merge probes and repository inspections | |
| `PullRequests` | branch, GitHub, store and window of one Pull Request | |
| `SettingsStore` | the settings row and the windows that save to it | |
| `PluginBindings` | plugin files, the bindings of Tasks, the panel | |
| `TaskContext` | imported files, their handoff, both panels | |
| `SessionNotes` | notes from the overlay to the store, and the Reviews after them | |
| `WorkspaceController` | the window's snapshot and its requests | |
| `LayoutSaving`, `PaneLayout` | saving the layout; tabs, panes, reconciliation, validation | |
| `Terminals` | one pane, its controller, the main process's attachments | |
| `CommandPalette` | commands, search, recent strip, keys | |
| `McpServer` | the stdio loop and the connection | |
| `DesktopParts` | the parts of the desktop without Session or Task state, and the variables they share | |
| `Desktop` | the parts about the store and the window's requests | `DesktopParts`, `WorkspaceController`, `LayoutSaving`, `SettingsStore`, `PluginBindings`, `SessionNotes`, `TaskContext` |
| `DesktopPanes` | the panes and their terminals | `DesktopParts`, `PaneLayout`, `Terminals` |
| `DesktopGit` | the parts that ask Git and GitHub | `DesktopParts`, `ReviewCapture`, `GitProbes`, `PullRequests` |
| `DesktopServices` | the runner of a gate, the catalogue, the MCP server | `DesktopParts`, `GateProcess`, `QualityGateCatalogue`, `McpServer` |
| `MCDesktop` | all of these, those of which nothing is proved, and small values | `Desktop`, `DesktopPanes`, `DesktopGit`, `DesktopServices`, `GateOutput`, `CommandPalette` |
| `AgentSessions_proof`, `QualityGates_proof`, `TaskReviews_proof`, `TaskPlanning_proof`, `TaskWorktrees_proof`, `PtyHost_proof`, `Desktop_proof`, `DesktopPanes_proof` | theorems; `TaskWorktrees_proof` also about `DesktopGit`, `PtyHost_proof` about `DesktopServices` | |
| `MC*` | instances for TLC | |

`AgentSessions` is the detailed model of Sessions. Above it the other modules
need only what it guarantees: a Session takes the lease with its insert and
gives it up when its history settles. That is `TaskWriterLease`; `LeaseSpec` is
checked and proved, and `TaskReviews` and `TaskPlanning` use the lease's actions
in place of the coordinator. Below it, `PtyContract` says what `AgentSessions`
takes for granted about a handle (events come in an order that ends with one
exit, and an exit means that the process has ended), and `PtyHost` is shown to
keep it.

### AgentSessions

State: `hist` is the store; `proc` the operating system; the rest is memory of
the one desktop process and is lost on `Quit`. A handler is split at every
await that touches shared state. An append is "read a snapshot, compute the next
event, compare-and-set on the length": because a history only grows, the length
read (`seen`, `stopSeen`) stands for the snapshot.

* `StartCall`, `Insert`, `CommandBuilt`/`LaunchFails`, `Opened`,
  `InitialInputWritten`/`Fails`, `FailedStartReturns`: `start`.
* `OperationReads`, `OperationAppends`, `OperationFails`, `FailureCleaned`,
  `EventIgnored`: one operation of the runtime's promise chain (`tail`).
* `StopCall` ... `StopRecords`: `stopOnce` with its flush, the stop request,
  `terminate` and its failure path.
* `ProcessDies`, `ExitDelivered`, `KillFails`, `TerminalOperationFails`: process,
  host and handle.
* `Quit`, `Launch`, `RestoreSession`, `RestoreFails`, `AutoResume`,
  `ResumeRefused`, `RestoreDone`: the end of the process and the recovery by the
  next one.

Simplifications: one desktop process (two on one store are the subject of
`QualityGates`, `TaskReviews` and `TaskPlanning`); the phase and dependency
checks of `insert` are the nondeterministic refusal `InsertRefused`; times,
exit reasons and the deduplication of runtime sequences are left out; a failed
resize is treated as a failed write; the desktop never passes the reattach
callback, so recovery never reattaches.

### QualityGates

`GateCall` takes the Worktree lock and checks; `GateInsert` and `GateFinalized`
are the two transactions; `GateSpawned`, `GateEnds`, `GateObserved` are the
runner; `GateUnsettled` is a result that says that the process could not be
killed: the call gives up and leaves the row RUNNING.
`ReconcileStarts`, `ReconcileRow`, `ReconcileDone`, `ReconcileFails` are
`reconcileOrphanQualityGateRuns`. A reconciled row is told apart from one that
was observed to fail ("RECONCILED"), as its output reference does in the code.
`phase` belongs to others: `PhaseMoves` lets them do anything their own
transactions permit.

### TaskReviews

The Task from RUNNING to DONE. `code` numbers the versions of what is in the
Worktree; agents and gates of any desktop process increase it. `strayed` records
that a process wrote after the store had settled it, which happens only when it
outlived the desktop process that accounted for it. A request is
`ReviewCall`, `TakesWorktree`, `RequestReads`, `RequestCollects`,
`RequestInspects`, `BeginReview`; an approval is `ApproveReads`,
`ApproveInspects`, `Approve`; a change request takes only the workflow lock.
`AttemptCall` and `ResumeCall` are the starts of agents up to the insert; the
gates are an instance of `QualityGates`. An idempotent repeat of a request
changes nothing and appears as a returning call. A human who edits files in the
Worktree is not modelled: the application cannot know about it, and `approve`
then refuses because the inspected state differs.

### TaskPlanning

The Task from BACKLOG to RUNNING. `serializeTaskWorkflow` is `busy`; the calls
without a lock (`transitionTask`, the automatic advance, `createExecution-
Artifact`, `addTaskDependency`) do not touch it. Starts in three phases share
`StartCall`/`StartInserts`. The audit row is a step of its own after the phase
update (`TransitionUpdates`, then `TransitionAudits` or `AuditFails`), as in
`transitionTask`. Reachability (`Reaches`) is defined by closed sets, the meaning
of the recursive query. `createTaskPlan` is left out: nothing in the desktop
calls it, `createExecutionArtifact` is what runs.
### TaskWorktrees

The Worktree of one Task. `record` is the row of `task_worktrees`, `tree` what
Git and the file system hold (a stale registration is one whose directory is
gone, a leftover a directory that Git does not know), `files` what is not
committed in it, told apart as far as the code does: ignored files, which
`git status` does not show; unsaved changes; staged changes, which survive the
directory in Git's administration directory. A call holds the Task's operation
lock (`Free`) from its first step to its last. `EnsureCall`, `Reserve`,
`GitInspects`, `GitBranches`, `GitAdds`, `GitVerifies`, `RecordPresent` are
`ensureTaskWorktree` and `git.ensure`; `CleanupCall`, `MarkRemoving`,
`GitInspectsClean`, `GitRemoves`, `RecordRemoved` are `cleanupTaskWorktree` and
`git.cleanup`; both share the adoption of a Worktree without a row. `CallFails`
ends a call with an error anywhere, `Restart` with the process. A Git command
that is cut off has done its work or not; a half-made `worktree add` is not
modelled. Metadata mismatches, locked registrations and foreign branches are
errors of a call. `ADR-006` leaves several processes out of the contract and
demands that no agent runs during a cleanup; both are assumed. Nothing in the
desktop calls `cleanupTaskWorktree` yet.

### PtyHost

The client in the desktop process and the host process exchange messages over
`down` and `up`; either end, the channel (`connected`) and the agent may go at any
step. `Open`, `Call`, `ReceiveReady`, `ReceiveData`, `ReceiveResponse`,
`ReceiveExit`, `Disconnects`, `Close`, `StartupTimerFires` and `TimerFires` are the
methods and callbacks of `WindowsConPtyHostClient` and the handle; the `Host...`
actions are those of `windows-conpty-host.cjs`. A time-out fails the whole host,
so a late answer meets a request that is already rejected. The contents of
launches, input and output are left out. `Contract` maps the process of
`PtyContract` to the host, not to the agent: it is the end of the host that the
client waits for.

### The gate runner and its catalogue

`GateProcess`: the command (`root`) and a process it may start (`child`); on
Windows the host of the Job with its steps and its report; the runner with its
two timers. Elsewhere only `root` is killed and waited for, as in the code.
`GateOutput` cuts the output into chunks anywhere; bytes are symbols, and only one
stream is redacted (the second redaction of stdout and stderr joined in one field
is left out). `QualityGateCatalogue`: a register or import is a job of the main
process that writes the file after each gate; a crash leaves it torn, a failed
write leaves the Map ahead of the file. The main process takes one call after the
other because none of its steps waits for anything. A gate is its id and whether
the rules allow it.

### Git: ReviewCapture and GitProbes

`ReviewCapture`: each command of `inspect` is a step that reads the Worktree as it
then is; `Edits` change files, index, head, branch and flags in between. A file is
two blocks, a hash is what was hashed. Symbolic links are refused, as on Windows;
submodules are left out. What must hold is stated against `past`, the states of the
Worktree during the capture. `GitProbes` does the same for `checkTaskMergeConflicts`
and for `inspect` of a repository, with the cache of the executable and the
version; the hunks of a conflict and the prompt, which the desktop discards, are not
modelled.

### PullRequests

Each exchange with Git or GitHub is a step (`PushInspects` ... `Records`); others
push, merge, close and retarget in between, `gh` signs out, the clock is set.
Paging and the many malformed answers are one refusal. A clock that is set back
makes a newer snapshot look older: the refreshed one is then dropped without a
word, which the property allows, as it forbids only the other direction.

### Revision stores: SettingsStore, LayoutSaving, PluginBindings

`SettingsStore` has two windows whose saves inspect executables between the
compare and the store. `LayoutSaving` has one window with its timer, the chain of
attempts and a refresh that replaces the revision; a layout is the number of the
change that made it. `PluginBindings` has the requests of a panel in order, the
dialogs that are open, edits of the files, and the mirror of bindings in the
window; the main process loads and stores in one turn, because both are
synchronous there. The panel shows one advance at a time, so that the advances of two
Tasks may overlap: TLC has one Task, the theorem `BindingsAlwaysSound` any number.

### TaskContext and SessionNotes

`TaskContext`: an import writes file after file and then all rows in one
transaction; a handoff checks, then opens, writes and verifies each copy. Gates,
edits by the agent, the end of the Session, failed writes and crashes are bounded by
`MaxChanges`. `setup` says which desktops there are and which of them has the window;
`Init` chooses it and nothing changes it. All files are small text files (other types are never copied), the
preflight reads in one moment, and the preview of a saved text is left out.
`SessionNotes` follows a note from the palette or the slash command over the
controller to the insert; a note's text is blank or not. It assumes that the
window can encode a note: `session-note-capture-overlay.tsx` takes Node's `Buffer`
for it, which a sandboxed window does not have.

### The window: WorkspaceController, PaneLayout, Terminals, CommandPalette

`WorkspaceController` keeps of each kind of request only the one whose answer may
still be published; bumping a generation forgets it. The reload at the end of an
action carries no generation of its own, and an action that throws in an
unforeseen place leaves `activeAction` set; both are modelled as they are.
`PaneLayout` has the commands on tabs and panes, `reconcile`, `Valid` (the
validator) and the restore. `Terminals` is one pane with React's effects, the
controller's queue and acknowledgements, and the attachments of the main
process, with messages in flight both ways. `CommandPalette` computes the commands
of a context, the search and the list as the code does, with labels as short texts.
Two commands may have one id; one of the contexts of `MCDesktop` is such a case, and
`PaletteIsSound` says nothing of it.

### McpServer

Symbols stand for messages and for parts of one; "bad" is a byte that is not UTF-8.
A chunk may end anywhere; what is answered is compared with `Session`, which reads the
whole input symbol by symbol. The token of a call always matches: the process that
starts the server hands it over. The read-only tools are one answer.

### DesktopParts, Desktop, DesktopPanes, DesktopGit, DesktopServices and MCDesktop

The parts above (without `PtyHost`) do not act on each other's variables. Exploring
their product would show nothing, so each is instantiated over the same slots `v1`
... `v14` of `DesktopParts` and taken one beside the other: `MCInit` picks a part of
`Parts`, `MCNext` steps it, and each property speaks of its part. To look at one
part alone, give `Parts` just its name.

Four modules have the parts of which something is proved. They are four because each is
the context of a proof module, and the prover is slow in a large one; their
specifications are `Spec`, `PanesSpec`, `GitSpec` and `ServicesSpec`. `MCDesktop` puts them
together with the others (`MCInit`, `MCNext`, `MCSpec`) and is what TLC runs. A behaviour of
`MCSpec` whose part is one of `Desktop`'s is a behaviour of `Desktop`'s `Spec`, and
likewise for the other three.

## 3. Runs

| Run | Shows | Bounds |
|---|---|---|
| `sessions` | one writer, settled means stopped, one owned process, every writer can be stopped, the lease refinement | 2 Sessions of 1 Task, status reports, caller-driven events stop at history length 3 |
| `sessions_live` | the inductive invariant of the proofs (with `HistoriesReplay`), finality of settlement; a stop returns and exits are recorded (`EndsAreTold`) | 1 Session, one store fault, two statuses, length 5 |
| `gates` | `GInv` (from which one gate at a time follows), rows are final; calls return and orphans are settled (`GatesComeBack`) | 2 runs, 2 desktops, one store fault |
| `reviews` | phase and Reviews agree and REVIEW is quiet (`ReviewsGovernTask`); evidence and code are current (`EvidenceHolds`) | 2 desktops of which the second may start at any time, 1 Session, 1 gate, 2 Reviews, 2 calls |
| `reviews_quit` | the evidence with quits, resumes and artifacts, and with agents and gates that outlive their desktop | 1 desktop that may quit, 2 Sessions, 1 gate, 1 Review, 2 calls, 1 artifact |
| `reviews_live` | every call gets its locks and returns | 1 desktop that may quit, 1 Session, 1 gate, 1 Review, 2 calls |
| `planning` | the inductive invariant (phase, research, audit), agents fit the phase, the plan governs, dependencies have no cycle and block starts | 2 Tasks (one with 2 Sessions and 2 plans), 2 desktops of which one may quit, 2 calls, a failing audit |
| `worktrees` | the inductive invariant (the record is honest, one direction at a time), no work is lost; interrupted operations can be finished | 2 calls, 4 failures, restarts and deletions |
| `pty` | no false success, an exit means ended, the contract is kept; requests, terminations and agents come to an end (`EverythingEnds`) | 2 requests, 1 output |
| `desktop` | one property for each part of `MCDesktop` | see below |
| `terminals_attached` (violation) | a pane that says "connected" is not attached after a render | 1 Session, 1 render |
| `notes_review` (violation) | a stored note keeps its Task from every Review | 1 note |

Bounds of `desktop`. Layout: 2 Tasks, 2 starts, 2 tabs. Controller: 2 Tasks, 1
foreign save. Saving: 4 changes, 1 failure. Settings: 2 windows, 2 revisions.
Bindings: 1 Task, 1 file with 3 contents, 2 requests in flight. Pull requests: 3
commits, 2 Pull Requests, 3 operations, 3 changes by others. Terminals: 2 Sessions, 2
attachments, 2 inputs, 1 end. Output: 7 symbols, a limit of 3. Capture: 1 path from 3
starts and 2 paths from 1, 2 edits. Probes: 2 files, 2 commits, 2 changes, 2 calls. Palette: 7 contexts, 4 inputs.
Notes: 2 Tasks, 3 Sessions, 1 note, 2 changes. Context: two desktops without a window
and 3 files, one desktop with its window and 2 files; 1 change. Catalogue: 2 desktops,
2 calls, 1 failure. MCP: 5 symbols of 5 kinds, a limit of 2. Larger bounds were
tried for parts by themselves and held: capture with 2 paths and 3 edits (2 530 146
states), notes with 3 changes (250 072), the context of one desktop with 2 changes
(157 000), the catalogue with 3 calls (339 000), MCP with 6 symbols of 4 kinds (67 000).

Why the bounds suffice. Races of this code are between two actors over one Task,
so two calls, two desktops or two Sessions meet in every order. A Session history
settles within five events (start, working, stop request, terminate failure,
exit), so length 5 reaches each status. The shortest
cycle that two concurrent additions can close has two Tasks. Two plans make one
of them stale. A second store fault of one Session takes no other path through
the handlers than the first. Symmetry is used for interchangeable ids only, and
in no run that checks liveness.

Deadlock is not checked anywhere: a Task may be DONE, all Session ids may be
used up and nobody has to act.

Violations. Two runs show that the code does something else than a document says.
Further such places are definitions marked "Not true": each is a property that a
document, a comment or the layout of the code suggests, and that TLC refutes. For
a part of `MCDesktop` add a definition such as
`X == part = "catalogue" => QC!NoGateIsOverwritten`, give `Parts` that part only, and
name `X` in the cfg (`X == GI!GitIsFoundAgain` and `X == CP!HoverActivates` are action
properties); for the other modules name the definition in the cfg of the
module's run (`AgentsDoNotOverlap` in that of `reviews_quit`). All of them are
"findings" of `PROJECT.json` or variants of one:

* `QualityGates.LostRaceIsSkipped`, `TaskPlanning.AdvanceNeverRaises` and
  `EveryMoveIsAudited`, `TaskReviews.AgentsDoNotOverlap`;
* `QualityGateCatalogue.NoGateIsOverwritten`, `GatesSurviveCrashes` (with one
  desktop), `ImportsAreAnswered`, `RefusedIsNotConfigured`, `ShownIsCurrent`;
* `GateOutput.NothingOfAValueShows`, `ReviewCapture.HiddenEntriesAreRefused` and
  `ChangesFitTheHead` (with three
  edits), `GitProbes.CleanMeansMergeable` and `GitIsFoundAgain`;
* `LayoutSaving.SavedOrRefused`, `PluginBindings.PersistedIsShown`,
  `PaneLayout.UniqueIds`;
* `TaskContext.ListIsWhole`, `CopiesCanBeReused`, `FilesAreBounded`,
  `NoGateMeetsACopy` (no document promises the last);
* `SessionNotes.NoteIsKeptOrShown` and `NoteStaysWithItsSession`;
* `CommandPalette.RunsWhatIsShown` and `ListsEachOnce` where two commands have one
  id (a gate called `register`; both properties ask for unique ids),
  `MnemonicsRun`, `HoverActivates`, `LiteralMatchIsFound`.

## 4. Fairness

Safety needs none. For liveness the event loop runs what is ready (weak fairness
of each call's next step); a host request is answered or times out
(`HOST_OPERATION_TIMEOUT_MS`); a process that was killed or lost its host ends
(`MustDie`), and a gate ends because its host enforces the timeout. The locks are
promise queues, so a waiter is not overtaken for ever: the models let any waiter
go first and assume strong fairness of taking the lock. Nobody has to start,
stop, report, relaunch or decide anything, and an agent need not end by itself.

`StopComesBack` needs that no statuses are reported for ever (`ReportsEnd`): the
flush loop of `stop` starts over whenever the chain has grown. Nothing in the
desktop calls `reportStatus` today. `ExitIsRecorded` exempts a runtime that
has recorded a persistence failure: its exit is not stored until the next start.

`EverythingEnds` needs that messages are read and timers fire (`ClientStep`,
`HostStep`), that a host that was killed dies and that Windows ends an agent whose
pseudo console was closed. `RetriesFinish` of `TaskWorktrees` needs that a call's
next step is taken and that an ensure and a cleanup that can be called for ever are
called again (strong fairness of `EnsureCall` and `CleanupCall`). `MCDesktop` states no liveness.

## 5. Proofs

TLAPS checks the following for any number of Sessions, Tasks, desktops and
histories of any length; the bounds of the runs are not assumed (a bound in a
guard only removes steps).

`AgentSessions_proof` begins with lemmas about histories: what appending an event
does to the status, that it preserves replay, that settlement is never undone. It
proves `TypeCorrect`, `Inductive`, `OneWriterAlways`, `HistoriesAlwaysReplay`,
`SettlementFinal` and `ImplementsLease`. The invariant is

    IInv == TypeOK /\ WorkIsBacked /\ LaunchIsAlone /\ CallsRemember
              /\ HistoriesReplay /\ OneWriter

`OneWriter` is preserved by the insert because its transaction looks for another
writer, and by every append because settlement is final and an append never
unsettles anything; the latter needs `HistoriesReplay`, and that in turn that
every recorded event is legal after the snapshot it was computed from. For an
append on an unmoved history this is the status table. Two places do not look at
the status: a launch failure is recorded on the history the start call inserted
(`LaunchIsAlone`: nobody else has appended) and a terminate failure on the
history the stop call read (`CallsRemember`: it was not EXITED, and an unmoved
length means that it still is the same). `WorkIsBacked` says that nothing works
for a Session without a row. The refinement `ImplementsLease` follows from
`IInv`: a step either inserts (Acquire), settles (Release) or leaves both sets.

What relates the store to processes and to the memory of the desktop needs more:

    SInv == EvidenceSettles /\ NotYetSpawned /\ ExitsAreReal /\ RuntimesAreBorn
              /\ LaunchedIsOwned /\ SettledMeansStopped

A history is settled by an exit or by a failure of the launch (`EvidenceSettles`).
The runtime events that record these wait behind others in a buffer or in the
chain, and they are there only when the process is dead (`ExitsAreReal`); a failure
that is recorded without such an event comes before the handle was opened
(`NotYetSpawned`). Every Session that this run of the desktop works for was
inserted by it (`RuntimesAreBorn`), and once launched it is owned until its end is
stored (`LaunchedIsOwned`). `StronglyInductive` proves both invariants;
`SettledHasStopped`, `OneOwnedAlways` and `WriterOwnedAlways` follow.

`TaskWorktrees_proof` proves `RecordAlwaysHonest`, `AlwaysOneDirection` and
`NoWorkIsLost` for any number of calls and failures. The invariant adds to the
two properties that calls are serialized (`Serialized`), that what a call has
read still holds except for what the user removed (`ReadsHold`: every checkpoint
is a compare-and-set on it), and where uncommitted work can be (`WorkIsHeld`).

`QualityGates_proof` proves `GateInvariant`, `GatesNeverOverlap` and
`RowsStayFinal` for any number of runs, desktops and failures. `GInv` says for
each place of a call which row and which process go with it
(`CallsAndProcesses`): a row only leaves RUNNING through a finalize of the call
that owns it or a reconciliation, and both compare the stored status.

`TaskPlanning_proof` proves `PlanningInvariant`, `DependenciesStayAcyclic`,
`PlanAlwaysGoverns`, `WriterAlwaysFitsPhase` and `StartsAlwaysUnblocked`. The
invariant adds what a call has checked and nobody can take back
(`CallsAreBacked`), that the Session a plan names is one of its Task
(`PlansNameSessions`), and the phases agents start in (`StartedInPhase`). An
added edge closes no cycle because the added target has a closed set of
dependencies without the source: of any set of Tasks, either the part inside
that set or, if there is none, the whole has a Task that depends on nothing in
it (`EdgeKeepsOrder`). A plan governs because the accepting transaction compares
the latest plan and looks for agents, and a plan is inserted only in PLANNING.

`PtyHost_proof` proves `PtyIsSafe`, for which `PtySafety` is inductive as it stands:
its parts say what each message that is under way, each promise and the handle
imply about the host, and what the host implies about the agent. From it
`PtyKeepsContract` shows that every step of client, host and channel is a step of
`PtyContract` or a stutter.

`TaskReviews_proof` proves `ReviewsGovern`, `EvidenceIsTrue` and `ApprovalsStand`.
The invariant is `RInv == ReviewsGovernTask /\ EvidenceHolds`. The gates of
`TaskReviews` are an instance of `QualityGates`, so that `QualityGates_proof` gives
their part. The core is `ReadingsAge`: what a call has read of the store and of the
code is still so, or the begin transaction will refuse it, since all that can
change it (a Session that settles, a gate that ends, an artifact) is compared
there. `ApprovalsStand` is an action property: no step takes an approval back.

`Desktop_proof` proves a property of each part of `Desktop`. For most the invariant
is the part's own `IInv`, which TLC checked before:

* `SettingsAreKept`: a save carries the revision of what its window shows
  (`UpdatesFollowViews`), and the store compares it.
* `ControllerAlwaysSound`: what is shown belongs to the selection
  (`FitsItsSelection`), and a spinner has a request whose answer may still be shown
  (`SpinnersHaveRequests`).
* `LayoutsAreSaved`: the attempts are in order (`InOrder`), each knows the revision
  that the one before it left, and only the last may still change the row.
* `NotesAlwaysTrue`: a note on its way, and a stored one, is one that was submitted.
* `BindingsAlwaysSound`: a binding that the window or a request knows was stored at
  that revision (`KnownWasStored`), the binding of a Task is the latest, and a phase is
  found by its id, the first of that name, as `bindPhaseAgent` does.
* `ContextAlwaysKept`: the files of an import are nobody else's and whole but for
  the one being written (`FilesAreOfOne`), a handoff has found the copies that it
  has done (`HandoffsVerify`), and the panel's selection and consent are those of the
  handoff under way (`WindowFollows`).

`TaskWorktrees_proof` also proves the parts of `DesktopGit`, for any number of paths,
entries, edits, commits, reviews and calls:

* `CapturesAreTrue`: two captures that
  agree, with equal stamps of all files, were taken of one Worktree that did not
  change in between, unless something was changed and changed back (`restored`).
  The invariant (`CInv` of `ReviewCapture`) says of each value that was read that
  some state of the Worktree had it at the time (`SeenHad`), in the order of the
  commands (`FilesInOrder`), and, in the second capture, of the same state as the
  first.
* `PullRequestsAlwaysSound`: a Task has one row (`OneRow`), since a creation is asked
  for only while none is known and a refresh only afterwards (`CreatesComeFirst`);
  what is stored was true of GitHub and ends its history (`StoreIsTrue`), and what an
  operation has read was true too and is later than that (`OperationsFit`). The summary of reviews is a fold over a list, one
  decision for each reviewer; it is shown to exist for every list and to keep the
  last decision of each.
* `ProbesAlwaysTrue`: what each command has read was so in some state of the call
  (`ProbeReadTrue`, `InspectionReadTrue`), and the parser of the answer finds exactly
  the conflicted files, each once.

`DesktopPanes_proof` proves the two parts of `DesktopPanes`:

* `PanesAlwaysSafe`, for any number of Tasks and starts. The invariant (`IInv` of
  `PaneLayout`) adds that tabs have distinct Tasks and pane ids carry their tab's name
  (`LayoutIsSound`), so that a new pane's id is new, and that panes with different ids
  never show one Session (`ToldApart`).
* `TerminalsAlwaysSafe`, for any number of Sessions and attachments. The invariant
  (`IInv` of `Terminals`) says where each write is between the keyboard and the
  terminal: the queue holds what was typed and not yet sent (`QueueIsTaken`), what is
  on its way is the next that the terminal lacks (`WritesAreNext`, `LogIsTaken`,
  `NothingIsSkipped`), and an answer tells the truth about it (`AnswersAreTrue`). An
  attachment is made once (`AttachesAreNew`, `AttachedOnce`), and whoever is attached
  is known to the pane, or to a message or an attempt that ends it
  (`HoldersAreKnown`).

`PtyHost_proof` also proves `GatesAlwaysSafe`, of two parts of `DesktopServices`. The
command is started once, by a host that holds it suspended until it is assigned
(`StartsOnce`); a host reports an end only when nothing of the tree is alive
(`ReportIsTrue`), and nothing is answered while it may still start or resume something
(`AnswersAreLast`). Unless a file was written over by another desktop (`spoiled`), what a
call has answered or done is stored, but for the gate that is being written
(`StoredWhenWritten`), and an import has done what it has counted
(`ImportsAccount`; the lemma `SelectsNext` says how the selected gates of a list grow).

The third part is the MCP server, and `McpAlwaysTrue` is for any input, limit and chunks.
`Session` reads the whole input as if it came at once, and is a recursive function. The
invariant (`IInv` of `McpServer`) says that the chunk is the end of what has arrived
(`ChunkIsLast`), that the buffer is the line that `Session` has reached, or is given up
exactly when that line is too long (`BufferIsLine`), and that `Session` of what was looked
at says what is written, the answer on its way and the one of the line that is handled
(`AnswersAreNext`). That more input only adds answers is an induction over what is left
(`SaidStays`), and that a segment without a newline is part of the line one over the
segment (`SegmentIsRead`).

A fold over a list, or a recursive function of the naturals, needs an induction that
the library's theorems cannot give. Where a proof above needs one it is made by hand
from `Nat`'s being well founded: of a property that does not hold of every number there
is a least exception (`Counting`), and from it the fold's step function exists
(`FoldExists`).

The constants are assumed to be what the code makes them, and TLC evaluates each of
these assumptions: a first Task is shown (`TasksAreShown`), a catalogue and a
plugin's phases are lists (`PluginsWellFormed`), the Worktrees to begin with are
Worktrees (`CaptureWellFormed`), a window belongs to a desktop
(`ContextWellFormed`), a newline is no part of a line and a line of one symbol is not
too long (`McpWellFormed`), the number of attempts is a number and `None` neither a
Session nor an input (`TerminalsWellFormed`), `None` is no number
(`NoneIsNoNumber`), and the pull requests, merge probes, tabs and catalogues to begin with
are what their types say (`PullsWellFormed`, `ProbesWellFormed`, `PanesWellFormed`,
`CatalogueWellFormed`).

Only model-checked: liveness (`EndsAreTold`, `GatesComeBack`, `EveryCallReturns`,
`RetriesFinish`, `EverythingEnds`), as fairness and ENABLED are out of the prover's
reach; and `ShownIsSound`, which `MCDesktop` adds to `desktop`. It says that the output of
a Quality Gate is redacted whatever the pieces in which it arrives (`GateOutput`), and that
the palette, while no two commands have one id, lists every command that the query finds
once and runs what it shows (`CommandPalette`); both
replace, sort and select parts of lists in many ways at once, and a proof would be about
these operators more than about the code.

## 6. Not modelled

The components marked "not_modelled" in `PROJECT.json`, with their reasons: the
reattacher that the desktop never passes, read-only projections, command lines, the
snapshot buffer, SQL scripts, the website. Of modelled components: the preview of
saved context, the read-only tools of the MCP server, the hunks of a merge
conflict, terminal output. Across all of them: texts, formatting, logging and the
validation of inputs; times of Sessions (a clock that goes backwards makes appends
fail, which is a store fault here); human edits in a Worktree outside
`ReviewCapture`; the order of startup steps other than the recoveries of
Sessions and gates. `AgentSessions` has one desktop process; a second one that
starts while the first has live agents is in `TaskReviews`, whose Reviews then hold
up to `strayed`, and which shows that two agents may work at once
(`AgentsDoNotOverlap`).

## 7. Plan

Done: all of the modules above; proofs of every safety property of the runs
`sessions`, `sessions_live`, `gates`, `reviews`, `planning`, `worktrees` and `pty`,
and of fourteen of the sixteen parts of `desktop`.

Left: pure operators with reference definitions (the bounded preview of context, Task
attention, the snapshot buffer).
