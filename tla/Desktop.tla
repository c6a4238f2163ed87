---------------------------- MODULE Desktop ----------------------------
(***************************************************************************)
(* The parts of the application that Desktop_proof is about: the state of  *)
(* a window, its saved layout and settings, the plugins and the context of *)
(* its Tasks, and its notes.                                               *)
(***************************************************************************)
EXTENDS DesktopParts

\* Those of the parts; each is described where its part declares it.
CONSTANTS
  ShownTasks, FirstTask, MaxShownRevision,
  MaxLayoutChanges, MaxLayoutFailures,
  Windows, Agents, ForeignAgent, Tokens, MaxSettingsRevision,
  BoundTasks, PluginFiles, PluginTexts, MaxPhases, MadeKinds, Catalog,
  MaxInstalls, MaxBindingRevision, MaxAskedOfPlugins,
  NoteTasks, NoteSessions, NoteOwner, NoteTexts, MaxNotes, MaxNoteChanges,
  ContextSetups, ContextLimit, MaxBatch, MaxContextChanges

-----------------------------------------------------------------------------
(* The parts.                                                              *)

WC == INSTANCE WorkspaceController WITH
  saved <- v1, snap <- v2, reading <- v3, asking <- v4, askingPr <- v5,
  acting <- v6, saving <- v7, onboarding <- v8, disposed <- v9,
  MaxRevision <- MaxShownRevision

LS == INSTANCE LayoutSaving WITH
  row <- v1, failures <- v2, shown <- v3, revision <- v4, queued <- v5,
  timer <- v6, attempts <- v7, skipped <- v8, failed <- v9, error <- v10,
  reading <- v11,
  MaxChanges <- MaxLayoutChanges, MaxFailures <- MaxLayoutFailures

SS == INSTANCE SettingsStore WITH
  settings <- v1, absent <- v2, view <- v3, update <- v4,
  Foreign <- ForeignAgent, MaxRevision <- MaxSettingsRevision

PB == INSTANCE PluginBindings WITH
  contents <- v1, binding <- v2, installs <- v3, artifacts <- v4,
  resolved <- v5, mirror <- v6, flags <- v7, dialogs <- v8, requests <- v9,
  replies <- v10,
  Tasks <- BoundTasks, Files <- PluginFiles, Texts <- PluginTexts,
  MaxRevision <- MaxBindingRevision, MaxAsked <- MaxAskedOfPlugins

SN == INSTANCE SessionNotes WITH
  phase <- v1, active <- v2, used <- v3, shown <- v4, acting <- v5,
  overlay <- v6, call <- v7, stored <- v8, reviews <- v9, submitted <- v10,
  changes <- v11,
  Tasks <- NoteTasks, Sessions <- NoteSessions, Owner <- NoteOwner,
  Texts <- NoteTexts, MaxChanges <- MaxNoteChanges

TC == INSTANCE TaskContext WITH
  files <- v1, rows <- v2, batches <- v3, copies <- v4, live <- v5,
  gates <- v6, changes <- v7, job <- v8, panel <- v9, handoff <- v10,
  setup <- v11,
  Setups <- ContextSetups, Limit <- ContextLimit, MaxChanges <- MaxContextChanges

\* The phases of a plugin and the agents of the catalogue are lists.
ASSUME PluginsWellFormed == PB!WellFormed

\* The window of attachments is that of a desktop.
ASSUME ContextWellFormed == TC!WellFormed

\* The overview has a first Task.
ASSUME TasksAreShown == FirstTask \in ShownTasks /\ None \notin ShownTasks

-----------------------------------------------------------------------------
Init ==
  /\ part \in Parts
  /\ \/ part = "controller" /\ WC!Init /\ Rest10
     \/ part = "saving" /\ LS!Init /\ Rest12
     \/ part = "settings" /\ SS!Init /\ Rest5
     \/ part = "bindings" /\ PB!Init /\ Rest11
     \/ part = "notes" /\ SN!Init /\ Rest12
     \/ part = "context" /\ TC!Init /\ Rest12

Next ==
  \/ Moves("controller") /\ WC!Next /\ Stays10
  \/ Moves("saving") /\ LS!Next /\ Stays12
  \/ Moves("settings") /\ SS!Next /\ Stays5
  \/ Moves("bindings") /\ PB!Next /\ Stays11
  \/ Moves("notes") /\ SN!Next /\ Stays12
  \/ Moves("context") /\ TC!Next /\ Stays12

Spec == Init /\ [][Next]_desktopVars

-----------------------------------------------------------------------------
(* What must hold of the part that runs.                                   *)

\* workspace-controller.ts: whatever answers late, the changes and the Pull
\* Request that are shown are those of the selected Task, no spinner stays, the
\* settings never go back, and a ready window does not fall back to an error.
ControllerIsSound == [][part = "controller" => WC!ControllerStepIsSound]_desktopVars

\* workspace-controller.ts and the layout store: an older layout never comes
\* back over a newer one, and the window never believes in a revision that is
\* not stored.
LayoutIsSaved == [][part = "saving" => LS!LayoutMovesOn]_desktopVars

\* The settings store: no window's save overwrites what the window did not show.
NoSettingsAreLost == [][part = "settings" => SS!ChangeWasSeen]_desktopVars

\* The workflow plugins of a Task: no change of a binding is lost, and the phase
\* that becomes active is one the plugin declares, with an agent it allows.
BindingsAreSound == [][part = "bindings" => PB!BindingStepIsSound]_desktopVars

\* Files attached to a Task: an import reaches the Task's list as a whole or not at
\* all, and a prompt names copies that are whole and that the user approved.
ContextIsKept == part = "context" => TC!ContextIsKept

\* Session notes: a stored note is what the user submitted, with the phase that
\* its Task had in the moment in which it is stored.
NotesAreTrue == [][part = "notes" => SN!NoteIsTrue]_desktopVars
=============================================================================
