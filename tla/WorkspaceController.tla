------------------------ MODULE WorkspaceController ------------------------
(***************************************************************************)
(* The controller of a workspace window: what it shows, the requests it has*)
(* with the main process, and which answers it still takes.                *)
(*                                                                         *)
(* A request of which a newer one has taken the generation, or which its   *)
(* answer finds for another Task, changes nothing any more; so only the    *)
(* latest request of each kind is kept, and forgetting it is what bumping  *)
(* the generation does.                                                    *)
(*                                                                         *)
(* Left out: the panes and the order of the tabs (PaneLayout), the saving  *)
(* of the layout (LayoutSaving), agents and view modes, texts.             *)
(***************************************************************************)
EXTENDS Naturals

CONSTANTS
  ShownTasks,   \* the Tasks of the overview
  FirstTask,    \* the first of them
  MaxRevision,  \* bound: revisions of the stored settings
  None

VARIABLES
  saved,        \* the revision of the stored settings
  snap,         \* the snapshot that the window shows
  reading,      \* the load or refresh that may still be published
  asking,       \* the request for changes or a diff that may still be shown
  askingPr,     \* the Task whose Pull Request is inspected
  acting,       \* the calls of actions that run
  saving,       \* the revision of which a save of settings runs
  onboarding,   \* the step of opening a Project or creating a Task
  disposed

controllerVars == <<saved, snap, reading, asking, askingPr, acting, saving,
                    onboarding, disposed>>

ActionKinds == {"selected", "push", "artifact", "dependency", "resolution"}
Idle == [is |-> "idle", task |-> None]
Blank == [kind |-> "loading", tabs |-> {}, selected |-> None, changes |-> Idle,
          pr |-> Idle, action |-> None, settings |-> 0]
Failure == [Blank EXCEPT !.kind = "error"]
Ready == snap.kind = "ready"

Init ==
  /\ saved = 0
  /\ snap = Blank /\ reading = None
  /\ asking = None /\ askingPr = None
  /\ acting = {} /\ saving = None /\ onboarding = "no"
  /\ disposed = FALSE

-----------------------------------------------------------------------------
(* What the store is changed to by others.                                 *)

OtherWindowSaves ==
  /\ saved < MaxRevision
  /\ saved' = saved + 1
  /\ UNCHANGED <<snap, reading, asking, askingPr, acting, saving,
                 onboarding, disposed>>

-----------------------------------------------------------------------------
(* Showing.                                                                *)

Publish(s) == snap' = IF disposed THEN snap ELSE s

\* Settings that are newer than those of the answer stay.
KeptSettings(s, revision) ==
  IF s.kind = "ready" /\ s.settings > revision THEN s.settings ELSE revision

\* publishReady: the preferred Task, or the first one, is given a tab.
Published(s, preferred, revision, persisted) ==
  LET task == IF preferred = None THEN FirstTask ELSE preferred
      tabs == IF s.kind = "ready" THEN s.tabs ELSE persisted
  IN [kind |-> "ready", tabs |-> tabs \cup {task}, selected |-> task,
      changes |-> Idle, pr |-> Idle, action |-> None,
      settings |-> KeptSettings(s, revision)]

\* loadSelectedTaskEvidence: both inspections of the selected Task start, and
\* with them both generations.
WithEvidence(s) ==
  IF s.kind # "ready" \/ s.selected = None
  THEN Publish(s) /\ UNCHANGED <<asking, askingPr>>
  ELSE /\ Publish([s EXCEPT !.changes = [is |-> "loading", task |-> s.selected],
                            !.pr = [is |-> "loading", task |-> s.selected]])
       /\ asking' = [what |-> "list", task |-> s.selected]
       /\ askingPr' = s.selected

-----------------------------------------------------------------------------
(* Loading and refreshing.                                                 *)

\* forAction: an action waits for this refresh.
Read(how, forAction) == [how |-> how, saved |-> saved, forAction |-> forAction]

\* A window loads when it opens, and on Retry, which only an error offers.
Load ==
  /\ ~disposed /\ ~Ready /\ reading = None
  /\ Publish(Blank)
  /\ reading' = Read("load", FALSE)
  /\ UNCHANGED <<saved, asking, askingPr, acting, saving, onboarding,
                 disposed>>

Refresh ==
  /\ ~disposed /\ Ready
  /\ reading' = Read("refresh", FALSE)
  /\ UNCHANGED <<saved, snap, asking, askingPr, acting, saving,
                 onboarding, disposed>>

\* What the main process has read lies between the request and the answer.
ReadAnswers(revision, persisted) ==
  /\ reading # None
  /\ revision \in reading.saved..saved
  /\ reading.how = "refresh" => persisted = {}
  /\ WithEvidence(Published(snap, IF reading.how = "refresh" THEN snap.selected
                                  ELSE None, revision, persisted))
  /\ reading' = None
  /\ UNCHANGED <<saved, acting, saving, onboarding, disposed>>

ReadFails ==
  /\ reading # None
  /\ Publish(IF reading.how = "refresh" /\ Ready THEN snap ELSE Failure)
  /\ reading' = None
  /\ UNCHANGED <<saved, asking, askingPr, acting, saving, onboarding,
                 disposed>>

-----------------------------------------------------------------------------
(* Selecting.                                                              *)

\* selectTask starts over even for the Task that is selected already.
SelectTask(t) ==
  /\ Ready /\ ~disposed
  /\ WithEvidence([snap EXCEPT !.tabs = @ \cup {t}, !.selected = t,
                               !.changes = Idle, !.pr = Idle])
  /\ UNCHANGED <<saved, reading, acting, saving, onboarding, disposed>>

\* publishWorkspaceLayout for an operation that may change the Task.
Selects(tabs, t) ==
  IF t = snap.selected
  THEN Publish([snap EXCEPT !.tabs = tabs]) /\ UNCHANGED <<asking, askingPr>>
  ELSE WithEvidence([snap EXCEPT !.tabs = tabs, !.selected = t,
                                 !.changes = Idle, !.pr = Idle])

\* Selecting and cycling; PaneLayout says which tab is next.
SelectWorkspaceTab(t) ==
  /\ Ready /\ ~disposed /\ t \in snap.tabs /\ t # snap.selected
  /\ Selects(snap.tabs, t)
  /\ UNCHANGED <<saved, reading, acting, saving, onboarding, disposed>>

\* Another tab takes the place of the closed active one, if there is one.
CloseWorkspaceTab(t, next) ==
  /\ Ready /\ ~disposed /\ t \in snap.tabs
  /\ LET rest == snap.tabs \ {t}
     IN /\ next \in (IF t # snap.selected THEN {snap.selected}
                     ELSE IF rest = {} THEN {None} ELSE rest)
        /\ Selects(rest, next)
  /\ UNCHANGED <<saved, reading, acting, saving, onboarding, disposed>>

SelectTaskChange ==
  /\ Ready /\ ~disposed /\ snap.changes.is \in {"ready", "diff"}
  /\ Publish([snap EXCEPT !.changes.is = "diff"])
  /\ asking' = [what |-> "diff", task |-> snap.changes.task]
  /\ UNCHANGED <<saved, reading, askingPr, acting, saving, onboarding,
                 disposed>>

\* isCurrentChangeRequest; a failed diff is shown in the inspection.
ChangesAnswer(how) ==
  /\ asking # None
  /\ asking' = None
  /\ IF disposed \/ ~Ready \/ snap.selected # asking.task THEN UNCHANGED snap
     ELSE IF asking.what = "list"
     THEN Publish([snap EXCEPT !.changes = [is |-> how, task |-> asking.task]])
     ELSE IF snap.changes.is = "diff"
     THEN Publish([snap EXCEPT !.changes.is = "ready"])
     ELSE UNCHANGED snap
  /\ UNCHANGED <<saved, reading, askingPr, acting, saving, onboarding,
                 disposed>>

\* Mutant: the answer is shown for whichever Task is selected.
PullRequestAnswerForAny(how) ==
  /\ askingPr # None
  /\ askingPr' = None
  /\ IF disposed \/ ~Ready THEN UNCHANGED snap
     ELSE Publish([snap EXCEPT !.pr = [is |-> how, task |-> askingPr]])
  /\ UNCHANGED <<saved, reading, asking, acting, saving, onboarding,
                 disposed>>

\* isCurrentPullRequest.
PullRequestAnswer(how) ==
  /\ askingPr # None
  /\ askingPr' = None
  /\ IF disposed \/ ~Ready \/ snap.selected # askingPr THEN UNCHANGED snap
     ELSE Publish([snap EXCEPT !.pr = [is |-> how, task |-> askingPr]])
  /\ UNCHANGED <<saved, reading, asking, acting, saving, onboarding,
                 disposed>>

-----------------------------------------------------------------------------
(* Actions: actionAttempt is unset when no call runs.                      *)

Call(kind, task, stage) == [kind |-> kind, task |-> task, stage |-> stage]
CanAct == Ready /\ ~disposed /\ acting = {}

Starts(kind, t) ==
  /\ acting' = {Call(kind, t, "call")}
  /\ UNCHANGED <<saved, reading, asking, askingPr, saving, onboarding, disposed>>

Running(kind, t) == Publish([snap EXCEPT !.action = t]) /\ Starts(kind, t)

\* canRunAction: what a Pull Request allows is read from its inspection, the
\* rest from the overview.
CanRun(kind) ==
  /\ CanAct /\ snap.selected # None
  /\ kind = "push" => snap.pr.is = "ready"

StartSelected(kind) ==
  /\ kind \in {"selected", "push"} /\ CanRun(kind)
  /\ Running(kind, snap.selected)

CaptureNote == CanRun("selected") /\ Running("selected", snap.selected)

\* The Task of an artifact or a dependency is named by the caller.
ProduceArtifact(t) == CanAct /\ Running("artifact", t)
EditDependency(t) == CanAct /\ Running("dependency", t)

TriggerResolution ==
  /\ CanRun("resolution")
  /\ UNCHANGED snap /\ Starts("resolution", snap.selected)

\* A snapshot that was ready stays so: the one before the call is not needed.
Fails(call, selected) ==
  /\ call \in acting /\ call.stage \in {"call", "reload"}
  /\ acting' = acting \ {call}
  /\ Publish([snap EXCEPT !.action = None, !.selected = selected])
  /\ UNCHANGED <<saved, reading, asking, askingPr, saving, onboarding, disposed>>

\* After the last tab was closed, a failed action selects its Task again.
ActionFails(call) ==
  /\ call.kind \in {"selected", "push", "dependency"}
  /\ Fails(call, IF snap.selected = None THEN call.task ELSE snap.selected)

ArtifactFails(call) == call.kind = "artifact" /\ Fails(call, snap.selected)

ResolutionAnswers(call, ok) ==
  /\ call \in acting /\ call.kind = "resolution"
  /\ acting' = {}
  /\ Publish(IF ok THEN [snap EXCEPT !.action = call.task] ELSE snap)
  /\ UNCHANGED <<saved, reading, asking, askingPr, saving, onboarding, disposed>>

\* The call of the action was answered: its reload of the workspace starts.
CallIsDone(call) ==
  /\ call.kind \in {"selected", "push", "artifact"} /\ call.stage = "call"
  /\ acting' = {[call EXCEPT !.stage = "reload"]}
  /\ UNCHANGED <<saved, snap, reading, asking, askingPr, saving, onboarding,
                 disposed>>

\* A dependency is followed by an ordinary refresh.
DependencyIsDone(call) ==
  /\ call.kind = "dependency" /\ call.stage = "call"
  /\ acting' = {[call EXCEPT !.stage = "refresh"]}
  /\ reading' = IF disposed THEN reading ELSE Read("refresh", TRUE)
  /\ UNCHANGED <<saved, snap, asking, askingPr, saving, onboarding, disposed>>

Reloads(call, preferred) ==
  /\ call.stage = "reload"
  /\ IF disposed THEN UNCHANGED <<snap, asking, askingPr>>
     ELSE WithEvidence(Published(snap, preferred, snap.settings, {}))
  /\ acting' = {[call EXCEPT !.stage = "evidence"]}
  /\ UNCHANGED <<saved, reading, saving, onboarding, disposed>>

ActionReloads(call) == call.kind # "artifact" /\ Reloads(call, snap.selected)
ArtifactReloads(call) == call.kind = "artifact" /\ Reloads(call, call.task)

\* Its refresh, or the inspections that its reload started, were answered.
ActionEnds(call) ==
  /\ call.stage \in {"evidence", "refresh"}
  /\ ~(call.stage = "refresh" /\ reading # None /\ reading.forAction)
  /\ acting' = {}
  /\ UNCHANGED <<saved, snap, reading, asking, askingPr, saving, onboarding,
                 disposed>>

-----------------------------------------------------------------------------
(* Settings and onboarding.                                                *)

SaveSettings ==
  /\ saving = None /\ Ready /\ ~disposed
  /\ saving' = snap.settings
  /\ UNCHANGED <<saved, snap, reading, asking, askingPr, acting, onboarding,
                 disposed>>

\* The main process answers as soon as it has stored the settings or refused
\* them, so what it reads later comes later.
SettingsAnswer ==
  /\ saving # None
  /\ saving' = None
  /\ IF saving = saved /\ saved < MaxRevision
     THEN /\ saved' = saved + 1
          /\ Publish([snap EXCEPT !.settings = saved + 1])
     ELSE UNCHANGED <<saved, snap>>
  /\ UNCHANGED <<reading, asking, askingPr, acting, onboarding, disposed>>

\* openProject and createTask.
StartOnboarding ==
  /\ onboarding = "no" /\ Ready /\ ~disposed
  /\ onboarding' = "asked"
  /\ UNCHANGED <<saved, snap, reading, asking, askingPr, acting, saving, disposed>>

OnboardingEnds ==
  /\ onboarding # "no"
  /\ onboarding' = "no"
  /\ UNCHANGED <<saved, snap, reading, asking, askingPr, acting, saving, disposed>>

OnboardingDone ==
  /\ onboarding = "asked"
  /\ onboarding' = "reload"
  /\ UNCHANGED <<saved, snap, reading, asking, askingPr, acting, saving, disposed>>

\* reloadAfterOnboarding, with the new Task or the first one preferred.
OnboardingReloads(task, persisted) ==
  /\ onboarding = "reload"
  /\ disposed \/ Ready => persisted = {}
  /\ IF disposed THEN UNCHANGED <<snap, asking, askingPr>>
     ELSE WithEvidence(Published(snap, task, saved, persisted))
  /\ onboarding' = "no"
  /\ UNCHANGED <<saved, reading, acting, saving, disposed>>

Dispose ==
  /\ ~disposed
  /\ disposed' = TRUE
  /\ reading' = None /\ asking' = None /\ askingPr' = None
  /\ UNCHANGED <<saved, snap, acting, saving, onboarding>>

-----------------------------------------------------------------------------

Answers ==
  \/ \E revision \in 0..MaxRevision, persisted \in SUBSET ShownTasks :
       ReadAnswers(revision, persisted)
  \/ ReadFails
  \/ \E how \in {"ready", "error"} : ChangesAnswer(how) \/ PullRequestAnswer(how)
  \/ \E call \in acting :
       \/ ActionFails(call) \/ ArtifactFails(call)
       \/ CallIsDone(call) \/ DependencyIsDone(call)
       \/ ActionReloads(call) \/ ArtifactReloads(call) \/ ActionEnds(call)
       \/ \E ok \in BOOLEAN : ResolutionAnswers(call, ok)
  \/ SettingsAnswer \/ OnboardingEnds \/ OnboardingDone
  \/ \E task \in ShownTasks, persisted \in SUBSET ShownTasks :
       OnboardingReloads(task, persisted)

Next ==
  \/ Answers
  \/ OtherWindowSaves \/ Load \/ Refresh \/ Dispose
  \/ SaveSettings \/ StartOnboarding \/ SelectTaskChange
  \/ \E t \in ShownTasks :
       \/ SelectTask(t) \/ SelectWorkspaceTab(t)
       \/ \E next \in ShownTasks \cup {None} : CloseWorkspaceTab(t, next)
       \/ ProduceArtifact(t) \/ EditDependency(t)
  \/ \E kind \in ActionKinds : StartSelected(kind)
  \/ CaptureNote \/ TriggerResolution

Spec == Init /\ [][Next]_controllerVars

-----------------------------------------------------------------------------
(* Properties.                                                             *)

\* Whatever answers late, and however often the selection has changed since:
\* the changes and the Pull Request that are shown, and that the next action
\* takes its permission from, are those of the selected Task.
EvidenceIsOfSelection ==
  /\ \A evidence \in {snap.changes, snap.pr} :
       evidence.is # "idle" => evidence.task = snap.selected
  /\ snap.selected \in snap.tabs \cup {None} \/ snap.tabs = {}

\* An inspection that is shown as loading still has an answer to come, so no
\* spinner stays.
SpinnersHaveRequests ==
  ~disposed =>
    /\ snap.changes.is = "loading" => asking = [what |-> "list", task |-> snap.selected]
    /\ snap.changes.is = "diff" => asking = [what |-> "diff", task |-> snap.selected]
    /\ snap.pr.is = "loading" => askingPr = snap.selected

\* Both, for the window as a whole.
ControllerSafe == EvidenceIsOfSelection /\ SpinnersHaveRequests

\* The settings that are shown never go back to an older revision, however
\* loads, saves and refreshes overtake each other; a window that shows its
\* workspace never falls back to an error, and one that is gone shows nothing
\* more.
ShownMovesOn ==
  /\ snap'.settings >= snap.settings
  /\ Ready => snap'.kind = "ready"
  /\ disposed => snap' = snap

ShownNeverGoesBack == [][ShownMovesOn]_controllerVars

\* All of it, for every step.
ControllerStepIsSound == ShownMovesOn /\ ControllerSafe'

-----------------------------------------------------------------------------
(* Why they hold.                                                          *)

Evidence == [is : {"idle", "loading", "ready", "error", "diff"},
             task : ShownTasks \cup {None}]
Snapshots ==
  [kind : {"loading", "ready", "error"}, tabs : SUBSET ShownTasks,
   selected : ShownTasks \cup {None}, changes : Evidence, pr : Evidence,
   action : ShownTasks \cup {None}, settings : Nat]

TypeOK ==
  /\ saved \in Nat
  /\ snap \in Snapshots
  /\ reading \in [how : {"load", "refresh"}, saved : Nat, forAction : BOOLEAN]
                 \cup {None}
  /\ asking \in [what : {"list", "diff"}, task : ShownTasks] \cup {None}
  /\ askingPr \in ShownTasks \cup {None}
  /\ acting \in SUBSET [kind : ActionKinds, task : ShownTasks,
                       stage : {"call", "reload", "evidence", "refresh"}]
  /\ saving \in Nat \cup {None}
  /\ onboarding \in {"no", "asked", "reload"}
  /\ disposed \in BOOLEAN

\* Evidence is of the selected Task, and only the last tab can be closed without
\* another one taking its place.
FitsItsSelection(s) ==
  /\ \A evidence \in {s.changes, s.pr} :
       evidence.is # "idle" => evidence.task = s.selected /\ s.selected # None
  /\ s.selected \in s.tabs \/ s.tabs = {}

\* Until the workspace is shown there is nothing to act on, and from then on the
\* window only refreshes.
WorkNeedsAWorkspace ==
  /\ ~ Ready => snap \in {Blank, Failure}
  /\ Ready /\ reading # None => reading.how = "refresh"
  /\ acting # {} \/ saving # None \/ onboarding # "no" => Ready

IInv ==
  /\ TypeOK
  /\ FitsItsSelection(snap)
  /\ SpinnersHaveRequests
  /\ WorkNeedsAWorkspace
  /\ snap.settings <= saved

=============================================================================
