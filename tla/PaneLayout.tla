----------------------------- MODULE PaneLayout -----------------------------
(***************************************************************************)
(* The tabs and terminal panes of a workspace window: what the user does   *)
(* with them, how a refresh reconciles them with the Agent Sessions that   *)
(* run, and how they are saved, validated and restored.                    *)
(*                                                                         *)
(* A tab is identified by its Task, as `task:<id>` is; a pane by the Task  *)
(* of its tab and its place, as `pane:<id>:primary` and `:split` are.      *)
(*                                                                         *)
(* Left out: the revision of the stored layout (LayoutSaving),  texts that *)
(* are no identifiers, which the renderer never writes.                    *)
(***************************************************************************)
EXTENDS Naturals, Sequences, SequencesExt

CONSTANTS
  TaskOrder,    \* the Tasks in the order of the overview
  MaxStarts,    \* bound: Agent Sessions started for one Task
  MaxTabs,      \* WORKSPACE_LAYOUT_MAX_TABS
  None

VARIABLES
  started,      \* Task -> how many Sessions were started for it
  live,         \* the Tasks with an active Session, their last
  seen,         \* the overview that the window shows: Task -> Session
  layout        \* the layout of the window

paneVars == <<started, live, seen, layout>>

Tasks == Range(TaskOrder)
PaneIds == Tasks \X {"primary", "split"}

\* The Session with which a store answers: the n-th one of a Task.
Running == [t \in Tasks |-> IF t \in live THEN <<t, started[t]>> ELSE None]

Init ==
  /\ started = [t \in Tasks |-> 0] /\ live = {}
  /\ seen = [t \in Tasks |-> None]
  /\ layout = [tabs |-> << >>, active |-> None]

-----------------------------------------------------------------------------
(* Layouts.                                                                *)

Pane(place, tab, session, task) ==
  [id |-> <<tab, place>>, session |-> session, task |-> task]
Tab(task, focus, panes) == [task |-> task, activePane |-> focus, panes |-> panes]

Panes(l) == UNION {Range(l.tabs[i].panes) : i \in DOMAIN l.tabs}
Attached(l) == {p.session : p \in Panes(l)} \ {None}
PaneAt(tab, id) == SelectInSeq(tab.panes, LAMBDA p : p.id = id)
TabOf(l, task) == SelectInSeq(l.tabs, LAMBDA tab : tab.task = task)
OwnerOf(l, id) == SelectInSeq(l.tabs, LAMBDA tab : PaneAt(tab, id) # 0)
ActiveTab(l) == l.tabs[TabOf(l, l.active)]

\* openWorkspaceTab would attach a Session that another pane shows.
Clashes(l, task, session) == TabOf(l, task) = 0 /\ session \in Attached(l)

OpenTab(l, task, session) ==
  IF TabOf(l, task) # 0 THEN [l EXCEPT !.active = task]
  ELSE [tabs |-> Append(l.tabs, Tab(task, <<task, "primary">>,
                                    <<Pane("primary", task, session, task)>>)),
        active |-> task]

\* The tab that takes the place of a closed active tab.
CloseTab(l, task) ==
  LET i == TabOf(l, task)
      tabs == RemoveAt(l.tabs, i)
      next == IF i <= Len(tabs) THEN i ELSE Len(tabs)
  IN [tabs |-> tabs,
      active |-> IF l.active # task THEN l.active
                 ELSE IF tabs = << >> THEN None ELSE tabs[next].task]

ReplaceTab(l, i, tab) == [tabs |-> [l.tabs EXCEPT ![i] = tab], active |-> l.active]

\* A tab takes two panes at most.
SplitTab(l, session, task) ==
  LET i == TabOf(l, l.active)
      panes == l.tabs[i].panes
      pane == Pane("split", l.active, session, task)
  IN IF Len(panes) >= 2 THEN l
     ELSE ReplaceTab(l, i, Tab(l.active, pane.id, Append(panes, pane)))

ActivatePane(l, id) ==
  LET i == OwnerOf(l, id)
      tab == l.tabs[i]
  IN [ReplaceTab(l, i, Tab(tab.task, id, tab.panes)) EXCEPT !.active = tab.task]

\* Every pane with the id goes.  When none is left the code throws and the
\* layout stays as it is; a tab has two panes at most.
ClosePane(l, id) ==
  LET i == OwnerOf(l, id)
      tab == l.tabs[i]
      at == PaneAt(tab, id)
      rest == RemoveAt(tab.panes, at)
      next == IF at <= Len(rest) THEN at ELSE Len(rest)
      focus == IF tab.activePane = id THEN rest[next].id ELSE tab.activePane
  IN IF Len(tab.panes) = 1 \/ (\A p \in Range(tab.panes) : p.id = id) THEN l
     ELSE ReplaceTab(l, i, Tab(tab.task, focus, rest))

\* The place that a step of delta leads to, around the ends.
Around(at, delta, length) == 1 + ((at - 1 + delta + length) % length)

\* Mutant: whether another pane shows the Session is not asked.
ReconcileAnyway(l, sessions) ==
  LET Shown(tab) == IF sessions[tab.task] = None THEN tab
                    ELSE [tab EXCEPT !.panes[1].session = sessions[tab.task]]
  IN [l EXCEPT !.tabs = [i \in DOMAIN l.tabs |-> Shown(l.tabs[i])],
               !.active = IF @ = None /\ l.tabs # << >> THEN l.tabs[1].task ELSE @]

\* The first pane of each tab shows the active Session of the tab's Task,
\* unless another pane does.
Reconcile(l, sessions) ==
  LET Shown(tab) ==
        LET first == tab.panes[1]
            wanted == sessions[tab.task]
            elsewhere == \E p \in Panes(l) : p.id # first.id /\ p.session = wanted
        IN IF wanted = None \/ elsewhere THEN tab
           ELSE [tab EXCEPT !.panes[1].session = wanted]
  IN [l EXCEPT !.tabs = [i \in DOMAIN l.tabs |-> Shown(l.tabs[i])],
               !.active = IF @ = None /\ l.tabs # << >> THEN l.tabs[1].task ELSE @]

-----------------------------------------------------------------------------
(* What happens to the Sessions.                                           *)

SessionStarts(t) ==
  /\ t \notin live /\ started[t] < MaxStarts
  /\ live' = live \cup {t}
  /\ started' = [started EXCEPT ![t] = @ + 1]
  /\ UNCHANGED <<seen, layout>>

SessionEnds(t) ==
  /\ t \in live
  /\ live' = live \ {t}
  /\ UNCHANGED <<started, seen, layout>>

-----------------------------------------------------------------------------
(* What the user does.                                                     *)

Changes(next) == layout' = next /\ UNCHANGED <<started, live, seen>>

SelectTask(t) ==
  Changes(OpenTab(layout, t,
                  IF Clashes(layout, t, seen[t]) THEN None ELSE seen[t]))

SelectTab(t) ==
  /\ TabOf(layout, t) # 0
  /\ Changes([layout EXCEPT !.active = t])

CloseTheTab(t) ==
  /\ TabOf(layout, t) # 0
  /\ Changes(CloseTab(layout, t))

CycleTab(delta) ==
  /\ Len(layout.tabs) >= 2
  /\ LET next == Around(TabOf(layout, layout.active), delta, Len(layout.tabs))
     IN Changes([layout EXCEPT !.active = layout.tabs[next].task])

\* The button offers the first Task whose Session is not attached.
Split ==
  /\ layout.active # None /\ Len(ActiveTab(layout).panes) < 2
  /\ LET free == SelectInSeq(TaskOrder,
                   LAMBDA t : seen[t] \notin Attached(layout) \cup {None})
     IN /\ free # 0
        /\ Changes(SplitTab(layout, seen[TaskOrder[free]], TaskOrder[free]))

SelectPane(id) ==
  /\ OwnerOf(layout, id) # 0
  /\ Changes(ActivatePane(layout, id))

CloseThePane(id) ==
  /\ OwnerOf(layout, id) # 0
  /\ Changes(ClosePane(layout, id))

CyclePane(delta) ==
  /\ layout.active # None
  /\ LET tab == ActiveTab(layout)
         next == Around(PaneAt(tab, tab.activePane), delta, Len(tab.panes))
     IN /\ Len(tab.panes) >= 2
        /\ Changes(ActivatePane(layout, tab.panes[next].id))

-----------------------------------------------------------------------------
(* Refreshing, saving and restoring.                                       *)

\* publishReady, from the layout l; a clash makes it throw, and what was shown stays.
PublishReady(l, preferred) ==
  /\ ~Clashes(l, preferred, Running[preferred])
  /\ seen' = Running
  /\ layout' = Reconcile(OpenTab(l, preferred, Running[preferred]), Running)
  /\ UNCHANGED <<started, live>>

Refresh ==
  PublishReady(Reconcile(layout, Running),
               IF layout.active = None THEN Head(TaskOrder) ELSE layout.active)

\* validateWorkspaceLayoutRecord: what the store takes and gives.
Valid(l) ==
  /\ Len(l.tabs) <= MaxTabs
  /\ \A i \in DOMAIN l.tabs :
       LET tab == l.tabs[i]
       IN /\ Len(tab.panes) \in 1..2
          /\ PaneAt(tab, tab.activePane) # 0
          /\ \A j, k \in DOMAIN tab.panes :
               j # k => tab.panes[j].id # tab.panes[k].id
  /\ \A i, j \in DOMAIN l.tabs : i # j => l.tabs[i].task # l.tabs[j].task
  /\ l.active = None \/ TabOf(l, l.active) # 0

\* The window closes with its layout saved and another one loads it as it is,
\* preferring the first Task.  What a window does after its last save leaves no
\* trace, so the layout at the save is the one to go on from.
Reopen ==
  /\ Valid(layout)
  /\ PublishReady(layout, Head(TaskOrder))

Next ==
  \/ \E t \in Tasks : \/ SessionStarts(t) \/ SessionEnds(t)
                      \/ SelectTask(t) \/ SelectTab(t) \/ CloseTheTab(t)
  \/ \E delta \in {-1, 1} : CycleTab(delta) \/ CyclePane(delta)
  \/ \E id \in PaneIds : SelectPane(id) \/ CloseThePane(id)
  \/ Split \/ Refresh \/ Reopen

Spec == Init /\ [][Next]_paneVars

-----------------------------------------------------------------------------
(* Properties.                                                             *)

\* The panes of a tab are told apart by their ids.  Not always true: a split after
\* the primary pane was closed takes the id of the pane that is left.
UniqueIds ==
  \A i \in DOMAIN layout.tabs :
    LET panes == layout.tabs[i].panes
    IN \A j, k \in DOMAIN panes : j # k => panes[j].id # panes[k].id

\* No Agent Session is shown in two panes: its terminal takes one interactive
\* attachment.
OneTerminal ==
  \A i, m \in DOMAIN layout.tabs :
    \A j \in DOMAIN layout.tabs[i].panes, k \in DOMAIN layout.tabs[m].panes :
      LET p == layout.tabs[i].panes[j]
          q == layout.tabs[m].panes[k]
      IN <<i, j>> # <<m, k>> /\ p.session # None => p.session # q.session

\* What a pane shows is a Session of its own Task or of its tab's Task.
OwnTask ==
  \A i \in DOMAIN layout.tabs : \A p \in Range(layout.tabs[i].panes) :
    p.session = None \/ p.session[1] \in {p.task, layout.tabs[i].task}

\* However Sessions start and end, windows refresh, close and come back, no
\* pane shows a Session of a foreign Task.  Until a split has taken the id of
\* a pane that is still open (the primary pane was closed before), moreover no
\* Session has two terminals and what the window shows can be saved if its tabs
\* are not too many.
PanesSafe ==
  /\ OwnTask
  /\ UniqueIds => /\ OneTerminal
                  /\ Len(layout.tabs) <= MaxTabs => Valid(layout)

-----------------------------------------------------------------------------
(* The inductive invariant behind it.                                      *)

\* There is a Task to open, and None is neither a Task nor a Session.
WellFormed ==
  /\ TaskOrder \in Seq(Tasks) /\ TaskOrder # << >>
  /\ None \notin Tasks /\ None \notin Tasks \X Nat

\* A Session of one of the Tasks, or none.
SessionsOf(tasks) == (tasks \X Nat) \union {None}

PaneRecords == [id : PaneIds, session : SessionsOf(Tasks), task : Tasks]
TabRecords == [task : Tasks, activePane : PaneIds, panes : Seq(PaneRecords)]
Layouts == [tabs : Seq(TabRecords), active : Tasks \union {None}]

TypeOK ==
  /\ started \in [Tasks -> Nat] /\ live \in SUBSET Tasks
  /\ seen \in [Tasks -> SessionsOf(Tasks)]
  /\ \A t \in Tasks : seen[t] \in SessionsOf({t})
  /\ layout \in Layouts

\* A tab has one or two panes of its own, of which one has the focus.
PaneIsSound(p, task) == p.id[1] = task /\ p.session \in SessionsOf({p.task, task})
TabIsSound(tab) ==
  /\ Len(tab.panes) \in 1..2
  /\ \A p \in Range(tab.panes) : PaneIsSound(p, tab.task)
  /\ \E p \in Range(tab.panes) : p.id = tab.activePane

\* Panes with different ids never show one Session: a Session is only attached where
\* no pane of another id shows it.
ToldApart(panes) ==
  \A p, q \in panes : p.id # q.id /\ p.session # None => p.session # q.session

LayoutIsSound(l) ==
  /\ \A i \in DOMAIN l.tabs : TabIsSound(l.tabs[i])
  /\ \A i, j \in DOMAIN l.tabs : i # j => l.tabs[i].task # l.tabs[j].task
  /\ l.active # None => \E i \in DOMAIN l.tabs : l.tabs[i].task = l.active
  /\ ToldApart(Panes(l))

IInv == TypeOK /\ LayoutIsSound(layout)
=============================================================================
