---------------------------- MODULE Desktop_proof ----------------------------
(***************************************************************************)
(* Theorems about the parts of Desktop, for every value of their constants.*)
(* The invariants are stated in the modules of the parts.                  *)
(***************************************************************************)
EXTENDS Desktop, FiniteSetTheorems, FunctionTheorems, SequenceTheorems, TLAPS

\* A step is one of the part that runs, and that part goes on running.
LEMMA PartStays == [Next]_desktopVars => part' = part
BY DEF Next, Moves, desktopVars

-----------------------------------------------------------------------------
(* Settings.                                                               *)

LEMMA SettingsPart ==
  ASSUME part = "settings", [Next]_desktopVars
  PROVE  [SS!Next]_(SS!settingsVars)
BY DEF Next, Moves, desktopVars, SS!settingsVars

LEMMA SettingsInit == SS!Init => SS!IInv
BY DEF SS!Init, SS!IInv, SS!TypeOK, SS!Settings, SS!UpdatesFollowViews, SS!Runs

\* A step keeps the invariant.
LEMMA SettingsStep ==
  ASSUME SS!IInv, [SS!Next]_(SS!settingsVars)
  PROVE  SS!IInv' /\ SS!ChangeWasSeen
<1> USE DEF SS!IInv, SS!TypeOK, SS!UpdatesFollowViews, SS!StoredBefore, SS!Runs,
        SS!ChangeWasSeen
<1>1. CASE UNCHANGED SS!settingsVars
  BY <1>1 DEF SS!settingsVars
<1>2. ASSUME NEW a \in Agents, SS!ExecutableComesOrGoes(a)
      PROVE  SS!IInv' /\ SS!ChangeWasSeen
  BY <1>2 DEF SS!ExecutableComesOrGoes
<1>3. ASSUME NEW w \in Windows, SS!Load(w)
      PROVE  SS!IInv' /\ SS!ChangeWasSeen
  BY <1>3 DEF SS!Load, SS!Settings
<1>4. ASSUME NEW w \in Windows, SS!Store(w)
      PROVE  SS!IInv' /\ SS!ChangeWasSeen
  <2> DEFINE u == v4[w]
  <2>1. /\ u # None /\ ~ u.stored /\ u.inspect = {}
        /\ UNCHANGED <<v2, v3>>
        /\ u.input \in SS!Inputs /\ u.next \in SS!Settings
    BY <1>4 DEF SS!Store
  <2>2. /\ v3[w] # None /\ v3[w] \in SS!Settings /\ v1 \in SS!Settings
        /\ u.next = SS!ChangedFrom(v3[w], u.input)
        /\ u.input.executables \subseteq Agents
    BY <2>1
  <2>3. CASE SS!StillExpected(u)
    <3>1. /\ v1' = u.next
          /\ v4' = [v4 EXCEPT ![w].stored = TRUE]
      BY <1>4, <2>3 DEF SS!Store
    <3>2. /\ u.next.revision = v3[w].revision + 1
          /\ u.next.executables = u.input.executables
      BY <2>2 DEF SS!ChangedFrom
    <3>3. v3[w] = v1 /\ u.next.revision = v1.revision + 1 /\ v1.revision \in Nat
      BY <2>2, <2>3, <3>2 DEF SS!StillExpected, SS!Settings
    <3>4. SS!ChangeWasSeen
      BY <2>1, <2>2, <3>1, <3>2, <3>3 DEF SS!Changed
    <3>5. SS!TypeOK'
      <4>1. v4[w] \in [input : SS!Inputs, next : SS!Settings, stored : BOOLEAN,
                       inspect : SUBSET (Agents \cup {ForeignAgent})]
        BY <2>1
      <4>2. [v4[w] EXCEPT !.stored = TRUE]
              \in [input : SS!Inputs, next : SS!Settings, stored : BOOLEAN,
                   inspect : SUBSET (Agents \cup {ForeignAgent})]
        BY <4>1
      <4> QED
        BY <2>1, <3>1, <4>2
    <3>6. \A x \in Windows : v3[x] # None => v3[x].revision < u.next.revision
      BY <3>3 DEF SS!Settings
    <3>7. \A x \in Windows : v4[x] # None /\ v4[x].stored
                            => v4[x].next.revision < u.next.revision
      BY <3>3 DEF SS!Settings
    <3>8. v4'[w].stored /\ v4'[w].next = u.next
      BY <2>1, <3>1
    <3>9. \A x \in Windows \ {w} : v4'[x] = v4[x]
      BY <3>1
    <3>10. u.next.revision \in Nat
      BY <2>1 DEF SS!Settings
    <3>11. SS!UpdatesFollowViews'
      BY <2>1, <3>1, <3>6, <3>7, <3>8, <3>9, <3>10 DEF SS!Settings
    <3> QED
      BY <3>4, <3>5, <3>11
  <2>4. CASE ~ SS!StillExpected(u)
    BY <1>4, <2>4 DEF SS!Store, SS!Ends
  <2> QED
    BY <2>3, <2>4
<1>5. ASSUME NEW w \in Windows, SS!StoreFails(w)
      PROVE  SS!IInv' /\ SS!ChangeWasSeen
  BY <1>5 DEF SS!StoreFails, SS!Ends
<1>6. ASSUME NEW w \in Windows, SS!Answer(w)
      PROVE  SS!IInv' /\ SS!ChangeWasSeen
  BY <1>6 DEF SS!Answer, SS!Ends, SS!Settings
<1>7. ASSUME NEW w \in Windows, NEW input \in SS!Inputs, SS!Update(w, input)
      PROVE  SS!IInv' /\ SS!ChangeWasSeen
  <2>1. /\ v3[w] # None /\ v4[w] = None /\ v3[w].revision = v1.revision
        /\ input.agent \in Agents
        /\ UNCHANGED <<v1, v2, v3>>
    BY <1>7 DEF SS!Update
  <2> PICK next : next = SS!ChangedFrom(v3[w], input)
    OBVIOUS
  <2>2. v3[w] = v1
    BY <2>1
  <2>3. v4' = [v4 EXCEPT ![w] = [input |-> input, next |-> next, inspect |-> input.executables,
                                 stored |-> FALSE]]
    BY <1>7, <2>2 DEF SS!Update, SS!Changed
  <2>4. next \in SS!Settings
    BY <2>1, <2>2 DEF SS!Settings, SS!ChangedFrom, SS!Inputs
  <2>5. input.executables \in SUBSET (Agents \cup {ForeignAgent})
    BY DEF SS!Inputs
  <2>6. SS!TypeOK'
    BY <2>1, <2>3, <2>4, <2>5
  <2>7. SS!UpdatesFollowViews'
    BY <2>1, <2>3
  <2> QED
    BY <2>1, <2>6, <2>7
<1>8. ASSUME NEW w \in Windows, NEW a \in Agents \cup {ForeignAgent}, SS!Inspect(w, a)
      PROVE  SS!IInv' /\ SS!ChangeWasSeen
  BY <1>8 DEF SS!Inspect, SS!Ends
<1> QED
  BY <1>1, <1>2, <1>3, <1>4, <1>5, <1>6, <1>7, <1>8 DEF SS!Next

\* For any number of windows and agents: no window's save overwrites settings that
\* this window did not show (updateApplicationSettings and its store).
THEOREM SettingsAreKept == Spec => NoSettingsAreLost
<1> DEFINE Inv == part = "settings" => SS!IInv
<1>1. Init => Inv
  BY SettingsInit DEF Init
<1>2. Inv /\ [Next]_desktopVars => Inv'
  BY PartStays, SettingsPart, SettingsStep
<1>3. Inv /\ [Next]_desktopVars => [part = "settings" => SS!ChangeWasSeen]_desktopVars
  BY SettingsPart, SettingsStep
<1> QED
  BY <1>1, <1>2, <1>3, PTL DEF Spec, NoSettingsAreLost
-----------------------------------------------------------------------------
(* The controller of the window.                                           *)

LEMMA ControllerPart ==
  ASSUME part = "controller", [Next]_desktopVars
  PROVE  [WC!Next]_(WC!controllerVars)
BY DEF Next, Moves, desktopVars, WC!controllerVars

LEMMA ControllerInit == WC!Init => WC!IInv
<1> SUFFICES ASSUME WC!Init PROVE WC!IInv
  OBVIOUS
<1>1. v2 \in WC!Snapshots /\ v2 = WC!Blank
  BY DEF WC!Init, WC!Blank, WC!Idle, WC!Snapshots, WC!Evidence
<1>2. v2.changes.is = "idle" /\ v2.pr.is = "idle" /\ v2.kind = "loading" /\ v2.tabs = {}
      /\ v2.settings = 0
  BY <1>1 DEF WC!Blank, WC!Idle
<1>3. WC!FitsItsSelection(v2) /\ WC!SpinnersHaveRequests
  BY <1>1, <1>2 DEF WC!FitsItsSelection, WC!SpinnersHaveRequests
<1>4. WC!TypeOK
  BY <1>1 DEF WC!Init, WC!TypeOK
<1>5. WC!WorkNeedsAWorkspace
  BY <1>1, <1>2 DEF WC!Init, WC!WorkNeedsAWorkspace, WC!Ready
<1>6. v2.settings <= v1
  BY <1>2 DEF WC!Init
<1> QED
  BY <1>3, <1>4, <1>5, <1>6 DEF WC!IInv

\* What is published with new evidence fits, and its requests are under way.
LEMMA EvidenceStarts ==
  ASSUME NEW s \in WC!Snapshots, WC!FitsItsSelection(s), s.kind = "ready",
         s.changes = WC!Idle, s.pr = WC!Idle, v9 \in BOOLEAN, WC!WithEvidence(s),
         v4 \in [what : {"list", "diff"}, task : ShownTasks] \cup {None},
         v5 \in ShownTasks \cup {None}
  PROVE  /\ v9 => v2' = v2
         /\ ~ v9 => /\ v2' \in WC!Snapshots
                    /\ WC!FitsItsSelection(v2')
                    /\ v2'.kind = "ready" /\ v2'.settings = s.settings
                    /\ v2'.changes.is = "loading" => v4' = [what |-> "list", task |-> v2'.selected]
                    /\ v2'.pr.is = "loading" => v5' = v2'.selected
                    /\ v2'.changes.is # "diff"
         /\ v4' \in [what : {"list", "diff"}, task : ShownTasks] \cup {None}
         /\ v5' \in ShownTasks \cup {None}
<1>1. CASE s.selected = None
  BY <1>1 DEF WC!WithEvidence, WC!Publish, WC!Idle
<1>2. CASE s.selected # None
  <2> PICK loading : loading = [is |-> "loading", task |-> s.selected]
    OBVIOUS
  <2> PICK t : t = [s EXCEPT !.changes = loading, !.pr = loading]
    OBVIOUS
  <2>1. /\ v2' = IF v9 THEN v2 ELSE t
        /\ v4' = [what |-> "list", task |-> s.selected] /\ v5' = s.selected
    BY <1>2 DEF WC!WithEvidence, WC!Publish
  <2>2. loading \in WC!Evidence /\ loading.is = "loading" /\ loading.task = s.selected
    BY DEF WC!Snapshots, WC!Evidence
  <2>3. /\ t \in WC!Snapshots /\ t.changes = loading /\ t.pr = loading
        /\ t.selected = s.selected /\ t.tabs = s.tabs /\ t.kind = s.kind
        /\ t.settings = s.settings
    BY <2>2 DEF WC!Snapshots
  <2>4. s.selected \in ShownTasks
    BY <1>2 DEF WC!Snapshots
  <2>5. v4' \in [what : {"list", "diff"}, task : ShownTasks]
    BY <2>1, <2>4
  <2>6. WC!FitsItsSelection(t)
    BY <1>2, <2>2, <2>3 DEF WC!FitsItsSelection
  <2> QED
    BY <2>1, <2>2, <2>3, <2>4, <2>5, <2>6
<1> QED
  BY <1>1, <1>2

\* What is left to show of a step once the workspace is shown.
LEMMA ControllerKeeps ==
  ASSUME WC!IInv, WC!Ready,
         \/ v2' = v2
         \/ /\ ~ v9 /\ v2' \in WC!Snapshots /\ WC!FitsItsSelection(v2')
            /\ v2'.kind = "ready" /\ v2.settings <= v2'.settings /\ v2'.settings <= v1',
         WC!SpinnersHaveRequests', WC!TypeOK', v1 <= v1',
         v3' # None => v3'.how = "refresh"
  PROVE  WC!IInv' /\ WC!ShownMovesOn
<1>1. WC!WorkNeedsAWorkspace' /\ WC!FitsItsSelection(v2)'
  BY DEF WC!IInv, WC!WorkNeedsAWorkspace, WC!Ready, WC!FitsItsSelection
<1>2. v2.settings \in Nat /\ v2'.settings \in Nat /\ v1 \in Nat /\ v1' \in Nat
  BY DEF WC!IInv, WC!TypeOK, WC!Snapshots
<1>3. v2.settings <= v2'.settings /\ v2'.settings <= v1'
  BY <1>2 DEF WC!IInv
<1>4. WC!ShownMovesOn
  BY <1>2, <1>3 DEF WC!ShownMovesOn, WC!Ready
<1> QED
  BY <1>1, <1>3, <1>4 DEF WC!IInv

\* The calls of actions change, and with them at most what the window shows of them.
LEMMA ControllerActs ==
  ASSUME WC!IInv, WC!Ready, NEW a \in ShownTasks \cup {None},
         v2' = v2 \/ (~ v9 /\ v2' = [v2 EXCEPT !.action = a]),
         v6' \in SUBSET [kind : WC!ActionKinds, task : ShownTasks,
                       stage : {"call", "reload", "evidence", "refresh"}],
         UNCHANGED <<v1, v3, v4, v5, v7, v8, v9>>
  PROVE  WC!IInv' /\ WC!ShownMovesOn
<1>1. v2 \in WC!Snapshots /\ WC!FitsItsSelection(v2) /\ WC!SpinnersHaveRequests
  BY DEF WC!IInv, WC!TypeOK
<1>2. CASE v2' = v2
  BY <1>1, <1>2, ControllerKeeps DEF WC!IInv, WC!TypeOK, WC!SpinnersHaveRequests,
     WC!WorkNeedsAWorkspace, WC!Snapshots, WC!Evidence, WC!Ready
<1>3. CASE ~ v9 /\ v2' = [v2 EXCEPT !.action = a]
  <2>1. /\ v2' \in WC!Snapshots /\ v2'.changes = v2.changes /\ v2'.pr = v2.pr
        /\ v2'.selected = v2.selected /\ v2'.tabs = v2.tabs /\ v2'.kind = v2.kind
        /\ v2'.settings = v2.settings
    BY <1>1, <1>3 DEF WC!Snapshots
  <2>2. v2.settings \in Nat /\ v1 \in Nat
    BY <1>1 DEF WC!IInv, WC!TypeOK, WC!Snapshots
  <2>3. WC!FitsItsSelection(v2')
    BY <1>1, <2>1 DEF WC!FitsItsSelection
  <2>4. WC!SpinnersHaveRequests'
    BY <1>1, <2>1 DEF WC!SpinnersHaveRequests
  <2>5. WC!TypeOK'
    BY <2>1 DEF WC!IInv, WC!TypeOK, WC!Snapshots, WC!Evidence
  <2> QED
    BY <1>3, <2>1, <2>2, <2>3, <2>4, <2>5, ControllerKeeps DEF WC!IInv, WC!WorkNeedsAWorkspace,
       WC!Ready
<1> QED
  BY <1>2, <1>3

\* Something is published with new evidence.
LEMMA ControllerShows ==
  ASSUME WC!IInv, NEW s \in WC!Snapshots, WC!FitsItsSelection(s), s.kind = "ready",
         s.changes = WC!Idle, s.pr = WC!Idle, v2.settings <= s.settings, s.settings <= v1,
         WC!WithEvidence(s), UNCHANGED <<v1, v7, v9>>, v3' \in {v3, None},
         v6' \in SUBSET [kind : WC!ActionKinds, task : ShownTasks,
                       stage : {"call", "reload", "evidence", "refresh"}],
         v8' \in {"no", "asked", "reload"},
         ~ WC!Ready => v3' = None /\ UNCHANGED <<v6, v8>>
  PROVE  WC!IInv' /\ WC!ShownMovesOn
<1> USE DEF WC!IInv, WC!TypeOK
<1>1. /\ v9 => v2' = v2
      /\ ~ v9 => /\ v2' \in WC!Snapshots
                 /\ WC!FitsItsSelection(v2')
                 /\ v2'.kind = "ready" /\ v2'.settings = s.settings
                 /\ v2'.changes.is = "loading" => v4' = [what |-> "list", task |-> v2'.selected]
                 /\ v2'.pr.is = "loading" => v5' = v2'.selected
                 /\ v2'.changes.is # "diff"
      /\ v4' \in [what : {"list", "diff"}, task : ShownTasks] \cup {None}
      /\ v5' \in ShownTasks \cup {None}
  BY EvidenceStarts
<1>2. v2.settings \in Nat /\ v1 \in Nat
  BY DEF WC!Snapshots
<1>3. WC!SpinnersHaveRequests'
  BY <1>1 DEF WC!SpinnersHaveRequests
<1>4. WC!TypeOK'
  BY <1>1 DEF WC!Snapshots, WC!Evidence
<1>5. CASE WC!Ready
  <2>1. v3' # None => v3'.how = "refresh"
    BY <1>5 DEF WC!WorkNeedsAWorkspace
  <2> QED
    BY <1>1, <1>2, <1>3, <1>4, <1>5, <2>1, ControllerKeeps
<1>6. CASE ~ WC!Ready
  <2>1. WC!WorkNeedsAWorkspace'
    BY <1>1, <1>6 DEF WC!WorkNeedsAWorkspace, WC!Ready, WC!Blank, WC!Failure, WC!Idle
  <2>2. WC!FitsItsSelection(v2)'
    BY <1>1 DEF WC!FitsItsSelection
  <2>3. WC!ShownMovesOn
    BY <1>1, <1>2, <1>6 DEF WC!ShownMovesOn, WC!Ready
  <2>4. v2'.settings <= v1'
    BY <1>1
  <2> QED
    BY <1>3, <1>4, <2>1, <2>2, <2>3, <2>4
<1> QED
  BY <1>5, <1>6

\* The snapshot of publishReady.
LEMMA PublishedFits ==
  ASSUME v2 \in WC!Snapshots, NEW preferred \in ShownTasks \cup {None}, NEW revision \in Nat,
         NEW persisted \in SUBSET ShownTasks,
         NEW s, s = WC!Published(v2, preferred, revision, persisted)
  PROVE  /\ s \in WC!Snapshots /\ WC!FitsItsSelection(s) /\ s.kind = "ready"
         /\ s.changes = WC!Idle /\ s.pr = WC!Idle
         /\ WC!Ready => v2.settings <= s.settings
         /\ s.settings \in {v2.settings, revision}
<1>1. PICK task : task = IF preferred = None THEN FirstTask ELSE preferred
  OBVIOUS
<1>2. PICK tabs : tabs = IF v2.kind = "ready" THEN v2.tabs ELSE persisted
  OBVIOUS
<1>3. PICK kept : kept = WC!KeptSettings(v2, revision)
  OBVIOUS
<1>4. s = [kind |-> "ready", tabs |-> tabs \cup {task}, selected |-> task,
           changes |-> WC!Idle, pr |-> WC!Idle, action |-> None, settings |-> kept]
  BY <1>1, <1>2, <1>3 DEF WC!Published
<1>5. task \in ShownTasks
  BY <1>1, TasksAreShown
<1>6. tabs \in SUBSET ShownTasks
  BY <1>2 DEF WC!Snapshots
<1>7. kept \in Nat /\ kept \in {v2.settings, revision} /\ (WC!Ready => v2.settings <= kept)
  BY <1>3 DEF WC!KeptSettings, WC!Snapshots, WC!Ready
<1>8. WC!Idle \in WC!Evidence /\ WC!Idle.is = "idle"
  BY DEF WC!Idle, WC!Evidence
<1>9. s \in WC!Snapshots
  BY <1>4, <1>5, <1>6, <1>7, <1>8 DEF WC!Snapshots
<1> QED
  BY <1>4, <1>7, <1>8, <1>9 DEF WC!FitsItsSelection

LEMMA ControllerStep ==
  ASSUME WC!IInv, [WC!Next]_(WC!controllerVars)
  PROVE  WC!IInv' /\ WC!ShownMovesOn
<1> USE TasksAreShown DEF WC!IInv, WC!TypeOK, WC!SpinnersHaveRequests, WC!WorkNeedsAWorkspace,
        WC!Ready, WC!ShownMovesOn
<1>0. CASE UNCHANGED WC!controllerVars
  BY <1>0 DEF WC!controllerVars, WC!FitsItsSelection, WC!Snapshots, WC!Evidence, WC!Blank,
       WC!Failure, WC!Idle
<1>1. CASE WC!OtherWindowSaves
  <2>1. v1' = v1 + 1 /\ UNCHANGED <<v2, v3, v4, v5, v6, v7, v8, v9>>
    BY <1>1 DEF WC!OtherWindowSaves
  <2>2. v2.settings \in Nat
    BY DEF WC!Snapshots
  <2>3. v1' \in Nat /\ v2.settings <= v1' /\ v2.settings >= v2.settings
    BY <2>1, <2>2
  <2>4. WC!TypeOK'
    BY <2>1, <2>3 DEF WC!FitsItsSelection, WC!Snapshots, WC!Evidence, WC!Blank, WC!Failure, WC!Idle
  <2>5. WC!FitsItsSelection(v2)'
    BY <2>1, <2>3 DEF WC!FitsItsSelection, WC!Snapshots, WC!Evidence, WC!Blank, WC!Failure, WC!Idle
  <2>6. WC!SpinnersHaveRequests'
    BY <2>1, <2>3 DEF WC!FitsItsSelection, WC!Snapshots, WC!Evidence, WC!Blank, WC!Failure, WC!Idle
  <2>7. WC!WorkNeedsAWorkspace'
    BY <2>1, <2>3 DEF WC!FitsItsSelection, WC!Snapshots, WC!Evidence, WC!Blank, WC!Failure, WC!Idle
  <2>8. WC!ShownMovesOn
    BY <2>1, <2>3 DEF WC!FitsItsSelection, WC!Snapshots, WC!Evidence, WC!Blank, WC!Failure, WC!Idle
  <2> QED
    BY <2>1, <2>3, <2>4, <2>5, <2>6, <2>7, <2>8
<1>2. CASE WC!Load
  BY <1>2 DEF WC!Load, WC!FitsItsSelection, WC!Publish, WC!Read, WC!Blank, WC!Failure, WC!Idle, WC!Snapshots, WC!Evidence
<1>3. CASE WC!Refresh
  BY <1>3 DEF WC!Refresh, WC!FitsItsSelection, WC!Publish, WC!Read, WC!Blank, WC!Failure, WC!Idle, WC!Snapshots, WC!Evidence
<1>4. CASE WC!Dispose
  BY <1>4 DEF WC!Dispose, WC!FitsItsSelection, WC!Publish, WC!Read, WC!Blank, WC!Failure, WC!Idle, WC!Snapshots, WC!Evidence
<1>5. CASE WC!ReadFails
  <2>1. UNCHANGED <<v1, v4, v5, v6, v7, v8, v9>> /\ v3' = None
    BY <1>5 DEF WC!ReadFails
  <2>2. v2' = v2 \/ (~ WC!Ready /\ v2' = WC!Failure /\ ~ v9)
    BY <1>5 DEF WC!ReadFails, WC!Publish
  <2>3. CASE v2' = v2
    BY <2>1, <2>3 DEF WC!FitsItsSelection, WC!Snapshots, WC!Evidence, WC!Blank, WC!Failure,
       WC!Idle
  <2>4. CASE ~ WC!Ready /\ v2' = WC!Failure /\ ~ v9
    BY <2>1, <2>4 DEF WC!FitsItsSelection, WC!Snapshots, WC!Evidence, WC!Blank, WC!Failure,
       WC!Idle
  <2> QED
    BY <2>2, <2>3, <2>4
<1>6. CASE WC!SaveSettings
  BY <1>6 DEF WC!SaveSettings, WC!FitsItsSelection, WC!Publish, WC!Read, WC!Blank, WC!Failure, WC!Idle, WC!Snapshots, WC!Evidence
<1>7. CASE WC!SettingsAnswer
  BY <1>7 DEF WC!SettingsAnswer, WC!FitsItsSelection, WC!Publish, WC!Read, WC!Blank, WC!Failure, WC!Idle, WC!Snapshots, WC!Evidence
<1>8. CASE WC!StartOnboarding
  BY <1>8 DEF WC!StartOnboarding, WC!FitsItsSelection, WC!Publish, WC!Read, WC!Blank, WC!Failure, WC!Idle, WC!Snapshots, WC!Evidence
<1>9. CASE WC!OnboardingEnds
  BY <1>9 DEF WC!OnboardingEnds, WC!FitsItsSelection, WC!Publish, WC!Read, WC!Blank, WC!Failure, WC!Idle, WC!Snapshots, WC!Evidence
<1>10. CASE WC!OnboardingDone
  BY <1>10 DEF WC!OnboardingDone, WC!FitsItsSelection, WC!Publish, WC!Read, WC!Blank, WC!Failure, WC!Idle, WC!Snapshots, WC!Evidence
<1>11. CASE WC!SelectTaskChange
  BY <1>11 DEF WC!SelectTaskChange, WC!FitsItsSelection, WC!Publish, WC!Read, WC!Blank, WC!Failure, WC!Idle, WC!Snapshots, WC!Evidence
<1>12. CASE WC!CaptureNote
  BY <1>12, ControllerActs DEF WC!CaptureNote, WC!CanRun, WC!CanAct, WC!Running, WC!Starts,
     WC!Publish, WC!Call, WC!ActionKinds, WC!Snapshots
<1>13. CASE WC!TriggerResolution
  BY <1>13, ControllerActs DEF WC!TriggerResolution, WC!CanRun, WC!CanAct, WC!Starts,
     WC!Call, WC!ActionKinds, WC!Snapshots
<1>14. ASSUME NEW t \in ShownTasks, WC!ProduceArtifact(t)
       PROVE  WC!IInv' /\ WC!ShownMovesOn
  BY <1>14, ControllerActs DEF WC!ProduceArtifact, WC!CanAct, WC!Running, WC!Starts,
     WC!Publish, WC!Call, WC!ActionKinds, WC!Snapshots
<1>15. ASSUME NEW t \in ShownTasks, WC!EditDependency(t)
       PROVE  WC!IInv' /\ WC!ShownMovesOn
  BY <1>15, ControllerActs DEF WC!EditDependency, WC!CanAct, WC!Running, WC!Starts,
     WC!Publish, WC!Call, WC!ActionKinds, WC!Snapshots
<1>16. ASSUME NEW kind \in WC!ActionKinds, WC!StartSelected(kind)
       PROVE  WC!IInv' /\ WC!ShownMovesOn
  BY <1>16, ControllerActs DEF WC!StartSelected, WC!CanRun, WC!CanAct, WC!Running, WC!Starts,
     WC!Publish, WC!Call, WC!ActionKinds, WC!Snapshots
<1>17. ASSUME NEW call \in v6, WC!ArtifactFails(call)
       PROVE  WC!IInv' /\ WC!ShownMovesOn
  BY <1>17, ControllerActs DEF WC!ArtifactFails, WC!Fails, WC!Publish, WC!Snapshots
<1>18. ASSUME NEW call \in v6, NEW ok \in BOOLEAN, WC!ResolutionAnswers(call, ok)
       PROVE  WC!IInv' /\ WC!ShownMovesOn
  BY <1>18, ControllerActs DEF WC!ResolutionAnswers, WC!Publish
<1>19. ASSUME NEW call \in v6, WC!CallIsDone(call)
       PROVE  WC!IInv' /\ WC!ShownMovesOn
  BY <1>19, ControllerActs DEF WC!CallIsDone
<1>20. ASSUME NEW call \in v6, WC!ActionEnds(call)
       PROVE  WC!IInv' /\ WC!ShownMovesOn
  BY <1>20, ControllerActs DEF WC!ActionEnds
<1>21. ASSUME NEW t \in ShownTasks, WC!SelectTask(t)
       PROVE  WC!IInv' /\ WC!ShownMovesOn
  <2> PICK s : s = [v2 EXCEPT !.tabs = @ \cup {t}, !.selected = t, !.changes = WC!Idle,
                              !.pr = WC!Idle]
    OBVIOUS
  <2>1. /\ s \in WC!Snapshots /\ s.kind = v2.kind /\ s.settings = v2.settings
        /\ s.changes = WC!Idle /\ s.pr = WC!Idle /\ s.selected \in s.tabs
    BY DEF WC!Snapshots, WC!Idle, WC!Evidence
  <2>2. WC!FitsItsSelection(s)
    BY <2>1 DEF WC!FitsItsSelection, WC!Idle
  <2>3. v2.settings <= s.settings /\ s.settings <= v1
    BY <2>1 DEF WC!Snapshots
  <2> QED
    BY <1>21, <2>1, <2>2, <2>3, ControllerShows DEF WC!SelectTask
<1>22. ASSUME NEW t \in ShownTasks \cup {None}, NEW tabs \in SUBSET ShownTasks,
              t \in tabs \/ tabs = {}, WC!Selects(tabs, t), WC!Ready, ~ v9,
              UNCHANGED <<v1, v3, v6, v7, v8, v9>>
       PROVE  WC!IInv' /\ WC!ShownMovesOn
  <2>1. CASE t = v2.selected
    <3> PICK s : s = [v2 EXCEPT !.tabs = tabs]
      OBVIOUS
    <3>1. /\ s \in WC!Snapshots /\ s.kind = v2.kind /\ s.settings = v2.settings
          /\ s.changes = v2.changes /\ s.pr = v2.pr /\ s.selected = v2.selected
          /\ s.tabs = tabs
      BY DEF WC!Snapshots
    <3>2. WC!FitsItsSelection(s)
      BY <1>22, <2>1, <3>1 DEF WC!FitsItsSelection
    <3>3. v2' = s /\ UNCHANGED <<v4, v5>>
      BY <1>22, <2>1 DEF WC!Selects, WC!Publish
    <3>4. v2.settings <= s.settings /\ s.settings <= v1 /\ v1 <= v1
      BY <3>1 DEF WC!Snapshots
    <3>5. WC!SpinnersHaveRequests'
      BY <1>22, <3>1, <3>3
    <3>6. WC!TypeOK'
      BY <1>22, <3>1, <3>3 DEF WC!Snapshots, WC!Evidence
    <3> QED
      BY <1>22, <3>1, <3>2, <3>3, <3>4, <3>5, <3>6, ControllerKeeps
  <2>2. CASE t # v2.selected
    <3> PICK s : s = [v2 EXCEPT !.tabs = tabs, !.selected = t, !.changes = WC!Idle,
                                !.pr = WC!Idle]
      OBVIOUS
    <3>1. /\ s \in WC!Snapshots /\ s.kind = v2.kind /\ s.settings = v2.settings
          /\ s.changes = WC!Idle /\ s.pr = WC!Idle /\ s.selected = t /\ s.tabs = tabs
      BY DEF WC!Snapshots, WC!Idle, WC!Evidence
    <3>2. WC!FitsItsSelection(s)
      BY <1>22, <3>1 DEF WC!FitsItsSelection, WC!Idle
    <3>3. v2.settings <= s.settings /\ s.settings <= v1
      BY <3>1 DEF WC!Snapshots
    <3> QED
      BY <1>22, <2>2, <3>1, <3>2, <3>3, ControllerShows DEF WC!Selects
  <2> QED
    BY <2>1, <2>2
<1>23. ASSUME NEW t \in ShownTasks, WC!SelectWorkspaceTab(t)
       PROVE  WC!IInv' /\ WC!ShownMovesOn
  BY <1>22, <1>23 DEF WC!SelectWorkspaceTab, WC!Snapshots
<1>24. ASSUME NEW t \in ShownTasks, NEW next \in ShownTasks \cup {None},
              WC!CloseWorkspaceTab(t, next)
       PROVE  WC!IInv' /\ WC!ShownMovesOn
  <2>1. /\ t \in v2.tabs /\ WC!Selects(v2.tabs \ {t}, next) /\ WC!Ready /\ ~ v9
        /\ next \in (IF t # v2.selected THEN {v2.selected}
                     ELSE IF v2.tabs \ {t} = {} THEN {None} ELSE v2.tabs \ {t})
        /\ UNCHANGED <<v1, v3, v6, v7, v8, v9>>
    BY <1>24 DEF WC!CloseWorkspaceTab
  <2>2. v2.tabs \ {t} \in SUBSET ShownTasks
    BY DEF WC!Snapshots
  <2>3. next \in v2.tabs \ {t} \/ v2.tabs \ {t} = {}
    BY <2>1 DEF WC!FitsItsSelection
  <2> QED
    BY <1>22, <2>1, <2>2, <2>3
<1>25. ASSUME NEW revision, NEW persisted \in SUBSET ShownTasks,
              WC!ReadAnswers(revision, persisted)
       PROVE  WC!IInv' /\ WC!ShownMovesOn
  <2> PICK preferred : preferred = IF v3.how = "refresh" THEN v2.selected ELSE None
    OBVIOUS
  <2> PICK s : s = WC!Published(v2, preferred, revision, persisted)
    OBVIOUS
  <2>1. /\ v3 # None /\ revision \in v3.saved..v1 /\ WC!WithEvidence(s) /\ v3' = None
        /\ UNCHANGED <<v1, v6, v7, v8, v9>>
    BY <1>25 DEF WC!ReadAnswers
  <2>2. revision \in Nat /\ revision <= v1
    BY <2>1
  <2>3. preferred \in ShownTasks \cup {None}
    BY DEF WC!Snapshots
  <2>4. /\ s \in WC!Snapshots /\ WC!FitsItsSelection(s) /\ s.kind = "ready"
        /\ s.changes = WC!Idle /\ s.pr = WC!Idle
        /\ WC!Ready => v2.settings <= s.settings
        /\ s.settings \in {v2.settings, revision}
    BY <2>2, <2>3, PublishedFits
  <2>5. ~ WC!Ready => v2.settings = 0
    BY DEF WC!Blank, WC!Failure
  <2>6. v2.settings <= s.settings /\ s.settings <= v1
    BY <2>2, <2>4, <2>5 DEF WC!Snapshots
  <2> QED
    BY <2>1, <2>4, <2>6, ControllerShows
<1>26. ASSUME NEW call \in v6, NEW preferred \in ShownTasks \cup {None},
              WC!Reloads(call, preferred)
       PROVE  WC!IInv' /\ WC!ShownMovesOn
  <2>1. v6' = {[call EXCEPT !.stage = "evidence"]} /\ UNCHANGED <<v1, v3, v7, v8, v9>>
    BY <1>26 DEF WC!Reloads
  <2>2. v6' \in SUBSET [kind : WC!ActionKinds, task : ShownTasks,
                       stage : {"call", "reload", "evidence", "refresh"}]
    BY <2>1
  <2>3. WC!Ready
    OBVIOUS
  <2>4. CASE v9
    BY <1>26, <2>1, <2>2, <2>3, <2>4, ControllerActs DEF WC!Reloads
  <2>5. CASE ~ v9
    <3> PICK s : s = WC!Published(v2, preferred, v2.settings, {})
      OBVIOUS
    <3>1. WC!WithEvidence(s)
      BY <1>26, <2>5 DEF WC!Reloads
    <3>2. v2.settings \in Nat /\ v2.settings <= v1
      BY DEF WC!Snapshots
    <3>3. /\ s \in WC!Snapshots /\ WC!FitsItsSelection(s) /\ s.kind = "ready"
          /\ s.changes = WC!Idle /\ s.pr = WC!Idle /\ s.settings = v2.settings
      BY <3>2, PublishedFits
    <3> QED
      BY <2>1, <2>2, <2>3, <3>1, <3>2, <3>3, ControllerShows
  <2> QED
    BY <2>4, <2>5
<1>27. ASSUME NEW call \in v6, WC!ActionReloads(call) \/ WC!ArtifactReloads(call)
       PROVE  WC!IInv' /\ WC!ShownMovesOn
  BY <1>26, <1>27 DEF WC!ActionReloads, WC!ArtifactReloads, WC!Snapshots
<1>28. ASSUME NEW task \in ShownTasks, NEW persisted \in SUBSET ShownTasks,
              WC!OnboardingReloads(task, persisted)
       PROVE  WC!IInv' /\ WC!ShownMovesOn
  <2>1. /\ v8 = "reload" /\ v8' = "no" /\ UNCHANGED <<v1, v3, v6, v7, v9>>
        /\ WC!Ready
    BY <1>28 DEF WC!OnboardingReloads
  <2>2. CASE v9
    <3>1. UNCHANGED <<v2, v4, v5>>
      BY <1>28, <2>2 DEF WC!OnboardingReloads
    <3>2. WC!TypeOK' /\ WC!SpinnersHaveRequests'
      BY <2>1, <3>1 DEF WC!Snapshots, WC!Evidence
    <3> QED
      BY <2>1, <3>1, <3>2, ControllerKeeps
  <2>3. CASE ~ v9
    <3> PICK s : s = WC!Published(v2, task, v1, persisted)
      OBVIOUS
    <3>1. WC!WithEvidence(s)
      BY <1>28, <2>3 DEF WC!OnboardingReloads
    <3>2. /\ s \in WC!Snapshots /\ WC!FitsItsSelection(s) /\ s.kind = "ready"
          /\ s.changes = WC!Idle /\ s.pr = WC!Idle
          /\ v2.settings <= s.settings /\ s.settings \in {v2.settings, v1}
      BY <2>1, PublishedFits
    <3>3. s.settings <= v1
      BY <3>2
    <3> QED
      BY <2>1, <3>1, <3>2, <3>3, ControllerShows
  <2> QED
    BY <2>2, <2>3
<1>29. ASSUME NEW call \in v6, WC!DependencyIsDone(call)
       PROVE  WC!IInv' /\ WC!ShownMovesOn
  <2>1. /\ v6' = {[call EXCEPT !.stage = "refresh"]}
        /\ v3' = IF v9 THEN v3 ELSE WC!Read("refresh", TRUE)
        /\ UNCHANGED <<v1, v2, v4, v5, v7, v8, v9>>
    BY <1>29 DEF WC!DependencyIsDone
  <2>2. WC!Ready
    OBVIOUS
  <2>3. v3' # None => v3'.how = "refresh"
    BY <2>1, <2>2 DEF WC!Read
  <2>4. WC!TypeOK'
    <3>1. [call EXCEPT !.stage = "refresh"]
            \in [kind : WC!ActionKinds, task : ShownTasks,
                stage : {"call", "reload", "evidence", "refresh"}]
      <4>1. call \in [kind : WC!ActionKinds, task : ShownTasks,
                     stage : {"call", "reload", "evidence", "refresh"}]
        OBVIOUS
      <4> QED
        BY <4>1 DEF WC!ActionKinds
    <3>2. WC!Read("refresh", TRUE) \in [how : {"load", "refresh"}, saved : Nat,
                                       forAction : BOOLEAN]
      BY v1 \in Nat, TRUE \in BOOLEAN, Zenon DEF WC!Read
    <3>3. v3' \in [how : {"load", "refresh"}, saved : Nat, forAction : BOOLEAN] \cup {None}
      BY <2>1, <3>2
    <3>4. v6' \in SUBSET [kind : WC!ActionKinds, task : ShownTasks,
                         stage : {"call", "reload", "evidence", "refresh"}]
      BY <2>1, <3>1
    <3>5. UNCHANGED <<v1, v2, v4, v5, v7, v8, v9>>
      BY <2>1
    <3> QED
      BY <3>3, <3>4, <3>5 DEF WC!Snapshots, WC!Evidence
  <2>5. WC!SpinnersHaveRequests'
    BY <2>1
  <2>6. v2' = v2 /\ v1 <= v1'
    BY <2>1
  <2> QED
    BY <2>2, <2>3, <2>4, <2>5, <2>6, ControllerKeeps
<1>30. ASSUME NEW how \in {"ready", "error"}, WC!ChangesAnswer(how)
       PROVE  WC!IInv' /\ WC!ShownMovesOn
  <2>1. v4 # None /\ v4' = None /\ UNCHANGED <<v1, v3, v5, v6, v7, v8, v9>>
    BY <1>30 DEF WC!ChangesAnswer
  <2>2. v4 \in [what : {"list", "diff"}, task : ShownTasks]
    BY <2>1
  <2>3. CASE ~ WC!Ready
    <3>1. v2' = v2
      BY <1>30, <2>3 DEF WC!ChangesAnswer
    <3>2. v2.changes.is = "idle" /\ v2.pr.is = "idle"
      BY <2>3 DEF WC!Blank, WC!Failure, WC!Idle
    <3> QED
      BY <2>1, <2>3, <3>1, <3>2 DEF WC!FitsItsSelection, WC!Snapshots, WC!Evidence, WC!Blank,
         WC!Failure, WC!Idle
  <2>4. CASE v9 \/ v2.selected # v4.task
    <3>1. v2' = v2
      BY <1>30, <2>4 DEF WC!ChangesAnswer
    <3>2. WC!SpinnersHaveRequests'
      BY <2>1, <2>2, <2>4, <3>1
    <3>3. WC!TypeOK'
      BY <2>1, <3>1 DEF WC!Snapshots, WC!Evidence
    <3> QED
      BY <2>1, <2>3, <3>1, <3>2, <3>3, ControllerKeeps
  <2>5. CASE WC!Ready /\ ~ v9 /\ v2.selected = v4.task /\ v4.what = "list"
    <3> PICK e : e = [is |-> how, task |-> v4.task]
      OBVIOUS
    <3>1. v2' = [v2 EXCEPT !.changes = e]
      BY <1>30, <2>5 DEF WC!ChangesAnswer, WC!Publish
    <3>2. e \in WC!Evidence /\ e.is \in {"ready", "error"} /\ e.task = v2.selected
      BY <2>2, <2>5 DEF WC!Evidence
    <3>3. /\ v2' \in WC!Snapshots /\ v2'.changes = e /\ v2'.pr = v2.pr /\ v2'.kind = v2.kind
          /\ v2'.selected = v2.selected /\ v2'.tabs = v2.tabs /\ v2'.settings = v2.settings
      BY <3>1, <3>2 DEF WC!Snapshots
    <3>4. v2.selected # None
      BY <2>2, <2>5
    <3>5. WC!FitsItsSelection(v2')
      BY <3>2, <3>3, <3>4 DEF WC!FitsItsSelection
    <3>6. WC!SpinnersHaveRequests'
      BY <2>1, <3>2, <3>3
    <3>7. WC!TypeOK'
      BY <2>1, <3>3 DEF WC!Snapshots, WC!Evidence
    <3>8. v2.settings \in Nat
      BY DEF WC!Snapshots
    <3> QED
      BY <2>1, <2>5, <3>3, <3>5, <3>6, <3>7, <3>8, ControllerKeeps
  <2>6. CASE WC!Ready /\ ~ v9 /\ v2.selected = v4.task /\ v4.what # "list"
    <3>1. \/ v2' = v2 /\ v2.changes.is # "diff"
          \/ v2' = [v2 EXCEPT !.changes.is = "ready"] /\ v2.changes.is = "diff"
      BY <1>30, <2>6 DEF WC!ChangesAnswer, WC!Publish
    <3>2. v2.changes.is # "loading"
      BY <2>6
    <3>3. CASE v2' = v2 /\ v2.changes.is # "diff"
      <4>1. WC!SpinnersHaveRequests'
        BY <2>1, <3>2, <3>3
      <4>2. WC!TypeOK'
        BY <2>1, <3>3 DEF WC!Snapshots, WC!Evidence
      <4> QED
        BY <2>1, <2>6, <3>3, <4>1, <4>2, ControllerKeeps
    <3>4. CASE v2' = [v2 EXCEPT !.changes.is = "ready"] /\ v2.changes.is = "diff"
      <4> PICK e : e = [v2.changes EXCEPT !.is = "ready"]
        OBVIOUS
      <4>1. e \in WC!Evidence /\ e.is = "ready" /\ e.task = v2.changes.task
        BY DEF WC!Snapshots, WC!Evidence
      <4>2. /\ v2' \in WC!Snapshots /\ v2'.changes = e /\ v2'.pr = v2.pr
            /\ v2'.kind = v2.kind /\ v2'.selected = v2.selected /\ v2'.tabs = v2.tabs
            /\ v2'.settings = v2.settings
        BY <3>4, <4>1 DEF WC!Snapshots
      <4>3. WC!FitsItsSelection(v2')
        BY <3>4, <4>1, <4>2 DEF WC!FitsItsSelection
      <4>4. WC!SpinnersHaveRequests'
        BY <2>1, <4>1, <4>2
      <4>5. WC!TypeOK'
        BY <2>1, <4>2 DEF WC!Snapshots, WC!Evidence
      <4>6. v2.settings \in Nat
        BY DEF WC!Snapshots
      <4> QED
        BY <2>1, <2>6, <4>2, <4>3, <4>4, <4>5, <4>6, ControllerKeeps
    <3> QED
      BY <3>1, <3>3, <3>4
  <2> QED
    BY <2>3, <2>4, <2>5, <2>6
<1>31. ASSUME NEW how \in {"ready", "error"}, WC!PullRequestAnswer(how)
       PROVE  WC!IInv' /\ WC!ShownMovesOn
  <2>1. v5 # None /\ v5' = None /\ UNCHANGED <<v1, v3, v4, v6, v7, v8, v9>>
    BY <1>31 DEF WC!PullRequestAnswer
  <2>2. CASE ~ WC!Ready
    <3>1. v2' = v2
      BY <1>31, <2>2 DEF WC!PullRequestAnswer
    <3>2. v2.changes.is = "idle" /\ v2.pr.is = "idle"
      BY <2>2 DEF WC!Blank, WC!Failure, WC!Idle
    <3> QED
      BY <2>1, <2>2, <3>1, <3>2 DEF WC!FitsItsSelection, WC!Snapshots, WC!Evidence, WC!Blank,
         WC!Failure, WC!Idle
  <2>3. CASE WC!Ready /\ (v9 \/ v2.selected # v5)
    <3>1. v2' = v2
      BY <1>31, <2>3 DEF WC!PullRequestAnswer
    <3>2. WC!SpinnersHaveRequests'
      BY <2>1, <2>3, <3>1
    <3>3. WC!TypeOK'
      BY <2>1, <3>1 DEF WC!Snapshots, WC!Evidence
    <3> QED
      BY <2>1, <2>3, <3>1, <3>2, <3>3, ControllerKeeps
  <2>4. CASE WC!Ready /\ ~ v9 /\ v2.selected = v5
    <3> PICK e : e = [is |-> how, task |-> v5]
      OBVIOUS
    <3>1. v2' = [v2 EXCEPT !.pr = e]
      BY <1>31, <2>4 DEF WC!PullRequestAnswer, WC!Publish
    <3>2. e \in WC!Evidence /\ e.is \in {"ready", "error"} /\ e.task = v2.selected
      BY <2>1, <2>4 DEF WC!Evidence
    <3>3. /\ v2' \in WC!Snapshots /\ v2'.pr = e /\ v2'.changes = v2.changes
          /\ v2'.kind = v2.kind /\ v2'.selected = v2.selected /\ v2'.tabs = v2.tabs
          /\ v2'.settings = v2.settings
      BY <3>1, <3>2 DEF WC!Snapshots
    <3>4. WC!FitsItsSelection(v2')
      BY <2>1, <2>4, <3>2, <3>3 DEF WC!FitsItsSelection
    <3>5. WC!SpinnersHaveRequests'
      BY <2>1, <3>2, <3>3
    <3>6. WC!TypeOK'
      BY <2>1, <3>3 DEF WC!Snapshots, WC!Evidence
    <3>7. v2.settings \in Nat
      BY DEF WC!Snapshots
    <3> QED
      BY <2>1, <2>4, <3>3, <3>4, <3>5, <3>6, <3>7, ControllerKeeps
  <2> QED
    BY <2>2, <2>3, <2>4
<1>32. ASSUME NEW call \in v6, WC!ActionFails(call)
       PROVE  WC!IInv' /\ WC!ShownMovesOn
  <2> PICK to : to = IF v2.selected = None THEN call.task ELSE v2.selected
    OBVIOUS
  <2>1. /\ v6' = v6 \ {call} /\ UNCHANGED <<v1, v3, v4, v5, v7, v8, v9>>
        /\ v2' = IF v9 THEN v2 ELSE [v2 EXCEPT !.action = None, !.selected = to]
    BY <1>32 DEF WC!ActionFails, WC!Fails, WC!Publish
  <2>2. WC!Ready
    OBVIOUS
  <2>3. CASE v9
    BY <2>1, <2>2, <2>3, ControllerActs
  <2>4. CASE ~ v9
    <3>1. to \in ShownTasks
      BY DEF WC!Snapshots
    <3>2. /\ v2' \in WC!Snapshots /\ v2'.pr = v2.pr /\ v2'.changes = v2.changes
          /\ v2'.kind = v2.kind /\ v2'.selected = to /\ v2'.tabs = v2.tabs
          /\ v2'.settings = v2.settings
      BY <2>1, <2>4, <3>1 DEF WC!Snapshots
    <3>3. v2.selected = None => /\ v2.tabs = {}
                               /\ v2.changes.is = "idle" /\ v2.pr.is = "idle"
      BY DEF WC!FitsItsSelection, WC!Snapshots
    <3>4. WC!FitsItsSelection(v2')
      BY <3>1, <3>2, <3>3 DEF WC!FitsItsSelection
    <3>5. WC!SpinnersHaveRequests'
      BY <2>1, <3>2, <3>3
    <3>6. WC!TypeOK'
      BY <2>1, <3>2 DEF WC!Snapshots, WC!Evidence
    <3>7. v2.settings \in Nat
      BY DEF WC!Snapshots
    <3> QED
      BY <2>1, <2>2, <2>4, <3>2, <3>4, <3>5, <3>6, <3>7, ControllerKeeps
  <2> QED
    BY <2>3, <2>4
<1> QED
  BY <1>0, <1>1, <1>2, <1>3, <1>4, <1>5, <1>6, <1>7, <1>8, <1>9, <1>10, <1>11, <1>12, <1>13,
     <1>14, <1>15, <1>16, <1>17, <1>18, <1>19, <1>20, <1>21, <1>23, <1>24, <1>25, <1>27, <1>28,
     <1>29, <1>30, <1>31, <1>32
  DEF WC!Next, WC!Answers
\* For any number of Tasks: whatever answers late, the changes and the Pull Request
\* that are shown are those of the selected Task, no spinner stays without a request,
\* and what is shown never goes back (publishReady, isCurrentChangeRequest).
THEOREM ControllerAlwaysSound == Spec => ControllerIsSound
<1> DEFINE Inv == part = "controller" => WC!IInv
<1>1. Init => Inv
  BY ControllerInit DEF Init
<1>2. Inv /\ [Next]_desktopVars => Inv'
  BY PartStays, ControllerPart, ControllerStep
<1>3. WC!IInv' => WC!ControllerSafe'
  BY DEF WC!IInv, WC!ControllerSafe, WC!EvidenceIsOfSelection, WC!FitsItsSelection
<1>4. Inv /\ [Next]_desktopVars => [part = "controller" => WC!ControllerStepIsSound]_desktopVars
  BY <1>3, ControllerPart, ControllerStep DEF WC!ControllerStepIsSound
<1> QED
  BY <1>1, <1>2, <1>4, PTL DEF Spec, ControllerIsSound

-----------------------------------------------------------------------------
(* Saving the layout.                                                      *)

\* A step of this part is one of LayoutSaving.
LEMMA SavingPart ==
  ASSUME part = "saving", [Next]_desktopVars
  PROVE  [LS!Next]_(LS!layoutVars)
BY DEF Next, Moves, desktopVars, LS!layoutVars, LS!windowVars

LEMMA SavingInit ==
  ASSUME LS!Init
  PROVE  LS!IInv
<1>1. v7 \in Seq(LS!Attempts) /\ DOMAIN v7 = {} /\ v7 = << >>
  BY EmptySeq DEF LS!Init
<1>2. /\ v1 \in [revision : Nat, layout : Nat] /\ v1.revision = 0 /\ v1.layout = 0
      /\ v3 = 0 /\ v4 = 0 /\ v6 = None /\ v11 = None /\ v8 = FALSE /\ v9 = FALSE
  BY DEF LS!Init
<1>3. LS!TypeOK
  BY <1>1, <1>2 DEF LS!TypeOK
<1>4. LS!RevisionIsStored /\ LS!InOrder(v7) /\ LS!LastCounts
  BY <1>1, <1>2 DEF LS!RevisionIsStored, LS!InOrder, LS!LastCounts
<1> QED
  BY <1>2, <1>3, <1>4 DEF LS!IInv

\* A chain of which the first attempt gets to another stage.
LEMMA FirstIsAt ==
  ASSUME NEW c \in Seq(LS!Attempts), c # << >>,
         NEW s \in {"waits", "sent", "saved", "refused"},
         NEW d, d = LS!FirstAt(c, s)
  PROVE  /\ d \in Seq(LS!Attempts) /\ d # << >> /\ Len(d) = Len(c)
         /\ d[1].layout = c[1].layout /\ d[1].expected = c[1].expected /\ d[1].stage = s
         /\ \A i \in 1..Len(c) : i # 1 => d[i] = c[i]
<1>1. Len(c) \in Nat \ {0} /\ 1 \in 1..Len(c)
  BY EmptySeq
<1>2. c[1] \in LS!Attempts
  BY <1>1, ElementOfSeq
<1> DEFINE e == [c[1] EXCEPT !.stage = s]
<1>3. e \in LS!Attempts /\ e.layout = c[1].layout /\ e.expected = c[1].expected /\ e.stage = s
  BY <1>2 DEF LS!Attempts
<1>4. d = [c EXCEPT ![1] = e]
  BY DEF LS!FirstAt
<1> HIDE DEF e
<1>5. /\ d \in Seq(LS!Attempts) /\ Len(d) = Len(c)
      /\ \A i \in 1..Len(c) : d[i] = IF i = 1 THEN e ELSE c[i]
  BY <1>1, <1>3, <1>4, ExceptSeq
<1>6. d # << >>
  BY <1>1, <1>5, EmptySeq
<1> QED
  BY <1>1, <1>3, <1>5, <1>6

\* The chain goes on, or the marks of its changes have been taken.
LEMMA ChainRuns ==
  ASSUME NEW c \in Seq(LS!Attempts), LS!Runs(c), LS!TypeOK
  PROVE  /\ v7' \in Seq(LS!Attempts) /\ v8' \in BOOLEAN
         /\ \/ v7' = << >> /\ ((c = << >> /\ v8' = v8) \/ v8' = TRUE)
            \/ /\ c # << >> /\ v7' # << >> /\ Len(v7') = Len(c) /\ v8' = v8
               /\ \A i \in 1..Len(c) :
                    /\ v7'[i].layout = c[i].layout /\ v7'[i].expected = c[i].expected
                    /\ v7'[i].stage = c[i].stage \/ i = 1
                    /\ v7'[i].stage = "saved" => c[i].stage = "saved"
<1>0. v8 \in BOOLEAN
  BY DEF LS!TypeOK
<1>1. CASE c = << >> \/ Head(c).stage # "waits"
  BY <1>0, <1>1 DEF LS!Runs
<1>2. CASE ~(c = << >> \/ Head(c).stage # "waits") /\ v5
  <2>1. c # << >> /\ v7' = LS!FirstAt(c, "sent") /\ v8' = v8
    BY <1>2 DEF LS!Runs
  <2>2. v7' \in Seq(LS!Attempts) /\ v7' # << >> /\ Len(v7') = Len(c)
    BY <2>1, FirstIsAt
  <2>3. v7'[1].layout = c[1].layout /\ v7'[1].expected = c[1].expected
    BY <2>1, FirstIsAt
  <2>4. v7'[1].stage = "sent"
    BY <2>1, FirstIsAt
  <2>5. \A i \in 1..Len(c) : i # 1 => v7'[i] = c[i]
    BY <2>1, FirstIsAt
  <2>6. ASSUME NEW i \in 1..Len(c)
        PROVE  /\ v7'[i].layout = c[i].layout /\ v7'[i].expected = c[i].expected
               /\ v7'[i].stage = c[i].stage \/ i = 1
               /\ v7'[i].stage = "saved" => c[i].stage = "saved"
    BY <2>3, <2>4, <2>5
  <2> QED
    BY <1>0, <2>1, <2>2, <2>6
<1>3. CASE ~(c = << >> \/ Head(c).stage # "waits") /\ ~v5
  BY <1>3, EmptySeq DEF LS!Runs
<1> QED
  BY <1>1, <1>2, <1>3

LEMMA RunsInOrder ==
  ASSUME NEW c \in Seq(LS!Attempts), LS!InOrder(c), LS!Runs(c), LS!TypeOK,
         UNCHANGED <<v1, v3>>
  PROVE  LS!InOrder(v7)'
<1>1. v7' \in Seq(LS!Attempts) /\ DOMAIN v7' = 1..Len(v7') /\ DOMAIN c = 1..Len(c)
  BY ChainRuns, LenProperties
<1>2. CASE v7' = << >>
  <2>1. DOMAIN v7' = {}
    BY <1>2
  <2> QED
    BY <2>1 DEF LS!InOrder
<1>3. CASE v7' # << >>
  <2>1. /\ Len(v7') = Len(c)
        /\ \A i \in 1..Len(c) :
             /\ v7'[i].layout = c[i].layout /\ v7'[i].expected = c[i].expected
             /\ v7'[i].stage = c[i].stage \/ i = 1
             /\ v7'[i].stage = "saved" => c[i].stage = "saved"
    BY <1>3, ChainRuns
  <2>2. \A i \in DOMAIN v7' :
          /\ v1'.layout <= v7'[i].layout /\ v7'[i].layout <= v3'
          /\ v7'[i].expected <= v1'.revision
          /\ v7'[i].stage = "saved" =>
               v7'[i].expected < v1'.revision /\ v7'[i].layout = v1'.layout
    BY <1>1, <2>1 DEF LS!InOrder
  <2>3. \A i, j \in DOMAIN v7' : i <= j => v7'[i].layout <= v7'[j].layout
    BY <1>1, <2>1 DEF LS!InOrder
  <2>4. \A i \in DOMAIN v7' : i > 1 => v7'[i].stage = "waits"
    BY <1>1, <2>1 DEF LS!InOrder
  <2> QED
    BY <2>2, <2>3, <2>4 DEF LS!InOrder
<1> QED
  BY <1>2, <1>3

\* The chain as it is before an action, entry by entry.
LEMMA ChainNow ==
  ASSUME LS!IInv
  PROVE  /\ Len(v7) \in Nat /\ DOMAIN v7 = 1..Len(v7) /\ v7 \in Seq(LS!Attempts)
         /\ v7 # << >> => Len(v7) > 0
         /\ \A i \in 1..Len(v7) :
              /\ v7[i] \in LS!Attempts
              /\ v7[i].layout \in Nat /\ v7[i].expected \in Nat
              /\ v1.layout <= v7[i].layout /\ v7[i].layout <= v3
              /\ v7[i].expected <= v1.revision
              /\ v7[i].stage = "saved" =>
                   v7[i].expected < v1.revision /\ v7[i].layout = v1.layout
              /\ i > 1 => v7[i].stage = "waits"
              /\ \A j \in 1..Len(v7) : i <= j => v7[i].layout <= v7[j].layout
         /\ v1.revision \in Nat /\ v1.layout \in Nat
<1>1. v7 \in Seq(LS!Attempts) /\ LS!InOrder(v7) /\ v1 \in [revision : Nat, layout : Nat]
  BY DEF LS!IInv, LS!TypeOK
<1>2. Len(v7) \in Nat /\ DOMAIN v7 = 1..Len(v7) /\ (v7 # << >> => Len(v7) > 0)
  BY <1>1, LenProperties, EmptySeq
<1>3. \A i \in 1..Len(v7) :
        v7[i] \in LS!Attempts /\ v7[i].layout \in Nat /\ v7[i].expected \in Nat
  <2>1. \A i \in 1..Len(v7) : v7[i] \in LS!Attempts
    BY <1>1, ElementOfSeq
  <2> QED
    BY <2>1 DEF LS!Attempts
<1>4. ASSUME NEW i \in 1..Len(v7)
      PROVE  /\ v1.layout <= v7[i].layout /\ v7[i].layout <= v3
             /\ v7[i].expected <= v1.revision
             /\ v7[i].stage = "saved" =>
                  v7[i].expected < v1.revision /\ v7[i].layout = v1.layout
             /\ i > 1 => v7[i].stage = "waits"
             /\ \A j \in 1..Len(v7) : i <= j => v7[i].layout <= v7[j].layout
  BY <1>1, <1>2 DEF LS!InOrder
<1>5. v1.revision \in Nat /\ v1.layout \in Nat
  BY <1>1
<1> QED
  BY <1>1, <1>2, <1>3, <1>4, <1>5

LEMMA TimerKeeps ==
  ASSUME LS!IInv, LS!TimerFires
  PROVE  LS!IInv' /\ UNCHANGED v1
<1> DEFINE a == [layout |-> v6, expected |-> v4, stage |-> "waits"]
           c == Append(v7, a)
<1>1. /\ v6 # None /\ v6 = v3 /\ v6 \in Nat /\ v4 \in Nat /\ v4 <= v1.revision
      /\ v1.layout <= v3 /\ v3 \in Nat
  BY DEF LS!TimerFires, LS!IInv, LS!LastCounts, LS!TypeOK, LS!RevisionIsStored
<1>2. a \in LS!Attempts /\ a.layout = v3 /\ a.expected = v4 /\ a.stage = "waits"
  BY <1>1 DEF LS!Attempts
<1>3. LS!Runs(c) /\ v6' = None /\ UNCHANGED <<v1, v2, v3, v4, v9, v10, v11>>
  BY DEF LS!TimerFires
<1> HIDE DEF a
<1>4. v7 \in Seq(LS!Attempts)
  BY ChainNow
<1>5. /\ c \in Seq(LS!Attempts) /\ c # << >> /\ Len(c) = Len(v7) + 1
      /\ \A i \in 1..Len(v7) : c[i] = v7[i]
      /\ c[Len(v7) + 1] = a
  BY <1>2, <1>4, AppendProperties
<1> HIDE DEF c
<1>6. DOMAIN c = 1..Len(c) /\ Len(v7) \in Nat
  BY <1>5, LenProperties, ChainNow
<1>7. \A i \in DOMAIN c : (i \in 1..Len(v7) /\ c[i] = v7[i]) \/ (i = Len(v7) + 1 /\ c[i] = a)
  BY <1>5, <1>6
<1>8. LS!InOrder(c)
  <2>1. \A i \in DOMAIN c :
          /\ v1.layout <= c[i].layout /\ c[i].layout <= v3
          /\ c[i].expected <= v1.revision
          /\ c[i].stage = "saved" =>
               c[i].expected < v1.revision /\ c[i].layout = v1.layout
    BY <1>1, <1>2, <1>7, ChainNow
  <2>2. ASSUME NEW i \in DOMAIN c, NEW j \in DOMAIN c, i <= j
        PROVE  c[i].layout <= c[j].layout
    <3>1. CASE c[j] = a
      BY <1>2, <2>1, <3>1
    <3>2. CASE j \in 1..Len(v7) /\ c[j] = v7[j]
      <4>1. i \in 1..Len(v7) /\ c[i] = v7[i]
        BY <1>6, <1>7, <2>2, <3>2
      <4> QED
        BY <2>2, <3>2, <4>1, ChainNow
    <3> QED
      BY <1>7, <3>1, <3>2
  <2>3. \A i \in DOMAIN c : i > 1 => c[i].stage = "waits"
    BY <1>2, <1>7, ChainNow
  <2> QED
    BY <2>1, <2>2, <2>3 DEF LS!InOrder
<1>9. LS!InOrder(v7)'
  BY <1>3, <1>5, <1>8, RunsInOrder DEF LS!IInv
<1>10. LS!TypeOK'
  BY <1>3, <1>5, ChainRuns DEF LS!IInv, LS!TypeOK
<1>11. LS!LastCounts'
  <2>1. c[Len(c)].layout = v3 /\ Len(c) \in 1..Len(c)
    BY <1>2, <1>5, <1>6
  <2>2. v7' = << >> => v8' = TRUE
    BY <1>3, <1>5, ChainRuns DEF LS!IInv
  <2>3. v7' # << >> => Len(v7') = Len(c) /\ v7'[Len(c)].layout = c[Len(c)].layout
    BY <1>3, <1>5, <2>1, ChainRuns DEF LS!IInv
  <2> QED
    BY <1>3, <2>1, <2>2, <2>3 DEF LS!LastCounts
<1> QED
  BY <1>1, <1>3, <1>9, <1>10, <1>11 DEF LS!IInv, LS!RevisionIsStored

LEMMA StoreKeeps ==
  ASSUME LS!IInv, LS!StoreTakes
  PROVE  LS!IInv' /\ v1'.layout >= v1.layout /\ v1'.revision = v1.revision + 1
<1>1. /\ v7 # << >> /\ Head(v7).expected = v1.revision
      /\ v1' = [revision |-> Head(v7).expected + 1, layout |-> Head(v7).layout]
      /\ v7' = LS!FirstAt(v7, "saved")
      /\ UNCHANGED <<v2, v3, v4, v5, v6, v8, v9, v10, v11>>
  BY DEF LS!StoreTakes, LS!Running, LS!Takes, LS!Becomes
<1>2. Head(v7) = v7[1] /\ v7 \in Seq(LS!Attempts) /\ 1 \in 1..Len(v7) /\ Len(v7) \in Nat
  BY <1>1, ChainNow
<1>3. /\ v1' = [revision |-> v1.revision + 1, layout |-> v7[1].layout]
      /\ v1.revision \in Nat /\ v7[1].layout \in Nat
      /\ v1.layout <= v7[1].layout /\ v7[1].layout <= v3
  BY <1>1, <1>2, ChainNow
<1>4. /\ v1'.revision = v1.revision + 1 /\ v1'.layout = v7[1].layout
      /\ v1' \in [revision : Nat, layout : Nat]
  BY <1>3
<1>5. v7' \in Seq(LS!Attempts) /\ v7' # << >> /\ Len(v7') = Len(v7)
  BY <1>1, <1>2, FirstIsAt
<1>6. v7'[1].layout = v7[1].layout /\ v7'[1].expected = v7[1].expected
  BY <1>1, <1>2, FirstIsAt
<1>7. v7'[1].stage = "saved"
  BY <1>1, <1>2, FirstIsAt
<1>8. \A i \in 1..Len(v7) : i # 1 => v7'[i] = v7[i]
  BY <1>1, <1>2, FirstIsAt
<1>9. DOMAIN v7' = 1..Len(v7)
  BY <1>5, LenProperties
<1>10. \A i \in 1..Len(v7) : v7'[i].layout = v7[i].layout /\ v7'[i].expected = v7[i].expected
  BY <1>6, <1>8
<1>11. LS!InOrder(v7)'
  <2>1. ASSUME NEW i \in DOMAIN v7'
        PROVE  /\ v1'.layout <= v7'[i].layout /\ v7'[i].layout <= v3'
               /\ v7'[i].expected <= v1'.revision
               /\ v7'[i].stage = "saved" =>
                    v7'[i].expected < v1'.revision /\ v7'[i].layout = v1'.layout
    <3>1. /\ i \in 1..Len(v7) /\ v7'[i].layout = v7[i].layout
          /\ v7'[i].expected = v7[i].expected /\ v7[i].expected \in Nat
          /\ v7[i].expected <= v1.revision /\ v7[1].layout <= v7[i].layout
          /\ v7[i].layout <= v3
      BY <1>2, <1>9, <1>10, <2>1, ChainNow
    <3>2. v7'[i].stage = "saved" => i = 1
      BY <1>8, <3>1, ChainNow
    <3> QED
      BY <1>1, <1>2, <1>3, <1>4, <3>1, <3>2
  <2>2. \A i, j \in DOMAIN v7' : i <= j => v7'[i].layout <= v7'[j].layout
    BY <1>9, <1>10, ChainNow
  <2>3. \A i \in DOMAIN v7' : i > 1 => v7'[i].stage = "waits"
    BY <1>8, <1>9, ChainNow
  <2> QED
    BY <2>1, <2>2, <2>3 DEF LS!InOrder
<1>12. LS!TypeOK'
  BY <1>1, <1>4, <1>5 DEF LS!IInv, LS!TypeOK
<1>13. LS!LastCounts'
  <2>1. v7'[Len(v7')].layout = v7[Len(v7)].layout
    BY <1>2, <1>5, <1>10
  <2> QED
    BY <1>1, <1>5, <2>1 DEF LS!IInv, LS!LastCounts
<1>14. LS!RevisionIsStored'
  BY <1>1, <1>3, <1>4, NoneIsNoNumber DEF LS!IInv, LS!RevisionIsStored, LS!TypeOK
<1> QED
  BY <1>1, <1>3, <1>4, <1>11, <1>12, <1>13, <1>14 DEF LS!IInv

LEMMA RefusalKeeps ==
  ASSUME LS!IInv, LS!StoreRefuses
  PROVE  LS!IInv' /\ UNCHANGED v1
<1>1. /\ v7 # << >> /\ v7' = LS!FirstAt(v7, "refused")
      /\ UNCHANGED <<v1, v3, v4, v5, v6, v8, v9, v10, v11>>
  BY DEF LS!StoreRefuses, LS!Running, LS!Becomes
<1>2. v7 \in Seq(LS!Attempts) /\ 1 \in 1..Len(v7) /\ Len(v7) \in 1..Len(v7)
  BY <1>1, ChainNow
<1>3. v7' \in Seq(LS!Attempts) /\ v7' # << >> /\ Len(v7') = Len(v7)
  BY <1>1, <1>2, FirstIsAt
<1>4. v7'[1].layout = v7[1].layout /\ v7'[1].expected = v7[1].expected
  BY <1>1, <1>2, FirstIsAt
<1>5. v7'[1].stage = "refused"
  BY <1>1, <1>2, FirstIsAt
<1>6. \A i \in 1..Len(v7) : i # 1 => v7'[i] = v7[i]
  BY <1>1, <1>2, FirstIsAt
<1>7. DOMAIN v7' = 1..Len(v7)
  BY <1>3, LenProperties
<1>8. \A i \in 1..Len(v7) : v7'[i].layout = v7[i].layout /\ v7'[i].expected = v7[i].expected
  BY <1>4, <1>6
<1>9. LS!InOrder(v7)'
  <2>1. ASSUME NEW i \in DOMAIN v7'
        PROVE  /\ v1'.layout <= v7'[i].layout /\ v7'[i].layout <= v3'
               /\ v7'[i].expected <= v1'.revision
               /\ v7'[i].stage # "saved"
    <3>1. /\ i \in 1..Len(v7) /\ v7'[i].layout = v7[i].layout
          /\ v7'[i].expected = v7[i].expected
      BY <1>7, <1>8
    <3>2. v7'[i].stage # "saved"
      BY <1>5, <1>6, <3>1, ChainNow
    <3> QED
      BY <1>1, <3>1, <3>2, ChainNow
  <2>2. \A i, j \in DOMAIN v7' : i <= j => v7'[i].layout <= v7'[j].layout
    BY <1>7, <1>8, ChainNow
  <2>3. \A i \in DOMAIN v7' : i > 1 => v7'[i].stage = "waits"
    BY <1>6, <1>7, ChainNow
  <2> QED
    BY <2>1, <2>2, <2>3 DEF LS!InOrder
<1>10. LS!TypeOK'
  BY <1>1, <1>3 DEF LS!IInv, LS!TypeOK
<1>11. LS!LastCounts'
  <2>1. v7'[Len(v7')].layout = v7[Len(v7)].layout
    BY <1>2, <1>3, <1>8
  <2> QED
    BY <1>1, <1>3, <2>1 DEF LS!IInv, LS!LastCounts
<1> QED
  BY <1>1, <1>9, <1>10, <1>11 DEF LS!IInv, LS!RevisionIsStored

LEMMA AnswerKeeps ==
  ASSUME LS!IInv, LS!AttemptEnds
  PROVE  LS!IInv' /\ UNCHANGED v1
<1> DEFINE c == Tail(v7)
<1>1. /\ v7 # << >> /\ Head(v7).stage \in {"saved", "refused"}
      /\ v9' = (Head(v7).stage = "refused")
      /\ v4' = IF v9' THEN v4 ELSE Head(v7).expected + 1
      /\ LS!Runs(c) /\ UNCHANGED <<v1, v2, v3, v6, v11>>
  BY DEF LS!AttemptEnds, LS!Running
<1>2. /\ Head(v7) = v7[1] /\ v7 \in Seq(LS!Attempts) /\ 1 \in 1..Len(v7)
      /\ Len(v7) \in 1..Len(v7) /\ Len(v7) \in Nat
  BY <1>1, ChainNow
<1>3. /\ c \in Seq(LS!Attempts) /\ Len(c) = Len(v7) - 1
      /\ \A i \in 1..Len(c) : c[i] = v7[i + 1]
  BY <1>1, <1>2, HeadTailProperties
<1>4. (c = << >>) <=> (Len(v7) = 1)
  BY <1>2, <1>3, EmptySeq
<1> HIDE DEF c
<1>5. DOMAIN c = 1..Len(c) /\ \A i \in DOMAIN c : i + 1 \in 1..Len(v7) /\ c[i] = v7[i + 1]
  BY <1>2, <1>3, LenProperties
<1>6. LS!InOrder(c)
  <2>1. \A i \in DOMAIN c : /\ v1.layout <= c[i].layout /\ c[i].layout <= v3
                           /\ c[i].expected <= v1.revision
                           /\ c[i].stage = "waits"
    <3>1. \A i \in DOMAIN c : i \in Nat /\ i + 1 > 1
      BY <1>3, <1>5
    <3> QED
      BY <1>5, <3>1, ChainNow
  <2>2. ASSUME NEW i \in DOMAIN c, NEW j \in DOMAIN c, i <= j
        PROVE  c[i].layout <= c[j].layout
    <3>1. i + 1 <= j + 1
      BY <1>3, <1>5, <2>2
    <3> QED
      BY <1>5, <3>1, ChainNow
  <2> QED
    BY <2>1, <2>2 DEF LS!InOrder
<1>7. LS!InOrder(v7)'
  BY <1>1, <1>3, <1>6, RunsInOrder DEF LS!IInv
<1>8. v4' \in Nat /\ v4' <= v1'.revision
  <2>1. /\ v4 \in Nat /\ v4 <= v1.revision /\ v1.revision \in Nat
        /\ v7[1].expected \in Nat
        /\ v7[1].stage = "saved" => v7[1].expected < v1.revision
    BY <1>2, ChainNow DEF LS!IInv, LS!TypeOK, LS!RevisionIsStored
  <2>2. CASE v9'
    BY <1>1, <2>1, <2>2
  <2>3. CASE ~v9'
    <3>1. v4' = v7[1].expected + 1 /\ v7[1].stage = "saved"
      BY <1>1, <1>2, <2>3
    <3> QED
      BY <1>1, <2>1, <3>1
  <2> QED
    BY <2>2, <2>3
<1>9. LS!TypeOK'
  <2>1. v7' \in Seq(LS!Attempts) /\ v8' \in BOOLEAN
    BY <1>1, <1>3, ChainRuns DEF LS!IInv
  <2>2. v9' \in BOOLEAN
    BY <1>1
  <2> QED
    BY <1>1, <1>8, <2>1, <2>2 DEF LS!IInv, LS!TypeOK
<1>10. LS!LastCounts'
  <2>1. CASE v6 # None
    BY <1>1, <2>1 DEF LS!IInv, LS!LastCounts
  <2>2. CASE v6 = None /\ v8'
    BY <1>1, <2>2 DEF LS!LastCounts
  <2>3. CASE v6 = None /\ ~v8'
    <3>1. v7[Len(v7)].layout = v3 \/ v8
      BY <1>1, <2>3 DEF LS!IInv, LS!LastCounts
    <3>2. CASE c = << >>
      <4>1. v7' = << >> /\ v8' = v8 /\ v7[1].layout = v3
        BY <1>1, <1>3, <1>4, <2>3, <3>1, <3>2, ChainRuns DEF LS!IInv
      <4>2. v7[1].stage = "saved" => v1.layout = v3
        BY <1>2, <4>1, ChainNow
      <4>3. v7[1].stage = "refused" => v9'
        BY <1>1, <1>2
      <4> QED
        BY <1>1, <1>2, <2>3, <4>1, <4>2, <4>3 DEF LS!LastCounts
    <3>3. CASE c # << >>
      <4>1. /\ v7' # << >> /\ v8' = v8 /\ Len(v7') = Len(c)
            /\ \A i \in 1..Len(c) : v7'[i].layout = c[i].layout
        BY <1>1, <1>3, <2>3, <3>3, ChainRuns DEF LS!IInv
      <4>2. Len(c) \in 1..Len(c) /\ c[Len(c)] = v7[Len(v7)]
        BY <1>2, <1>3, <1>4, <3>3
      <4>3. v7'[Len(v7')].layout = v3
        BY <2>3, <3>1, <4>1, <4>2
      <4> QED
        BY <1>1, <2>3, <4>1, <4>3 DEF LS!LastCounts
    <3> QED
      BY <3>2, <3>3
  <2> QED
    BY <2>1, <2>2, <2>3
<1> QED
  BY <1>1, <1>7, <1>8, <1>9, <1>10 DEF LS!IInv, LS!RevisionIsStored

LEMMA ChangeKeeps ==
  ASSUME LS!IInv, LS!Change
  PROVE  LS!IInv' /\ UNCHANGED v1
<1>1. /\ v3' = v3 + 1 /\ v6' = v3 + 1 /\ v3 \in Nat /\ v1.layout <= v3
      /\ v1.layout \in Nat
      /\ UNCHANGED <<v1, v2, v4, v7, v8, v9, v10, v11>>
  BY ChainNow DEF LS!Change, LS!IInv, LS!TypeOK
<1>2. v1'.layout <= v3'
  BY <1>1
<1>3. LS!InOrder(v7)'
  <2>1. \A i \in 1..Len(v7) : v7[i].layout <= v3 + 1
    BY <1>1, ChainNow
  <2>2. DOMAIN v7 = 1..Len(v7)
    BY ChainNow
  <2> QED
    BY <1>1, <2>1, <2>2 DEF LS!IInv, LS!InOrder
<1>4. LS!TypeOK'
  BY <1>1 DEF LS!IInv, LS!TypeOK
<1>5. LS!LastCounts'
  BY <1>1, NoneIsNoNumber DEF LS!LastCounts
<1> QED
  BY <1>1, <1>2, <1>3, <1>4, <1>5 DEF LS!IInv, LS!RevisionIsStored

\* Refreshing and opening again.
LEMMA OpeningKeeps ==
  ASSUME LS!IInv, LS!RefreshReads \/ LS!RefreshAnswers \/ LS!Reopen
  PROVE  LS!IInv' /\ UNCHANGED v1
<1>1. v1.revision \in Nat /\ v1.layout \in Nat
  BY ChainNow
<1>2. CASE LS!RefreshReads
  <2>1. v11' = v1.revision /\ UNCHANGED <<v1, v2, v3, v4, v5, v6, v7, v8, v9, v10>>
    BY <1>2 DEF LS!RefreshReads
  <2>2. LS!TypeOK' /\ LS!RevisionIsStored'
    BY <1>1, <2>1 DEF LS!IInv, LS!TypeOK, LS!RevisionIsStored
  <2>3. LS!InOrder(v7)' /\ LS!LastCounts'
    BY <2>1 DEF LS!IInv, LS!InOrder, LS!LastCounts
  <2> QED
    BY <2>1, <2>2, <2>3 DEF LS!IInv
<1>3. CASE LS!RefreshAnswers
  <2>1. /\ v11 # None /\ v11' = None
        /\ v4' = IF v11 > v4 THEN v11 ELSE v4
        /\ UNCHANGED <<v1, v2, v3, v5, v6, v7, v8, v9>>
    BY <1>3 DEF LS!RefreshAnswers
  <2>2. LS!TypeOK' /\ LS!RevisionIsStored'
    BY <1>1, <2>1 DEF LS!IInv, LS!TypeOK, LS!RevisionIsStored
  <2>3. LS!InOrder(v7)' /\ LS!LastCounts'
    BY <2>1 DEF LS!IInv, LS!InOrder, LS!LastCounts
  <2> QED
    BY <2>1, <2>2, <2>3 DEF LS!IInv
<1>4. CASE LS!Reopen
  <2>1. /\ v3' = v1.layout /\ v4' = v1.revision /\ v6' = None /\ v7' = << >>
        /\ v8' = FALSE /\ v9' = FALSE /\ v11' = None /\ UNCHANGED <<v1, v2>>
    BY <1>4 DEF LS!Reopen
  <2>2. v7' \in Seq(LS!Attempts) /\ DOMAIN v7' = {}
    BY <2>1, EmptySeq
  <2>3. LS!TypeOK'
    BY <1>1, <2>1, <2>2 DEF LS!IInv, LS!TypeOK
  <2>4. LS!RevisionIsStored' /\ LS!InOrder(v7)' /\ LS!LastCounts'
    BY <1>1, <2>1, <2>2 DEF LS!RevisionIsStored, LS!InOrder, LS!LastCounts
  <2> QED
    BY <1>1, <2>1, <2>3, <2>4 DEF LS!IInv
<1> QED
  BY <1>2, <1>3, <1>4

LEMMA SavingStep ==
  ASSUME LS!IInv, [LS!Next]_(LS!layoutVars)
  PROVE  LS!IInv' /\ LS!LayoutMovesOn
<1>1. LS!IInv' /\ (UNCHANGED v1 \/ LS!StoreTakes)
  <2>1. CASE UNCHANGED LS!layoutVars
    <3>1. UNCHANGED <<v1, v3, v4, v6, v7, v8, v9, v11>>
      BY <2>1 DEF LS!layoutVars, LS!windowVars
    <3> QED
      BY <3>1 DEF LS!IInv, LS!TypeOK, LS!RevisionIsStored, LS!InOrder, LS!LastCounts
  <2>2. CASE LS!Next
    BY <2>2, TimerKeeps, StoreKeeps, RefusalKeeps, AnswerKeeps, ChangeKeeps, OpeningKeeps
       DEF LS!Next, LS!Saves
  <2> QED
    BY <2>1, <2>2
<1>2. LS!StoreTakes => v1'.layout >= v1.layout /\ v1'.revision = v1.revision + 1
  BY StoreKeeps
<1>3. UNCHANGED v1 => v1'.layout >= v1.layout
  BY ChainNow
<1>4. v4' <= v1'.revision /\ (v8' \/ LS!SavedOrRefused')
  BY <1>1 DEF LS!IInv, LS!RevisionIsStored, LS!LastCounts, LS!SavedOrRefused, LS!Quiet
<1> QED
  BY <1>1, <1>2, <1>3, <1>4 DEF LS!LayoutMovesOn

\* For any number of changes, failures and windows: an older layout never comes back
\* over a newer one, the window never believes in a revision that is not stored,
\* and what it shows when saving rests is stored or refused, but for an attempt
\* whose change was taken by an earlier one (runPersistLayout and the store).
THEOREM LayoutsAreSaved == Spec => LayoutIsSaved
<1> DEFINE Inv == part = "saving" => LS!IInv
<1>1. Init => Inv
  BY SavingInit DEF Init
<1>2. Inv /\ [Next]_desktopVars => Inv'
  BY PartStays, SavingPart, SavingStep
<1>3. Inv /\ [Next]_desktopVars => [part = "saving" => LS!LayoutMovesOn]_desktopVars
  BY SavingPart, SavingStep
<1> QED
  BY <1>1, <1>2, <1>3, PTL DEF Spec, LayoutIsSaved

-----------------------------------------------------------------------------
(* Session notes.                                                          *)

\* A step of this part is one of SessionNotes.
LEMMA NotesPart ==
  ASSUME part = "notes", [Next]_desktopVars
  PROVE  [SN!Next]_(SN!noteVars)
BY DEF Next, Moves, desktopVars, SN!noteVars, SN!view, SN!store

LEMMA NotesInit ==
  ASSUME SN!Init
  PROVE  SN!IInv
<1>1. v8 \in Seq(SN!ArtifactsOf(v10))
  BY EmptySeq DEF SN!Init
<1>2. SN!TypeOK /\ SN!SentWasSubmitted
  BY DEF SN!Init, SN!TypeOK, SN!SentWasSubmitted, SN!Phases
<1> QED
  BY <1>1, <1>2 DEF SN!IInv, SN!StoredWasSubmitted

\* What is stored stays what was submitted when more is submitted.
LEMMA StoredStays ==
  ASSUME SN!StoredWasSubmitted, v8' = v8, v10 \subseteq v10'
  PROVE  SN!StoredWasSubmitted'
<1>1. SN!ArtifactsOf(v10) \subseteq SN!ArtifactsOf(v10')
  BY DEF SN!ArtifactsOf
<1>2. v8 \in Seq(SN!ArtifactsOf(v10'))
  BY <1>1 DEF SN!StoredWasSubmitted
<1> QED
  BY <1>2 DEF SN!StoredWasSubmitted, SN!ArtifactsOf, SN!Artifact

\* A step that submits and sends nothing new, and stores nothing.
LEMMA NothingStored ==
  ASSUME SN!StoredWasSubmitted, v8' = v8
  PROVE  SN!NoteIsTrue
<1> PICK S : v8 \in Seq(S)
  BY DEF SN!StoredWasSubmitted
<1>1. Len(v8) \in Nat
  BY LenProperties
<1> QED
  BY <1>1 DEF SN!NoteIsTrue, SN!IsPrefix

\* A call that goes on as it was.
LEMMA CallStays ==
  ASSUME SN!SentWasSubmitted, v7' = v7, v10 \subseteq v10'
  PROVE  SN!SentWasSubmitted'
BY DEF SN!SentWasSubmitted, SN!Phases

\* The steps beside the saving of notes.
LEMMA BesideNotes ==
  ASSUME SN!IInv, SN!TypeOK', v7' = v7, v8' = v8, v10 \subseteq v10'
  PROVE  SN!IInv' /\ SN!NoteIsTrue
BY StoredStays, NothingStored, CallStays DEF SN!IInv

\* The steps of the call that store nothing.
LEMMA CallMoves ==
  ASSUME SN!IInv, SN!SentWasSubmitted', v8' = v8, v10' = v10, SN!TypeOK'
  PROVE  SN!IInv' /\ SN!NoteIsTrue
BY StoredStays, NothingStored DEF SN!IInv

\* The note is stored, as it was submitted and in the phase that its Task has.
LEMMA NoteStored ==
  ASSUME SN!IInv, SN!InsertArtifact
  PROVE  SN!IInv' /\ SN!NoteIsTrue
<1>1. /\ v7 # None /\ v7.stage = "read"
      /\ UNCHANGED <<v1, v2, v3, v4, v6, v10>>
  BY DEF SN!InsertArtifact, SN!Calling, SN!view
<1>2. /\ v7 \in [note : v10, stage : {"asked", "read", "done", "failed"},
                 phase : SN!Phases \cup {None}]
      /\ v7.note \in v10 /\ v7.phase \in SN!Phases
      /\ NoteOwner[v7.note.session] = v7.note.task
  BY <1>1 DEF SN!IInv, SN!SentWasSubmitted
<1>3. SN!TypeOK'
  BY <1>1 DEF SN!IInv, SN!TypeOK
<1>4. CASE UNCHANGED v8 /\ v7' = [v7 EXCEPT !.stage = "failed"]
  BY <1>1, <1>2, <1>3, <1>4, CallMoves DEF SN!SentWasSubmitted
<1>5. CASE /\ v1[v7.note.task] = v7.phase
           /\ \A i \in DOMAIN v8 : v8[i].id # v7.note.id
           /\ v8' = Append(v8, SN!Artifact(v7.note, v7.phase))
           /\ v7' = [v7 EXCEPT !.stage = "done"]
  <2> PICK artifact : artifact = SN!Artifact(v7.note, v7.phase)
    OBVIOUS
  <2> PICK S : S = SN!ArtifactsOf(v10)
    OBVIOUS
  <2>1. v8 \in Seq(S) /\ artifact \in S /\ v8' = Append(v8, artifact)
    BY <1>2, <1>5 DEF SN!IInv, SN!StoredWasSubmitted, SN!ArtifactsOf
  <2>2. /\ v8' \in Seq(S) /\ Len(v8) \in Nat /\ Len(v8') = Len(v8) + 1
        /\ v8'[Len(v8) + 1] = artifact
        /\ \A i \in 1 .. Len(v8) : v8'[i] = v8[i]
    BY <2>1, AppendProperties
  <2>3. S = SN!ArtifactsOf(v10')
    BY <1>1
  <2>4. SN!StoredWasSubmitted'
    BY <2>2, <2>3 DEF SN!StoredWasSubmitted, SN!ArtifactsOf, SN!Artifact
  <2>5. SN!SentWasSubmitted'
    BY <1>1, <1>2, <1>5 DEF SN!SentWasSubmitted
  <2>6. SubSeq(v8, 1, Len(v8)) = SubSeq(v8', 1, Len(v8))
    BY <2>2
  <2>7. SN!IsPrefix(v8, v8') /\ Len(v8') <= Len(v8) + 1 /\ SN!Last(v8') = artifact
    BY <2>2, <2>6 DEF SN!IsPrefix, SN!Last
  <2>8. /\ artifact.id = v7.note.id /\ artifact.kind = v7.note.kind
        /\ artifact.body = v7.note.body /\ artifact.task = v7.note.task
        /\ artifact.session = v7.note.session /\ artifact.phase = v7.phase
    BY DEF SN!Artifact
  <2>9. SN!SubmittedAs(artifact)
    BY <1>2, <2>8 DEF SN!SubmittedAs
  <2>10. SN!NoteIsTrue
    BY <1>2, <1>5, <2>7, <2>8, <2>9 DEF SN!NoteIsTrue
  <2> QED
    BY <1>3, <2>4, <2>5, <2>10 DEF SN!IInv
<1> QED
  BY <1>1, <1>4, <1>5 DEF SN!InsertArtifact, SN!InItsPhase

\* A step keeps the invariant.
LEMMA NotesStep ==
  ASSUME SN!IInv, [SN!Next]_(SN!noteVars)
  PROVE  SN!IInv' /\ SN!NoteIsTrue
<1>1. SN!TypeOK /\ SN!SentWasSubmitted
  BY DEF SN!IInv
<1>2. CASE UNCHANGED SN!noteVars
  BY <1>1, <1>2, BesideNotes DEF SN!noteVars, SN!view, SN!store, SN!TypeOK
<1>3. CASE SN!SelectTask \/ SN!SessionEnds \/ SN!SessionStarts \/ SN!PhaseMoves \/ SN!Refresh
           \/ SN!OtherAction
  <2>1. v7' = v7 /\ v8' = v8 /\ v10' = v10
    BY <1>3 DEF SN!SelectTask, SN!SessionEnds, SN!SessionStarts, SN!PhaseMoves, SN!Refresh,
                SN!OtherAction, SN!view, SN!store
  <2>2. v1' \in [NoteTasks -> SN!Phases]
    BY <1>1, <1>3 DEF SN!SelectTask, SN!SessionEnds, SN!SessionStarts, SN!PhaseMoves, SN!Refresh,
                SN!OtherAction, SN!view, SN!store, SN!TypeOK, SN!Phases
  <2>3. /\ v2' \in [NoteTasks -> NoteSessions \cup {None}]
        /\ v4' \in [selected : NoteTasks, session : [NoteTasks -> NoteSessions \cup {None}]]
    BY <1>1, <1>3 DEF SN!SelectTask, SN!SessionEnds, SN!SessionStarts, SN!PhaseMoves, SN!Refresh,
                SN!OtherAction, SN!view, SN!store, SN!TypeOK
  <2>4. SN!TypeOK'
    BY <1>1, <2>1, <2>2, <2>3 DEF SN!TypeOK
  <2> QED
    BY <2>1, <2>4, BesideNotes
<1>4. CASE SN!OpenFromPalette \/ SN!OpenBySlashCommand \/ SN!WriteBody \/ SN!CancelNoteCapture
  <2>1. UNCHANGED <<v1, v2, v4, v7, v8, v10>>
    BY <1>4 DEF SN!OpenFromPalette, SN!OpenBySlashCommand, SN!WriteBody, SN!CancelNoteCapture,
                SN!store
  <2> QED
    BY <1>1, <2>1, BesideNotes DEF SN!TypeOK
<1>5. CASE SN!SubmitNoteCapture
  <2> PICK note : note =
        [id |-> SN!Cardinality(v10) + 1, kind |-> v6.kind, body |-> v6.body,
         of |-> v6.of, task |-> v4.selected, session |-> v4.session[v4.selected]]
    OBVIOUS
  <2>1. /\ v10' = v10 \cup {note} /\ SN!Sends(note)
        /\ UNCHANGED <<v1, v2, v4, v8>>
    BY <1>5 DEF SN!SubmitNoteCapture, SN!store
  <2>2. SN!TypeOK'
    BY <1>1, <2>1 DEF SN!TypeOK
  <2>3. SN!SentWasSubmitted'
    BY <1>1, <2>1, CallStays DEF SN!Sends, SN!SentWasSubmitted
  <2> QED
    BY <2>1, <2>2, <2>3, StoredStays, NothingStored DEF SN!IInv
<1>6. CASE SN!ReadProvenance \/ SN!RecordingFails
  <2>1. v7 # None /\ UNCHANGED <<v1, v2, v4, v8, v10>>
    BY <1>6 DEF SN!ReadProvenance, SN!RecordingFails, SN!Calling, SN!view, SN!store
  <2>2. v7 \in [note : v10, stage : {"asked", "read", "done", "failed"},
                phase : SN!Phases \cup {None}]
    BY <1>1, <2>1 DEF SN!SentWasSubmitted
  <2>3. SN!TypeOK' /\ v1[v7.note.task] \in SN!Phases
    BY <1>1, <2>1, <2>2 DEF SN!TypeOK
  <2>4. SN!SentWasSubmitted'
    BY <1>6, <2>1, <2>2, <2>3 DEF SN!ReadProvenance, SN!RecordingFails, SN!SentWasSubmitted
  <2> QED
    BY <2>1, <2>3, <2>4, CallMoves
<1>7. CASE SN!InsertArtifact
  BY <1>7, NoteStored
<1>8. CASE SN!NoteAnswer
  <2>1. v7' = None /\ UNCHANGED <<v1, v2, v8, v10>>
    BY <1>8 DEF SN!NoteAnswer, SN!store
  <2>2. v4' \in [selected : NoteTasks, session : [NoteTasks -> NoteSessions \cup {None}]]
    BY <1>1, <1>8 DEF SN!NoteAnswer, SN!TypeOK
  <2> QED
    BY <1>1, <2>1, <2>2, CallMoves DEF SN!TypeOK, SN!SentWasSubmitted
<1>9. CASE SN!RequestReview
  <2>1. UNCHANGED <<v2, v4, v7, v8, v10>>
    BY <1>9 DEF SN!RequestReview, SN!view
  <2>2. v1' \in [NoteTasks -> SN!Phases]
    BY <1>1, <1>9 DEF SN!RequestReview, SN!TypeOK, SN!Phases
  <2> QED
    BY <1>1, <2>1, <2>2, BesideNotes DEF SN!TypeOK
<1> QED
  BY <1>2, <1>3, <1>4, <1>5, <1>6, <1>7, <1>8, <1>9 DEF SN!Next

\* For any number of Tasks, Sessions and notes: a stored note is what the user
\* submitted for the Task that was selected, with a Session of that Task and the
\* phase that it has when the note is stored (recordSessionNote, insert).
THEOREM NotesAlwaysTrue == Spec => NotesAreTrue
<1> DEFINE Inv == part = "notes" => SN!IInv
<1>1. Init => Inv
  BY NotesInit DEF Init
<1>2. Inv /\ [Next]_desktopVars => Inv'
  BY PartStays, NotesPart, NotesStep
<1>3. Inv /\ [Next]_desktopVars => [part = "notes" => SN!NoteIsTrue]_desktopVars
  BY NotesPart, NotesStep
<1> QED
  BY <1>1, <1>2, <1>3, PTL DEF Spec, NotesAreTrue

-----------------------------------------------------------------------------
(* Workflow plugins.                                                       *)

\* A step of this part is one of PluginBindings.
LEMMA BindingsPart ==
  ASSUME part = "bindings", [Next]_desktopVars
  PROVE  [PB!Next]_(PB!bindingVars)
BY DEF Next, Moves, desktopVars, PB!bindingVars, PB!storeVars, PB!panelVars

LEMMA BindingsInit ==
  ASSUME PB!Init
  PROVE  PB!IInv
<1>1. v9 \in Seq(PB!Asked) /\ v10 \in Seq(PB!Answers) /\ DOMAIN v9 = {} /\ DOMAIN v10 = {}
  BY EmptySeq DEF PB!Init
<1>2. PB!TypeOK
  BY <1>1 DEF PB!Init, PB!TypeOK
<1>3. PB!BindingIsLatest /\ PB!KnownWasStored /\ PB!FilesArePicked
  BY <1>1 DEF PB!Init, PB!BindingIsLatest, PB!KnownWasStored, PB!WasStored, PB!FilesArePicked
<1>4. PB!PhaseIsDeclared /\ PB!AgentIsAllowed
  BY DEF PB!Init, PB!PhaseIsDeclared, PB!AgentIsAllowed
<1> QED
  BY <1>2, <1>3, <1>4 DEF PB!IInv

\* What is left of a queue, and what a queue has that got one more.
LEMMA TailOf ==
  ASSUME NEW S, NEW s \in Seq(S), s # << >>
  PROVE  /\ Tail(s) \in Seq(S) /\ Head(s) \in S /\ 1 \in DOMAIN s /\ Head(s) = s[1]
         /\ \A i \in DOMAIN Tail(s) : i + 1 \in DOMAIN s /\ Tail(s)[i] = s[i + 1]
OBVIOUS

LEMMA AppendOf ==
  ASSUME NEW S, NEW s \in Seq(S), NEW e \in S
  PROVE  /\ Append(s, e) \in Seq(S)
         /\ \A i \in DOMAIN Append(s, e) :
              \/ i \in DOMAIN s /\ Append(s, e)[i] = s[i]
              \/ Append(s, e)[i] = e
OBVIOUS

LEMMA LeastIndex ==
  ASSUME NEW S \in SUBSET Nat, S # {}
  PROVE  PB!Min(S) \in S
<1>1. PICK x \in S : \A y \in S : ~(<<y, x>> \in OpToRel(<, Nat))
  BY WFMin, NatLessThanWellFounded, Zenon
<1>2. \A y \in S : x <= y
  <2> SUFFICES ASSUME NEW y \in S PROVE x <= y
    OBVIOUS
  <2>1. ~(y < x)
    BY <1>1 DEF OpToRel
  <2> QED
    BY <2>1
<1> QED
  BY <1>2 DEF PB!Min

LEMMA SameCardinalityOfIds ==
  \A S : PB!Cardinality(S) = Cardinality(S)
BY DEF PB!Cardinality, Cardinality

\* With as many ids as phases, an id tells the place of its phase.
LEMMA PhaseOfId ==
  ASSUME NEW S, NEW plugin \in Seq(S), Len(plugin) = PB!Cardinality(PB!Ids(plugin)),
         NEW i \in DOMAIN plugin
  PROVE  PB!PhaseAt(plugin, plugin[i].id) = i
<1> DEFINE places == 1 .. Len(plugin)
           ids == PB!Ids(plugin)
           idAt == [j \in places |-> plugin[j].id]
<1>1. Len(plugin) \in Nat /\ DOMAIN plugin = places /\ i \in places
  BY LenProperties
<1>2. ids = {plugin[j].id : j \in places}
  BY <1>1 DEF PB!Ids, PB!ToSet
<1>3. idAt \in Surjection(places, ids)
  BY <1>2, Fun_IsSurj
<1>4. IsFiniteSet(places) /\ Cardinality(places) = Cardinality(ids)
  BY <1>1, FS_Interval, SameCardinalityOfIds
<1>5. idAt \in Injection(places, ids)
  BY <1>3, <1>4, FS_SurjSameCardinalityImpliesInj
<1>6. \A j \in places : plugin[j].id = plugin[i].id => j = i
  BY <1>1, <1>5, Fun_InjectionProperties
<1>7. {j \in 1 .. Len(plugin) : plugin[j].id = plugin[i].id} = {i}
  BY <1>1, <1>6
<1>8. PB!Min({i}) = i
  BY <1>1 DEF PB!Min
<1> QED
  BY <1>7, <1>8 DEF PB!PhaseAt, PB!SelectInSeq

\* The agent of a phase is one that it allows.
LEMMA AgentOfPhase ==
  ASSUME NEW phase, PB!PhaseAgent(phase) # None
  PROVE  PB!PhaseAgent(phase) \in PB!AllowedAgents(phase.kind)
<1> DEFINE fit == {j \in 1 .. Len(Catalog) : Catalog[j] \in PB!AllowedAgents(phase.kind)}
           first == IF fit # {} THEN PB!Min(fit) ELSE 0
<1>1. PB!PhaseAgent(phase) = IF first = 0 THEN None ELSE Catalog[first]
  BY DEF PB!PhaseAgent, PB!SelectInSeq
<1>2. first # 0
  BY <1>1
<1>3. fit # {} /\ first = PB!Min(fit)
  BY <1>2
<1>4. Len(Catalog) \in Nat
  BY PluginsWellFormed, LenProperties DEF PB!WellFormed
<1>5. fit \in SUBSET Nat
  BY <1>4
<1>6. first \in fit
  BY <1>3, <1>5, LeastIndex
<1> QED
  BY <1>1, <1>2, <1>6

\* An entry that was stored goes on to have been.
LEMMA StillStored ==
  ASSUME NEW t, NEW entry, PB!WasStored(t, entry), v2' = v2, v3' = v3
  PROVE  PB!WasStored(t, entry)'
BY DEF PB!WasStored

\* A step of the window or around it.
LEMMA NothingBound ==
  ASSUME PB!IInv, v2' = v2, v3' = v3,
         PB!TypeOK', PB!KnownWasStored', PB!FilesArePicked', PB!AgentIsAllowed'
  PROVE  PB!IInv' /\ PB!BindingStepIsSound
<1>1. PB!BindingIsLatest' /\ PB!PhaseIsDeclared'
  BY DEF PB!IInv, PB!BindingIsLatest, PB!PhaseIsDeclared
<1>2. PB!NoUpdateIsLost /\ PB!RecordedNeedsForce
  BY DEF PB!NoUpdateIsLost, PB!RecordedNeedsForce
<1> QED
  BY <1>1, <1>2 DEF PB!IInv, PB!BindingStepIsSound

\* What is known stays so, request by request.
LEMMA StillKnown ==
  ASSUME PB!IInv, v2' = v2, v3' = v3,
         \A t \in BoundTasks : v6'[t] = v6[t] \/ v6'[t] = None,
         \A o \in v8' : o \in v8 \/ \E t \in BoundTasks : o.task = t /\ o.entry = v6[t],
         \A i \in DOMAIN v9' :
           \/ \E j \in DOMAIN v9 : /\ v9'[i].task = v9[j].task /\ v9'[i].entry = v9[j].entry
           \/ \E o \in v8 : v9'[i].task = o.task /\ v9'[i].entry = o.entry
           \/ \E t \in BoundTasks : v9'[i].task = t /\ v9'[i].entry = v6[t],
         \A i \in DOMAIN v10' :
           \/ \E j \in DOMAIN v10 : v10'[i] = v10[j]
           \/ v10'[i].entry = None
  PROVE  PB!KnownWasStored'
<1>1. /\ \A t \in BoundTasks : PB!WasStored(t, v6[t])
      /\ \A o \in v8 : PB!WasStored(o.task, o.entry)
      /\ \A i \in DOMAIN v9 : PB!WasStored(v9[i].task, v9[i].entry)
      /\ \A i \in DOMAIN v10 : PB!WasStored(v10[i].task, v10[i].entry)
  BY DEF PB!IInv, PB!KnownWasStored
<1>2. \A t : PB!WasStored(t, None)
  BY DEF PB!WasStored
<1>3. \A t \in BoundTasks : PB!WasStored(t, v6'[t])
  BY <1>1, <1>2
<1>4. \A o \in v8' : PB!WasStored(o.task, o.entry)
  BY <1>1
<1>5. \A i \in DOMAIN v9' : PB!WasStored(v9'[i].task, v9'[i].entry)
  BY <1>1
<1>6. \A i \in DOMAIN v10' : PB!WasStored(v10'[i].task, v10'[i].entry)
  BY <1>1, <1>2
<1> QED
  BY <1>3, <1>4, <1>5, <1>6 DEF PB!KnownWasStored, PB!WasStored

\* Files, artifacts and resolutions.
LEMMA AroundIt ==
  ASSUME PB!IInv,
         \/ \E f \in PluginFiles, text \in PluginTexts : PB!FileChanges(f, text)
         \/ \E t \in BoundTasks, kind \in MadeKinds : PB!ArtifactIsMade(t, kind)
         \/ \E t \in BoundTasks, name \in PB!Kinds : PB!ResolveAgent(t, name)
  PROVE  PB!IInv' /\ PB!BindingStepIsSound
<1>1. UNCHANGED <<v2, v3, v6, v7, v8, v9, v10>>
  BY DEF PB!FileChanges, PB!ArtifactIsMade, PB!ResolveAgent, PB!panelVars
<1>2. v1' \in [PluginFiles -> PluginTexts]
  BY DEF PB!FileChanges, PB!ArtifactIsMade, PB!ResolveAgent, PB!IInv, PB!TypeOK
<1>3. PB!TypeOK'
  BY <1>1, <1>2 DEF PB!IInv, PB!TypeOK
<1>4. PB!KnownWasStored' /\ PB!FilesArePicked'
  BY <1>1, StillKnown DEF PB!IInv, PB!FilesArePicked
<1>5. PB!AgentIsAllowed'
  <2>1. CASE v5' = v5
    BY <2>1 DEF PB!IInv, PB!AgentIsAllowed
  <2>2. ASSUME NEW t \in BoundTasks, NEW name, PB!ResolveAgent(t, name)
        PROVE  PB!AgentIsAllowed'
    <3>1. PICK phase : /\ PB!PhaseAgent(phase) # None
                       /\ v5' = [phase |-> phase, agent |-> PB!PhaseAgent(phase)]
      BY <2>2 DEF PB!ResolveAgent
    <3>2. PB!PhaseAgent(phase) \in PB!AllowedAgents(phase.kind)
      BY <3>1, AgentOfPhase
    <3>3. v5'.agent \in PB!AllowedAgents(v5'.phase.kind)
      BY <3>1, <3>2
    <3> QED
      BY <3>3 DEF PB!AgentIsAllowed, PB!AllowedAgents
  <2> QED
    BY <2>1, <2>2 DEF PB!FileChanges, PB!ArtifactIsMade
<1> QED
  BY <1>1, <1>3, <1>4, <1>5, NothingBound

\* What the panel sends is a request of this part.
LEMMA OperationIsAsked ==
  ASSUME PB!IInv, NEW t \in BoundTasks, NEW what \in PB!Operations,
         NEW move \in (UNION {PB!Moves(plugin) : plugin \in PB!Plugins}) \cup {None}
  PROVE  /\ PB!Operation(what, t, move) \in PB!Asked
         /\ PB!Operation(what, t, move).task = t
         /\ PB!Operation(what, t, move).entry = v6[t]
         /\ PB!Operation(what, t, move).what = what
<1>1. v6[t] \in PB!Entries \cup {None}
  BY DEF PB!IInv, PB!TypeOK
<1> QED
  BY <1>1 DEF PB!Operation, PB!Asked

\* The panel opens dialogs.
LEMMA PanelOpens ==
  ASSUME PB!IInv, NEW t \in BoundTasks, PB!AskInstall(t) \/ PB!AskSwitch(t)
  PROVE  PB!IInv' /\ PB!BindingStepIsSound
<1>1. UNCHANGED <<v1, v2, v3, v4, v5, v6, v9, v10>>
  BY DEF PB!AskInstall, PB!AskSwitch, PB!storeVars
<1>2. PICK what \in PB!Operations : v8' = v8 \cup {PB!Operation(what, t, None)}
  BY DEF PB!AskInstall, PB!AskSwitch, PB!Operations
<1> PICK o : o = PB!Operation(what, t, None)
  OBVIOUS
<1>3. o \in PB!Asked /\ o.task = t /\ o.entry = v6[t] /\ v8' = v8 \cup {o}
  BY <1>2, OperationIsAsked
<1>4. PB!TypeOK' /\ PB!KnownWasStored'
  <2>1. PB!TypeOK'
    BY <1>1, <1>3 DEF PB!IInv, PB!TypeOK
  <2>2. PB!KnownWasStored'
    BY <1>1, <1>3, StillKnown
  <2> QED
    BY <2>1, <2>2
<1>5. PB!FilesArePicked' /\ PB!AgentIsAllowed'
  BY <1>1 DEF PB!IInv, PB!FilesArePicked, PB!AgentIsAllowed
<1> QED
  BY <1>1, <1>4, <1>5, NothingBound

\* It sends a request.
LEMMA PanelSends ==
  ASSUME PB!IInv, NEW t \in BoundTasks, NEW what \in {"remove", "advance"},
         NEW move \in (UNION {PB!Moves(plugin) : plugin \in PB!Plugins}) \cup {None},
         PB!Sends(what, t, move)
  PROVE  PB!IInv' /\ PB!BindingStepIsSound
<1> PICK o : o = PB!Operation(what, t, move)
  OBVIOUS
<1>1. UNCHANGED <<v1, v2, v3, v4, v5, v6, v8, v10>> /\ v9' = Append(v9, o)
  BY DEF PB!Sends, PB!storeVars
<1>2. o \in PB!Asked /\ o.task = t /\ o.entry = v6[t] /\ o.what = what
  BY OperationIsAsked DEF PB!Operations
<1>3. v9 \in Seq(PB!Asked)
  BY DEF PB!IInv, PB!TypeOK
<1>4. /\ v9' \in Seq(PB!Asked)
      /\ \A i \in DOMAIN v9' : (i \in DOMAIN v9 /\ v9'[i] = v9[i]) \/ v9'[i] = o
  BY <1>1, <1>2, <1>3, AppendOf
<1>5. PB!TypeOK'
  BY <1>1, <1>4 DEF PB!IInv, PB!TypeOK
<1>6. PB!KnownWasStored'
  BY <1>1, <1>2, <1>4, StillKnown
<1>7. PB!FilesArePicked'
  BY <1>2, <1>4 DEF PB!IInv, PB!FilesArePicked
<1>8. PB!AgentIsAllowed'
  BY <1>1 DEF PB!IInv, PB!AgentIsAllowed
<1> QED
  BY <1>1, <1>5, <1>6, <1>7, <1>8, NothingBound

\* A dialog ends, with a file or without.
LEMMA DialogEnds ==
  ASSUME PB!IInv, NEW o \in v8,
         PB!Cancels(o) \/ \E file \in PluginFiles : PB!Picks(o, file)
  PROVE  PB!IInv' /\ PB!BindingStepIsSound
<1>1. UNCHANGED <<v1, v2, v3, v4, v5, v6, v10>> /\ v8' = v8 \ {o}
  BY DEF PB!Cancels, PB!Picks, PB!storeVars
<1>2. v9 \in Seq(PB!Asked) /\ o \in PB!Asked
  BY DEF PB!IInv, PB!TypeOK
<1>3. /\ v9' \in Seq(PB!Asked)
      /\ \A i \in DOMAIN v9' :
           \/ i \in DOMAIN v9 /\ v9'[i] = v9[i]
           \/ v9'[i].task = o.task /\ v9'[i].entry = o.entry /\ v9'[i].file \in PluginFiles
  <2>1. CASE v9' = v9
    BY <1>2, <2>1
  <2>2. ASSUME NEW file \in PluginFiles, PB!Picks(o, file)
        PROVE  <1>3
    <3> PICK picked : picked = [o EXCEPT !.file = file]
      OBVIOUS
    <3>1. /\ picked \in PB!Asked /\ picked.task = o.task /\ picked.entry = o.entry
          /\ picked.file = file
      BY <1>2 DEF PB!Asked
    <3>2. v9' = Append(v9, picked)
      BY <2>2 DEF PB!Picks
    <3>3. /\ v9' \in Seq(PB!Asked)
          /\ \A i \in DOMAIN v9' : (i \in DOMAIN v9 /\ v9'[i] = v9[i]) \/ v9'[i] = picked
      BY <1>2, <3>1, <3>2, AppendOf
    <3> QED
      BY <3>1, <3>3
  <2> QED
    BY <2>1, <2>2 DEF PB!Cancels
<1>4. PB!TypeOK'
  BY <1>1, <1>3 DEF PB!IInv, PB!TypeOK
<1>5. PB!KnownWasStored'
  BY <1>1, <1>3, StillKnown
<1>6. PB!FilesArePicked'
  BY <1>3 DEF PB!IInv, PB!FilesArePicked
<1>7. PB!AgentIsAllowed'
  BY <1>1 DEF PB!IInv, PB!AgentIsAllowed
<1> QED
  BY <1>1, <1>4, <1>5, <1>6, <1>7, NothingBound

\* The window is closed and opened.
LEMMA PanelReopens ==
  ASSUME PB!IInv, PB!Reopen
  PROVE  PB!IInv' /\ PB!BindingStepIsSound
<1>1. /\ UNCHANGED <<v1, v2, v3, v4, v5>> /\ v8' = {} /\ v10' = << >>
      /\ v6' = [t \in BoundTasks |-> None]
      /\ v9' = [i \in DOMAIN v9 |-> [v9[i] EXCEPT !.window = "gone"]]
  BY DEF PB!Reopen, PB!storeVars
<1>2. v9 \in Seq(PB!Asked) /\ DOMAIN v9 = 1 .. Len(v9) /\ Len(v9) \in Nat
  BY LenProperties DEF PB!IInv, PB!TypeOK
<1>3. \A i \in DOMAIN v9 : v9[i] \in PB!Asked
  BY <1>2
<1>4. \A i \in DOMAIN v9 :
        /\ [v9[i] EXCEPT !.window = "gone"] \in PB!Asked
        /\ [v9[i] EXCEPT !.window = "gone"].task = v9[i].task
        /\ [v9[i] EXCEPT !.window = "gone"].entry = v9[i].entry
        /\ [v9[i] EXCEPT !.window = "gone"].what = v9[i].what
        /\ [v9[i] EXCEPT !.window = "gone"].file = v9[i].file
  BY <1>3 DEF PB!Asked
<1>5. /\ DOMAIN v9' = DOMAIN v9
      /\ \A i \in DOMAIN v9 : v9'[i] \in PB!Asked /\ v9'[i].task = v9[i].task
           /\ v9'[i].entry = v9[i].entry /\ v9'[i].what = v9[i].what
           /\ v9'[i].file = v9[i].file
  BY <1>1, <1>4
<1>6. v9' \in [1 .. Len(v9) -> PB!Asked]
  BY <1>1, <1>2, <1>5
<1>7. v9' \in Seq(PB!Asked)
  BY <1>2, <1>6, SeqDef
<1>8. v10' \in Seq(PB!Answers) /\ DOMAIN v10' = {}
  BY <1>1, EmptySeq
<1>9. PB!TypeOK'
  BY <1>1, <1>7, <1>8 DEF PB!IInv, PB!TypeOK
<1>10. PB!KnownWasStored'
  BY <1>1, <1>5, <1>8, StillKnown
<1>11. PB!FilesArePicked'
  BY <1>5 DEF PB!IInv, PB!FilesArePicked
<1>12. PB!AgentIsAllowed'
  BY <1>1 DEF PB!IInv, PB!AgentIsAllowed
<1> QED
  BY <1>1, <1>9, <1>10, <1>11, <1>12, NothingBound

\* An answer goes into what the window knows.
LEMMA PanelLearns ==
  ASSUME PB!IInv, PB!Learn
  PROVE  PB!IInv' /\ PB!BindingStepIsSound
<1>1. /\ UNCHANGED <<v1, v2, v3, v4, v5, v8, v9>> /\ v10 # << >> /\ v10' = Tail(v10)
  BY DEF PB!Learn, PB!storeVars
<1>2. v10 \in Seq(PB!Answers)
  BY DEF PB!IInv, PB!TypeOK
<1>3. /\ v10' \in Seq(PB!Answers) /\ Head(v10) \in PB!Answers
      /\ 1 \in DOMAIN v10 /\ Head(v10) = v10[1]
      /\ \A i \in DOMAIN v10' : i + 1 \in DOMAIN v10 /\ v10'[i] = v10[i + 1]
  BY <1>1, <1>2, TailOf
<1> PICK r : r = Head(v10)
  OBVIOUS
<1>4. r \in PB!Answers /\ PB!WasStored(r.task, r.entry)
  BY <1>3 DEF PB!IInv, PB!KnownWasStored
<1>5. v6' \in {v6, [v6 EXCEPT ![r.task] = None], [v6 EXCEPT ![r.task] = r.entry]}
  BY DEF PB!Learn
<1>6. v6 \in [BoundTasks -> PB!Entries \cup {None}] /\ r.task \in BoundTasks
      /\ r.entry \in PB!Entries \cup {None}
  BY <1>4 DEF PB!IInv, PB!TypeOK, PB!Answers
<1>7. v6' \in [BoundTasks -> PB!Entries \cup {None}]
  BY <1>5, <1>6
<1>8. \A t \in BoundTasks : v6'[t] \in {v6[t], None} \/ (t = r.task /\ v6'[t] = r.entry)
  BY <1>5, <1>6
<1>9. PB!TypeOK'
  BY <1>1, <1>3, <1>7 DEF PB!IInv, PB!TypeOK
<1>10. PB!KnownWasStored'
  <2>1. \A t : PB!WasStored(t, None)
    BY DEF PB!WasStored
  <2>2. \A t \in BoundTasks : PB!WasStored(t, v6'[t])
    BY <1>4, <1>8, <2>1 DEF PB!IInv, PB!KnownWasStored
  <2>3. \A i \in DOMAIN v10' : PB!WasStored(v10'[i].task, v10'[i].entry)
    BY <1>3 DEF PB!IInv, PB!KnownWasStored
  <2>4. /\ \A o \in v8 : PB!WasStored(o.task, o.entry)
        /\ \A i \in DOMAIN v9 : PB!WasStored(v9[i].task, v9[i].entry)
    BY DEF PB!IInv, PB!KnownWasStored
  <2> QED
    BY <1>1, <2>2, <2>3, <2>4 DEF PB!KnownWasStored, PB!WasStored
<1>11. PB!FilesArePicked' /\ PB!AgentIsAllowed'
  BY <1>1 DEF PB!IInv, PB!FilesArePicked, PB!AgentIsAllowed
<1> QED
  BY <1>1, <1>9, <1>10, <1>11, NothingBound

\* What WasStored will say after the step.
StoredThen(t, entry) ==
  entry # None =>
    /\ entry.nth <= v3'[t]
    /\ v2'[t] # None /\ entry.nth = v2'[t].nth =>
         /\ entry.revision <= v2'[t].revision
         /\ entry.revision = v2'[t].revision => entry = v2'[t]

LEMMA FieldsOf ==
  /\ \A o \in PB!Asked : o.task \in BoundTasks /\ o.entry \in PB!Entries \cup {None}
  /\ \A r \in PB!Answers : r.task \in BoundTasks /\ r.entry \in PB!Entries \cup {None}
BY DEF PB!Asked, PB!Answers

\* The main process answers the first request.
LEMMA Answered ==
  ASSUME PB!IInv, v9 # << >>, NEW o, o = Head(v9),
         NEW result \in {"stored", "removed", "refused"}, NEW entry \in PB!Entries \cup {None},
         PB!Replies(o, result, entry)
  PROVE  /\ UNCHANGED <<v1, v4, v5, v6, v8>>
         /\ o \in PB!Asked /\ o = v9[1] /\ 1 \in DOMAIN v9
         /\ v9' \in Seq(PB!Asked) /\ v10' \in Seq(PB!Answers)
         /\ \A i \in DOMAIN v9' : i + 1 \in DOMAIN v9 /\ v9'[i] = v9[i + 1]
         /\ \A i \in DOMAIN v10' :
              \/ i \in DOMAIN v10 /\ v10'[i] = v10[i]
              \/ v10'[i].task = o.task /\ v10'[i].entry = entry
<1>1. v9 \in Seq(PB!Asked) /\ v10 \in Seq(PB!Answers)
  BY DEF PB!IInv, PB!TypeOK
<1>2. /\ UNCHANGED <<v1, v4, v5, v6, v8>> /\ v9' = Tail(v9)
  BY DEF PB!Replies
<1>3. /\ o \in PB!Asked /\ o = v9[1] /\ 1 \in DOMAIN v9 /\ v9' \in Seq(PB!Asked)
      /\ \A i \in DOMAIN v9' : i + 1 \in DOMAIN v9 /\ v9'[i] = v9[i + 1]
  BY <1>1, <1>2, TailOf
<1> PICK r : r = [what |-> o.what, task |-> o.task, result |-> result, entry |-> entry]
  OBVIOUS
<1>4. r \in PB!Answers /\ r.task = o.task /\ r.entry = entry
  BY <1>3 DEF PB!Asked, PB!Answers
<1>5. v10' = v10 \/ v10' = Append(v10, r)
  BY DEF PB!Replies
<1>6. /\ v10' \in Seq(PB!Answers)
      /\ \A i \in DOMAIN v10' : (i \in DOMAIN v10 /\ v10'[i] = v10[i]) \/ v10'[i] = r
  <2>1. CASE v10' = v10
    BY <1>1, <2>1
  <2>2. CASE v10' = Append(v10, r)
    BY <1>1, <1>4, <2>2, AppendOf
  <2> QED
    BY <1>5, <2>1, <2>2
<1> QED
  BY <1>2, <1>3, <1>4, <1>6

\* When what was stored goes on to have been, and the answer is stored, so are
\* all that the window knows.
LEMMA AnswerIsKnown ==
  ASSUME PB!IInv, v9 # << >>, NEW o, o = Head(v9),
         NEW result \in {"stored", "removed", "refused"}, NEW entry \in PB!Entries \cup {None},
         PB!Replies(o, result, entry),
         \A t \in BoundTasks : \A e \in PB!Entries \cup {None} :
           PB!WasStored(t, e) => StoredThen(t, e),
         StoredThen(o.task, entry)
  PROVE  PB!KnownWasStored' /\ PB!FilesArePicked' /\ PB!AgentIsAllowed'
<1>1. /\ UNCHANGED <<v1, v4, v5, v6, v8>>
      /\ \A i \in DOMAIN v9' : i + 1 \in DOMAIN v9 /\ v9'[i] = v9[i + 1]
      /\ \A i \in DOMAIN v10' :
           \/ i \in DOMAIN v10 /\ v10'[i] = v10[i]
           \/ v10'[i].task = o.task /\ v10'[i].entry = entry
  BY Answered
<1>2. /\ \A t \in BoundTasks : PB!WasStored(t, v6[t]) /\ v6[t] \in PB!Entries \cup {None}
      /\ \A q \in v8 : PB!WasStored(q.task, q.entry)
                       /\ q.task \in BoundTasks /\ q.entry \in PB!Entries \cup {None}
      /\ \A i \in DOMAIN v9 :
           PB!WasStored(v9[i].task, v9[i].entry)
           /\ v9[i].task \in BoundTasks /\ v9[i].entry \in PB!Entries \cup {None}
      /\ \A i \in DOMAIN v10 :
           PB!WasStored(v10[i].task, v10[i].entry)
           /\ v10[i].task \in BoundTasks /\ v10[i].entry \in PB!Entries \cup {None}
  <2>1. /\ \A t \in BoundTasks : v6[t] \in PB!Entries \cup {None}
        /\ v8 \subseteq PB!Asked
        /\ \A i \in DOMAIN v9 : v9[i] \in PB!Asked
        /\ \A i \in DOMAIN v10 : v10[i] \in PB!Answers
    BY DEF PB!IInv, PB!TypeOK
  <2> QED
    BY <2>1, FieldsOf DEF PB!IInv, PB!KnownWasStored
<1>3. \A t \in BoundTasks : StoredThen(t, v6'[t])
  BY <1>1, <1>2
<1>4. \A q \in v8' : StoredThen(q.task, q.entry)
  BY <1>1, <1>2
<1>5. \A i \in DOMAIN v9' : StoredThen(v9'[i].task, v9'[i].entry)
  BY <1>1, <1>2
<1>6. \A i \in DOMAIN v10' : StoredThen(v10'[i].task, v10'[i].entry)
  BY <1>1, <1>2
<1>7. PB!KnownWasStored'
  BY <1>3, <1>4, <1>5, <1>6 DEF PB!KnownWasStored, PB!WasStored, StoredThen
<1>8. PB!FilesArePicked' /\ PB!AgentIsAllowed'
  BY <1>1 DEF PB!IInv, PB!FilesArePicked, PB!AgentIsAllowed
<1> QED
  BY <1>7, <1>8

\* A revision that matches is one that the window had shown.
LEMMA MatchMeansShown ==
  ASSUME PB!IInv, v9 # << >>, NEW o, o = Head(v9), o \in PB!Asked, o = v9[1], 1 \in DOMAIN v9,
         PB!RevisionMatches(o), \A t \in BoundTasks \ {o.task} : v2'[t] = v2[t]
  PROVE  PB!NoUpdateIsLost
<1> PICK t \in BoundTasks : t = o.task
  BY DEF PB!Asked
<1>1. /\ PB!WasStored(t, o.entry)
      /\ v2[t] \in PB!Entries \cup {None} /\ o.entry \in PB!Entries \cup {None}
  BY DEF PB!IInv, PB!KnownWasStored, PB!TypeOK, PB!Asked
<1>2. PB!Stored(t) = PB!Expected(o)
  BY DEF PB!RevisionMatches
<1>3. (o.entry = None) <=> (v2[t] = None)
  BY <1>1, <1>2 DEF PB!Stored, PB!Expected, PB!Entries
<1>4. o.entry # None => o.entry.revision = v2[t].revision
  BY <1>2, <1>3 DEF PB!Stored, PB!Expected
<1>5. \/ o.entry = v2[t]
      \/ None \notin {o.entry, v2[t]} /\ o.entry.nth # v2[t].nth
  BY <1>1, <1>3, <1>4 DEF PB!WasStored
<1> QED
  BY <1>5 DEF PB!NoUpdateIsLost

\* A binding that is stored is a phase of the plugin that it names, and newer than all
\* that were known of it.
LEMMA BindingStored ==
  ASSUME PB!IInv, v9 # << >>, NEW o, o = Head(v9), PB!RevisionMatches(o),
         NEW file \in PluginFiles, NEW active, PB!Loads(v1[file]),
         active \in PB!Ids(v1[file].phases), PB!Stores(o, file, active)
  PROVE  PB!IInv' /\ PB!NoUpdateIsLost /\ PB!PhaseIsDeclared'
         /\ v2'[o.task].plugin = v1[file].phases /\ v2'[o.task].active = active
         /\ \A t \in BoundTasks \ {o.task} : v2'[t] = v2[t]
<1> PICK t : t = o.task
  OBVIOUS
<1> PICK nth : nth = IF v2[t] = None THEN v3[t] + 1 ELSE v3[t]
  OBVIOUS
<1> PICK new : new = [file |-> file, plugin |-> v1[file].phases, active |-> active,
                      revision |-> PB!Stored(t) + 1, nth |-> nth]
  OBVIOUS
<1>1. /\ v2' = [v2 EXCEPT ![t] = new] /\ v3' = [v3 EXCEPT ![t] = new.nth]
      /\ PB!Replies(o, "stored", new)
  BY DEF PB!Stores
<1>2. o \in PB!Asked /\ o = v9[1] /\ 1 \in DOMAIN v9 /\ t \in BoundTasks
  <2>1. v9 \in Seq(PB!Asked)
    BY DEF PB!IInv, PB!TypeOK
  <2>2. o \in PB!Asked /\ o = v9[1] /\ 1 \in DOMAIN v9
    BY <2>1, TailOf
  <2> QED
    BY <2>2, FieldsOf
<1>3. /\ v2 \in [BoundTasks -> PB!Entries \cup {None}] /\ v3 \in [BoundTasks -> Nat]
      /\ v1[file] \in PluginTexts
  BY DEF PB!IInv, PB!TypeOK
<1>4. v2[t] # None => v2[t].nth = v3[t] /\ v2[t].revision \in Nat \ {0} /\ v2[t].nth \in Nat \ {0}
  BY <1>2, <1>3 DEF PB!IInv, PB!BindingIsLatest, PB!Entries
<1>5. nth \in Nat \ {0} /\ PB!Stored(t) + 1 \in Nat \ {0} /\ nth >= v3[t]
  BY <1>2, <1>3, <1>4 DEF PB!Stored
<1>6. v1[file].phases \in PB!Plugins
      /\ active \in UNION {PB!Ids(plugin) : plugin \in PB!Plugins}
  BY <1>3 DEF PB!Plugins
<1>7. new \in PB!Entries
  BY <1>5, <1>6 DEF PB!Entries
<1>8. v2'[t] = new /\ v3'[t] = nth /\ new.nth = nth /\ new.revision = PB!Stored(t) + 1
      /\ \A x \in BoundTasks \ {t} : v2'[x] = v2[x] /\ v3'[x] = v3[x]
  BY <1>1, <1>2, <1>3
<1>9. ASSUME NEW x \in BoundTasks, NEW e \in PB!Entries \cup {None}, PB!WasStored(x, e)
      PROVE  StoredThen(x, e)
  <2>1. CASE x # t
    BY <1>8, <1>9, <2>1 DEF PB!WasStored, StoredThen
  <2>2. CASE x = t /\ e # None
    <3>1. e.nth \in Nat \ {0} /\ e.revision \in Nat \ {0} /\ e.nth <= v3[t]
      BY <1>9, <2>2 DEF PB!WasStored, PB!Entries
    <3>2. e.nth <= nth
      BY <1>2, <1>3, <1>5, <3>1
    <3>3. e.nth = nth => e.revision < new.revision
      <4>1. CASE v2[t] = None
        BY <1>2, <1>3, <3>1, <4>1
      <4>2. CASE v2[t] # None
        BY <1>4, <1>8, <1>9, <2>2, <3>1, <4>2 DEF PB!WasStored, PB!Stored
      <4> QED
        BY <4>1, <4>2
    <3>4. new.revision \in Nat
      BY <1>5, <1>8
    <3> QED
      BY <1>8, <2>2, <3>1, <3>2, <3>3, <3>4 DEF StoredThen
  <2>3. CASE e = None
    BY <2>3 DEF StoredThen
  <2> QED
    BY <2>1, <2>2, <2>3
<1>10. StoredThen(t, new)
  BY <1>5, <1>8 DEF StoredThen
<1>11. PB!KnownWasStored' /\ PB!FilesArePicked' /\ PB!AgentIsAllowed'
  BY <1>1, <1>7, <1>9, <1>10, AnswerIsKnown
<1>12. PB!TypeOK'
  <2>1. /\ v2' \in [BoundTasks -> PB!Entries \cup {None}] /\ v3' \in [BoundTasks -> Nat]
    BY <1>1, <1>2, <1>3, <1>5, <1>7, <1>8
  <2>2. /\ UNCHANGED <<v1, v4, v5, v6, v8>>
        /\ v9' \in Seq(PB!Asked) /\ v10' \in Seq(PB!Answers)
    BY <1>1, <1>7, Answered
  <2> QED
    BY <2>1, <2>2 DEF PB!IInv, PB!TypeOK
<1>13. PB!BindingIsLatest'
  BY <1>8 DEF PB!IInv, PB!BindingIsLatest
<1>14. new.active \in PB!Ids(new.plugin) /\ Len(new.plugin) = PB!Cardinality(PB!Ids(new.plugin))
  BY DEF PB!Loads, PB!IsPlugin
<1>15. PB!PhaseIsDeclared'
  BY <1>8, <1>14 DEF PB!IInv, PB!PhaseIsDeclared
<1>16. PB!NoUpdateIsLost
  BY <1>2, <1>8, MatchMeansShown
<1> QED
  BY <1>8, <1>11, <1>12, <1>13, <1>15, <1>16 DEF PB!IInv

\* The first request.
LEMMA FirstAsked ==
  ASSUME PB!IInv, v9 # << >>, NEW o, o = Head(v9)
  PROVE  /\ o \in PB!Asked /\ o = v9[1] /\ 1 \in DOMAIN v9
         /\ o.task \in BoundTasks /\ o.entry \in PB!Entries \cup {None}
         /\ o.what \in {"install", "switch"} => o.file \in PluginFiles
<1>1. v9 \in Seq(PB!Asked)
  BY DEF PB!IInv, PB!TypeOK
<1>2. o \in PB!Asked /\ o = v9[1] /\ 1 \in DOMAIN v9
  BY <1>1, TailOf
<1> QED
  BY <1>2, FieldsOf DEF PB!IInv, PB!FilesArePicked

\* What the binding says of the file that it names.
LEMMA BoundFile ==
  ASSUME PB!IInv, NEW t \in BoundTasks, v2[t] # None
  PROVE  v2[t].file \in PluginFiles /\ v1[v2[t].file] \in PluginTexts
BY DEF PB!IInv, PB!TypeOK, PB!Entries

LEMMA PhasesOf ==
  ASSUME NEW text \in PluginTexts
  PROVE  /\ text.phases \in Seq(PB!ToSet(text.phases))
         /\ Len(text.phases) \in Nat /\ DOMAIN text.phases = 1 .. Len(text.phases)
         /\ \A i \in DOMAIN text.phases : text.phases[i].id \in PB!Ids(text.phases)
<1>1. text.phases \in Seq(PB!ToSet(text.phases))
  BY PluginsWellFormed DEF PB!WellFormed
<1> QED
  BY <1>1, LenProperties DEF PB!Ids, PB!ToSet

\* Installing and switching.
LEMMA Installed ==
  ASSUME PB!IInv, v9 # << >>, NEW o, o = Head(v9), PB!InstallForTask(o)
  PROVE  PB!IInv' /\ PB!BindingStepIsSound
<1>1. /\ o.what = "install" /\ PB!RevisionMatches(o) /\ PB!Loads(v1[o.file])
      /\ PB!Stores(o, o.file, Head(v1[o.file].phases).id)
  BY DEF PB!InstallForTask, PB!Accepts
<1>2. o.file \in PluginFiles /\ v1[o.file] \in PluginTexts
  BY <1>1, FirstAsked DEF PB!IInv, PB!TypeOK
<1>3. Head(v1[o.file].phases).id \in PB!Ids(v1[o.file].phases)
  <2>1. Len(v1[o.file].phases) > 0
    BY <1>1, <1>2, PhasesOf DEF PB!Loads, PB!IsPlugin
  <2> QED
    BY <1>2, <2>1, PhasesOf
<1>4. PB!IInv' /\ PB!NoUpdateIsLost
  BY <1>1, <1>2, <1>3, BindingStored
<1>5. PB!RecordedNeedsForce
  BY <1>1 DEF PB!RecordedNeedsForce
<1> QED
  BY <1>4, <1>5 DEF PB!BindingStepIsSound, PB!IInv

LEMMA Switched ==
  ASSUME PB!IInv, v9 # << >>, NEW o, o = Head(v9), PB!SwitchForTask(o)
  PROVE  PB!IInv' /\ PB!BindingStepIsSound
<1>1. /\ o.what = "switch" /\ PB!RevisionMatches(o) /\ PB!Loads(v1[o.file])
      /\ v2[o.task].active \in PB!Ids(v1[o.file].phases)
      /\ PB!Stores(o, o.file, v2[o.task].active)
  BY DEF PB!SwitchForTask, PB!Accepts, PB!Switches
<1>2. o.file \in PluginFiles
  BY <1>1, FirstAsked
<1>3. PB!IInv' /\ PB!NoUpdateIsLost
  BY <1>1, <1>2, BindingStored
<1>4. PB!RecordedNeedsForce
  BY <1>1 DEF PB!RecordedNeedsForce
<1> QED
  BY <1>3, <1>4 DEF PB!BindingStepIsSound, PB!IInv

\* The places of the phases of a plugin.
LEMMA PlacesOf ==
  ASSUME NEW text \in PluginTexts, PB!Loads(text), NEW to \in DOMAIN text.phases,
         NEW active \in PB!Ids(text.phases)
  PROVE  /\ PB!PhaseAt(text.phases, text.phases[to].id) = to
         /\ PB!PhaseAt(text.phases, active) \in Int /\ to \in Int
         /\ text.phases[to].id \in PB!Ids(text.phases)
<1> PICK plugin : plugin = text.phases
  OBVIOUS
<1>1. /\ plugin \in Seq(PB!ToSet(plugin)) /\ DOMAIN plugin \subseteq Int
      /\ \A i \in DOMAIN plugin : plugin[i].id \in PB!Ids(plugin)
  BY PhasesOf
<1>2. Len(plugin) = PB!Cardinality(PB!Ids(plugin))
  BY DEF PB!Loads, PB!IsPlugin
<1>3. \A i \in DOMAIN plugin : PB!PhaseAt(plugin, plugin[i].id) = i
  BY <1>1, <1>2, PhaseOfId
<1>4. active \in {p.id : p \in {plugin[i] : i \in DOMAIN plugin}}
  BY DEF PB!Ids, PB!ToSet
<1>5. PICK at \in DOMAIN plugin : active = plugin[at].id
  BY <1>4
<1> QED
  BY <1>1, <1>3, <1>5

LEMMA NotLater == \A a, b \in Int : ~(a > b) => a <= b
OBVIOUS

\* Advancing: the phase that is entered is the one that was compared.
LEMMA Advanced ==
  ASSUME PB!IInv, v9 # << >>, NEW o, o = Head(v9), PB!AdvanceForTask(o)
  PROVE  PB!IInv' /\ PB!BindingStepIsSound
<1> PICK t \in BoundTasks : t = o.task
  BY FirstAsked
<1> PICK plugin : plugin = v1[v2[t].file].phases
  OBVIOUS
<1> PICK to : to = PB!Target(plugin, v2[t].active, o.move)
  OBVIOUS
<1>1. /\ o.what = "advance" /\ PB!RevisionMatches(o) /\ PB!Loads(v1[v2[t].file])
      /\ v2[t].active \in PB!Ids(plugin) /\ to \in DOMAIN plugin
      /\ PB!MayEnter(o, plugin, to)
      /\ PB!Stores(o, v2[t].file, plugin[to].id)
  BY DEF PB!AdvanceForTask, PB!Accepts, PB!Advances
<1>2. v2[t] # None /\ v2[t].file \in PluginFiles /\ v1[v2[t].file] \in PluginTexts
  BY <1>1, BoundFile DEF PB!RevisionMatches
<1>3. /\ plugin[to].id \in PB!Ids(plugin) /\ PB!PhaseAt(plugin, plugin[to].id) = to
      /\ PB!PhaseAt(plugin, v2[t].active) \in Int /\ to \in Int
  BY <1>1, <1>2, PlacesOf
<1>4. /\ PB!IInv' /\ PB!NoUpdateIsLost
      /\ v2'[t].plugin = plugin /\ v2'[t].active = plugin[to].id
      /\ \A x \in BoundTasks \ {t} : v2'[x] = v2[x]
  BY <1>1, <1>2, <1>3, BindingStored
<1>5. \/ o.move.force
      \/ to <= PB!PhaseAt(plugin, v2[t].active)
      \/ plugin[to].kind \notin v4[t]
  <2>1. ~(to > PB!PhaseAt(plugin, v2[t].active)) => to <= PB!PhaseAt(plugin, v2[t].active)
    BY <1>3, NotLater, Zenon
  <2>2. \/ ~(to > PB!PhaseAt(plugin, v2[t].active))
        \/ o.move.force
        \/ plugin[to].kind \notin v4[t]
    BY <1>1, Zenon DEF PB!MayEnter
  <2> QED
    BY <2>1, <2>2
<1>6. PB!RecordedNeedsForce
  BY <1>3, <1>4, <1>5 DEF PB!RecordedNeedsForce
<1> QED
  BY <1>4, <1>6 DEF PB!BindingStepIsSound, PB!IInv

\* Removing.
LEMMA Removed ==
  ASSUME PB!IInv, v9 # << >>, NEW o, o = Head(v9), PB!RemoveForTask(o)
  PROVE  PB!IInv' /\ PB!BindingStepIsSound
<1>1. /\ o.what = "remove" /\ PB!RevisionMatches(o) /\ v3' = v3
      /\ v2' = [v2 EXCEPT ![o.task] = None] /\ PB!Replies(o, "removed", None)
  BY DEF PB!RemoveForTask, PB!Accepts
<1>2. /\ v2 \in [BoundTasks -> PB!Entries \cup {None}] /\ o.task \in BoundTasks
  BY FirstAsked DEF PB!IInv, PB!TypeOK
<1>3. v2'[o.task] = None /\ \A t \in BoundTasks \ {o.task} : v2'[t] = v2[t]
  BY <1>1, <1>2
<1>4. \A t \in BoundTasks : \A e \in PB!Entries \cup {None} :
        PB!WasStored(t, e) => StoredThen(t, e)
  BY <1>1, <1>3 DEF PB!WasStored, StoredThen
<1>5. PB!KnownWasStored' /\ PB!FilesArePicked' /\ PB!AgentIsAllowed'
  <2>1. StoredThen(o.task, None)
    BY DEF StoredThen
  <2> QED
    BY <1>1, <1>4, <2>1, AnswerIsKnown
<1>6. PB!TypeOK'
  <2>1. /\ UNCHANGED <<v1, v4, v5, v6, v8>>
        /\ v9' \in Seq(PB!Asked) /\ v10' \in Seq(PB!Answers)
    BY <1>1, Answered
  <2> QED
    BY <1>1, <1>2, <2>1 DEF PB!IInv, PB!TypeOK
<1>7. PB!BindingIsLatest' /\ PB!PhaseIsDeclared'
  BY <1>1, <1>3 DEF PB!IInv, PB!BindingIsLatest, PB!PhaseIsDeclared
<1>8. PB!NoUpdateIsLost
  BY <1>1, <1>3, FirstAsked, MatchMeansShown
<1>9. PB!RecordedNeedsForce
  BY <1>1 DEF PB!RecordedNeedsForce
<1> QED
  BY <1>5, <1>6, <1>7, <1>8, <1>9 DEF PB!IInv, PB!BindingStepIsSound

\* Refusing.
LEMMA Refused ==
  ASSUME PB!IInv, v9 # << >>, NEW o, o = Head(v9), PB!Refuse(o)
  PROVE  PB!IInv' /\ PB!BindingStepIsSound
<1>1. v2' = v2 /\ v3' = v3 /\ PB!Replies(o, "refused", None)
  BY DEF PB!Refuse
<1>2. /\ UNCHANGED <<v1, v4, v5, v6, v8>>
      /\ v9' \in Seq(PB!Asked) /\ v10' \in Seq(PB!Answers)
  BY <1>1, Answered
<1>3. PB!TypeOK'
  BY <1>1, <1>2 DEF PB!IInv, PB!TypeOK
<1>4. \A t \in BoundTasks : \A e \in PB!Entries \cup {None} :
        PB!WasStored(t, e) => StoredThen(t, e)
  BY <1>1 DEF PB!WasStored, StoredThen
<1>5. StoredThen(o.task, None)
  BY DEF StoredThen
<1>6. PB!KnownWasStored' /\ PB!FilesArePicked' /\ PB!AgentIsAllowed'
  BY <1>1, <1>4, <1>5, AnswerIsKnown
<1> QED
  BY <1>1, <1>3, <1>6, NothingBound

\* A step keeps the invariant.
LEMMA BindingsStep ==
  ASSUME PB!IInv, [PB!Next]_(PB!bindingVars)
  PROVE  PB!IInv' /\ PB!BindingStepIsSound
<1>1. CASE UNCHANGED PB!bindingVars
  <2>1. UNCHANGED <<v1, v2, v3, v4, v5, v6, v8, v9, v10>>
    BY <1>1 DEF PB!bindingVars, PB!storeVars, PB!panelVars
  <2>2. PB!TypeOK' /\ PB!FilesArePicked' /\ PB!AgentIsAllowed'
    BY <2>1 DEF PB!IInv, PB!TypeOK, PB!FilesArePicked, PB!AgentIsAllowed
  <2>3. PB!KnownWasStored'
    BY <2>1, StillKnown
  <2> QED
    BY <2>1, <2>2, <2>3, NothingBound
<1>2. ASSUME NEW t \in BoundTasks, NEW text \in PluginTexts, NEW move \in PB!Moves(text.phases),
             PB!AskAdvance(t, move)
      PROVE  PB!IInv' /\ PB!BindingStepIsSound
  <2>1. move \in UNION {PB!Moves(plugin) : plugin \in PB!Plugins}
    BY <1>2 DEF PB!Plugins
  <2> QED
    BY <1>2, <2>1, PanelSends DEF PB!AskAdvance
<1>3. ASSUME NEW t \in BoundTasks, PB!AskRemove(t)
      PROVE  PB!IInv' /\ PB!BindingStepIsSound
  BY <1>3, PanelSends DEF PB!AskRemove
<1>4. CASE PB!Handle
  BY <1>4, Installed, Removed, Switched, Advanced, Refused DEF PB!Handle
<1>5. CASE \/ \E f \in PluginFiles, text \in PluginTexts : PB!FileChanges(f, text)
           \/ \E t \in BoundTasks, kind \in MadeKinds : PB!ArtifactIsMade(t, kind)
           \/ \E t \in BoundTasks, name \in PB!Kinds : PB!ResolveAgent(t, name)
  BY <1>5, AroundIt
<1>6. CASE \E t \in BoundTasks : PB!AskInstall(t) \/ PB!AskSwitch(t)
  BY <1>6, PanelOpens
<1>7. CASE \E o \in v8 : PB!Cancels(o) \/ \E file \in PluginFiles : PB!Picks(o, file)
  BY <1>7, DialogEnds
<1>8. CASE PB!Reopen
  BY <1>8, PanelReopens
<1>9. CASE PB!Learn
  BY <1>9, PanelLearns
<1> QED
  BY <1>1, <1>2, <1>3, <1>4, <1>5, <1>6, <1>7, <1>8, <1>9 DEF PB!Next

\* For any number of Tasks, files and phases: a binding is changed only by a window
\* that showed it, a forward step enters a phase with a recorded artifact only when
\* it is forced, the active phase is one of its plugin, and the agent is one that
\* the phase allows (workflow-plugin-use-cases, workflow-plugin-loader).
THEOREM BindingsAlwaysSound == Spec => BindingsAreSound
<1> DEFINE Inv == part = "bindings" => PB!IInv
<1>1. Init => Inv
  BY BindingsInit DEF Init
<1>2. Inv /\ [Next]_desktopVars => Inv'
  BY PartStays, BindingsPart, BindingsStep
<1>3. Inv /\ [Next]_desktopVars => [part = "bindings" => PB!BindingStepIsSound]_desktopVars
  BY BindingsPart, BindingsStep
<1> QED
  BY <1>1, <1>2, <1>3, PTL DEF Spec, BindingsAreSound

-----------------------------------------------------------------------------
(* Attached files.                                                         *)

\* A step of this part is one of TaskContext.
LEMMA ContextPart ==
  ASSUME part = "context", [Next]_desktopVars
  PROVE  [TC!Next]_(TC!contextVars)
BY DEF Next, Moves, desktopVars, TC!contextVars, TC!store, TC!worktree, TC!window

LEMMA EmptyContext ==
  /\ \A S : << >> \in Seq(S)
  /\ DOMAIN << >> = {} /\ TC!Range(<< >>) = {} /\ Len(<< >>) = 0 /\ TC!IsInjective(<< >>)
BY EmptySeq DEF TC!Range, TC!IsInjective

LEMMA ContextInit ==
  ASSUME TC!Init
  PROVE  TC!IInv
<1>1. v9 \in TC!Panels /\ v9.items = << >> /\ v9.list.rows = << >>
  BY EmptyContext DEF TC!Init, TC!Mounted, TC!Asked, TC!Panels
<1>2. v10 \in TC!Handoffs /\ ~v10.consent /\ v10.ready = "asked" /\ v10.prompt = None
  BY EmptyContext DEF TC!Init, TC!Targeted, TC!Handoffs
<1>3. TC!TypeOK
  BY <1>1, <1>2, EmptyContext DEF TC!Init, TC!TypeOK
<1>4. TC!ImportsAreWhole
  BY EmptyContext, ContextWellFormed DEF TC!Init, TC!ImportsAreWhole, TC!WellFormed
<1>5. \A d \in TC!Desktops : v8[d] = None
  BY DEF TC!Init
<1>6. TC!FilesAreOfOne /\ TC!HandoffsVerify
  BY <1>5 DEF TC!FilesAreOfOne, TC!HandoffsVerify, TC!Does
<1>7. TC!WindowFollows
  <2>1. TC!Viewer \in TC!Desktops \cup {None}
    BY ContextWellFormed DEF TC!Init, TC!WellFormed, TC!Viewer, TC!Desktops
  <2> QED
    BY <1>1, <1>2, <1>5, <2>1, EmptyContext
    DEF TC!WindowFollows, TC!ShownIsStored, TC!PromptIsTrue, TC!Does
<1> QED
  BY <1>3, <1>4, <1>6, <1>7 DEF TC!IInv

\* What is promised follows.
LEMMA ContextKept ==
  ASSUME TC!IInv
  PROVE  TC!ContextIsKept
<1>1. TC!ImportsAreWhole /\ TC!ShownIsStored /\ TC!PromptIsTrue
  BY DEF TC!IInv, TC!WindowFollows
<1>2. TC!Viewer # None /\ TC!Copying(TC!Viewer)
        => v8[TC!Viewer].ids = v10.approved /\ v10.consent
  BY DEF TC!IInv, TC!WindowFollows, TC!Copying, TC!Does
<1>3. \A d \in TC!Desktops : TC!Copying(d) => d \notin v6
  BY DEF TC!IInv, TC!HandoffsVerify, TC!Copying, TC!Does
<1> QED
  BY <1>1, <1>2, <1>3 DEF TC!ContextIsKept, TC!CopiesAreApproved

-----------------------------------------------------------------------------

\* The types after a step; the desktops stay.
LEMMA ContextTyped ==
  ASSUME v11' = v11, v11 \in ContextSetups,
         v1' \in Seq({"partial", "whole"}), DOMAIN v1' \subseteq TC!Ids,
         v2' \in Seq(TC!Ids), TC!Range(v2') \subseteq DOMAIN v1',
         v3' \subseteq SUBSET (DOMAIN v1'),
         v4' \in [TC!Ids -> {"none", "partial", "whole", "changed"}],
         v6' \subseteq TC!Desktops, v8' \in [TC!Desktops -> TC!Jobs \cup {None}],
         v9' \in TC!Panels, v10' \in TC!Handoffs
  PROVE  TC!TypeOK'
<1>1. TC!Ids' = TC!Ids /\ TC!Desktops' = TC!Desktops
  BY DEF TC!Ids, TC!MaxFiles, TC!Desktops
<1>2. TC!Jobs' = TC!Jobs /\ TC!Panels' = TC!Panels /\ TC!Handoffs' = TC!Handoffs
  BY <1>1 DEF TC!Jobs, TC!Panels, TC!Handoffs
<1> QED
  BY <1>1, <1>2 DEF TC!TypeOK, TC!Range

\* What the types are.
LEMMA ContextTypes ==
  ASSUME TC!IInv
  PROVE  /\ v11 \in ContextSetups
         /\ v1 \in Seq({"partial", "whole"}) /\ DOMAIN v1 \subseteq TC!Ids
         /\ v2 \in Seq(TC!Ids) /\ TC!Range(v2) \subseteq DOMAIN v1
         /\ v3 \subseteq SUBSET (DOMAIN v1)
         /\ v4 \in [TC!Ids -> {"none", "partial", "whole", "changed"}]
         /\ v6 \subseteq TC!Desktops /\ v8 \in [TC!Desktops -> TC!Jobs \cup {None}]
         /\ v9 \in TC!Panels /\ v10 \in TC!Handoffs
BY DEF TC!IInv, TC!TypeOK

\* One desktop's job changes.
LEMMA OneJob ==
  ASSUME TC!IInv, NEW d \in TC!Desktops, NEW j, v8' = [v8 EXCEPT ![d] = j]
  PROVE  /\ v8'[d] = j /\ \A e \in TC!Desktops \ {d} : v8'[e] = v8[e]
         /\ j \in TC!Jobs \cup {None} => v8' \in [TC!Desktops -> TC!Jobs \cup {None}]
BY ContextTypes

\* The imports when the store stays.
LEMMA StoreStays ==
  ASSUME TC!IInv, UNCHANGED <<v1, v2, v3, v11>>,
         \A e \in TC!Desktops : (v8'[e] # None /\ v8'[e].kind = "import") =>
           \/ v8'[e].ids = << >> /\ v8'[e].at # "write"
           \/ v8'[e] = v8[e]
           \/ /\ TC!Does(e, "import") /\ v8'[e].ids = v8[e].ids
              /\ v8[e].at # "write" /\ v8'[e].at # "write"
  PROVE  TC!ImportsAreWhole' /\ TC!FilesAreOfOne'
<1>1. TC!ImportsAreWhole'
  BY DEF TC!IInv, TC!ImportsAreWhole, TC!Range, TC!IsInjective
<1>2. TC!Desktops' = TC!Desktops
  BY DEF TC!Desktops
<1>3. ASSUME NEW e \in TC!Desktops, v8'[e] # None, v8'[e].kind = "import"
      PROVE  /\ TC!Range(v8'[e].ids) \subseteq DOMAIN v1 \ TC!Range(v2)
             /\ \A batch \in v3 : batch \cap TC!Range(v8'[e].ids) = {}
             /\ TC!IsInjective(v8'[e].ids)
             /\ \A i \in DOMAIN v8'[e].ids :
                  \/ v1[v8'[e].ids[i]] = "whole"
                  \/ v8'[e].at = "write" /\ i = Len(v8'[e].ids)
             /\ v8'[e].at = "write" => v8'[e].ids # << >>
  <2>1. CASE v8'[e].ids = << >> /\ v8'[e].at # "write"
    BY <2>1, EmptyContext
  <2>2. CASE v8'[e] = v8[e]
    BY <1>3, <2>2 DEF TC!IInv, TC!FilesAreOfOne, TC!Does
  <2>3. CASE /\ TC!Does(e, "import") /\ v8'[e].ids = v8[e].ids
             /\ v8[e].at # "write" /\ v8'[e].at # "write"
    BY <2>3 DEF TC!IInv, TC!FilesAreOfOne
  <2> QED
    BY <1>3, <2>1, <2>2, <2>3
<1>4. ASSUME NEW e \in TC!Desktops, v8'[e] # None, v8'[e].kind = "import"
      PROVE  \/ TC!Range(v8'[e].ids) = {}
             \/ TC!Does(e, "import") /\ TC!Range(v8'[e].ids) = TC!Range(v8[e].ids)
  BY <1>4, EmptyContext DEF TC!Does
<1>5. ASSUME NEW d \in TC!Desktops, NEW e \in TC!Desktops, d # e,
             v8'[d] # None, v8'[d].kind = "import", v8'[e] # None, v8'[e].kind = "import"
      PROVE  TC!Range(v8'[d].ids) \cap TC!Range(v8'[e].ids) = {}
  BY <1>4, <1>5 DEF TC!IInv, TC!FilesAreOfOne
<1>6. TC!FilesAreOfOne'
  <2>1. \A e \in TC!Desktops : v8'[e] # None /\ v8'[e].kind = "import" =>
          /\ TC!Range(v8'[e].ids) \subseteq DOMAIN v1' \ TC!Range(v2')
          /\ \A batch \in v3' : batch \cap TC!Range(v8'[e].ids) = {}
          /\ TC!IsInjective(v8'[e].ids)
          /\ \A i \in DOMAIN v8'[e].ids :
               \/ v1'[v8'[e].ids[i]] = "whole"
               \/ v8'[e].at = "write" /\ i = Len(v8'[e].ids)
          /\ v8'[e].at = "write" => v8'[e].ids # << >>
    BY <1>3
  <2>2. \A d, e \in TC!Desktops :
          d # e /\ (v8'[d] # None /\ v8'[d].kind = "import")
                /\ (v8'[e] # None /\ v8'[e].kind = "import")
            => TC!Range(v8'[d].ids) \cap TC!Range(v8'[e].ids) = {}
    BY <1>5
  <2> QED
    BY <1>2, <2>1, <2>2, ZenonT(60) DEF TC!FilesAreOfOne, TC!Does, TC!Range, TC!IsInjective
<1> QED
  BY <1>1, <1>6

\* The job of a desktop that hands off.
LEMMA TheHandoff ==
  ASSUME TC!IInv, NEW d \in TC!Desktops, TC!Does(d, "handoff")
  PROVE  v8[d] \in [kind : {"handoff"}, at : {"check", "open", "write", "verify"}, left : Nat,
                    ids : Seq(TC!Ids)]
<1>1. v8[d] \in TC!Jobs /\ v8[d].kind = "handoff"
  BY ContextTypes DEF TC!Does
<1> QED
  BY <1>1 DEF TC!Jobs

\* The handoffs when no copy gets lost.
LEMMA HandoffsStay ==
  ASSUME TC!IInv, v6' \subseteq v6, v11' = v11,
         \A id \in TC!Ids : TC!Found(id) => v4'[id] \in {"whole", "changed"},
         \A e \in TC!Desktops : (v8'[e] # None /\ v8'[e].kind = "handoff") =>
           \/ v8'[e] = v8[e]
           \/ /\ v8'[e].left < Len(v8'[e].ids)
              /\ \A k \in 1..v8'[e].left : v4'[v8'[e].ids[k]] \in {"whole", "changed"}
              /\ v8'[e].at # "check" => e \notin v6'
              /\ v8'[e].at = "check" => v8'[e].left = 0
  PROVE  TC!HandoffsVerify'
<1>1. TC!Desktops' = TC!Desktops
  BY DEF TC!Desktops
<1>2. ASSUME NEW e \in TC!Desktops, v8'[e] # None, v8'[e].kind = "handoff"
      PROVE  /\ v8'[e].left < Len(v8'[e].ids)
             /\ \A k \in 1..v8'[e].left : v4'[v8'[e].ids[k]] \in {"whole", "changed"}
             /\ v8'[e].at # "check" => e \notin v6'
             /\ v8'[e].at = "check" => v8'[e].left = 0
  <2>1. CASE v8'[e] = v8[e]
    <3>1. TC!Does(e, "handoff")
      BY <1>2, <2>1 DEF TC!Does
    <3>2. /\ v8[e].left < Len(v8[e].ids)
          /\ \A k \in 1..v8[e].left : TC!Found(v8[e].ids[k])
          /\ v8[e].at # "check" => e \notin v6
          /\ v8[e].at = "check" => v8[e].left = 0
      BY <3>1 DEF TC!IInv, TC!HandoffsVerify
    <3>3. \A k \in 1..v8[e].left : v8[e].ids[k] \in TC!Ids
      BY <3>1, <3>2, TheHandoff, LenProperties, ElementOfSeq
    <3> QED
      BY <2>1, <3>2, <3>3
  <2> QED
    BY <1>2, <2>1
<1> QED
  BY <1>1, <1>2 DEF TC!HandoffsVerify, TC!Does, TC!Found

\* The window when its handoff panel stays.
LEMMA WindowStays ==
  ASSUME TC!IInv, UNCHANGED <<v10, v11>>,
         TC!Range(v9'.items) \subseteq TC!Range(v2'),
         TC!Range(v9'.list.rows) \subseteq TC!Range(v2'),
         \A id \in TC!Ids : TC!Found(id) => v4'[id] \in {"whole", "changed"},
         TC!Viewer # None /\ v8'[TC!Viewer] # None /\ v8'[TC!Viewer].kind = "handoff" =>
           TC!Does(TC!Viewer, "handoff") /\ v8'[TC!Viewer].ids = v8[TC!Viewer].ids
  PROVE  TC!WindowFollows'
<1>1. TC!Viewer' = TC!Viewer
  BY DEF TC!Viewer
<1>2. v10.prompt # None =>
        /\ v10.prompt = v10.selected
        /\ \A id \in TC!Range(v10.prompt) : v4'[id] \in {"whole", "changed"}
  <2>1. v10.prompt # None => TC!Range(v10.prompt) \subseteq TC!Ids
    BY ContextTypes, ElementOfSeq, LenProperties DEF TC!Handoffs, TC!Range
  <2> QED
    BY <2>1 DEF TC!IInv, TC!WindowFollows, TC!PromptIsTrue, TC!Found
<1>3. TC!ShownIsStored' /\ TC!PromptIsTrue'
  BY <1>2 DEF TC!ShownIsStored, TC!PromptIsTrue, TC!Range
<1>4. /\ v10.consent => v10.approved = v10.selected
      /\ v10.ready # "asked" => TC!Viewer # None
      /\ TC!Viewer # None /\ TC!Does(TC!Viewer, "handoff") =>
           v10.busy /\ v10.consent /\ v8[TC!Viewer].ids = v10.selected
  BY DEF TC!IInv, TC!WindowFollows
<1> QED
  BY <1>1, <1>3, <1>4 DEF TC!WindowFollows, TC!Does, TC!Range

\* The attachments that stay.
LEMMA PanelStays ==
  ASSUME TC!IInv, v9' = v9, TC!Range(v2) \subseteq TC!Range(v2')
  PROVE  /\ TC!Range(v9'.items) \subseteq TC!Range(v2')
         /\ TC!Range(v9'.list.rows) \subseteq TC!Range(v2')
BY DEF TC!IInv, TC!WindowFollows, TC!ShownIsStored

\* Only the window changes.
LEMMA WindowSteps ==
  ASSUME TC!IInv, UNCHANGED <<v1, v2, v3, v4, v6, v8, v11>>,
         v9' \in TC!Panels, v10' \in TC!Handoffs, TC!WindowFollows'
  PROVE  TC!IInv'
<1>1. TC!TypeOK'
  BY ContextTypes, ContextTyped
<1>2. TC!ImportsAreWhole' /\ TC!FilesAreOfOne'
  BY StoreStays
<1>3. TC!HandoffsVerify'
  BY HandoffsStay DEF TC!Found
<1> QED
  BY <1>1, <1>2, <1>3 DEF TC!IInv

LEMMA ContextList ==
  ASSUME TC!IInv, v11' = v11, TC!RefreshList \/ TC!ReadList \/ TC!ShowList
  PROVE  TC!IInv'
<1>1. UNCHANGED <<v1, v2, v3, v4, v6, v8, v10, v11>>
  BY DEF TC!RefreshList, TC!ReadList, TC!ShowList, TC!store, TC!worktree
<1>2. v9 \in TC!Panels /\ v2 \in Seq(TC!Ids)
  BY ContextTypes
<1>3. v9' \in TC!Panels
  <2>1. CASE TC!RefreshList
    BY <1>2, <2>1, EmptyContext DEF TC!RefreshList, TC!Asked, TC!Panels
  <2>2. CASE TC!ReadList
    BY <1>2, <2>2 DEF TC!ReadList, TC!Panels
  <2>3. CASE TC!ShowList
    BY <1>2, <2>3, EmptyContext DEF TC!ShowList, TC!Panels
  <2> QED
    BY <2>1, <2>2, <2>3
<1>4. TC!Range(v9.items) \subseteq TC!Range(v2) /\ TC!Range(v9.list.rows) \subseteq TC!Range(v2)
  BY DEF TC!IInv, TC!WindowFollows, TC!ShownIsStored
<1>5. TC!Range(v9'.items) \subseteq TC!Range(v2) /\ TC!Range(v9'.list.rows) \subseteq TC!Range(v2)
  <2>1. CASE TC!RefreshList
    BY <1>2, <1>4, <2>1, EmptyContext DEF TC!RefreshList, TC!Asked, TC!Panels
  <2>2. CASE TC!ReadList
    BY <1>2, <1>4, <2>2 DEF TC!ReadList, TC!Panels
  <2>3. CASE TC!ShowList
    BY <1>2, <1>4, <2>3, EmptyContext DEF TC!ShowList, TC!Panels
  <2> QED
    BY <2>1, <2>2, <2>3
<1>6. TC!WindowFollows'
  BY <1>1, <1>5, WindowStays DEF TC!Found, TC!Does
<1>7. v10' \in TC!Handoffs
  BY <1>1, ContextTypes
<1> QED
  BY <1>1, <1>3, <1>6, <1>7, WindowSteps

-----------------------------------------------------------------------------

\* The handoff panel changes while nothing is handed off from this window.
LEMMA PanelAsks ==
  ASSUME TC!IInv, UNCHANGED <<v1, v2, v3, v4, v6, v8, v9, v11>>,
         v10' \in TC!Handoffs, ~v10.busy,
         v10'.consent => v10'.approved = v10'.selected,
         v10'.ready # "asked" => TC!Viewer # None,
         v10'.prompt = None \/ (v10'.prompt = v10.prompt /\ v10'.selected = v10.selected)
  PROVE  TC!IInv'
<1>1. TC!Viewer' = TC!Viewer
  BY DEF TC!Viewer
<1>2. ~(TC!Viewer # None /\ TC!Does(TC!Viewer, "handoff"))
  BY DEF TC!IInv, TC!WindowFollows
<1>3. TC!ShownIsStored' /\ (TC!Range(v9.list.rows) \subseteq TC!Range(v2))'
  BY DEF TC!IInv, TC!WindowFollows, TC!ShownIsStored, TC!Range
<1>4. v10'.prompt # None =>
        /\ v10'.prompt = v10'.selected
        /\ \A id \in TC!Range(v10'.prompt) : v4[id] \in {"whole", "changed"}
  BY DEF TC!IInv, TC!WindowFollows, TC!PromptIsTrue
<1>5. TC!PromptIsTrue'
  BY <1>4 DEF TC!PromptIsTrue, TC!Range
<1>6. TC!WindowFollows'
  BY <1>1, <1>2, <1>3, <1>5 DEF TC!WindowFollows, TC!Does
<1>7. v9' \in TC!Panels
  BY ContextTypes
<1> QED
  BY <1>6, <1>7, WindowSteps

\* A sequence without one of its elements.
LEMMA Without ==
  ASSUME NEW S, NEW s \in Seq(S), NEW i \in DOMAIN s
  PROVE  TC!RemoveAt(s, i) \in Seq(S)
<1>1. SubSeq(s, 1, i - 1) \in Seq(S) /\ SubSeq(s, i + 1, Len(s)) \in Seq(S)
  BY SubSeqProperties
<1> QED
  BY <1>1, ConcatProperties DEF TC!RemoveAt

LEMMA ContextAsks ==
  ASSUME TC!IInv, v11' = v11,
         TC!RefreshHandoff \/ TC!ShowReadiness \/ TC!Select \/ TC!Consent
  PROVE  TC!IInv'
<1>1. v9 \in TC!Panels /\ v10 \in TC!Handoffs
  BY ContextTypes
<1>2. /\ v10.consent => v10.approved = v10.selected
      /\ v10.ready # "asked" => TC!Viewer # None
  BY DEF TC!IInv, TC!WindowFollows
<1>3. UNCHANGED <<v1, v2, v3, v4, v6, v8, v9, v11>>
  BY DEF TC!RefreshHandoff, TC!ShowReadiness, TC!Select, TC!Consent, TC!store, TC!worktree
<1>4. CASE TC!RefreshHandoff
  BY <1>1, <1>2, <1>3, <1>4, PanelAsks DEF TC!RefreshHandoff, TC!Handoffs
<1>5. CASE TC!Select
  <2>1. PICK ids \in Seq(TC!Ids) : TC!Selects(ids)
    <3>1. \A id \in TC!Range(v9.items) : Append(v10.selected, id) \in Seq(TC!Ids)
      BY <1>1, AppendProperties, ElementOfSeq DEF TC!Panels, TC!Handoffs, TC!Range
    <3>2. \A i \in DOMAIN v10.selected : TC!RemoveAt(v10.selected, i) \in Seq(TC!Ids)
      BY <1>1, Without DEF TC!Handoffs
    <3> QED
      BY <1>5, <3>1, <3>2 DEF TC!Select
  <2> QED
    <3>1. ~v10.busy /\ v10.ready = "yes"
      BY <1>5 DEF TC!Select, TC!Usable
    <3>2. v10' \in TC!Handoffs
      BY <1>1, <2>1 DEF TC!Selects, TC!Handoffs
    <3>3. v10'.prompt = None /\ ~v10'.consent /\ v10'.ready = v10.ready
      BY <1>1, <2>1 DEF TC!Selects, TC!Handoffs
    <3> QED
      BY <1>2, <1>3, <3>1, <3>2, <3>3, PanelAsks
<1>6. CASE TC!Consent
  BY <1>1, <1>2, <1>3, <1>6, EmptyContext, PanelAsks DEF TC!Consent, TC!Usable, TC!Handoffs
<1>7. CASE TC!ShowReadiness
  <2>1. v10' \in TC!Handoffs /\ v10'.ready \in {"yes", "no"} /\ TC!Viewer # None
    BY <1>1, <1>7 DEF TC!ShowReadiness, TC!Handoffs
  <2>2. /\ v10'.selected = v10.selected /\ v10'.consent = v10.consent
        /\ v10'.approved = v10.approved /\ v10'.busy = v10.busy /\ v10'.prompt = v10.prompt
    BY <1>1, <1>7 DEF TC!ShowReadiness, TC!Handoffs
  <2>3. TC!Viewer' = TC!Viewer
    BY <1>3 DEF TC!Viewer
  <2>4. TC!WindowFollows'
    <3>1. TC!ShownIsStored' /\ (TC!Range(v9.list.rows) \subseteq TC!Range(v2))'
      BY <1>3 DEF TC!IInv, TC!WindowFollows, TC!ShownIsStored, TC!Range
    <3>2. TC!PromptIsTrue'
      BY <1>3, <2>2 DEF TC!IInv, TC!WindowFollows, TC!PromptIsTrue, TC!Range
    <3>3. TC!Viewer # None /\ TC!Does(TC!Viewer, "handoff") =>
            v10.busy /\ v10.consent /\ v8[TC!Viewer].ids = v10.selected
      BY DEF TC!IInv, TC!WindowFollows
    <3> QED
      BY <1>2, <1>3, <2>1, <2>2, <2>3, <3>1, <3>2, <3>3 DEF TC!WindowFollows, TC!Does
  <2> QED
    BY <1>1, <1>3, <2>1, <2>4, WindowSteps
<1> QED
  BY <1>4, <1>5, <1>6, <1>7

-----------------------------------------------------------------------------

\* The desktop whose window is modelled is one.
LEMMA ViewerIsADesktop ==
  ASSUME TC!IInv
  PROVE  TC!Viewer \in TC!Desktops \cup {None} /\ None \notin TC!Desktops
BY ContextTypes, ContextWellFormed DEF TC!WellFormed, TC!Viewer, TC!Desktops

LEMMA ImportBegins ==
  ASSUME TC!IInv, NEW d \in TC!Desktops, NEW size \in Int, TC!BeginImport(d, size),
         UNCHANGED <<v1, v2, v3, v4, v6, v10, v11>>,
         v9' \in TC!Panels, v9'.items = v9.items, v9'.list = v9.list
  PROVE  TC!IInv'
<1> DEFINE J == [kind |-> "import", at |-> "put", left |-> size, ids |-> << >>]
<1>1. J \in TC!Jobs \cup {None}
  BY EmptyContext DEF TC!Jobs
<1>2. v8' = [v8 EXCEPT ![d] = J]
  BY DEF TC!BeginImport, TC!Importing
<1>3. PICK j \in TC!Jobs \cup {None} :
        /\ v8' = [v8 EXCEPT ![d] = j]
        /\ j.kind = "import" /\ j.ids = << >> /\ j.at = "put"
  BY <1>1, <1>2, Zenon
<1>4. /\ v8'[d] = j /\ \A e \in TC!Desktops \ {d} : v8'[e] = v8[e]
      /\ v8' \in [TC!Desktops -> TC!Jobs \cup {None}]
  BY <1>3, OneJob
<1>5. TC!TypeOK'
  BY <1>4, ContextTypes, ContextTyped
<1>6. TC!ImportsAreWhole' /\ TC!FilesAreOfOne'
  BY <1>3, <1>4, StoreStays
<1>7. TC!HandoffsVerify'
  BY <1>3, <1>4, HandoffsStay DEF TC!Found
<1>8. TC!WindowFollows'
  <2>1. /\ TC!Range(v9'.items) \subseteq TC!Range(v2')
        /\ TC!Range(v9'.list.rows) \subseteq TC!Range(v2')
    BY DEF TC!IInv, TC!WindowFollows, TC!ShownIsStored
  <2>2. TC!Viewer # None /\ v8'[TC!Viewer] # None /\ v8'[TC!Viewer].kind = "handoff" =>
          TC!Does(TC!Viewer, "handoff") /\ v8'[TC!Viewer].ids = v8[TC!Viewer].ids
    BY <1>3, <1>4, ViewerIsADesktop DEF TC!Does
  <2> QED
    BY <2>1, <2>2, WindowStays DEF TC!Found
<1> QED
  BY <1>5, <1>6, <1>7, <1>8 DEF TC!IInv

LEMMA HandoffBegins ==
  ASSUME TC!IInv, NEW d \in TC!Desktops, NEW ids \in Seq(TC!Ids), ids # << >>,
         TC!BeginHandoff(d, ids), UNCHANGED <<v1, v2, v3, v4, v6, v9, v11>>,
         v10' \in TC!Handoffs,
         IF d = TC!Viewer
         THEN /\ v10'.busy /\ v10'.consent /\ v10'.selected = ids /\ v10'.approved = ids
              /\ v10'.prompt = None
         ELSE v10' = v10
  PROVE  TC!IInv'
<1> DEFINE J == [kind |-> "handoff", at |-> "check", left |-> 0, ids |-> ids]
<1>1. J \in TC!Jobs \cup {None}
  BY DEF TC!Jobs
<1>2. v8' = [v8 EXCEPT ![d] = J]
  BY DEF TC!BeginHandoff
<1>3. PICK j \in TC!Jobs \cup {None} :
        /\ v8' = [v8 EXCEPT ![d] = j]
        /\ j.kind = "handoff" /\ j.ids = ids /\ j.at = "check" /\ j.left = 0
  BY <1>1, <1>2, Zenon
<1>4. /\ v8'[d] = j /\ \A e \in TC!Desktops \ {d} : v8'[e] = v8[e]
      /\ v8' \in [TC!Desktops -> TC!Jobs \cup {None}]
  BY <1>3, OneJob
<1>5. TC!TypeOK'
  BY <1>4, ContextTypes, ContextTyped
<1>6. TC!ImportsAreWhole' /\ TC!FilesAreOfOne'
  BY <1>3, <1>4, StoreStays
<1>7. TC!HandoffsVerify'
  <2>1. 0 < Len(ids)
    BY EmptySeq, LenProperties
  <2> QED
    BY <1>3, <1>4, <2>1, HandoffsStay DEF TC!Found
<1>8. TC!WindowFollows'
  <2>1. CASE d = TC!Viewer
    <3>1. TC!Viewer' = TC!Viewer /\ TC!Viewer # None
      BY <2>1, ViewerIsADesktop DEF TC!Viewer
    <3>2. TC!ShownIsStored' /\ (TC!Range(v9.list.rows) \subseteq TC!Range(v2))'
      BY DEF TC!IInv, TC!WindowFollows, TC!ShownIsStored, TC!Range
    <3>3. TC!PromptIsTrue'
      BY <2>1 DEF TC!PromptIsTrue
    <3> QED
      BY <1>3, <1>4, <2>1, <3>1, <3>2, <3>3 DEF TC!WindowFollows, TC!Does
  <2>2. CASE d # TC!Viewer
    <3>1. TC!Viewer # None => v8'[TC!Viewer] = v8[TC!Viewer]
      BY <1>4, <2>2, ViewerIsADesktop
    <3> QED
      BY <2>2, <3>1, PanelStays, WindowStays DEF TC!Found, TC!Does
  <2> QED
    BY <2>1, <2>2
<1> QED
  BY <1>5, <1>6, <1>7, <1>8 DEF TC!IInv

\* A call begins, of the window or of another desktop.
LEMMA ContextBegins ==
  ASSUME TC!IInv, v11' = v11,
         TC!Save \/ TC!OtherImport \/ TC!Prepare \/ TC!OtherHandoff
  PROVE  TC!IInv'
<1>1. v9 \in TC!Panels /\ v10 \in TC!Handoffs /\ v2 \in Seq(TC!Ids)
  BY ContextTypes
<1>2. CASE TC!Save
  <2>1. PICK size \in Int : TC!BeginImport(TC!Viewer, size)
    BY <1>2 DEF TC!Save
  <2>2. TC!Viewer \in TC!Desktops
    BY <1>2, ViewerIsADesktop DEF TC!Save
  <2>3. v9' \in TC!Panels /\ v9'.items = v9.items /\ v9'.list = v9.list
    BY <1>1, <1>2 DEF TC!Save, TC!Panels
  <2>4. UNCHANGED <<v1, v2, v3, v4, v6, v10, v11>>
    BY <1>2 DEF TC!Save, TC!store, TC!worktree
  <2> QED
    BY <2>1, <2>2, <2>3, <2>4, ImportBegins
<1>3. CASE TC!OtherImport
  <2>1. PICK d \in TC!Desktops : \E size \in Int : TC!BeginImport(d, size)
    BY <1>3 DEF TC!OtherImport
  <2>2. UNCHANGED <<v1, v2, v3, v4, v6, v9, v10, v11>>
    BY <1>3 DEF TC!OtherImport, TC!store, TC!worktree, TC!window
  <2> QED
    BY <1>1, <2>1, <2>2, ImportBegins
<1>4. CASE TC!Prepare
  <2>1. TC!Viewer \in TC!Desktops
    BY <1>4, ViewerIsADesktop DEF TC!IInv, TC!WindowFollows, TC!Prepare, TC!Usable
  <2>2. v10.selected \in Seq(TC!Ids) /\ v10.selected # << >> /\ v10.approved = v10.selected
    BY <1>1, <1>4 DEF TC!IInv, TC!WindowFollows, TC!Prepare, TC!Handoffs
  <2>3. /\ v10' \in TC!Handoffs /\ v10'.busy /\ v10'.consent /\ v10'.prompt = None
        /\ v10'.selected = v10.selected /\ v10'.approved = v10.approved
    BY <1>1, <1>4 DEF TC!Prepare, TC!Handoffs
  <2>4. UNCHANGED <<v1, v2, v3, v4, v6, v9, v11>>
    BY <1>4 DEF TC!Prepare, TC!store, TC!worktree
  <2>5. TC!BeginHandoff(TC!Viewer, v10.selected)
    BY <1>4 DEF TC!Prepare
  <2> QED
    BY <2>1, <2>2, <2>3, <2>4, <2>5, HandoffBegins
<1>5. CASE TC!OtherHandoff
  <2>1. PICK d \in TC!Desktops \ {TC!Viewer} :
          \E id \in TC!Range(v2) : TC!BeginHandoff(d, <<id>>)
    BY <1>5 DEF TC!OtherHandoff
  <2>2. \A id \in TC!Range(v2) : <<id>> \in Seq(TC!Ids) /\ <<id>> # << >>
    BY <1>1, ElementOfSeq DEF TC!Range
  <2>3. UNCHANGED <<v1, v2, v3, v4, v6, v9, v10, v11>>
    BY <1>5 DEF TC!OtherHandoff, TC!store, TC!worktree, TC!window
  <2> QED
    BY <1>1, <2>1, <2>2, <2>3, HandoffBegins
<1> QED
  BY <1>2, <1>3, <1>4, <1>5

-----------------------------------------------------------------------------

\* A call of the import that has answered.
LEMMA ImportEnds ==
  ASSUME TC!IInv, NEW d \in TC!Desktops, NEW saved \in Seq(TC!Ids), TC!EndImport(d, saved),
         TC!Range(v2) \subseteq TC!Range(v2'), TC!Range(saved) \subseteq TC!Range(v2')
  PROVE  /\ v8' = [v8 EXCEPT ![d] = None] /\ v9' \in TC!Panels
         /\ TC!Range(v9'.items) \subseteq TC!Range(v2')
         /\ TC!Range(v9'.list.rows) \subseteq TC!Range(v2')
<1>1. v8' = [v8 EXCEPT ![d] = None]
  BY DEF TC!EndImport
<1>2. v9 \in TC!Panels
  BY ContextTypes
<1>3. TC!Range(v9.items) \subseteq TC!Range(v2') /\ TC!Range(v9.list.rows) \subseteq TC!Range(v2')
  BY DEF TC!IInv, TC!WindowFollows, TC!ShownIsStored
<1>4. CASE d # TC!Viewer
  BY <1>1, <1>2, <1>3, <1>4 DEF TC!EndImport
<1>5. CASE d = TC!Viewer
  <2>1. v9.items \o saved \in Seq(TC!Ids)
    BY <1>2, ConcatProperties DEF TC!Panels
  <2>2. v9' = [v9 EXCEPT !.saving = FALSE, !.items = v9.items \o saved]
    BY <1>5 DEF TC!EndImport
  <2>3. v9' \in TC!Panels /\ v9'.items = v9.items \o saved /\ v9'.list = v9.list
    BY <1>2, <2>1, <2>2 DEF TC!Panels
  <2>4. TC!Range(v9.items \o saved) \subseteq TC!Range(v9.items) \cup TC!Range(saved)
    BY <1>2, ConcatProperties DEF TC!Panels, TC!Range
  <2> QED
    BY <1>1, <1>3, <2>3, <2>4
<1> QED
  BY <1>4, <1>5

\* A call that ends changes nobody's.
LEMMA EndsAlone ==
  ASSUME TC!IInv, NEW d \in TC!Desktops, v8' = [v8 EXCEPT ![d] = None], v11' = v11
  PROVE  /\ v8' \in [TC!Desktops -> TC!Jobs \cup {None}]
         /\ \A e \in TC!Desktops : v8'[e] # None => e # d /\ v8'[e] = v8[e]
BY OneJob

\* A file that is made or written by the import that has it.
LEMMA FilesGrow ==
  ASSUME TC!IInv, v2' = v2, v3' = v3, v11' = v11,
         \A x \in DOMAIN v1 : x \in DOMAIN v1' /\ (v1[x] = "whole" => v1'[x] = "whole"),
         NEW d \in TC!Desktops, \A e \in TC!Desktops \ {d} : v8'[e] = v8[e],
         TC!Range(v8'[d].ids) \subseteq DOMAIN v1' \ TC!Range(v2),
         \A batch \in v3 : batch \cap TC!Range(v8'[d].ids) = {},
         TC!IsInjective(v8'[d].ids),
         \A i \in DOMAIN v8'[d].ids :
           \/ v1'[v8'[d].ids[i]] = "whole"
           \/ v8'[d].at = "write" /\ i = Len(v8'[d].ids),
         v8'[d].at = "write" => v8'[d].ids # << >>,
         \A e \in TC!Desktops \ {d} : TC!Does(e, "import") =>
           TC!Range(v8[e].ids) \cap TC!Range(v8'[d].ids) = {}
  PROVE  TC!ImportsAreWhole' /\ TC!FilesAreOfOne'
<1>1. TC!Desktops' = TC!Desktops
  BY DEF TC!Desktops
<1>2. TC!ImportsAreWhole'
  <2>1. \A i \in 1..Len(v2) : v2[i] \in DOMAIN v1
    BY ContextTypes DEF TC!Range
  <2>2. \A i \in 1..Len(v2) : v1'[v2[i]] = "whole"
    BY <2>1 DEF TC!IInv, TC!ImportsAreWhole
  <2>3. /\ \A batch \in v3 : batch \subseteq TC!Range(v2) \/ batch \cap TC!Range(v2) = {}
        /\ Len(v2) <= ContextLimit /\ TC!IsInjective(v2)
    BY DEF TC!IInv, TC!ImportsAreWhole
  <2> QED
    BY <2>2, <2>3 DEF TC!ImportsAreWhole, TC!Range, TC!IsInjective
<1>3. \A e \in TC!Desktops : v8'[e] # None /\ v8'[e].kind = "import" =>
        /\ TC!Range(v8'[e].ids) \subseteq DOMAIN v1' \ TC!Range(v2')
        /\ \A batch \in v3' : batch \cap TC!Range(v8'[e].ids) = {}
        /\ TC!IsInjective(v8'[e].ids)
        /\ \A i \in DOMAIN v8'[e].ids :
             \/ v1'[v8'[e].ids[i]] = "whole"
             \/ v8'[e].at = "write" /\ i = Len(v8'[e].ids)
        /\ v8'[e].at = "write" => v8'[e].ids # << >>
  <2>1. ASSUME NEW e \in TC!Desktops \ {d}, TC!Does(e, "import")
        PROVE  /\ TC!Range(v8[e].ids) \subseteq DOMAIN v1' \ TC!Range(v2)
               /\ \A batch \in v3 : batch \cap TC!Range(v8[e].ids) = {}
               /\ TC!IsInjective(v8[e].ids)
               /\ \A i \in DOMAIN v8[e].ids :
                    \/ v1'[v8[e].ids[i]] = "whole"
                    \/ v8[e].at = "write" /\ i = Len(v8[e].ids)
               /\ v8[e].at = "write" => v8[e].ids # << >>
    <3>1. /\ TC!Range(v8[e].ids) \subseteq DOMAIN v1 \ TC!Range(v2)
          /\ \A batch \in v3 : batch \cap TC!Range(v8[e].ids) = {}
          /\ TC!IsInjective(v8[e].ids)
          /\ \A i \in DOMAIN v8[e].ids :
               \/ v1[v8[e].ids[i]] = "whole"
               \/ v8[e].at = "write" /\ i = Len(v8[e].ids)
          /\ v8[e].at = "write" => v8[e].ids # << >>
      BY <2>1 DEF TC!IInv, TC!FilesAreOfOne
    <3>2. \A i \in DOMAIN v8[e].ids : v8[e].ids[i] \in DOMAIN v1
      BY <3>1 DEF TC!Range
    <3> QED
      BY <3>1, <3>2
  <2> QED
    BY <2>1 DEF TC!Does
<1>4. \A c, e \in TC!Desktops :
        c # e /\ (v8'[c] # None /\ v8'[c].kind = "import")
              /\ (v8'[e] # None /\ v8'[e].kind = "import")
          => TC!Range(v8'[c].ids) \cap TC!Range(v8'[e].ids) = {}
  <2>1. \A c, e \in TC!Desktops : c # e /\ TC!Does(c, "import") /\ TC!Does(e, "import")
          => TC!Range(v8[c].ids) \cap TC!Range(v8[e].ids) = {}
    BY DEF TC!IInv, TC!FilesAreOfOne
  <2> QED
    BY <2>1 DEF TC!Does
<1>5. TC!FilesAreOfOne'
  BY <1>1, <1>3, <1>4, ZenonT(60) DEF TC!FilesAreOfOne, TC!Does, TC!Range, TC!IsInjective
<1> QED
  BY <1>2, <1>5

\* What an import leaves alone.
LEMMA ImportIsAlone ==
  ASSUME TC!IInv, NEW d \in TC!Desktops, \A e \in TC!Desktops \ {d} : v8'[e] = v8[e],
         v8'[d] = None \/ v8'[d].kind = "import",
         UNCHANGED <<v4, v6, v10, v11>>,
         TC!Range(v9'.items) \subseteq TC!Range(v2'),
         TC!Range(v9'.list.rows) \subseteq TC!Range(v2')
  PROVE  TC!HandoffsVerify' /\ TC!WindowFollows'
<1>1. \A e \in TC!Desktops : v8'[e] # None /\ v8'[e].kind = "handoff" => v8'[e] = v8[e]
  OBVIOUS
<1>2. TC!HandoffsVerify'
  BY <1>1, HandoffsStay DEF TC!Found
<1>3. TC!Viewer # None /\ v8'[TC!Viewer] # None /\ v8'[TC!Viewer].kind = "handoff" =>
        TC!Does(TC!Viewer, "handoff") /\ v8'[TC!Viewer].ids = v8[TC!Viewer].ids
  BY <1>1, ViewerIsADesktop DEF TC!Does
<1> QED
  BY <1>2, <1>3, WindowStays DEF TC!Found

\* The job of a desktop that imports.
LEMMA TheImport ==
  ASSUME TC!IInv, NEW d \in TC!Desktops, TC!Does(d, "import")
  PROVE  /\ v8[d] \in [kind : {"import"}, at : {"put", "open", "write", "insert"}, left : Int,
                       ids : Seq(TC!Ids)]
         /\ TC!Range(v8[d].ids) \subseteq DOMAIN v1 \ TC!Range(v2)
         /\ \A batch \in v3 : batch \cap TC!Range(v8[d].ids) = {}
         /\ TC!IsInjective(v8[d].ids)
         /\ \A i \in DOMAIN v8[d].ids :
              \/ v1[v8[d].ids[i]] = "whole"
              \/ v8[d].at = "write" /\ i = Len(v8[d].ids)
         /\ v8[d].at = "write" => v8[d].ids # << >>
         /\ \A e \in TC!Desktops \ {d} : TC!Does(e, "import") =>
              TC!Range(v8[e].ids) \cap TC!Range(v8[d].ids) = {}
<1>1. v8[d] \in TC!Jobs /\ v8[d].kind = "import"
  BY ContextTypes DEF TC!Does
<1>2. v8[d] \in [kind : {"import"}, at : {"put", "open", "write", "insert"}, left : Int,
                 ids : Seq(TC!Ids)]
  BY <1>1 DEF TC!Jobs
<1> QED
  BY <1>2 DEF TC!IInv, TC!FilesAreOfOne

LEMMA ContextCount ==
  ASSUME TC!IInv, v11' = v11, NEW d \in TC!Desktops, TC!CountFiles(d)
  PROVE  TC!IInv'
<1>1. TC!Does(d, "import") /\ v8[d].at = "put"
  BY DEF TC!CountFiles, TC!At, TC!Does
<1>2. UNCHANGED <<v1, v2, v3, v4, v6, v10, v11>>
  BY DEF TC!CountFiles, TC!store, TC!worktree
<1>3. CASE TC!EndImport(d, << >>)
  <2>1. /\ v8' = [v8 EXCEPT ![d] = None] /\ v9' \in TC!Panels
        /\ TC!Range(v9'.items) \subseteq TC!Range(v2')
        /\ TC!Range(v9'.list.rows) \subseteq TC!Range(v2')
    BY <1>2, <1>3, EmptyContext, ImportEnds
  <2>2. /\ v8' \in [TC!Desktops -> TC!Jobs \cup {None}]
        /\ \A e \in TC!Desktops : v8'[e] # None => e # d /\ v8'[e] = v8[e]
        /\ v8'[d] = None /\ \A e \in TC!Desktops \ {d} : v8'[e] = v8[e]
    BY <1>2, <2>1, EndsAlone, OneJob
  <2>3. TC!TypeOK'
    BY <1>2, <2>1, <2>2, ContextTypes, ContextTyped
  <2>4. TC!ImportsAreWhole' /\ TC!FilesAreOfOne'
    BY <1>2, <2>2, StoreStays
  <2>5. TC!HandoffsVerify' /\ TC!WindowFollows'
    BY <1>2, <2>1, <2>2, ImportIsAlone
  <2> QED
    BY <2>3, <2>4, <2>5 DEF TC!IInv
<1>4. CASE v8' = [v8 EXCEPT ![d].at = "open"] /\ UNCHANGED v9
  <2>1. [v8[d] EXCEPT !.at = "open"] \in TC!Jobs
    BY <1>1, TheImport DEF TC!Jobs
  <2>2. v8' = [v8 EXCEPT ![d] = [v8[d] EXCEPT !.at = "open"]]
    BY <1>4
  <2>3. PICK j \in TC!Jobs :
          /\ v8' = [v8 EXCEPT ![d] = j]
          /\ j.kind = "import" /\ j.ids = v8[d].ids /\ j.at = "open"
    BY <1>1, <2>1, <2>2, TheImport
  <2>4. /\ v8'[d] = j /\ \A e \in TC!Desktops \ {d} : v8'[e] = v8[e]
        /\ v8' \in [TC!Desktops -> TC!Jobs \cup {None}]
    BY <2>3, OneJob
  <2>5. TC!TypeOK'
    BY <1>2, <1>4, <2>4, ContextTypes, ContextTyped
  <2>6. TC!ImportsAreWhole' /\ TC!FilesAreOfOne'
    BY <1>1, <1>2, <2>3, <2>4, StoreStays
  <2>7. TC!HandoffsVerify' /\ TC!WindowFollows'
    BY <1>2, <1>4, <2>3, <2>4, PanelStays, ImportIsAlone
  <2> QED
    BY <2>5, <2>6, <2>7 DEF TC!IInv
<1> QED
  BY <1>3, <1>4 DEF TC!CountFiles

LEMMA ContextOpen ==
  ASSUME TC!IInv, v11' = v11, NEW d \in TC!Desktops, TC!OpenFile(d)
  PROVE  TC!IInv'
<1>1. TC!Does(d, "import") /\ v8[d].at = "open"
  BY DEF TC!OpenFile, TC!At, TC!Does
<1>2. UNCHANGED <<v2, v3, v4, v6, v9, v10, v11>>
  BY DEF TC!OpenFile, TC!worktree, TC!window
<1>3. v1 \in Seq({"partial", "whole"}) /\ Len(v1) < TC!MaxFiles /\ v1' = Append(v1, "partial")
  BY ContextTypes DEF TC!OpenFile
<1>4. PICK n \in Nat : n = Len(v1) + 1
  BY <1>3, LenProperties
<1>5. /\ v1' \in Seq({"partial", "whole"}) /\ DOMAIN v1' = DOMAIN v1 \cup {n}
      /\ n \notin DOMAIN v1 /\ \A x \in DOMAIN v1 : v1'[x] = v1[x]
  BY <1>3, <1>4, AppendProperties, LenProperties
<1>6. n \in TC!Ids
  <2>1. TC!MaxFiles \in Nat
    BY ContextTypes, ContextWellFormed DEF TC!WellFormed, TC!MaxFiles
  <2> QED
    BY <1>3, <1>4, <2>1, LenProperties DEF TC!Ids
<1>7. PICK s \in Seq(TC!Ids) : s = Append(v8[d].ids, n)
  BY <1>1, <1>6, TheImport, AppendProperties
<1>8. /\ Len(s) = Len(v8[d].ids) + 1 /\ DOMAIN s = DOMAIN v8[d].ids \cup {Len(s)}
      /\ s[Len(s)] = n /\ \A i \in DOMAIN v8[d].ids : s[i] = v8[d].ids[i]
      /\ Len(v8[d].ids) \in Nat /\ DOMAIN v8[d].ids = 1..Len(v8[d].ids)
  BY <1>1, <1>6, <1>7, TheImport, AppendProperties, LenProperties
<1>9. v8' = [v8 EXCEPT ![d] = [v8[d] EXCEPT !.at = "write", !.ids = s]]
  BY <1>4, <1>7 DEF TC!OpenFile
<1>10. PICK j \in TC!Jobs :
         v8' = [v8 EXCEPT ![d] = j] /\ j.kind = "import" /\ j.ids = s /\ j.at = "write"
  <2>1. [v8[d] EXCEPT !.at = "write", !.ids = s] \in TC!Jobs
    BY <1>1, <1>7, TheImport DEF TC!Jobs
  <2> QED
    BY <1>1, <1>9, <2>1, TheImport
<1>11. /\ v8'[d] = j /\ \A e \in TC!Desktops \ {d} : v8'[e] = v8[e]
       /\ v8' \in [TC!Desktops -> TC!Jobs \cup {None}]
  BY <1>10, OneJob
<1>12. TC!TypeOK'
  <2>1. DOMAIN v1' \subseteq TC!Ids /\ TC!Range(v2) \subseteq DOMAIN v1'
        /\ v3 \subseteq SUBSET (DOMAIN v1')
    BY <1>5, <1>6, ContextTypes
  <2> QED
    BY <1>2, <1>5, <1>11, <2>1, ContextTypes, ContextTyped
<1>13. TC!ImportsAreWhole' /\ TC!FilesAreOfOne'
  <2>1. TC!Range(s) = TC!Range(v8[d].ids) \cup {n}
    BY <1>8 DEF TC!Range
  <2>2. TC!Range(s) \subseteq DOMAIN v1' \ TC!Range(v2)
    BY <1>1, <1>5, <2>1, TheImport, ContextTypes
  <2>3. \A batch \in v3 : batch \cap TC!Range(s) = {}
    BY <1>1, <1>5, <2>1, TheImport, ContextTypes
  <2>4. TC!IsInjective(s)
    <3>1. \A i \in DOMAIN v8[d].ids : s[i] # n
      BY <1>1, <1>5, <1>8, TheImport DEF TC!Range
    <3>2. \A a, b \in DOMAIN v8[d].ids : s[a] = s[b] => a = b
      BY <1>1, <1>8, TheImport DEF TC!IsInjective
    <3> QED
      BY <1>8, <3>1, <3>2 DEF TC!IsInjective
  <2>5. \A i \in DOMAIN s : v1'[s[i]] = "whole" \/ i = Len(s)
    <3>1. \A i \in DOMAIN v8[d].ids : v8[d].ids[i] \in DOMAIN v1 /\ v1[v8[d].ids[i]] = "whole"
      BY <1>1, TheImport DEF TC!Range
    <3> QED
      BY <1>5, <1>8, <3>1
  <2>6. \A e \in TC!Desktops \ {d} : TC!Does(e, "import") =>
          TC!Range(v8[e].ids) \cap TC!Range(s) = {}
    <3>1. \A e \in TC!Desktops : TC!Does(e, "import") => n \notin TC!Range(v8[e].ids)
      BY <1>5, TheImport
    <3>2. \A e \in TC!Desktops \ {d} : TC!Does(e, "import") =>
            TC!Range(v8[e].ids) \cap TC!Range(v8[d].ids) = {}
      BY <1>1, TheImport
    <3> QED
      BY <2>1, <3>1, <3>2
  <2>7. s # << >>
    BY <1>8, EmptyContext
  <2>8. /\ TC!Range(v8'[d].ids) \subseteq DOMAIN v1' \ TC!Range(v2)
        /\ \A batch \in v3 : batch \cap TC!Range(v8'[d].ids) = {}
        /\ TC!IsInjective(v8'[d].ids)
        /\ \A i \in DOMAIN v8'[d].ids :
             \/ v1'[v8'[d].ids[i]] = "whole"
             \/ v8'[d].at = "write" /\ i = Len(v8'[d].ids)
        /\ v8'[d].at = "write" => v8'[d].ids # << >>
    BY <1>10, <1>11, <2>2, <2>3, <2>4, <2>5, <2>7
  <2>9. \A e \in TC!Desktops \ {d} : TC!Does(e, "import") =>
          TC!Range(v8[e].ids) \cap TC!Range(v8'[d].ids) = {}
    BY <1>10, <1>11, <2>6
  <2>10. \A x \in DOMAIN v1 : x \in DOMAIN v1' /\ (v1[x] = "whole" => v1'[x] = "whole")
    BY <1>5
  <2> QED
    BY <1>2, <1>11, <2>8, <2>9, <2>10, FilesGrow
<1>14. TC!HandoffsVerify' /\ TC!WindowFollows'
  BY <1>2, <1>10, <1>11, PanelStays, ImportIsAlone
<1> QED
  BY <1>12, <1>13, <1>14 DEF TC!IInv

LEMMA ContextWrite ==
  ASSUME TC!IInv, v11' = v11, NEW d \in TC!Desktops, TC!WriteFile(d)
  PROVE  TC!IInv'
<1>1. TC!Does(d, "import") /\ v8[d].at = "write"
  BY DEF TC!WriteFile, TC!At, TC!Does
<1>2. UNCHANGED <<v2, v3, v4, v6, v10, v11>>
  BY DEF TC!WriteFile, TC!worktree
<1>3. CASE TC!EndImport(d, << >>) /\ UNCHANGED v1
  <2>1. /\ v8' = [v8 EXCEPT ![d] = None] /\ v9' \in TC!Panels
        /\ TC!Range(v9'.items) \subseteq TC!Range(v2')
        /\ TC!Range(v9'.list.rows) \subseteq TC!Range(v2')
    BY <1>2, <1>3, EmptyContext, ImportEnds
  <2>2. /\ v8' \in [TC!Desktops -> TC!Jobs \cup {None}]
        /\ \A e \in TC!Desktops : v8'[e] # None => e # d /\ v8'[e] = v8[e]
        /\ v8'[d] = None /\ \A e \in TC!Desktops \ {d} : v8'[e] = v8[e]
    BY <1>2, <2>1, EndsAlone, OneJob
  <2>3. TC!TypeOK'
    BY <1>2, <1>3, <2>1, <2>2, ContextTypes, ContextTyped
  <2>4. TC!ImportsAreWhole' /\ TC!FilesAreOfOne'
    BY <1>2, <1>3, <2>2, StoreStays
  <2>5. TC!HandoffsVerify' /\ TC!WindowFollows'
    BY <1>2, <2>1, <2>2, ImportIsAlone
  <2> QED
    BY <2>3, <2>4, <2>5 DEF TC!IInv
<1>4. CASE /\ v1' = [v1 EXCEPT ![TC!Last(v8[d].ids)] = "whole"]
           /\ v8' = [v8 EXCEPT ![d].left = @ - 1,
                               ![d].at = IF v8[d].left = 1 THEN "insert" ELSE "put"]
           /\ UNCHANGED v9
  <2>1. PICK r \in [kind : {"import"}, at : {"put", "open", "write", "insert"}, left : Int,
                    ids : Seq(TC!Ids)] : r = v8[d]
    BY <1>1, TheImport
  <2>2. PICK t \in {"insert", "put"} : t = IF r.left = 1 THEN "insert" ELSE "put"
    OBVIOUS
  <2>3. PICK j \in TC!Jobs :
          /\ v8' = [v8 EXCEPT ![d] = j]
          /\ j.kind = "import" /\ j.ids = v8[d].ids /\ j.at # "write"
    <3> PICK l \in Int : l = r.left - 1
      OBVIOUS
    <3> DEFINE J == [r EXCEPT !.left = l, !.at = t]
    <3>1. J \in TC!Jobs /\ J.kind = "import" /\ J.ids = r.ids /\ J.at # "write"
      BY DEF TC!Jobs
    <3>2. v8' = [v8 EXCEPT ![d] = J]
      BY <1>4, <2>1, <2>2
    <3> QED
      BY <2>1, <3>1, <3>2, Zenon
  <2>4. /\ v8'[d] = j /\ \A e \in TC!Desktops \ {d} : v8'[e] = v8[e]
        /\ v8' \in [TC!Desktops -> TC!Jobs \cup {None}]
    BY <2>3, OneJob
  <2>5. PICK x \in DOMAIN v1 : x = TC!Last(v8[d].ids) /\ x = v8[d].ids[Len(v8[d].ids)]
    <3>1. Len(v8[d].ids) \in DOMAIN v8[d].ids
      BY <1>1, TheImport, EmptySeq, LenProperties
    <3> QED
      BY <1>1, <3>1, TheImport DEF TC!Last, TC!Range
  <2>6. /\ v1' \in Seq({"partial", "whole"}) /\ DOMAIN v1' = DOMAIN v1 /\ v1'[x] = "whole"
        /\ \A y \in DOMAIN v1 : v1[y] = "whole" => v1'[y] = "whole"
    <3>1. v1' = [v1 EXCEPT ![x] = "whole"]
      BY <1>4, <2>5
    <3>2. v1 \in Seq({"partial", "whole"})
      BY ContextTypes
    <3>3. v1' \in Seq({"partial", "whole"})
      BY <3>1, <3>2, ExceptSeq
    <3> QED
      BY <3>1, <3>2, <3>3
  <2>7. TC!TypeOK'
    BY <1>2, <1>4, <2>4, <2>6, ContextTypes, ContextTyped
  <2>8. TC!ImportsAreWhole' /\ TC!FilesAreOfOne'
    <3>1. /\ TC!Range(v8'[d].ids) \subseteq DOMAIN v1' \ TC!Range(v2)
          /\ \A batch \in v3 : batch \cap TC!Range(v8'[d].ids) = {}
          /\ TC!IsInjective(v8'[d].ids)
          /\ v8'[d].at # "write"
      BY <1>1, <2>3, <2>4, <2>6, TheImport
    <3>2. \A i \in DOMAIN v8'[d].ids : v1'[v8'[d].ids[i]] = "whole"
      <4>1. ASSUME NEW i \in DOMAIN v8[d].ids
            PROVE  v1'[v8[d].ids[i]] = "whole"
        <5>1. v8[d].ids[i] \in DOMAIN v1
          BY <1>1, TheImport DEF TC!Range
        <5>2. v1[v8[d].ids[i]] = "whole" \/ v8[d].ids[i] = x
          BY <1>1, <2>5, TheImport
        <5> QED
          BY <2>6, <5>1, <5>2
      <4> QED
        BY <2>3, <2>4, <4>1
    <3>3. \A e \in TC!Desktops \ {d} : TC!Does(e, "import") =>
            TC!Range(v8[e].ids) \cap TC!Range(v8'[d].ids) = {}
      BY <1>1, <2>3, <2>4, TheImport
    <3> QED
      BY <1>2, <2>4, <2>6, <3>1, <3>2, <3>3, FilesGrow
  <2>9. TC!HandoffsVerify' /\ TC!WindowFollows'
    BY <1>2, <1>4, <2>3, <2>4, PanelStays, ImportIsAlone
  <2> QED
    BY <2>7, <2>8, <2>9 DEF TC!IInv
<1> QED
  BY <1>3, <1>4 DEF TC!WriteFile

\* What a sequence has after it was appended to another, and when nothing is twice
\* in it.
LEMMA RangeOfConcat ==
  ASSUME NEW S, NEW s \in Seq(S), NEW t \in Seq(S)
  PROVE  TC!Range(s \o t) = TC!Range(s) \cup TC!Range(t)
<1>1. /\ Len(s) \in Nat /\ Len(t) \in Nat /\ Len(s \o t) = Len(s) + Len(t)
      /\ DOMAIN s = 1..Len(s) /\ DOMAIN t = 1..Len(t) /\ DOMAIN (s \o t) = 1..Len(s \o t)
      /\ \A i \in 1..Len(s) + Len(t) :
           (s \o t)[i] = IF i <= Len(s) THEN s[i] ELSE t[i - Len(s)]
  BY ConcatProperties, LenProperties
<1>2. \A i \in DOMAIN s : i \in DOMAIN (s \o t) /\ (s \o t)[i] = s[i]
  BY <1>1
<1>3. \A i \in DOMAIN t : i + Len(s) \in DOMAIN (s \o t) /\ (s \o t)[i + Len(s)] = t[i]
  BY <1>1
<1>4. \A i \in DOMAIN (s \o t) : (s \o t)[i] \in TC!Range(s) \cup TC!Range(t)
  <2>1. ASSUME NEW i \in DOMAIN (s \o t), ~(i <= Len(s))
        PROVE  i - Len(s) \in DOMAIN t /\ (s \o t)[i] = t[i - Len(s)]
    BY <1>1, <2>1
  <2> QED
    BY <1>1, <2>1 DEF TC!Range
<1>5. TC!Range(s \o t) \subseteq TC!Range(s) \cup TC!Range(t)
  BY <1>4 DEF TC!Range
<1>6. TC!Range(s) \subseteq TC!Range(s \o t) /\ TC!Range(t) \subseteq TC!Range(s \o t)
  BY <1>2, <1>3 DEF TC!Range
<1> QED
  BY <1>5, <1>6

LEMMA DisjointConcat ==
  ASSUME NEW S, NEW s \in Seq(S), NEW t \in Seq(S), TC!IsInjective(s), TC!IsInjective(t),
         TC!Range(s) \cap TC!Range(t) = {}
  PROVE  TC!IsInjective(s \o t)
<1>1. /\ Len(s) \in Nat /\ Len(t) \in Nat /\ Len(s \o t) = Len(s) + Len(t)
      /\ DOMAIN s = 1..Len(s) /\ DOMAIN t = 1..Len(t) /\ DOMAIN (s \o t) = 1..Len(s \o t)
      /\ \A i \in 1..Len(s) + Len(t) :
           (s \o t)[i] = IF i <= Len(s) THEN s[i] ELSE t[i - Len(s)]
  BY ConcatProperties, LenProperties
<1>2. ASSUME NEW i \in DOMAIN (s \o t)
      PROVE  \/ i \in DOMAIN s /\ (s \o t)[i] = s[i]
             \/ ~(i <= Len(s)) /\ i - Len(s) \in DOMAIN t /\ (s \o t)[i] = t[i - Len(s)]
  BY <1>1
<1>3. \A i \in DOMAIN s, k \in DOMAIN t : s[i] # t[k]
  BY DEF TC!Range
<1>4. ASSUME NEW i \in DOMAIN (s \o t), NEW k \in DOMAIN (s \o t), (s \o t)[i] = (s \o t)[k]
      PROVE  i = k
  <2>1. CASE i \in DOMAIN s /\ (s \o t)[i] = s[i]
    BY <1>2, <1>3, <1>4, <2>1 DEF TC!IsInjective
  <2>2. CASE ~(i <= Len(s)) /\ i - Len(s) \in DOMAIN t /\ (s \o t)[i] = t[i - Len(s)]
    <3>1. k - Len(s) \in DOMAIN t /\ (s \o t)[k] = t[k - Len(s)]
      BY <1>2, <1>3, <1>4, <2>2
    <3>2. i - Len(s) = k - Len(s)
      BY <1>4, <2>2, <3>1 DEF TC!IsInjective
    <3> QED
      BY <1>1, <3>2
  <2> QED
    BY <1>2, <2>1, <2>2
<1> QED
  BY <1>4 DEF TC!IsInjective

LEMMA ContextInsert ==
  ASSUME TC!IInv, v11' = v11, NEW d \in TC!Desktops, TC!InsertBatch(d)
  PROVE  TC!IInv'
<1>1. TC!Does(d, "import") /\ v8[d].at = "insert"
  BY DEF TC!InsertBatch, TC!At, TC!Does
<1>2. UNCHANGED <<v1, v4, v6, v10, v11>>
  BY DEF TC!InsertBatch, TC!worktree
<1>3. PICK ids \in Seq(TC!Ids) :
        /\ ids = v8[d].ids /\ TC!Range(ids) \subseteq DOMAIN v1 \ TC!Range(v2)
        /\ TC!IsInjective(ids) /\ \A i \in DOMAIN ids : v1[ids[i]] = "whole"
        /\ \A batch \in v3 : batch \cap TC!Range(ids) = {}
        /\ \A e \in TC!Desktops \ {d} : TC!Does(e, "import") =>
             TC!Range(v8[e].ids) \cap TC!Range(ids) = {}
  BY <1>1, TheImport
<1>4. v3' = v3 \cup {TC!Range(ids)}
  BY <1>3 DEF TC!InsertBatch
<1>5. v2 \in Seq(TC!Ids) /\ TC!Range(v2) \subseteq DOMAIN v1 /\ v3 \subseteq SUBSET (DOMAIN v1)
  BY ContextTypes
<1>6. \/ /\ v2' = v2 \o ids /\ Len(v2) + Len(ids) <= ContextLimit /\ TC!EndImport(d, ids)
      \/ v2' = v2 /\ TC!EndImport(d, << >>)
  BY <1>3 DEF TC!InsertBatch
<1>7. v2' = v2 \o ids =>
        /\ v2' \in Seq(TC!Ids) /\ Len(v2') = Len(v2) + Len(ids)
        /\ TC!Range(v2') = TC!Range(v2) \cup TC!Range(ids)
  <2>1. v2 \o ids \in Seq(TC!Ids) /\ Len(v2 \o ids) = Len(v2) + Len(ids)
    BY <1>5, ConcatProperties
  <2>2. TC!Range(v2 \o ids) = TC!Range(v2) \cup TC!Range(ids)
    BY <1>5, RangeOfConcat
  <2> QED
    BY <2>1, <2>2
<1>8. /\ v2' \in Seq(TC!Ids) /\ TC!Range(v2) \subseteq TC!Range(v2')
      /\ TC!Range(v2') \subseteq TC!Range(v2) \cup TC!Range(ids)
  BY <1>5, <1>6, <1>7
<1>9. /\ v8' = [v8 EXCEPT ![d] = None] /\ v9' \in TC!Panels
      /\ TC!Range(v9'.items) \subseteq TC!Range(v2')
      /\ TC!Range(v9'.list.rows) \subseteq TC!Range(v2')
  BY <1>6, <1>7, <1>8, EmptyContext, ImportEnds
<1>10. /\ v8' \in [TC!Desktops -> TC!Jobs \cup {None}]
       /\ \A e \in TC!Desktops : v8'[e] # None => e # d /\ v8'[e] = v8[e]
       /\ v8'[d] = None /\ \A e \in TC!Desktops \ {d} : v8'[e] = v8[e]
  BY <1>2, <1>9, EndsAlone, OneJob
<1>11. TC!TypeOK'
  <2>1. TC!Range(v2') \subseteq DOMAIN v1' /\ v3' \subseteq SUBSET (DOMAIN v1')
    BY <1>2, <1>3, <1>4, <1>5, <1>8
  <2> QED
    BY <1>2, <1>8, <1>9, <1>10, <2>1, ContextTypes, ContextTyped
<1>12. TC!ImportsAreWhole'
  <2>1. \A x \in TC!Range(v2) \cup TC!Range(ids) : v1[x] = "whole"
    <3>1. \A i \in 1..Len(v2) : v1[v2[i]] = "whole"
      BY DEF TC!IInv, TC!ImportsAreWhole
    <3> QED
      BY <1>3, <1>5, <3>1, LenProperties DEF TC!Range
  <2>2. \A i \in 1..Len(v2') : v1'[v2'[i]] = "whole"
    BY <1>2, <1>8, <2>1, LenProperties DEF TC!Range
  <2>3. \A batch \in v3' :
          batch \subseteq TC!Range(v2') \/ batch \cap TC!Range(v2') = {}
    <3>1. \A batch \in v3 : batch \subseteq TC!Range(v2) \/ batch \cap TC!Range(v2) = {}
      BY DEF TC!IInv, TC!ImportsAreWhole
    <3>2. TC!Range(ids) \subseteq TC!Range(v2') \/ TC!Range(ids) \cap TC!Range(v2') = {}
      BY <1>3, <1>6, <1>7
    <3> QED
      BY <1>3, <1>4, <1>8, <3>1, <3>2
  <2>4. Len(v2') <= ContextLimit /\ TC!IsInjective(v2')
    <3>1. Len(v2) <= ContextLimit /\ TC!IsInjective(v2)
      BY DEF TC!IInv, TC!ImportsAreWhole
    <3>2. TC!IsInjective(v2 \o ids)
      BY <1>3, <1>5, <3>1, DisjointConcat
    <3> QED
      BY <1>6, <1>7, <3>1, <3>2
  <2> QED
    BY <2>2, <2>3, <2>4 DEF TC!ImportsAreWhole, TC!Range, TC!IsInjective
<1>13. TC!FilesAreOfOne'
  <2>1. \A e \in TC!Desktops : v8'[e] # None /\ v8'[e].kind = "import" =>
          /\ TC!Range(v8'[e].ids) \subseteq DOMAIN v1' \ TC!Range(v2')
          /\ \A batch \in v3' : batch \cap TC!Range(v8'[e].ids) = {}
          /\ TC!IsInjective(v8'[e].ids)
          /\ \A i \in DOMAIN v8'[e].ids :
               \/ v1'[v8'[e].ids[i]] = "whole"
               \/ v8'[e].at = "write" /\ i = Len(v8'[e].ids)
          /\ v8'[e].at = "write" => v8'[e].ids # << >>
    <3>1. ASSUME NEW e \in TC!Desktops \ {d}, TC!Does(e, "import")
          PROVE  /\ TC!Range(v8[e].ids) \subseteq DOMAIN v1 \ TC!Range(v2')
                 /\ \A batch \in v3' : batch \cap TC!Range(v8[e].ids) = {}
      BY <1>3, <1>4, <1>8, <3>1, TheImport
    <3>2. ASSUME NEW e \in TC!Desktops \ {d}, TC!Does(e, "import")
          PROVE  /\ TC!IsInjective(v8[e].ids)
                 /\ \A i \in DOMAIN v8[e].ids :
                      \/ v1[v8[e].ids[i]] = "whole"
                      \/ v8[e].at = "write" /\ i = Len(v8[e].ids)
                 /\ v8[e].at = "write" => v8[e].ids # << >>
      BY <3>2, TheImport
    <3> QED
      BY <1>2, <1>10, <3>1, <3>2 DEF TC!Does
  <2>2. \A c, e \in TC!Desktops :
          c # e /\ (v8'[c] # None /\ v8'[c].kind = "import")
                /\ (v8'[e] # None /\ v8'[e].kind = "import")
            => TC!Range(v8'[c].ids) \cap TC!Range(v8'[e].ids) = {}
    <3>1. \A c, e \in TC!Desktops : c # e /\ TC!Does(c, "import") /\ TC!Does(e, "import")
            => TC!Range(v8[c].ids) \cap TC!Range(v8[e].ids) = {}
      BY DEF TC!IInv, TC!FilesAreOfOne
    <3> QED
      BY <1>10, <3>1 DEF TC!Does
  <2>3. TC!Desktops' = TC!Desktops
    BY <1>2 DEF TC!Desktops
  <2> QED
    BY <2>1, <2>2, <2>3, ZenonT(60) DEF TC!FilesAreOfOne, TC!Does, TC!Range, TC!IsInjective
<1>14. TC!HandoffsVerify' /\ TC!WindowFollows'
  BY <1>2, <1>9, <1>10, ImportIsAlone
<1> QED
  BY <1>11, <1>12, <1>13, <1>14 DEF TC!IInv

-----------------------------------------------------------------------------

\* A handoff that answers, with a prompt or without.
LEMMA HandoffEnds ==
  ASSUME TC!IInv, NEW d \in TC!Desktops, TC!Does(d, "handoff"),
         NEW prompt, TC!EndHandoff(d, prompt),
         UNCHANGED <<v1, v2, v3, v6, v9, v11>>,
         v4' \in [TC!Ids -> {"none", "partial", "whole", "changed"}],
         \A id \in TC!Ids : TC!Found(id) => v4'[id] \in {"whole", "changed"},
         \/ prompt = None
         \/ /\ prompt = v8[d].ids
            /\ \A id \in TC!Range(prompt) : v4'[id] \in {"whole", "changed"}
  PROVE  TC!IInv'
<1>1. v10 \in TC!Handoffs /\ prompt \in Seq(TC!Ids) \cup {None}
  BY ContextTypes, TheHandoff
<1>2. v8' = [v8 EXCEPT ![d] = None]
  BY DEF TC!EndHandoff
<1>3. /\ v8' \in [TC!Desktops -> TC!Jobs \cup {None}]
      /\ \A e \in TC!Desktops : v8'[e] # None => e # d /\ v8'[e] = v8[e]
      /\ v8'[d] = None /\ \A e \in TC!Desktops \ {d} : v8'[e] = v8[e]
  BY <1>2, EndsAlone, OneJob
<1>4. v10' \in TC!Handoffs
  <2>1. [v10 EXCEPT !.busy = FALSE, !.prompt = prompt] \in TC!Handoffs
    BY <1>1 DEF TC!Handoffs
  <2> QED
    BY <1>1, <2>1 DEF TC!EndHandoff
<1>5. TC!TypeOK'
  BY <1>3, <1>4, ContextTypes, ContextTyped
<1>6. TC!ImportsAreWhole' /\ TC!FilesAreOfOne'
  BY <1>3, StoreStays
<1>7. TC!HandoffsVerify'
  BY <1>3, HandoffsStay
<1>8. TC!WindowFollows'
  <2>1. CASE d # TC!Viewer
    <3>1. v10' = v10
      BY <2>1 DEF TC!EndHandoff
    <3>2. TC!Viewer # None /\ v8'[TC!Viewer] # None /\ v8'[TC!Viewer].kind = "handoff" =>
            TC!Does(TC!Viewer, "handoff") /\ v8'[TC!Viewer].ids = v8[TC!Viewer].ids
      BY <1>3, ViewerIsADesktop DEF TC!Does
    <3> QED
      BY <3>1, <3>2, PanelStays, WindowStays
  <2>2. CASE d = TC!Viewer
    <3>1. TC!Viewer' = TC!Viewer /\ TC!Viewer # None
      BY <2>2, ViewerIsADesktop DEF TC!Viewer
    <3>2. TC!ShownIsStored' /\ (TC!Range(v9.list.rows) \subseteq TC!Range(v2))'
      BY DEF TC!IInv, TC!WindowFollows, TC!ShownIsStored, TC!Range
    <3>3. /\ v10.consent => v10.approved = v10.selected
          /\ v8[d].ids = v10.selected
      BY <2>2, <3>1 DEF TC!IInv, TC!WindowFollows
    <3>4. v10' = [v10 EXCEPT !.busy = FALSE, !.prompt = prompt]
      BY <2>2 DEF TC!EndHandoff
    <3>5. /\ v10'.consent = v10.consent /\ v10'.approved = v10.approved
          /\ v10'.selected = v10.selected /\ v10'.ready = v10.ready /\ v10'.prompt = prompt
      BY <1>1, <3>4 DEF TC!Handoffs
    <3>6. TC!PromptIsTrue'
      BY <3>3, <3>5 DEF TC!PromptIsTrue, TC!Range
    <3> QED
      BY <1>3, <2>2, <3>1, <3>2, <3>3, <3>5, <3>6 DEF TC!WindowFollows, TC!Does
  <2> QED
    BY <2>1, <2>2
<1> QED
  BY <1>5, <1>6, <1>7, <1>8 DEF TC!IInv

\* A handoff that goes on.
LEMMA HandoffMoves ==
  ASSUME TC!IInv, NEW d \in TC!Desktops, TC!Does(d, "handoff"),
         NEW at \in {"open", "write", "verify"}, NEW left \in Nat, left < Len(v8[d].ids),
         v8' = [v8 EXCEPT ![d] = [v8[d] EXCEPT !.at = at, !.left = left]],
         UNCHANGED <<v1, v2, v3, v6, v9, v10, v11>>, d \notin v6,
         v4' \in [TC!Ids -> {"none", "partial", "whole", "changed"}],
         \A id \in TC!Ids : TC!Found(id) => v4'[id] \in {"whole", "changed"},
         \A k \in 1..left : v4'[v8[d].ids[k]] \in {"whole", "changed"}
  PROVE  TC!IInv'
<1>1. PICK r \in [kind : {"handoff"}, at : {"check", "open", "write", "verify"}, left : Nat,
                  ids : Seq(TC!Ids)] : r = v8[d]
  BY TheHandoff
<1>2. PICK j \in TC!Jobs :
        /\ v8' = [v8 EXCEPT ![d] = j]
        /\ j.kind = "handoff" /\ j.ids = v8[d].ids /\ j.at = at /\ j.left = left
  <2> DEFINE J == [r EXCEPT !.at = at, !.left = left]
  <2>1. J \in TC!Jobs /\ J.kind = "handoff" /\ J.ids = r.ids /\ J.at = at /\ J.left = left
    BY DEF TC!Jobs
  <2>2. v8' = [v8 EXCEPT ![d] = J]
    BY <1>1
  <2> QED
    BY <1>1, <2>1, <2>2, Zenon
<1>3. /\ v8'[d] = j /\ \A e \in TC!Desktops \ {d} : v8'[e] = v8[e]
      /\ v8' \in [TC!Desktops -> TC!Jobs \cup {None}]
  BY <1>2, OneJob
<1>4. TC!TypeOK'
  BY <1>3, ContextTypes, ContextTyped
<1>5. TC!ImportsAreWhole' /\ TC!FilesAreOfOne'
  BY <1>2, <1>3, StoreStays
<1>6. TC!HandoffsVerify'
  <2>1. ASSUME NEW e \in TC!Desktops, e # d
        PROVE  v8'[e] = v8[e]
    BY <1>3, <2>1
  <2>2. /\ v8'[d].left < Len(v8'[d].ids)
        /\ \A k \in 1..v8'[d].left : v4'[v8'[d].ids[k]] \in {"whole", "changed"}
        /\ v8'[d].at # "check" /\ d \notin v6'
    BY <1>2, <1>3
  <2>3. \A e \in TC!Desktops :
          \/ v8'[e] = v8[e]
          \/ /\ v8'[e].left < Len(v8'[e].ids)
             /\ \A k \in 1..v8'[e].left : v4'[v8'[e].ids[k]] \in {"whole", "changed"}
             /\ v8'[e].at # "check" => e \notin v6'
             /\ v8'[e].at = "check" => v8'[e].left = 0
    BY <2>1, <2>2
  <2> QED
    BY <2>3, HandoffsStay
<1>7. TC!WindowFollows'
  <2>1. TC!Viewer # None /\ v8'[TC!Viewer] # None /\ v8'[TC!Viewer].kind = "handoff" =>
          TC!Does(TC!Viewer, "handoff") /\ v8'[TC!Viewer].ids = v8[TC!Viewer].ids
    BY <1>2, <1>3, ViewerIsADesktop DEF TC!Does
  <2> QED
    BY <2>1, PanelStays, WindowStays
<1> QED
  BY <1>4, <1>5, <1>6, <1>7 DEF TC!IInv

\* What a handoff that copies has done, and the file that it is at.
LEMMA HandoffIsAt ==
  ASSUME TC!IInv, NEW d \in TC!Desktops, TC!Does(d, "handoff"), v8[d].at # "check"
  PROVE  /\ v8[d].left \in Nat /\ v8[d].left < Len(v8[d].ids) /\ d \notin v6
         /\ Len(v8[d].ids) \in Nat /\ DOMAIN v8[d].ids = 1..Len(v8[d].ids)
         /\ \A k \in 1..v8[d].left : v4[v8[d].ids[k]] \in {"whole", "changed"}
         /\ TC!Exported(d) = v8[d].ids[v8[d].left + 1] /\ TC!Exported(d) \in TC!Ids
<1>1. v8[d] \in [kind : {"handoff"}, at : {"check", "open", "write", "verify"}, left : Nat,
                 ids : Seq(TC!Ids)]
  BY TheHandoff
<1>2. /\ v8[d].left < Len(v8[d].ids) /\ d \notin v6
      /\ \A k \in 1..v8[d].left : v4[v8[d].ids[k]] \in {"whole", "changed"}
  BY DEF TC!IInv, TC!HandoffsVerify, TC!Found
<1>3. /\ v8[d].left \in Nat /\ v8[d].ids \in Seq(TC!Ids)
      /\ Len(v8[d].ids) \in Nat /\ DOMAIN v8[d].ids = 1..Len(v8[d].ids)
  BY <1>1, LenProperties
<1>4. v8[d].ids[v8[d].left + 1] \in TC!Ids
  <2>1. v8[d].left + 1 \in 1..Len(v8[d].ids)
    BY <1>2, <1>3
  <2> QED
    BY <1>3, <2>1, ElementOfSeq
<1> QED
  BY <1>2, <1>3, <1>4 DEF TC!Exported

\* Two ways to write a change of a job.
LEMMA JobMoves ==
  ASSUME TC!IInv, NEW d \in TC!Desktops, TC!Does(d, "handoff"), NEW at, NEW left
  PROVE  /\ [v8[d] EXCEPT !.at = at] = [v8[d] EXCEPT !.at = at, !.left = v8[d].left]
         /\ [v8[d] EXCEPT !.left = left, !.at = at] = [v8[d] EXCEPT !.at = at, !.left = left]
<1>1. PICK r \in [kind : {"handoff"}, at : {"check", "open", "write", "verify"}, left : Nat,
                  ids : Seq(TC!Ids)] : r = v8[d]
  BY TheHandoff
<1>2. [r EXCEPT !.at = at] = [r EXCEPT !.at = at, !.left = r.left]
  OBVIOUS
<1>3. [r EXCEPT !.left = left, !.at = at] = [r EXCEPT !.at = at, !.left = left]
  OBVIOUS
<1> QED
  BY <1>1, <1>2, <1>3

LEMMA ContextVerified ==
  ASSUME TC!IInv, NEW d \in TC!Desktops, TC!Does(d, "handoff"), v8[d].at # "check",
         TC!Verified(d), UNCHANGED <<v1, v2, v3, v4, v6, v9, v11>>
  PROVE  TC!IInv'
<1>1. /\ v4' \in [TC!Ids -> {"none", "partial", "whole", "changed"}]
      /\ \A id \in TC!Ids : TC!Found(id) => v4'[id] \in {"whole", "changed"}
  BY ContextTypes DEF TC!Found
<1>2. CASE TC!EndHandoff(d, None)
  BY <1>1, <1>2, HandoffEnds
<1>3. CASE /\ v4[TC!Exported(d)] = "whole" /\ v8[d].left + 1 < Len(v8[d].ids)
           /\ v8' = [v8 EXCEPT ![d].left = @ + 1, ![d].at = "open"] /\ UNCHANGED v10
  <2>1. PICK left \in Nat : left = v8[d].left + 1 /\ left < Len(v8[d].ids)
    BY <1>3, HandoffIsAt
  <2>2. v8' = [v8 EXCEPT ![d] = [v8[d] EXCEPT !.left = left, !.at = "open"]]
    BY <1>3, <2>1
  <2>3. v8' = [v8 EXCEPT ![d] = [v8[d] EXCEPT !.at = "open", !.left = left]]
    BY <2>2, JobMoves
  <2>4. \A k \in 1..left : v4'[v8[d].ids[k]] \in {"whole", "changed"}
    BY <1>3, <2>1, HandoffIsAt
  <2> QED
    BY <1>1, <1>3, <2>1, <2>3, <2>4, HandoffIsAt, HandoffMoves
<1>4. CASE /\ v4[TC!Exported(d)] = "whole" /\ ~(v8[d].left + 1 < Len(v8[d].ids))
           /\ TC!EndHandoff(d, v8[d].ids)
  <2>1. \A k \in DOMAIN v8[d].ids : k \in 1..v8[d].left \/ k = v8[d].left + 1
    BY <1>4, HandoffIsAt
  <2>2. \A id \in TC!Range(v8[d].ids) : v4'[id] \in {"whole", "changed"}
    BY <1>4, <2>1, HandoffIsAt DEF TC!Range
  <2> QED
    BY <1>1, <1>4, <2>2, HandoffEnds
<1> QED
  BY <1>2, <1>3, <1>4 DEF TC!Verified

LEMMA ContextCheck ==
  ASSUME TC!IInv, v11' = v11, NEW d \in TC!Desktops, TC!CheckTarget(d)
  PROVE  TC!IInv'
<1>1. TC!Does(d, "handoff") /\ v8[d].at = "check"
  BY DEF TC!CheckTarget, TC!At, TC!Does
<1>2. UNCHANGED <<v1, v2, v3, v4, v6, v9, v11>>
  BY DEF TC!CheckTarget, TC!store, TC!worktree
<1>3. /\ v4' \in [TC!Ids -> {"none", "partial", "whole", "changed"}]
      /\ \A id \in TC!Ids : TC!Found(id) => v4'[id] \in {"whole", "changed"}
  BY <1>2, ContextTypes DEF TC!Found
<1>4. CASE TC!EndHandoff(d, None)
  BY <1>1, <1>2, <1>3, <1>4, HandoffEnds
<1>5. CASE TC!CanPrepare /\ v8' = [v8 EXCEPT ![d].at = "open"] /\ UNCHANGED v10
  <2>1. PICK left \in Nat : left = 0 /\ v8[d].left = left /\ left < Len(v8[d].ids)
    BY <1>1 DEF TC!IInv, TC!HandoffsVerify
  <2>2. v8' = [v8 EXCEPT ![d] = [v8[d] EXCEPT !.at = "open"]]
    BY <1>5
  <2>3. v8' = [v8 EXCEPT ![d] = [v8[d] EXCEPT !.at = "open", !.left = left]]
    <3>1. [v8[d] EXCEPT !.at = "open"] = [v8[d] EXCEPT !.at = "open", !.left = v8[d].left]
      BY <1>1, JobMoves
    <3> QED
      BY <2>1, <2>2, <3>1, Zenon
  <2>4. d \notin v6 /\ \A k \in 1..left : v4'[v8[d].ids[k]] \in {"whole", "changed"}
    BY <1>5, <2>1 DEF TC!CanPrepare
  <2> QED
    BY <1>1, <1>2, <1>3, <1>5, <2>1, <2>3, <2>4, HandoffMoves
<1> QED
  BY <1>4, <1>5 DEF TC!CheckTarget

\* The copy of the file that a handoff is at.
LEMMA CopyMoves ==
  ASSUME TC!IInv, NEW d \in TC!Desktops, TC!Does(d, "handoff"), v8[d].at # "check",
         NEW at \in {"write", "verify"}, NEW c \in {"partial", "whole"},
         v4' = [v4 EXCEPT ![TC!Exported(d)] = c],
         v4[TC!Exported(d)] = "none" \/ c = "whole",
         v8' = [v8 EXCEPT ![d].at = at],
         UNCHANGED <<v1, v2, v3, v6, v9, v10, v11>>
  PROVE  TC!IInv'
<1>1. v4 \in [TC!Ids -> {"none", "partial", "whole", "changed"}] /\ TC!Exported(d) \in TC!Ids
  BY ContextTypes, HandoffIsAt
<1>2. /\ v4' \in [TC!Ids -> {"none", "partial", "whole", "changed"}]
      /\ \A id \in TC!Ids : TC!Found(id) => v4'[id] \in {"whole", "changed"}
  BY <1>1 DEF TC!Found
<1>3. \A k \in 1..v8[d].left : v4'[v8[d].ids[k]] \in {"whole", "changed"}
  <2>1. \A k \in 1..v8[d].left : v8[d].ids[k] \in TC!Ids /\ TC!Found(v8[d].ids[k])
    BY HandoffIsAt, TheHandoff, ElementOfSeq DEF TC!Found
  <2> QED
    BY <1>2, <2>1
<1>4. v8' = [v8 EXCEPT ![d] = [v8[d] EXCEPT !.at = at]]
  OBVIOUS
<1>5. v8' = [v8 EXCEPT ![d] = [v8[d] EXCEPT !.at = at, !.left = v8[d].left]]
  BY <1>4, JobMoves
<1>6. PICK left \in Nat : left = v8[d].left /\ left < Len(v8[d].ids) /\ d \notin v6
  BY HandoffIsAt
<1> QED
  BY <1>2, <1>3, <1>5, <1>6, HandoffMoves

LEMMA ContextCopies ==
  ASSUME TC!IInv, v11' = v11, NEW d \in TC!Desktops,
         TC!OpenCopy(d) \/ TC!WriteCopy(d) \/ TC!VerifyCopy(d)
  PROVE  TC!IInv'
<1>1. TC!Does(d, "handoff") /\ v8[d].at # "check"
  BY DEF TC!OpenCopy, TC!WriteCopy, TC!VerifyCopy, TC!At, TC!Does
<1>2. UNCHANGED <<v1, v2, v3, v6, v9, v11>>
  BY DEF TC!OpenCopy, TC!WriteCopy, TC!VerifyCopy, TC!store, TC!worktree
<1>3. CASE TC!EndHandoff(d, None) /\ UNCHANGED v4
  <2>1. /\ v4' \in [TC!Ids -> {"none", "partial", "whole", "changed"}]
        /\ \A id \in TC!Ids : TC!Found(id) => v4'[id] \in {"whole", "changed"}
    BY <1>3, ContextTypes DEF TC!Found
  <2> QED
    BY <1>1, <1>2, <1>3, <2>1, HandoffEnds
<1>4. CASE TC!Verified(d) /\ UNCHANGED v4
  BY <1>1, <1>2, <1>4, ContextVerified
<1>5. CASE TC!OpenCopy(d)
  <2>1. CASE /\ v4[TC!Exported(d)] = "none"
             /\ v4' = [v4 EXCEPT ![TC!Exported(d)] = "partial"]
             /\ v8' = [v8 EXCEPT ![d].at = "write"] /\ UNCHANGED v10
    BY <1>1, <1>2, <2>1, CopyMoves
  <2> QED
    BY <1>3, <1>4, <1>5, <2>1 DEF TC!OpenCopy
<1>6. CASE TC!WriteCopy(d)
  <2>1. CASE /\ v4' = [v4 EXCEPT ![TC!Exported(d)] = "whole"]
             /\ v8' = [v8 EXCEPT ![d].at = "verify"] /\ UNCHANGED v10
    BY <1>1, <1>2, <2>1, CopyMoves
  <2> QED
    BY <1>3, <1>6, <2>1 DEF TC!WriteCopy
<1>7. CASE TC!VerifyCopy(d)
  BY <1>4, <1>7 DEF TC!VerifyCopy, TC!worktree
<1> QED
  BY <1>5, <1>6, <1>7

-----------------------------------------------------------------------------

\* What happens besides the calls, when none begins.
LEMMA CallsStay ==
  ASSUME TC!IInv, UNCHANGED <<v1, v2, v3, v11>>,
         v4' \in [TC!Ids -> {"none", "partial", "whole", "changed"}],
         \A id \in TC!Ids : TC!Found(id) => v4'[id] \in {"whole", "changed"},
         v6' \subseteq v6, v8' \in [TC!Desktops -> TC!Jobs \cup {None}],
         \A e \in TC!Desktops : v8'[e] # None => v8'[e] = v8[e],
         v9' \in TC!Panels, v10' \in TC!Handoffs, TC!WindowFollows'
  PROVE  TC!IInv'
<1>1. TC!TypeOK'
  BY ContextTypes, ContextTyped
<1>2. TC!ImportsAreWhole' /\ TC!FilesAreOfOne'
  BY StoreStays
<1>3. TC!HandoffsVerify'
  BY HandoffsStay
<1> QED
  BY <1>1, <1>2, <1>3 DEF TC!IInv

LEMMA ContextMeanwhile ==
  ASSUME TC!IInv, v11' = v11, TC!AgentEdits \/ TC!SessionEnds \/ TC!GateEnds
  PROVE  TC!IInv'
<1>1. UNCHANGED <<v1, v2, v3, v8, v9, v10>>
  BY DEF TC!AgentEdits, TC!SessionEnds, TC!GateEnds, TC!store, TC!window
<1>2. v6' \subseteq v6
  BY DEF TC!AgentEdits, TC!SessionEnds, TC!GateEnds
<1>3. /\ v4' \in [TC!Ids -> {"none", "partial", "whole", "changed"}]
      /\ \A id \in TC!Ids : TC!Found(id) => v4'[id] \in {"whole", "changed"}
  <2>1. v4 \in [TC!Ids -> {"none", "partial", "whole", "changed"}]
    BY ContextTypes
  <2>2. CASE v4' = v4
    BY <2>1, <2>2 DEF TC!Found
  <2>3. CASE \E id \in TC!Ids : v4' = [v4 EXCEPT ![id] = "changed"]
    BY <2>1, <2>3 DEF TC!Found
  <2> QED
    BY <2>2, <2>3 DEF TC!AgentEdits, TC!SessionEnds, TC!GateEnds
<1>4. TC!Viewer # None /\ v8'[TC!Viewer] # None /\ v8'[TC!Viewer].kind = "handoff" =>
        TC!Does(TC!Viewer, "handoff") /\ v8'[TC!Viewer].ids = v8[TC!Viewer].ids
  BY <1>1 DEF TC!Does
<1>5. TC!WindowFollows'
  BY <1>1, <1>3, <1>4, PanelStays, WindowStays
<1> QED
  BY <1>1, <1>2, <1>3, <1>5, ContextTypes, CallsStay

LEMMA ContextGateStarts ==
  ASSUME TC!IInv, v11' = v11, TC!GateStarts
  PROVE  TC!IInv'
<1>1. UNCHANGED <<v1, v2, v3, v4, v8, v9, v10>>
  BY DEF TC!GateStarts, TC!store, TC!window
<1>2. PICK d \in TC!Desktops : (v8[d] # None => v8[d].kind = "import") /\ v6' = {d}
  BY DEF TC!GateStarts
<1>3. TC!TypeOK'
  BY <1>1, <1>2, ContextTypes, ContextTyped
<1>4. TC!ImportsAreWhole' /\ TC!FilesAreOfOne'
  BY <1>1, StoreStays
<1>5. TC!HandoffsVerify'
  <2>1. \A e \in TC!Desktops : TC!Does(e, "handoff") =>
          /\ v8[e].left < Len(v8[e].ids)
          /\ \A k \in 1..v8[e].left : TC!Found(v8[e].ids[k])
          /\ e # d
          /\ v8[e].at = "check" => v8[e].left = 0
    BY <1>2 DEF TC!IInv, TC!HandoffsVerify, TC!Does
  <2>2. TC!Desktops' = TC!Desktops
    BY DEF TC!Desktops
  <2> QED
    BY <1>1, <1>2, <2>1, <2>2 DEF TC!HandoffsVerify, TC!Does, TC!Found
<1>6. TC!Viewer # None /\ v8'[TC!Viewer] # None /\ v8'[TC!Viewer].kind = "handoff" =>
        TC!Does(TC!Viewer, "handoff") /\ v8'[TC!Viewer].ids = v8[TC!Viewer].ids
  BY <1>1 DEF TC!Does
<1>7. TC!WindowFollows'
  BY <1>1, <1>6, PanelStays, WindowStays DEF TC!Found
<1> QED
  BY <1>3, <1>4, <1>5, <1>7 DEF TC!IInv

LEMMA ContextCrash ==
  ASSUME TC!IInv, v11' = v11, TC!Crash
  PROVE  TC!IInv'
<1>1. UNCHANGED <<v1, v2, v3, v4>>
  BY DEF TC!Crash, TC!store
<1>2. PICK d \in TC!Desktops :
        /\ v8' = [v8 EXCEPT ![d] = None] /\ v6' = v6 \ {d}
        /\ IF d = TC!Viewer THEN v9' = TC!Mounted /\ v10' = TC!Targeted
           ELSE UNCHANGED <<v9, v10>>
  BY DEF TC!Crash, TC!window
<1>3. /\ v8' \in [TC!Desktops -> TC!Jobs \cup {None}]
      /\ \A e \in TC!Desktops : v8'[e] # None => e # d /\ v8'[e] = v8[e]
      /\ v8'[d] = None
  BY <1>2, EndsAlone, OneJob
<1>4. v9' \in TC!Panels /\ v10' \in TC!Handoffs /\ TC!WindowFollows'
  <2>1. CASE d # TC!Viewer
    <3>1. TC!Viewer # None /\ v8'[TC!Viewer] # None /\ v8'[TC!Viewer].kind = "handoff" =>
            TC!Does(TC!Viewer, "handoff") /\ v8'[TC!Viewer].ids = v8[TC!Viewer].ids
      BY <1>3, ViewerIsADesktop DEF TC!Does
    <3> QED
      BY <1>1, <1>2, <2>1, <3>1, ContextTypes, PanelStays, WindowStays DEF TC!Found
  <2>2. CASE d = TC!Viewer
    <3>1. v9' = TC!Mounted /\ v10' = TC!Targeted
      BY <1>2, <2>2
    <3>2. v9' \in TC!Panels /\ v9'.items = << >> /\ v9'.list.rows = << >>
      BY <3>1, EmptyContext DEF TC!Mounted, TC!Asked, TC!Panels
    <3>3. /\ v10' \in TC!Handoffs /\ ~v10'.consent /\ v10'.ready = "asked"
          /\ v10'.prompt = None
      BY <3>1, EmptyContext DEF TC!Targeted, TC!Handoffs
    <3>4. TC!Viewer' = TC!Viewer
      BY DEF TC!Viewer
    <3>5. TC!ShownIsStored' /\ (TC!Range(v9.list.rows) \subseteq TC!Range(v2))'
      <4>1. TC!Range(v9'.items) \subseteq TC!Range(v2')
            /\ TC!Range(v9'.list.rows) \subseteq TC!Range(v2')
        BY <3>2, EmptyContext
      <4> QED
        BY <4>1 DEF TC!ShownIsStored, TC!Range
    <3>6. TC!PromptIsTrue'
      BY <3>3 DEF TC!PromptIsTrue
    <3>7. TC!WindowFollows'
      BY <1>3, <2>2, <3>3, <3>4, <3>5, <3>6 DEF TC!WindowFollows, TC!Does
    <3> QED
      BY <3>2, <3>3, <3>7
  <2> QED
    BY <2>1, <2>2
<1>5. /\ v4' \in [TC!Ids -> {"none", "partial", "whole", "changed"}]
      /\ \A id \in TC!Ids : TC!Found(id) => v4'[id] \in {"whole", "changed"}
  BY <1>1, ContextTypes DEF TC!Found
<1> QED
  BY <1>1, <1>2, <1>3, <1>4, <1>5, CallsStay

LEMMA ContextStep ==
  ASSUME TC!IInv, [TC!Next]_(TC!contextVars)
  PROVE  TC!IInv'
<1>1. CASE TC!Next
  <2>1. v11' = v11 /\ TC!Acts
    BY <1>1 DEF TC!Next
  <2>2. ASSUME NEW d \in TC!Desktops,
               \/ TC!CountFiles(d) \/ TC!OpenFile(d) \/ TC!WriteFile(d)
               \/ TC!InsertBatch(d) \/ TC!CheckTarget(d)
               \/ TC!OpenCopy(d) \/ TC!WriteCopy(d) \/ TC!VerifyCopy(d)
        PROVE  TC!IInv'
    BY <2>1, <2>2, ContextCount, ContextOpen, ContextWrite, ContextInsert, ContextCheck,
       ContextCopies
  <2>3. ASSUME \/ TC!RefreshList \/ TC!ReadList \/ TC!ShowList \/ TC!Save
               \/ TC!RefreshHandoff \/ TC!ShowReadiness \/ TC!Select \/ TC!Consent
               \/ TC!Prepare \/ TC!OtherImport \/ TC!OtherHandoff
        PROVE  TC!IInv'
    BY <2>1, <2>3, ContextList, ContextAsks, ContextBegins
  <2>4. ASSUME \/ TC!AgentEdits \/ TC!SessionEnds \/ TC!GateStarts \/ TC!GateEnds \/ TC!Crash
        PROVE  TC!IInv'
    BY <2>1, <2>4, ContextMeanwhile, ContextGateStarts, ContextCrash
  <2> QED
    BY <2>1, <2>2, <2>3, <2>4 DEF TC!Acts
<1>2. CASE UNCHANGED TC!contextVars
  <2>1. UNCHANGED <<v1, v2, v3, v4, v6, v8, v9, v10, v11>>
    BY <1>2 DEF TC!contextVars, TC!store, TC!worktree, TC!window
  <2>2. TC!WindowFollows'
    BY <2>1, PanelStays, WindowStays DEF TC!Found, TC!Does
  <2> QED
    BY <2>1, <2>2, ContextTypes, WindowSteps
<1> QED
  BY <1>1, <1>2

\* For any number of desktops, files and attachments: an import reaches the Task's
\* list as a whole or not at all, with whole files and within the limit; the window
\* shows as saved what is stored; and a prompt names just the files that the user
\* approved, whose copies were found whole, while the same desktop ran no gate
\* (task-context, task-context-handoff).
THEOREM ContextAlwaysKept == Spec => []ContextIsKept
<1> DEFINE Inv == part = "context" => TC!IInv
<1>1. Init => Inv
  BY ContextInit DEF Init
<1>2. Inv /\ [Next]_desktopVars => Inv'
  BY PartStays, ContextPart, ContextStep
<1>3. Inv => ContextIsKept
  BY ContextKept DEF ContextIsKept
<1> QED
  BY <1>1, <1>2, <1>3, PTL DEF Spec
=============================================================================
