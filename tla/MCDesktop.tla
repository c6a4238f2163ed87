----------------------------- MODULE MCDesktop -----------------------------
(***************************************************************************)
(* All parts of the application, those of which nothing is proved and those*)
(* of the modules below, on small instances.                               *)
(***************************************************************************)
EXTENDS Desktop, DesktopPanes, DesktopGit, DesktopServices

CONSTANTS
  Bytes, RedactedValues, Mark, Marker, MaximumBytes, TailBytes, MaxWritten,
  PaletteContexts, PaletteQueries, PaletteText(_), PaletteRank(_),
  MaxPaletteActs

-----------------------------------------------------------------------------
(* The other parts.                                                        *)

GO == INSTANCE GateOutput WITH
  values <- v1, text <- v2, kept <- v3, discarded <- v4, tail <- v5,
  markers <- v6,
  ValueLists <- RedactedValues

CP == INSTANCE CommandPalette WITH
  context <- v1, palette <- v2, recents <- v3, last <- v4, acts <- v5,
  Contexts <- PaletteContexts, Queries <- PaletteQueries, Text <- PaletteText,
  LabelRank <- PaletteRank, MaxActs <- MaxPaletteActs

MCInit ==
  \/ Init
  \/ PanesInit
  \/ GitInit
  \/ ServicesInit
  \/ /\ part \in Parts
     /\ \/ part = "output" /\ GO!Init /\ Rest7
        \/ part = "palette" /\ CP!Init /\ Rest6

MCNext ==
  \/ Next
  \/ PanesNext
  \/ GitNext
  \/ ServicesNext
  \/ Moves("output") /\ GO!Next /\ Stays7
  \/ Moves("palette") /\ CP!Next /\ Stays6

MCSpec == MCInit /\ [][MCNext]_desktopVars

-----------------------------------------------------------------------------
(* What must hold of the part that runs.                                   *)

\* What the user is shown.  The command palette: while no two commands have one id,
\* what it shows is what it runs, all of it and once.  Output of a Quality Gate: no value to redact is in it, nor is it
\* longer than allowed, however it was cut into chunks.
ShownIsSound ==
  /\ part = "palette" => CP!PaletteIsSound
  /\ part = "output" => GO!GateOutputSafe

-----------------------------------------------------------------------------
(* Values of the constants.                                                *)

PaneTasks == <<"t1", "t2">>

\* A plugin whose phases are in order, one that starts at a later phase, and one
\* that names a phase twice.
Phase(id, kind) == [id |-> id, kind |-> kind, headings |-> <<"h">>]
PluginFile(phases) ==
  [trusted |-> TRUE, readable |-> TRUE, format |-> "plugin", phases |-> phases]
PluginFileTexts ==
  {PluginFile(<<Phase("a", "research"), Phase("b", "planning")>>),
   PluginFile(<<Phase("b", "planning"), Phase("c", "running")>>),
   PluginFile(<<Phase("a", "research"), Phase("a", "planning")>>)}

CommitAncestors ==
  "b" :> {"b"} @@ "c1" :> {"b", "c1"} @@ "c2" :> {"b", "c1", "c2"}

\* None; a request for changes that is dismissed; one that a later review of
\* another reviewer does not lift.
Review(who, state) == [who |-> who, state |-> state]
GitHubReviews ==
  {<< >>,
   <<Review("a", "APPROVED"), Review("b", "CHANGES_REQUESTED"),
     Review("a", "COMMENTED"), Review("b", "DISMISSED")>>,
   <<Review("a", "APPROVED"), Review("a", "CHANGES_REQUESTED"),
     Review("b", "APPROVED"), Review("a", "PENDING")>>}

\* No value, one as long as its mark, and one that is longer.
ValuesToRedact ==
  {<< >>, <<<<"s", "t">>>>, <<<<"s", "t", "t">>, <<"t", "s">>>>}

\* One file: a hidden entry, a file like the index, and a file in conflict; and
\* two, one like the head and one that is edited.
Start(inHead, inIndex, hidden, held) ==
  [trees |-> <<[p \in 1..2 |-> <<0, 0>>], inHead>>, branch |-> "task", head |-> 2,
   index |-> inIndex, hidden |-> hidden, files |-> held]
CodeStarts ==
  {Start(<<<<0, 0>>, << >>>>, <<<<0, 0>>, << >>>>, {1}, <<<<1, 1>>, << >>>>),
   Start(<<<<0, 1>>, << >>>>, <<<<0, 1>>, << >>>>, {}, <<<<0, 1>>, << >>>>),
   Start(<<<<0, 0>>, << >>>>, <<<<1>>, << >>>>, {}, <<<<1, 1>>, << >>>>),
   Start(<<<<0, 1>>, <<0, 0>>>>, <<<<0, 1>>, <<0, 0>>>>, {}, <<<<0, 1>>, <<1, 0>>>>)}

\* No Task; a Task in each state that offers other commands; one with an action
\* under way; one with a gate whose command has the id of another.
Context(selected, busy, agent, can, gates, dependencies) ==
  [tasks |-> <<"t1", "t2">>, selected |-> selected, busy |-> busy, agent |-> agent,
   can |-> can, gates |-> gates, dependencies |-> dependencies]
TestGate == <<<<"test">>>>
CommandContexts ==
  {Context(None, FALSE, TRUE, {}, << >>, << >>),
   Context("t1", FALSE, TRUE, {"startResearch", "beginPlanning", "produceArtifact"},
           << >>, <<"t2">>),
   Context("t1", FALSE, TRUE, {"startPlanning", "revisePlan", "acceptPlan"}, << >>, << >>),
   Context("t1", FALSE, TRUE,
           {"captureNote", "retryExecution", "requestReview", "checkMergeConflicts",
            "runQualityGate"}, TestGate, << >>),
   Context("t1", FALSE, FALSE, {"startExecution"}, << >>, << >>),
   Context("t2", FALSE, TRUE,
           {"captureNote", "checkMergeConflicts", "sendMergeConflictResolution",
            "approveReview", "requestChanges", "runQualityGate"}, TestGate, << >>),
   Context("t1", TRUE, TRUE, {"captureNote"}, TestGate, << >>),
   Context("t1", FALSE, TRUE, {"runQualityGate"}, <<<<"register">>>>, << >>)}
SearchQueries == {<< >>, <<"t">>, <<"t", "o", "t">>}
CommandText(c) ==
  CASE c.id[1] = "task" -> <<"t", " ", "o">>
    [] c.id[1] = "gate" -> <<"x", "t", "x", "o", "x", "t", "x", "t", "o", "t">>
    [] OTHER -> <<"o", "t">>
CommandRank(c) == Len(c.id)

\* An untrusted configuration, one of two gates, one that names a gate twice and
\* a gate that is not allowed, and one that names only one gate.
GateText(trusted, gates) == [trusted |-> trusted, gates |-> gates]
GateFileTexts ==
  {GateText(FALSE, <<"a">>), GateText(TRUE, <<"a", "b">>),
   GateText(TRUE, <<"b", "x", "b">>), GateText(TRUE, <<"x", "a">>)}

AgentCatalog == <<"claude", "codex", "gemini">>
GitHubChecks == {<<"success", "pending">>}
RedactionMark == <<"*", "*">>
HostMarker == <<"n", "s">>
GitOrder == <<"f", "g">>

\* Two desktops without their windows, and one with its window.
DesktopSetups ==
  {[desktops |-> {"d1", "d2"}, viewer |-> None, files |-> 3],
   [desktops |-> {"d1"}, viewer |-> "d1", files |-> 2]}

NoteOwners == "s1" :> "t1" @@ "s1b" :> "t1" @@ "s2" :> "t2"
=============================================================================
