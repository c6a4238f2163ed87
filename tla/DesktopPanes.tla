---------------------------- MODULE DesktopPanes ----------------------------
(***************************************************************************)
(* The parts of the application that DesktopPanes_proof is about: the      *)
(* panes of a window, and the terminal of a pane, whose input goes to an   *)
(* agent's process.                                                        *)
(***************************************************************************)
EXTENDS DesktopParts

\* Those of the parts; each is described where its part declares it.
CONSTANTS
  LayoutTasks, MaxStarts, MaxTabs,
  TerminalSessions, StartingSessions, MaxAttempts, MaxActs, MaxRenders,
  MaxEnds

-----------------------------------------------------------------------------
(* The parts.                                                              *)

PL == INSTANCE PaneLayout WITH
  started <- v1, live <- v2, seen <- v3, layout <- v4,
  TaskOrder <- LayoutTasks

TE == INSTANCE Terminals WITH
  process <- v1, holder <- v2, log <- v3, wire <- v4, inbox <- v5,
  written <- v6, attempts <- v7, pane <- v8, ctl <- v9, acts <- v10,
  taken <- v11, renders <- v12, ends <- v13,
  Sessions <- TerminalSessions, Starting <- StartingSessions

\* The Tasks of a window are a list, and None is no Session of one.
ASSUME PanesWellFormed == PL!WellFormed

\* Attempts to attach a terminal are counted.
ASSUME TerminalsWellFormed == TE!WellFormed

-----------------------------------------------------------------------------
PanesInit ==
  /\ part \in Parts
  /\ \/ part = "layout" /\ PL!Init /\ Rest5
     \/ part = "terminals" /\ TE!Init /\ Rest14

PanesNext ==
  \/ Moves("layout") /\ PL!Next /\ Stays5
  \/ Moves("terminals") /\ TE!Next /\ Stays14

PanesSpec == PanesInit /\ [][PanesNext]_desktopVars

-----------------------------------------------------------------------------
(* What must hold of the part that runs.                                   *)

\* workspace-layout.ts: however Sessions start and end and windows come and go,
\* no pane shows a Session of a foreign Task; while pane ids are unique no
\* Session has two terminals, and the layout can be saved.
PanesSafe == part = "layout" => PL!PanesSafe

\* The terminal of a pane: input reaches the Session that was shown when it was
\* typed, in order and without holes, and no attachment is left behind.
TerminalsSafe == part = "terminals" => TE!TerminalsSafe
=============================================================================
