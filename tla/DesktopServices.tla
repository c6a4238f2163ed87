---------------------------- MODULE DesktopServices ----------------------------
(***************************************************************************)
(* The parts of the application that PtyHost_proof is about beside the     *)
(* host of agents: how the command of a Quality Gate is run, the catalogue *)
(* of the gates that a desktop has, and the MCP server, which answers an   *)
(* agent over its standard streams.                                        *)
(***************************************************************************)
EXTENDS DesktopParts

\* Those of the parts; each is described where its part declares it.
CONSTANTS
  GateDesktops, GateViewer, AllowedGates, GateTexts, MaxGateCalls,
  MaxGateFailures,
  Symbols, Newline, McpLimit, MaxChunk, MaxInput

-----------------------------------------------------------------------------
(* The parts.                                                              *)

GP == INSTANCE GateProcess WITH
  platform <- v1, root <- v2, child <- v3, host <- v4, inJob <- v5,
  report <- v6, runner <- v7, result <- v8

QC == INSTANCE QualityGateCatalogue WITH
  file <- v1, memory <- v2, job <- v3, config <- v4, calls <- v5,
  shown <- v6, loading <- v7, answered <- v8, spoiled <- v9,
  imported <- v10, made <- v11, failures <- v12,
  Desktops <- GateDesktops, Viewer <- GateViewer, Allowed <- AllowedGates,
  Texts <- GateTexts, MaxCalls <- MaxGateCalls, MaxFailures <- MaxGateFailures

MS == INSTANCE McpServer WITH
  sent <- v1, closed <- v2, chunk <- v3, buffer <- v4, discarding <- v5,
  frame <- v6, state <- v7, response <- v8, answers <- v9, loop <- v10,
  Limit <- McpLimit

\* Configuration files have lists of gates, and the window is that of a desktop.
ASSUME CatalogueWellFormed == QC!WellFormed

\* A newline is no part of a line, and a message has a limit.
ASSUME McpWellFormed == MS!WellFormed

-----------------------------------------------------------------------------
ServicesInit ==
  /\ part \in Parts
  /\ \/ part = "process" /\ GP!Init /\ Rest9
     \/ part = "catalogue" /\ QC!Init /\ Rest13
     \/ part = "mcp" /\ MS!Init /\ Rest11

ServicesNext ==
  \/ Moves("process") /\ GP!Next /\ Stays9
  \/ Moves("catalogue") /\ QC!Next /\ Stays13
  \/ Moves("mcp") /\ MS!Next /\ Stays11

ServicesSpec == ServicesInit /\ [][ServicesNext]_desktopVars

-----------------------------------------------------------------------------
(* What must hold of the part that runs.                                   *)

\* The runner of Quality Gates: a result that says the command has ended is
\* given only when it has, and something always ends the wait.  The catalogue of
\* gates: what a call answered as registered is in the file, gate ids are unique,
\* and an import that is answered has imported all that it may.
GatesAreSafe ==
  /\ part = "process" => GP!GateProcessSafe
  /\ part = "catalogue" => QC!CatalogueIsKept

\* stdio-loop.ts: the MCP server answers each line of its input once, in order, as if
\* it had been read by itself, however the input is cut into pieces.
McpAnswersAreTrue == part = "mcp" => MS!AnswersAreThoseOfTheLines
=============================================================================
