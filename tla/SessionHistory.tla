--------------------------- MODULE SessionHistory ---------------------------
(***************************************************************************)
(* The append-only event history of one Agent Session, as the domain       *)
(* records it (packages/domain/src/agent-session.ts) and as the            *)
(* application reads it to decide whether the Session still owns a process *)
(* that may write code (agent-session-writer-state.ts).                    *)
(*                                                                         *)
(* An event keeps the fields that the guards read: its kind, the status    *)
(* it leaves the Session in, and for a failure its stage and whether it is *)
(* fatal.  The failure code matters only when it is RUNTIME_OWNERSHIP_LOST,*)
(* which restart recovery alone writes: it is the stage "LOST" here (the   *)
(* code writes stage RUNTIME with that code).                              *)
(***************************************************************************)
EXTENDS Naturals, Sequences

Reportable == {"WORKING", "IDLE", "WAITING_INPUT"}
LiveStatus == {"STARTING"} \cup Reportable
SessionStatus == LiveStatus \cup {"EXITED", "FAILED"}

FailureStage ==
  {"START", "RUNTIME", "LOST", "CLEANUP", "WRITE", "TERMINATE"}

SessionEvent ==
  [kind : {"START_REQUESTED", "STATUS_REPORTED", "STOP_REQUESTED",
           "RUNTIME_FAILED", "PROCESS_EXITED"},
   status : SessionStatus,
   stage : FailureStage \cup {"NONE"},
   fatal : BOOLEAN]

History == Seq(SessionEvent)

NoHistory == << >>
Plain(kind, status) ==
  [kind |-> kind, status |-> status, stage |-> "NONE", fatal |-> FALSE]
Failure(stage, fatal, status) ==
  [kind |-> "RUNTIME_FAILED", status |-> status,
   stage |-> stage, fatal |-> fatal]

\* createAgentSession: the one event every history starts with.
FirstEvent == Plain("START_REQUESTED", "STARTING")

\* The status of a Session is the status its last event left it in.
Status(h) == h[Len(h)].status

Exists(h) == h # NoHistory

HasKind(h, kind) == \E i \in DOMAIN h : h[i].kind = kind

\* allowedStatusTransitions
AllowedFrom(status) ==
  {next \in SessionStatus :
     \/ status \in LiveStatus /\ next \in {"EXITED", "FAILED"}
     \/ status \in LiveStatus \ {"WORKING"} /\ next = "WORKING"
     \/ status \in {"WORKING", "WAITING_INPUT"} /\ next = "IDLE"
     \/ status \in {"WORKING", "IDLE"} /\ next = "WAITING_INPUT"}

-----------------------------------------------------------------------------
(* What a caller asks the domain to record.                                *)

StopRequest == "stop"
Requests == {StopRequest} \cup Reportable
RuntimeFailures ==
  {"failSpawn", "failRuntime", "failCleanup", "failWrite", "failTerminate"}
RuntimeEvents == {"started", "exited"} \cup RuntimeFailures
Operations == Requests \cup RuntimeEvents

\* mapFailureStage
StageOf ==
  [failSpawn |-> "START", failRuntime |-> "RUNTIME",
   failCleanup |-> "CLEANUP", failWrite |-> "WRITE",
   failTerminate |-> "TERMINATE"]

FatalOps == {"failSpawn", "failRuntime", "failCleanup"}

FailureAfter(h, stage, fatal) ==
  Failure(stage, fatal, IF fatal THEN "FAILED" ELSE Status(h))

\* The event an operation becomes when it is recorded after history h.
EventFor(h, op) ==
  IF op \in RuntimeFailures
  THEN FailureAfter(h, StageOf[op], op \in FatalOps)
  ELSE IF op = "exited"
  THEN Plain("PROCESS_EXITED",
             IF Status(h) = "FAILED" THEN "FAILED" ELSE "EXITED")
  ELSE IF op = StopRequest
  THEN Plain("STOP_REQUESTED", Status(h))
  ELSE Plain("STATUS_REPORTED", IF op = "started" THEN "WORKING" ELSE op)

\* recordAgentSessionEvent: may event e be recorded after history h?
Recordable(h, e) ==
  \/ /\ e.kind = "STOP_REQUESTED"
     /\ Status(h) \in LiveStatus
     /\ ~HasKind(h, "STOP_REQUESTED")
     /\ e.status = Status(h)
  \/ /\ e.kind = "STATUS_REPORTED"
     /\ e.status \in Reportable
     /\ e.status \in AllowedFrom(Status(h))
  \/ /\ e.kind = "RUNTIME_FAILED"
     /\ Status(h) # "EXITED"
     /\ e.status = IF e.fatal THEN "FAILED" ELSE Status(h)
  \/ /\ e.kind = "PROCESS_EXITED"
     /\ \/ Status(h) = "FAILED" /\ e.status = "FAILED"
        \/ e.status = "EXITED" /\ "EXITED" \in AllowedFrom(Status(h))

\* Recording a second stop request returns the Session unchanged.
AlreadyRecorded(h, op) ==
  op = StopRequest /\ HasKind(h, "STOP_REQUESTED")

-----------------------------------------------------------------------------
(* Evidence that no process of the Session can still write.                *)

\* Mutant: any fatal failure counts as evidence.
SettlingFailureAnyStage(e) ==
  /\ e.kind = "RUNTIME_FAILED"
  /\ e.fatal

SettlingFailure(e) ==
  /\ e.kind = "RUNTIME_FAILED"
  /\ e.fatal
  /\ e.stage \in {"START", "LOST"}

SettledFailure(h) ==
  /\ Status(h) = "FAILED"
  /\ \/ HasKind(h, "PROCESS_EXITED")
     \/ \E i \in DOMAIN h : SettlingFailure(h[i])

\* hasUnsettledTaskCodeWriter and its SQL twin unsettledAgentSessionWriterSql.
Unsettled(h) ==
  /\ Exists(h)
  /\ Status(h) # "EXITED"
  /\ ~SettledFailure(h)

Settled(h) == Exists(h) /\ ~Unsettled(h)

\* mapAgentSessionRows replays every stored event through the domain, and
\* refuses the row when one of them could not have been recorded.
Replays(h) ==
  /\ h[1] = FirstEvent
  /\ \A i \in 2..Len(h) : Recordable(SubSeq(h, 1, i - 1), h[i])
=============================================================================
