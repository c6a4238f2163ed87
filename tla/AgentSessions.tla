---------------------------- MODULE AgentSessions ----------------------------
(***************************************************************************)
(* Agent Sessions: the durable session store, the in-process coordinator   *)
(* that owns the running agent processes, the ConPTY handles, the agent    *)
(* processes themselves, and restart recovery.                             *)
(*                                                                         *)
(* hist               SQLite: agent_sessions and agent_session_events      *)
(* proc               the operating system's view of the agent process     *)
(* app .. stopSeen    memory of the desktop process, lost when it quits    *)
(* faulted            history variable: Sessions one of whose writes to    *)
(* the store failed (at most one failure each)                             *)
(*                                                                         *)
(* The JavaScript process interleaves at every await, so a handler is one  *)
(* action per stretch of code between two awaits that touch shared state.  *)
(* An append reads the stored history, computes the next event from that   *)
(* snapshot, and is refused by the store when the stored length has moved. *)
(* A stored history only grows, so a snapshot is a prefix of it and its    *)
(* length (seen, stopSeen) stands for it.                                  *)
(***************************************************************************)
EXTENDS SessionHistory, FiniteSets

CONSTANTS
  Sessions,    \* Agent Session ids
  Tasks,       \* Task ids
  TaskOf,      \* the Task each Session id is started for
  NoSession,   \* no Session
  Reported,    \* the statuses that reportStatus is called with
  Faulty,      \* bound: the Sessions whose writes to the store may fail (once)
  MaxHistory   \* bound: caller-driven events stop at this history length

ASSUME TaskOfType == TaskOf \in [Sessions -> Tasks]
ASSUME NoSessionFresh == NoSession \notin Sessions
ASSUME ReportedType == Reported \subseteq Reportable
ASSUME FaultyType == Faulty \subseteq Sessions
ASSUME MaxHistoryType == MaxHistory \in Nat

VARIABLES
  hist,      \* Session -> its stored history; << >> when there is no row
  proc,      \* Session -> "none", "live" or "dead"
  app,       \* the desktop process
  born,      \* Sessions inserted by this run of the desktop process
  resume,    \* the Session whose automatic resume startup recovery tries next
  start,     \* Session -> where its start call is
  handle,    \* Session -> state of the ConPTY handle this process holds
  owned,     \* Session -> is it in ownedRuntimes?
  tail,      \* Session -> operations queued on the runtime's promise chain
  buf,       \* Session -> runtime events buffered while the start call runs
  step,      \* Session -> what the operation at the head of tail is doing
  seen,      \* Session -> history length that operation read
  failure,   \* Session -> has its runtime recorded a persistence failure?
  stopper,   \* Session -> where the (single) stop call is
  stopSeen,  \* Session -> history length the stop call read
  faulted

queues == <<tail, buf, step, seen, failure>>
stops == <<stopper, stopSeen>>
recovery == <<app, born, resume>>
vars == <<hist, proc, app, born, resume, start, handle, owned,
          tail, buf, step, seen, failure, stopper, stopSeen, faulted>>

AppState == {"down", "restoring", "up", "failed"}
StartState == {"idle", "checked", "inserted", "opening", "writing",
               "terminating"}
HandleState == {"none", "running", "terminating", "terminationFailed",
                "exited"}
StopState == {"idle", "flushing", "requesting", "killing", "killFailed",
              "reading", "recording"}

Running == app \in {"restoring", "up"}
Siblings(s) == {t \in Sessions : TaskOf[t] = TaskOf[s]}

\* listActive restricted to the Task, and activeByTaskIdStatement.
WriterOf(s) == \E t \in Siblings(s) : Unsettled(hist[t])

TypeOK ==
  /\ hist \in [Sessions -> History]
  /\ proc \in [Sessions -> {"none", "live", "dead"}]
  /\ app \in AppState
  /\ born \subseteq Sessions
  /\ resume \in Sessions \cup {NoSession}
  /\ start \in [Sessions -> StartState]
  /\ handle \in [Sessions -> HandleState]
  /\ owned \in [Sessions -> BOOLEAN]
  /\ tail \in [Sessions -> Seq(Operations)]
  /\ buf \in [Sessions -> Seq(RuntimeEvents)]
  /\ step \in [Sessions -> {"ready", "reading", "cleaning"}]
  /\ seen \in [Sessions -> Nat]
  /\ failure \in [Sessions -> BOOLEAN]
  /\ stopper \in [Sessions -> StopState]
  /\ stopSeen \in [Sessions -> Nat]
  /\ faulted \subseteq Sessions

Init ==
  /\ hist = [s \in Sessions |-> NoHistory]
  /\ proc = [s \in Sessions |-> "none"]
  /\ app = "up"
  /\ born = {}
  /\ resume = NoSession
  /\ start = [s \in Sessions |-> "idle"]
  /\ handle = [s \in Sessions |-> "none"]
  /\ owned = [s \in Sessions |-> FALSE]
  /\ tail = [s \in Sessions |-> << >>]
  /\ buf = [s \in Sessions |-> << >>]
  /\ step = [s \in Sessions |-> "ready"]
  /\ seen = [s \in Sessions |-> 0]
  /\ failure = [s \in Sessions |-> FALSE]
  /\ stopper = [s \in Sessions |-> "idle"]
  /\ stopSeen = [s \in Sessions |-> 0]
  /\ faulted = {}

-----------------------------------------------------------------------------
(* Pieces of handlers.                                                     *)

Snapshot(s, n) == SubSeq(hist[s], 1, n)

\* Mutant: the event goes after whatever is stored by now.
StoredBehind(s, n, e) ==
  /\ hist' = [hist EXCEPT ![s] = Append(@, e)]
  /\ UNCHANGED faulted

\* append: compare-and-set on the history length that the caller read.
Stored(s, n, e) ==
  /\ Len(hist[s]) = n
  /\ hist' = [hist EXCEPT ![s] = Append(@, e)]
  /\ UNCHANGED faulted

NotStored(s, n) ==
  /\ \/ Len(hist[s]) # n /\ UNCHANGED faulted
     \/ s \in Faulty \ faulted /\ faulted' = faulted \cup {s}
  /\ UNCHANGED hist

Persist(s, n, e) == Stored(s, n, e) \/ NotStored(s, n)

\* ManagedConPtyHandle.terminate: a call joins a running attempt, retries a
\* failed one, and returns at once when the process has exited.
Terminated(state) ==
  IF state \in {"running", "terminationFailed"} THEN "terminating" ELSE state
TerminationOver(s) == handle[s] \in {"exited", "terminationFailed"}

\* The coordinator buffers runtime events until the initial input is written.
Buffering(s) == start[s] \in {"writing", "terminating"}
Emit(s, events) ==
  IF Buffering(s)
  THEN buf' = [buf EXCEPT ![s] = @ \o events] /\ UNCHANGED tail
  ELSE tail' = [tail EXCEPT ![s] = @ \o events] /\ UNCHANGED buf
Drain(s) ==
  /\ tail' = [tail EXCEPT ![s] = @ \o buf[s]]
  /\ buf' = [buf EXCEPT ![s] = << >>]

\* Bound on what callers and a faulty host may add to one history.
Room(s) == Len(hist[s]) + Len(tail[s]) + Len(buf[s]) < MaxHistory

-----------------------------------------------------------------------------
(* start                                                                   *)

\* The checks of startOnce before it inserts: an unused id, no writer for
\* the Task, and a settled predecessor in the same Task when there is one.
Admissible(s, previous) ==
  /\ start[s] = "idle"
  /\ ~Exists(hist[s])
  /\ ~WriterOf(s)
  /\ previous # NoSession =>
       previous \in Siblings(s) /\ Settled(hist[previous])

Admit(s, previous) ==
  /\ Admissible(s, previous)
  /\ start' = [start EXCEPT ![s] = "checked"]
  /\ UNCHANGED <<hist, proc, app, born, handle, owned, queues, stops, faulted>>

StartCall(s) ==
  /\ app = "up"
  /\ \E previous \in Sessions \cup {NoSession} : Admit(s, previous)
  /\ UNCHANGED resume

\* Mutant: the insert relies on the check that the start call made earlier.
InsertUnchecked(s) ==
  /\ start[s] = "checked"
  /\ ~Exists(hist[s])
  /\ hist' = [hist EXCEPT ![s] = <<FirstEvent>>]
  /\ born' = born \cup {s}
  /\ start' = [start EXCEPT ![s] = "inserted"]
  /\ UNCHANGED <<proc, app, resume, handle, owned, queues, stops,
                 faulted>>

\* The insert transaction repeats the writer check under BEGIN IMMEDIATE.
Insert(s) ==
  /\ start[s] = "checked"
  /\ ~Exists(hist[s])
  /\ ~WriterOf(s)
  /\ hist' = [hist EXCEPT ![s] = <<FirstEvent>>]
  /\ born' = born \cup {s}
  /\ start' = [start EXCEPT ![s] = "inserted"]
  /\ UNCHANGED <<proc, app, resume, handle, owned, queues, stops,
                 faulted>>

\* The transaction is refused: a writer, a phase that moved, a dependency.
InsertRefused(s) ==
  /\ start[s] = "checked"
  /\ start' = [start EXCEPT ![s] = "idle"]
  /\ UNCHANGED <<hist, proc, recovery, handle, owned, queues, stops, faulted>>

\* buildLaunchCommand and updateOwnership succeed.
CommandBuilt(s) ==
  /\ start[s] = "inserted"
  /\ start' = [start EXCEPT ![s] = "opening"]
  /\ UNCHANGED <<hist, proc, recovery, handle, owned, queues, stops, faulted>>

\* They fail, or runtime.open does before it spawned anything.
LaunchFails(s) ==
  /\ start[s] \in {"inserted", "opening"}
  /\ Persist(s, IF start[s] = "inserted" THEN 1 ELSE Len(hist[s]),
             Failure("START", TRUE, "FAILED"))
  /\ start' = [start EXCEPT ![s] = "idle"]
  /\ UNCHANGED <<proc, recovery, handle, owned, queues, stops>>

\* runtime.open spawns the process, emits "started", and the coordinator
\* takes ownership; without an initial input it drains the buffer at once.
Opened(s) ==
  /\ start[s] = "opening"
  /\ proc' = [proc EXCEPT ![s] = "live"]
  /\ handle' = [handle EXCEPT ![s] = "running"]
  /\ owned' = [owned EXCEPT ![s] = TRUE]
  /\ \/ /\ start' = [start EXCEPT ![s] = "writing"]
        /\ buf' = [buf EXCEPT ![s] = <<"started">>]
        /\ UNCHANGED tail
     \/ /\ start' = [start EXCEPT ![s] = "idle"]
        /\ tail' = [tail EXCEPT ![s] = <<"started">>]
        /\ UNCHANGED buf
  /\ UNCHANGED <<hist, recovery, step, seen, failure, stops, faulted>>

InitialInputWritten(s) ==
  /\ start[s] = "writing"
  /\ start' = [start EXCEPT ![s] = "idle"]
  /\ Drain(s)
  /\ UNCHANGED <<hist, proc, recovery, handle, owned, step, seen, failure,
                 stops, faulted>>

\* Mutant: a failed initial input is recorded as a failed launch.
InitialInputFailsAsStart(s) ==
  /\ start[s] = "writing"
  /\ Persist(s, 1, Failure("START", TRUE, "FAILED"))
  /\ start' = [start EXCEPT ![s] = "terminating"]
  /\ handle' = [handle EXCEPT ![s] = Terminated(@)]
  /\ UNCHANGED <<proc, recovery, owned, tail, buf, step, seen, failure,
                 stops>>

\* The durable WRITE failure is computed from the Session as it was inserted.
InitialInputFails(s) ==
  /\ start[s] = "writing"
  /\ Persist(s, 1, Failure("WRITE", TRUE, "FAILED"))
  /\ start' = [start EXCEPT ![s] = "terminating"]
  /\ handle' = [handle EXCEPT ![s] = Terminated(@)]
  /\ \/ UNCHANGED buf
     \/ /\ handle[s] = "running"
        /\ buf' = [buf EXCEPT ![s] = Append(@, "failWrite")]
  /\ UNCHANGED <<proc, recovery, owned, tail, step, seen, failure,
                 stops>>

FailedStartReturns(s) ==
  /\ start[s] = "terminating"
  /\ TerminationOver(s)
  /\ start' = [start EXCEPT ![s] = "idle"]
  /\ Drain(s)
  /\ UNCHANGED <<hist, proc, recovery, handle, owned, step, seen, failure,
                 stops, faulted>>

-----------------------------------------------------------------------------
(* The promise chain of one runtime: its operations run one at a time.     *)

Busy(s) == tail[s] # << >>
Operation(s) == Head(tail[s])
Done(s) ==
  /\ tail' = [tail EXCEPT ![s] = Tail(@)]
  /\ step' = [step EXCEPT ![s] = "ready"]
  /\ seen' = [seen EXCEPT ![s] = 0]

\* applyRuntimeEvent leaves the history alone for a late "started", and for
\* any event of a Session that is EXITED.
Ignored(s) ==
  \/ Operation(s) = "started" /\ Status(hist[s]) # "STARTING"
  \/ Operation(s) \in RuntimeEvents \ {"started"} /\ Status(hist[s]) = "EXITED"

EventIgnored(s) ==
  /\ Running /\ Busy(s) /\ step[s] = "ready"
  /\ Ignored(s)
  /\ Done(s)
  /\ UNCHANGED <<hist, proc, recovery, start, handle, owned, buf,
                 failure, stops, faulted>>

\* The caller of a queued operation that throws; only stop waits for it.
CallerFails(s) ==
  IF Operation(s) = StopRequest
  THEN stopper' = [stopper EXCEPT ![s] = "idle"] /\ UNCHANGED stopSeen
  ELSE UNCHANGED stops

\* runSerialized refuses to run after a recorded failure.
RequestRefused(s) ==
  /\ Running /\ Busy(s) /\ step[s] = "ready"
  /\ Operation(s) \in Requests
  /\ failure[s]
  /\ CallerFails(s)
  /\ Done(s)
  /\ UNCHANGED <<hist, proc, recovery, start, handle, owned, buf,
                 failure, faulted>>

OperationReads(s) ==
  /\ Running /\ Busy(s) /\ step[s] = "ready"
  /\ ~Ignored(s)
  /\ ~(Operation(s) \in Requests /\ failure[s])
  /\ seen' = [seen EXCEPT ![s] = Len(hist[s])]
  /\ step' = [step EXCEPT ![s] = "reading"]
  /\ UNCHANGED <<hist, proc, recovery, start, handle, owned, tail, buf,
                 failure, stops, faulted>>

\* What follows a successful append: an exit gives up ownership, a stop
\* request goes on to terminate the process.
AfterAppend(s) ==
  \/ /\ Operation(s) = "exited"
     /\ owned' = [owned EXCEPT ![s] = FALSE]
     /\ UNCHANGED <<handle, stops>>
  \/ /\ Operation(s) = StopRequest
     /\ stopper' = [stopper EXCEPT ![s] = "killing"]
     /\ handle' = [handle EXCEPT ![s] = Terminated(@)]
     /\ UNCHANGED <<owned, stopSeen>>
  \/ /\ Operation(s) \notin {"exited", StopRequest}
     /\ UNCHANGED <<handle, owned, stops>>

OperationAppends(s) ==
  LET before == Snapshot(s, seen[s])
      event == EventFor(before, Operation(s))
  IN /\ Running /\ step[s] = "reading"
     /\ \/ /\ AlreadyRecorded(before, Operation(s))
           /\ Status(before) \in LiveStatus
           /\ UNCHANGED <<hist, faulted>>
        \/ /\ Recordable(before, event)
           /\ Stored(s, seen[s], event)
     /\ AfterAppend(s)
     /\ Done(s)
     /\ UNCHANGED <<proc, recovery, start, buf, failure>>

\* The domain refuses the event or the store does not take it: a request's
\* caller gets the error; a runtime event marks the runtime as failed and
\* terminates the process, and the chain waits for that.
OperationFails(s) ==
  LET before == Snapshot(s, seen[s])
      event == EventFor(before, Operation(s))
  IN /\ Running /\ step[s] = "reading"
     /\ \/ /\ ~Recordable(before, event)
           /\ ~(AlreadyRecorded(before, Operation(s))
                /\ Status(before) \in LiveStatus)
           /\ UNCHANGED <<hist, faulted>>
        \/ /\ Recordable(before, event)
           /\ NotStored(s, seen[s])
     /\ \/ /\ Operation(s) \in Requests
           /\ CallerFails(s)
           /\ Done(s)
           /\ UNCHANGED <<handle, failure>>
        \/ /\ Operation(s) \in RuntimeEvents
           /\ failure' = [failure EXCEPT ![s] = TRUE]
           /\ handle' = [handle EXCEPT ![s] = Terminated(@)]
           /\ step' = [step EXCEPT ![s] = "cleaning"]
           /\ UNCHANGED <<tail, seen, stops>>
     /\ UNCHANGED <<proc, recovery, start, owned, buf>>

FailureCleaned(s) ==
  /\ Running /\ step[s] = "cleaning"
  /\ TerminationOver(s)
  /\ Done(s)
  /\ UNCHANGED <<hist, proc, recovery, start, handle, owned, buf,
                 failure, stops, faulted>>

\* reportStatus, for a Session whose start call has returned.
Report(s) ==
  /\ app = "up" /\ owned[s] /\ start[s] = "idle"
  /\ Room(s)
  /\ \E status \in Reported : tail' = [tail EXCEPT ![s] = Append(@, status)]
  /\ UNCHANGED <<hist, proc, recovery, start, handle, owned, buf, step, seen,
                 failure, stops, faulted>>

-----------------------------------------------------------------------------
(* stop                                                                    *)

\* A Session without a runtime has nothing to stop: the call only reads.
StopCall(s) ==
  /\ app = "up" /\ owned[s]
  /\ stopper[s] = "idle"
  /\ stopper' = [stopper EXCEPT ![s] = "flushing"]
  /\ UNCHANGED <<hist, proc, recovery, start, handle, owned, queues,
                 stopSeen, faulted>>

Flushed(s) == tail[s] = << >> \/ ~owned[s]

StopFlushed(s) ==
  /\ stopper[s] = "flushing"
  /\ Flushed(s)
  /\ LET refused == owned[s] /\ failure[s]
         status == Status(hist[s])
     IN \/ /\ refused \/ status = "EXITED"
           /\ stopper' = [stopper EXCEPT ![s] = "idle"]
           /\ UNCHANGED <<tail, handle>>
        \/ /\ ~refused /\ status = "FAILED"
           /\ stopper' = [stopper EXCEPT ![s] = "killing"]
           /\ handle' = [handle EXCEPT ![s] = Terminated(@)]
           /\ UNCHANGED tail
        \/ /\ ~refused /\ status \in LiveStatus
           /\ stopper' = [stopper EXCEPT ![s] = "requesting"]
           /\ tail' = [tail EXCEPT ![s] = Append(@, StopRequest)]
           /\ UNCHANGED handle
  /\ UNCHANGED <<hist, proc, recovery, start, owned, buf, step, seen, failure,
                 stopSeen, faulted>>

StopReturns(s) ==
  /\ stopper[s] = "killing"
  /\ handle[s] = "exited"
  /\ Flushed(s)
  /\ stopper' = [stopper EXCEPT ![s] = "idle"]
  /\ UNCHANGED <<hist, proc, recovery, start, handle, owned, queues,
                 stopSeen, faulted>>

\* The failure event is the last operation on the chain when terminate() is
\* rejected; while the coordinator still buffers it, the chain is empty.
ChainAwaited(s) ==
  \/ stopper[s] = "reading"
  \/ /\ stopper[s] = "killFailed"
     /\ \A i \in DOMAIN tail[s] : tail[s][i] # "failTerminate"

\* Mutant: the stop call does not look for an exit recorded meanwhile.
StopReadsUnchecked(s) ==
  /\ ChainAwaited(s)
  /\ stopper' = [stopper EXCEPT ![s] = "recording"]
  /\ stopSeen' = [stopSeen EXCEPT ![s] = Len(hist[s])]
  /\ UNCHANGED <<hist, proc, recovery, start, handle, owned, queues, faulted>>

\* terminate() was rejected: stop waits for the operations queued so far,
\* then reads the history outside the chain.
StopReads(s) ==
  /\ ChainAwaited(s)
  /\ IF \/ failure[s]
        \/ Status(hist[s]) = "EXITED"
        \/ hist[s][Len(hist[s])].stage = "TERMINATE"
     THEN /\ stopper' = [stopper EXCEPT ![s] = "idle"]
          /\ UNCHANGED stopSeen
     ELSE /\ stopper' = [stopper EXCEPT ![s] = "recording"]
          /\ stopSeen' = [stopSeen EXCEPT ![s] = Len(hist[s])]
  /\ UNCHANGED <<hist, proc, recovery, start, handle, owned, queues, faulted>>

StopRecords(s) ==
  /\ stopper[s] = "recording"
  /\ Persist(s, stopSeen[s],
             FailureAfter(Snapshot(s, stopSeen[s]), "TERMINATE", FALSE))
  /\ stopper' = [stopper EXCEPT ![s] = "idle"]
  /\ stopSeen' = [stopSeen EXCEPT ![s] = 0]
  /\ UNCHANGED <<proc, recovery, start, handle, owned, queues>>

-----------------------------------------------------------------------------
(* The ConPTY handle and the agent process.                                *)

\* A terminal write or resize that the host rejects.
TerminalOperationFails(s) ==
  /\ app = "up" /\ handle[s] = "running"
  /\ Room(s)
  /\ Emit(s, <<"failWrite">>)
  /\ UNCHANGED <<hist, proc, recovery, start, handle, owned, step, seen,
                 failure, stops, faulted>>

\* Mutant: the callers that wait for the termination are not told.
KillFailsSilently(s) ==
  /\ Running /\ handle[s] = "terminating"
  /\ Room(s)
  /\ handle' = [handle EXCEPT ![s] = "terminationFailed"]
  /\ Emit(s, <<"failTerminate">>)
  /\ UNCHANGED <<hist, proc, recovery, start, owned, step, seen, failure,
                 stops, faulted>>

\* The host rejects or loses the terminate request.
KillFails(s) ==
  /\ Running /\ handle[s] = "terminating"
  /\ Room(s)
  /\ handle' = [handle EXCEPT ![s] = "terminationFailed"]
  /\ Emit(s, <<"failTerminate">>)
  /\ stopper' = [stopper EXCEPT ![s] =
                   IF @ # "killing" THEN @
                   ELSE IF Buffering(s) THEN "reading" ELSE "killFailed"]
  /\ UNCHANGED <<hist, proc, recovery, start, owned, step, seen, failure,
                 stopSeen, faulted>>

\* The agent process ends: by itself, killed, or because its host, which
\* lost the desktop process, took it down.
ProcessDies(s) ==
  /\ proc[s] = "live"
  /\ proc' = [proc EXCEPT ![s] = "dead"]
  /\ UNCHANGED <<hist, recovery, start, handle, owned, queues, stops, faulted>>

\* finalizeExit: the host has closed; "exited" is the last event there is.
\* Only an exit that nobody asked for can be a failure of the runtime.
ExitEvents(s) ==
  {failed \o cleanup \o <<"exited">> :
     failed \in {<< >>} \cup (IF handle[s] = "running"
                             THEN {<<"failRuntime">>, <<"failSpawn">>} ELSE {}),
     cleanup \in {<< >>, <<"failCleanup">>}}

ExitDelivered(s) ==
  /\ Running /\ proc[s] = "dead"
  /\ handle[s] \in {"running", "terminating", "terminationFailed"}
  /\ \E events \in ExitEvents(s) : Emit(s, events)
  /\ handle' = [handle EXCEPT ![s] = "exited"]
  /\ UNCHANGED <<hist, proc, recovery, start, owned, step, seen, failure,
                 stops, faulted>>

-----------------------------------------------------------------------------
(* The desktop process quits or crashes, and starts again.                 *)

\* Quitting closes the store without stopping any Session (main.ts), so it
\* leaves exactly what a crash leaves.
Quit ==
  /\ app # "down"
  /\ app' = "down"
  /\ born' = {}
  /\ resume' = NoSession
  /\ start' = [s \in Sessions |-> "idle"]
  /\ handle' = [s \in Sessions |-> "none"]
  /\ owned' = [s \in Sessions |-> FALSE]
  /\ tail' = [s \in Sessions |-> << >>]
  /\ buf' = [s \in Sessions |-> << >>]
  /\ step' = [s \in Sessions |-> "ready"]
  /\ seen' = [s \in Sessions |-> 0]
  /\ failure' = [s \in Sessions |-> FALSE]
  /\ stopper' = [s \in Sessions |-> "idle"]
  /\ stopSeen' = [s \in Sessions |-> 0]
  /\ UNCHANGED <<hist, proc, faulted>>

Launch ==
  /\ app = "down"
  /\ app' = "restoring"
  /\ UNCHANGED <<hist, proc, born, resume, start, handle, owned, queues,
                 stops, faulted>>

\* restoreAgentSessionsAfterRestart awaits one Session after the other.
RecoveryIdle ==
  /\ app = "restoring"
  /\ resume = NoSession
  /\ \A s \in Sessions : start[s] = "idle"
Lost(s) == s \notin born /\ Unsettled(hist[s])

RestoreSession(s) ==
  /\ RecoveryIdle
  /\ Lost(s)
  /\ Stored(s, Len(hist[s]), Failure("LOST", TRUE, "FAILED"))
  /\ resume' = s
  /\ UNCHANGED <<proc, app, born, start, handle, owned, queues, stops>>

\* The append fails and the Session is still unsettled: startup is abandoned
\* and the store closed, while the process and its windows stay.
RestoreFails(s) ==
  /\ RecoveryIdle
  /\ Lost(s)
  /\ NotStored(s, Len(hist[s]))
  /\ app' = "failed"
  /\ UNCHANGED <<proc, born, resume, start, handle, owned, queues,
                 stops>>

\* resumeAttempt: a new Session that resumes the one just settled ...
AutoResume(s) ==
  /\ app = "restoring" /\ resume # NoSession
  /\ Admit(s, resume)
  /\ resume' = NoSession
\* ... unless the Task, its Worktree or the agent does not allow it.
ResumeRefused ==
  /\ app = "restoring" /\ resume # NoSession
  /\ resume' = NoSession
  /\ UNCHANGED <<hist, proc, app, born, start, handle, owned, queues, stops,
                 faulted>>

\* Mutant: recovery handles one Session and opens the application.
RestoreDoneEarly ==
  /\ RecoveryIdle
  /\ app' = "up"
  /\ UNCHANGED <<hist, proc, born, resume, start, handle, owned, queues,
                 stops, faulted>>

RestoreDone ==
  /\ RecoveryIdle
  /\ \A s \in Sessions : ~Lost(s)
  /\ app' = "up"
  /\ UNCHANGED <<hist, proc, born, resume, start, handle, owned, queues,
                 stops, faulted>>

-----------------------------------------------------------------------------
(* Specification.                                                          *)

StartStep(s) ==
  \/ Insert(s) \/ InsertRefused(s)
  \/ CommandBuilt(s) \/ LaunchFails(s) \/ Opened(s)
  \/ InitialInputWritten(s) \/ InitialInputFails(s) \/ FailedStartReturns(s)

ChainStep(s) ==
  \/ EventIgnored(s) \/ RequestRefused(s)
  \/ OperationReads(s) \/ OperationAppends(s) \/ OperationFails(s)
  \/ FailureCleaned(s)

StopStep(s) ==
  \/ StopFlushed(s) \/ StopReturns(s) \/ StopReads(s) \/ StopRecords(s)

SessionStep(s) ==
  \/ StartCall(s) \/ StartStep(s)
  \/ Report(s) \/ ChainStep(s)
  \/ StopCall(s) \/ StopStep(s)
  \/ TerminalOperationFails(s) \/ KillFails(s)
  \/ ProcessDies(s) \/ ExitDelivered(s)
  \/ RestoreSession(s) \/ RestoreFails(s) \/ AutoResume(s)

Next ==
  \/ \E s \in Sessions : SessionStep(s)
  \/ Quit \/ Launch \/ ResumeRefused \/ RestoreDone

Spec == Init /\ [][Next]_vars

\* The event loop runs what is ready, host requests are answered or time
\* out, and a process ends once it is killed or has lost its host.  Nobody
\* has to call start or stop, to report a status or to launch the desktop
\* again, and an agent need not end by itself.
MustDie(s) == handle[s] \in {"none", "terminating"}
Fairness ==
  \A s \in Sessions :
    /\ WF_vars(StartStep(s))
    /\ WF_vars(ChainStep(s))
    /\ WF_vars(StopStep(s))
    /\ WF_vars(MustDie(s) /\ ProcessDies(s))
    /\ WF_vars(ExitDelivered(s))

\* Status reports do not keep coming: a stop call waits for each of them.
ReportsEnd == <>[][\A s \in Sessions : ~Report(s)]_vars

FairSpec == Spec /\ Fairness /\ ReportsEnd

-----------------------------------------------------------------------------
(* Properties.                                                             *)

\* The store never holds two Sessions of one Task that may still have a
\* code-writing process (the writer check of the insert transaction).
OneWriter ==
  \A s, t \in Sessions :
    TaskOf[s] = TaskOf[t] /\ Unsettled(hist[s]) /\ Unsettled(hist[t]) => s = t

\* Settled history is evidence: its process does not run, unless the desktop
\* process that launched it is gone and its host is about to take it down.
SettledMeansStopped ==
  \A s \in Sessions :
    Settled(hist[s]) /\ proc[s] = "live" => handle[s] = "none"

\* No Task has two agent processes that this desktop process launched.
OneOwnedProcess ==
  \A s, t \in Sessions :
    /\ TaskOf[s] = TaskOf[t]
    /\ proc[s] = "live" /\ handle[s] # "none"
    /\ proc[t] = "live" /\ handle[t] # "none"
    => s = t

\* Every unsettled Session can be stopped: once the desktop is up and no
\* start call is under way, the coordinator owns its runtime, unless a write
\* to the store failed for that Session.
WriterIsOwned ==
  \A s \in Sessions :
    /\ app = "up" /\ Unsettled(hist[s]) /\ start[s] = "idle"
    => owned[s] \/ s \in faulted

\* Every stored history can be read back: mapAgentSessionRows replays it.
HistoriesReplay ==
  \A s \in Sessions : Exists(hist[s]) => Replays(hist[s])

\* The evidence is final: no later event makes a settled Session unsettled.
SettlementIsFinal ==
  [][\A s \in Sessions : Settled(hist[s]) => Settled(hist'[s])]_hist

\* The Sessions that may still write behave as the holders of a lease: this
\* module implements TaskWriterLease.
Lease == INSTANCE TaskWriterLease WITH
  holders <- {s \in Sessions : Unsettled(hist[s])},
  spent <- {s \in Sessions : Settled(hist[s])}
LeaseSpec == Lease!Spec

-----------------------------------------------------------------------------
(* The inductive strengthening of OneWriter and HistoriesReplay.           *)

\* Nothing in this process works on behalf of the Session.
Quiet(s) ==
  /\ tail[s] = << >> /\ buf[s] = << >> /\ step[s] = "ready"
  /\ handle[s] = "none" /\ ~owned[s] /\ stopper[s] = "idle"

\* Only a stored Session has a runtime, queued operations or a stop call.
WorkIsBacked ==
  \A s \in Sessions :
    ~Exists(hist[s]) => Quiet(s) /\ start[s] \in {"idle", "checked"}

\* Until its process is opened, an inserted Session is left alone, which is
\* why its launch failure can always be recorded.
LaunchIsAlone ==
  \A s \in Sessions :
    start[s] \in {"inserted", "opening"} =>
      hist[s] = <<FirstEvent>> /\ Quiet(s)

\* An operation that has started stays at the head of its chain, and a stop
\* call that will record its failure did not read an EXITED Session.
CallsRemember ==
  \A s \in Sessions :
    /\ step[s] # "ready" => tail[s] # << >>
    /\ stopper[s] = "recording" =>
         /\ stopSeen[s] <= Len(hist[s])
         /\ stopSeen[s] = Len(hist[s]) => Status(hist[s]) # "EXITED"

IInv ==
  /\ TypeOK
  /\ WorkIsBacked
  /\ LaunchIsAlone
  /\ CallsRemember
  /\ HistoriesReplay
  /\ OneWriter

-----------------------------------------------------------------------------
(* The strengthening of SettledMeansStopped, OneOwnedProcess,              *)
(* WriterIsOwned.                                                          *)

\* The history tells why the process cannot write any more.
Evident(h) ==
  HasKind(h, "PROCESS_EXITED") \/ \E i \in DOMAIN h : SettlingFailure(h[i])
EvidenceSettles ==
  \A s \in Sessions : Exists(hist[s]) /\ Evident(hist[s]) => Settled(hist[s])

\* Until its handle is opened a Session has no process.
NotYetSpawned ==
  \A s \in Sessions :
    ~Exists(hist[s]) \/ start[s] \in {"inserted", "opening"} =>
      proc[s] = "none"

\* The runtime events that settle a Session come after its process has died,
\* wherever they wait.
Ends(queue) ==
  \E i \in DOMAIN queue : queue[i] \in {"exited", "failSpawn"}
ExitsAreReal ==
  \A s \in Sessions :
    /\ handle[s] = "exited" => proc[s] = "dead"
    /\ Ends(tail[s]) \/ Ends(buf[s]) => handle[s] = "exited"

\* This run of the desktop process inserted every Session that it runs, and
\* once it is up, every Session that is unsettled.
RuntimesAreBorn ==
  \A s \in Sessions :
    \/ handle[s] # "none"
    \/ start[s] \in {"inserted", "opening"}
    \/ app = "up" /\ Unsettled(hist[s])
    => s \in born

\* A launched Session is owned until its end is stored.
LaunchedIsOwned ==
  \A s \in born :
    Unsettled(hist[s]) /\ start[s] \notin {"inserted", "opening"} =>
      owned[s] \/ s \in faulted

SInv ==
  /\ EvidenceSettles
  /\ NotYetSpawned
  /\ ExitsAreReal
  /\ RuntimesAreBorn
  /\ LaunchedIsOwned
  /\ SettledMeansStopped

-----------------------------------------------------------------------------
(* Liveness.                                                               *)

\* A stop call always comes back, with the Session or with an error.
StopComesBack ==
  \A s \in Sessions : stopper[s] # "idle" ~> stopper[s] = "idle"

\* The exit of an owned process reaches the store, unless the desktop process
\* ends first or the runtime has recorded a persistence failure.
ExitIsRecorded ==
  \A s \in Sessions :
    app = "up" /\ owned[s] /\ proc[s] = "dead" ~>
      Settled(hist[s]) \/ ~Running \/ failure[s]

\* Whoever waits for the end of an agent, a caller or the store, is told.
EndsAreTold == StopComesBack /\ ExitIsRecorded
=============================================================================
