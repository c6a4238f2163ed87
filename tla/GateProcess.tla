----------------------------- MODULE GateProcess -----------------------------
(***************************************************************************)
(* How the runner starts one Quality Gate command, waits for it or for its *)
(* time to be over, and tells what came of it.                             *)
(*                                                                         *)
(* On Windows a PowerShell host starts the command suspended, puts it in a *)
(* Job and waits until the Job is empty; elsewhere Node starts the command *)
(* itself and can only kill that one process.  The command is a process,   *)
(* "root", and one that it may start, "child", which keeps the output pipes*)
(* open unless it is "quiet".  QualityGates is about what is made of the   *)
(* result; GateOutput is about the output that goes with it.               *)
(***************************************************************************)
EXTENDS Naturals, FiniteSets

CONSTANT None

VARIABLES
  platform,   \* "win32" or "posix"
  root,       \* "none", "suspended", "running" or "ended"
  child,      \* "none", "running", "quiet" or "ended"
  host,       \* where the Windows host is
  inJob,      \* the root was put in the Job
  report,     \* what the host has to write, or None
  runner,     \* what the runner waits for
  result      \* what run answered, or None

command == <<root, child>>
hostVars == <<host, inJob, report>>
gateVars == <<platform, command, hostVars, runner, result>>

\* The result is always a record of the same shape.
Answer(kind, reason, failed) == [kind |-> kind, reason |-> reason, failed |-> failed]
Report(kind, failed) == [kind |-> kind, failed |-> failed]

Idle == [stage |-> "idle", timeout |-> FALSE, deadline |-> FALSE,
         timedOut |-> FALSE, broken |-> FALSE]

Init ==
  /\ platform \in {"win32", "posix"}
  /\ root = "none" /\ child = "none"
  /\ host = "none" /\ inJob = FALSE /\ report = None
  /\ runner = Idle /\ result = None

Alive == {p \in {"root", "child"} :
            IF p = "root" THEN root \in {"suspended", "running"}
            ELSE child \in {"running", "quiet"}}

\* What holds the output pipes open.
PipesOpen == root \in {"suspended", "running"} \/ child = "running"

\* finish: the first result is the result, and its timers are put away.
Finishes(answer) ==
  /\ result' = IF result = None THEN answer ELSE result
  /\ runner' = [runner EXCEPT !.stage = "settled", !.timeout = FALSE, !.deadline = FALSE]

-----------------------------------------------------------------------------
(* The command.                                                            *)

RootForks ==
  /\ root = "running" /\ child = "none"
  /\ child' \in {"running", "quiet"}
  /\ UNCHANGED <<platform, root, hostVars, runner, result>>

RootEnds ==
  /\ root = "running" \/ (root = "suspended" /\ inJob /\ host = "failed")
  /\ root' = "ended"
  /\ UNCHANGED <<platform, child, hostVars, runner, result>>

ChildEnds ==
  /\ child \in {"running", "quiet"} /\ child' = "ended"
  /\ UNCHANGED <<platform, root, hostVars, runner, result>>

\* What a kill of some of the processes leaves; it may do nothing.
Killed(processes) ==
  /\ root' \in {root} \union IF "root" \in processes \cap Alive THEN {"ended"} ELSE {}
  /\ child' \in {child} \union IF "child" \in processes \cap Alive THEN {"ended"} ELSE {}

Gone(processes) ==
  /\ "root" \in processes /\ "root" \in Alive => root' = "ended"
  /\ "child" \in processes /\ "child" \in Alive => child' = "ended"

-----------------------------------------------------------------------------
(* The runner outside Windows.                                             *)

\* validateRequest refuses: no executable, no directory, a wrong request.
Refuses ==
  /\ runner.stage = "idle"
  /\ Finishes(Answer("launch-error", "INVALID_REQUEST", FALSE))
  /\ UNCHANGED <<platform, command, hostVars>>

\* spawn throws, or the child's error comes before its spawn.
SpawnFails ==
  /\ platform = "posix" /\ runner.stage = "idle"
  /\ Finishes(Answer("launch-error", "SPAWN_FAILED", FALSE))
  /\ UNCHANGED <<platform, command, hostVars>>

Spawned ==
  /\ platform = "posix" /\ runner.stage = "idle"
  /\ root' = "running"
  /\ runner' = [runner EXCEPT !.stage = "waits", !.timeout = TRUE]
  /\ UNCHANGED <<platform, child, hostVars, result>>

\* A stream fails, or the child reports an error after its spawn.
Breaks ==
  /\ platform = "posix" /\ runner.stage = "waits"
  /\ runner' = [runner EXCEPT !.broken = TRUE]
  /\ UNCHANGED <<platform, command, hostVars, result>>

\* The time is over: the deadline is set and the process killed, which proves
\* nothing about the rest of its tree.
TimesOut ==
  /\ runner.timeout
  /\ runner' = [runner EXCEPT !.timeout = FALSE, !.deadline = TRUE, !.timedOut = TRUE]
  /\ root' \in {root, "ended"}
  /\ UNCHANGED <<platform, child, hostVars, result>>

CleanupDeadline ==
  /\ platform = "posix" /\ runner.deadline
  /\ root' \in {root, "ended"}
  /\ Finishes(Answer("infrastructure-error", "TERMINATION_FAILED", TRUE))
  /\ UNCHANGED <<platform, child, hostVars>>

\* close comes when the process has ended and its pipes are closed.
Closes ==
  /\ platform = "posix" /\ runner.stage = "waits"
  /\ root = "ended" /\ ~PipesOpen
  /\ Finishes(IF runner.timedOut THEN Answer("timed-out", "none", TRUE)
              ELSE IF runner.broken
                   THEN Answer("infrastructure-error", "PROCESS_PROTOCOL_ERROR", FALSE)
                   ELSE Answer("exited", "none", FALSE))
  /\ UNCHANGED <<platform, command, hostVars>>

-----------------------------------------------------------------------------
(* The host on Windows.                                                    *)

\* The runner starts it, with a deadline for everything it does.
HostStarts ==
  /\ platform = "win32" /\ runner.stage = "idle"
  /\ host' = "starting"
  /\ runner' = [runner EXCEPT !.stage = "waits", !.deadline = TRUE]
  /\ UNCHANGED <<platform, command, inJob, report, result>>

Unsettled == Answer("infrastructure-error", "TERMINATION_FAILED", TRUE)

HostCannotStart ==
  /\ platform = "win32" /\ runner.stage = "idle"
  /\ Finishes(Unsettled)
  /\ UNCHANGED <<platform, command, hostVars>>

\* A request that the host refuses, or a library it cannot compile: it says so
\* if it could read the nonce.
HostRefuses ==
  /\ host = "starting"
  /\ \/ host' = "writing" /\ report' = Report("infrastructure-error", FALSE)
     \/ host' = "failed" /\ UNCHANGED report
  /\ UNCHANGED <<platform, command, inJob, runner, result>>

\* CreateProcessW, or an error before it.
HostCreates ==
  /\ host = "starting"
  /\ \/ host' = "created" /\ root' = "suspended" /\ UNCHANGED report
     \/ host' = "writing" /\ report' = Report("infrastructure-error", FALSE)
        /\ UNCHANGED root
  /\ UNCHANGED <<platform, child, inJob, runner, result>>

\* TerminateAndWait or StopUnassignedProcess, and what is then reported.
HostStops(processes, kind) ==
  /\ Killed(processes)
  /\ host' = "writing"
  /\ \E settled \in BOOLEAN :
       /\ settled => Gone(processes)
       /\ report' = Report(kind, ~settled)

HostAssigns ==
  /\ host = "created" /\ ~inJob
  /\ \/ inJob' = TRUE /\ UNCHANGED <<command, host, report>>
     \/ HostStops({"root"}, "infrastructure-error") /\ UNCHANGED inJob
  /\ UNCHANGED <<platform, runner, result>>

HostResumes ==
  /\ host = "created" /\ inJob
  /\ \/ root' = "running" /\ host' = "waiting" /\ UNCHANGED <<child, report>>
     \/ HostStops({"root", "child"}, "infrastructure-error")
  /\ UNCHANGED <<platform, inJob, runner, result>>

\* Mutant of JobIsEmpty: the host waits for the process that it started.
RootHasEnded == root = "ended"

JobIsEmpty == Alive = {}

\* WaitForJobEmpty: empty, and the exit code is read, or cannot be; not in
\* time; or the Job cannot be asked.
HostWaits ==
  /\ host = "waiting"
  /\ \/ /\ JobIsEmpty
        /\ host' = "writing"
        /\ report' \in {Report("exited", FALSE), Report("infrastructure-error", FALSE)}
        /\ UNCHANGED command
     \/ HostStops({"root", "child"}, "timed-out")
     \/ HostStops({"root", "child"}, "infrastructure-error")
  /\ UNCHANGED <<platform, inJob, runner, result>>

\* The host ends, by itself or not; the last handle of the Job goes with it,
\* and Windows ends what the Job still holds, sooner or later.
HostEnds(how) ==
  /\ host' = how
  /\ Killed(IF inJob THEN {"root", "child"} ELSE {})

HostWrites ==
  /\ host = "writing" /\ HostEnds("done")
  /\ UNCHANGED <<platform, inJob, report, runner, result>>

HostDies ==
  /\ host \in {"starting", "created", "waiting", "writing"} /\ HostEnds("failed")
  /\ UNCHANGED <<platform, inJob, report, runner, result>>

-----------------------------------------------------------------------------
(* The runner on Windows.                                                  *)

\* A pipe to the host fails: the runner has lost it, and leaves it alone until
\* the deadline.
HostPipeBreaks ==
  /\ platform = "win32" /\ runner.stage = "waits"
  /\ result' = Unsettled /\ runner' = [runner EXCEPT !.stage = "settled"]
  /\ UNCHANGED <<platform, command, hostVars>>

HostDeadline ==
  /\ platform = "win32" /\ runner.deadline
  /\ IF host \in {"done", "failed"} THEN UNCHANGED <<command, host>>
     ELSE HostEnds("failed") \/ UNCHANGED <<command, host>>
  /\ Finishes(Unsettled)
  /\ UNCHANGED <<platform, inJob, report>>

\* The host has closed: its exit code, then the one report behind its nonce.
HostCloses ==
  /\ platform = "win32" /\ runner.stage = "waits"
  /\ host \in {"done", "failed"} /\ ~PipesOpen
  /\ \/ Finishes(Unsettled)
     \/ /\ host = "done"
        /\ Finishes(CASE report.kind = "exited" -> Answer("exited", "none", FALSE)
                      [] report.kind = "timed-out" -> Answer("timed-out", "none", report.failed)
                      [] OTHER -> IF report.failed THEN Unsettled
                                  ELSE Answer("infrastructure-error", "PROCESS_PROTOCOL_ERROR",
                                              FALSE))
  /\ UNCHANGED <<platform, command, hostVars>>

Next ==
  \/ RootForks \/ RootEnds \/ ChildEnds
  \/ Refuses \/ SpawnFails \/ Spawned \/ Breaks
  \/ TimesOut \/ CleanupDeadline \/ Closes
  \/ HostStarts \/ HostCannotStart \/ HostRefuses \/ HostCreates
  \/ HostAssigns \/ HostResumes \/ HostWaits \/ HostWrites \/ HostDies
  \/ HostPipeBreaks \/ HostDeadline \/ HostCloses

Spec == Init /\ [][Next]_gateVars

-----------------------------------------------------------------------------
(* Properties.                                                             *)

\* A result that does not say that the command could not be stopped is given
\* only when nothing of it runs: the whole tree on Windows, where the row is
\* settled by it; elsewhere the process that was started.
ResultMeansEnded ==
  result # None /\ ~result.failed =>
    IF platform = "win32" THEN Alive = {} ELSE "root" \notin Alive

\* Until there is a result a timer is armed that will give one, whatever the
\* command, its host and their pipes do.
SomethingEndsTheWait == runner.stage = "waits" => runner.timeout \/ runner.deadline

GateProcessSafe == ResultMeansEnded /\ SomethingEndsTheWait

-----------------------------------------------------------------------------
(* The inductive invariant behind it.                                      *)

Reports == [kind : {"exited", "timed-out", "infrastructure-error"}, failed : BOOLEAN]
Answers == [kind : {"exited", "timed-out", "launch-error", "infrastructure-error"},
            reason : {"none", "INVALID_REQUEST", "SPAWN_FAILED", "PROCESS_PROTOCOL_ERROR",
                      "TERMINATION_FAILED"},
            failed : BOOLEAN]

TypeOK ==
  /\ platform \in {"win32", "posix"} /\ inJob \in BOOLEAN
  /\ root \in {"none", "suspended", "running", "ended"}
  /\ child \in {"none", "running", "quiet", "ended"}
  /\ host \in {"none", "starting", "created", "waiting", "writing", "done", "failed"}
  /\ report \in Reports \union {None} /\ result \in Answers \union {None}
  /\ runner \in [stage : {"idle", "waits", "settled"}, timeout : BOOLEAN,
                 deadline : BOOLEAN, timedOut : BOOLEAN, broken : BOOLEAN]

\* The command is started once, on Windows by the host and suspended.
StartsOnce ==
  /\ runner.stage = "idle" => root = "none" /\ host = "none" /\ runner = Idle
  /\ platform = "posix" => host = "none" /\ root # "suspended"
  /\ platform = "win32" /\ host \in {"none", "starting"} => root = "none"
  /\ host = "created" => root = "suspended"
  /\ root \in {"none", "suspended"} => child = "none"
  /\ runner.timeout => platform = "posix"

\* What the host reports is so: it says that the command has ended only when the
\* whole tree has.
ReportIsTrue ==
  host \in {"writing", "done"} =>
    /\ report \in Reports
    /\ report.kind = "exited" => ~report.failed
    /\ ~report.failed => Alive = {}

\* Nothing is answered before the runner has settled, and no host is about to start
\* or to resume the command when the answer says that it has ended.
AnswersAreLast ==
  /\ runner.stage # "settled" => result = None
  /\ result # None /\ ~result.failed => host \in {"none", "done", "failed"}

IInv == TypeOK /\ StartsOnce /\ ReportIsTrue /\ AnswersAreLast /\ GateProcessSafe
=============================================================================
