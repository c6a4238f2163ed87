---------------------------- MODULE QualityGates ----------------------------
(***************************************************************************)
(* Quality Gate runs of one Task: the durable rows, the gate processes, the*)
(* runQualityGate calls that own them, and the reconciliation of RUNNING   *)
(* rows when a desktop process starts.                                     *)
(*                                                                         *)
(* row           SQLite: quality_gate_runs, one status per run id          *)
(* process       the operating system's view of the gate process tree      *)
(* desktop .. verdict   memory of the desktop processes                    *)
(* worktreeBusy  the desktops whose Worktree lock of the Task is taken     *)
(* phase         SQLite: the Task's phase, moved by other components       *)
(*                                                                         *)
(* Several desktop processes may share the store: nothing in main.ts stops *)
(* a second one.  Each has its own Worktree locks, which are promises in   *)
(* its memory.                                                             *)
(***************************************************************************)
EXTENDS Naturals, FiniteSets

CONSTANTS
  Desktops,   \* desktop processes that share the data directory
  Runs,       \* Quality Gate run ids
  NoDesktop,  \* no desktop process
  Outcomes,   \* bound: the statuses that gates end with
  Faulty      \* bound: the runs whose finalize may fail in the store

ASSUME NoDesktopFresh == NoDesktop \notin Desktops
ASSUME OutcomesType ==
  Outcomes \subseteq {"PASSED", "FAILED", "TIMED_OUT", "LAUNCH_FAILED",
                      "INFRASTRUCTURE_FAILED"}
ASSUME FaultyRuns == Faulty \subseteq Runs

VARIABLES
  phase,
  row,          \* Run -> status of its row, "none" when there is no row
  process,      \* Run -> "none", "live" or "dead"
  desktop,      \* Desktop -> what the desktop process is doing
  listed,       \* Desktop -> the rows its startup reconciliation still has
  worktreeBusy,
  call,         \* Run -> where its runQualityGate call is
  owner,        \* Run -> the desktop process that makes this call
  verdict       \* Run -> the status the call is about to finalize

gateVars == <<row, process, desktop, listed, worktreeBusy, call, owner,
              verdict>>
vars == <<phase, gateVars>>

Phase == {"BACKLOG", "PLANNING", "RUNNING", "REVIEW", "DONE"}

\* "RECONCILED" is the INFRASTRUCTURE_FAILED of reconcileOrphanQualityGateRun:
\* its output reference says that nothing was observed.
Observed == {"PASSED", "FAILED", "TIMED_OUT", "LAUNCH_FAILED",
             "INFRASTRUCTURE_FAILED"}
Terminal == Observed \cup {"RECONCILED"}
RowStatus == {"none", "RUNNING"} \cup Terminal

TypeOK ==
  /\ phase \in Phase
  /\ row \in [Runs -> RowStatus]
  /\ process \in [Runs -> {"none", "live", "dead"}]
  /\ desktop \in [Desktops -> {"down", "starting", "reconciling", "up",
                               "failed"}]
  /\ listed \in [Desktops -> SUBSET Runs]
  /\ worktreeBusy \subseteq Desktops
  /\ call \in [Runs -> {"idle", "checked", "inserted", "running", "observed"}]
  /\ owner \in [Runs -> Desktops \cup {NoDesktop}]
  /\ verdict \in [Runs -> Observed \cup {"none"}]

Init ==
  /\ phase \in {"BACKLOG", "PLANNING", "RUNNING"}
  /\ row = [r \in Runs |-> "none"]
  /\ process = [r \in Runs |-> "none"]
  /\ desktop = [d \in Desktops |-> "down"]
  /\ listed = [d \in Desktops |-> {}]
  /\ worktreeBusy = {}
  /\ call = [r \in Runs |-> "idle"]
  /\ owner = [r \in Runs |-> NoDesktop]
  /\ verdict = [r \in Runs |-> "none"]

Runnable == phase \notin {"REVIEW", "DONE"}
GateActive == \E r \in Runs : row[r] = "RUNNING"

-----------------------------------------------------------------------------
(* runQualityGate: the call holds the Worktree lock until it returns.      *)

\* The lock is taken and the Task, the gate and the Worktree are checked.
GateCall(r, d) ==
  /\ desktop[d] = "up" /\ d \notin worktreeBusy
  /\ call[r] = "idle" /\ row[r] = "none"
  /\ Runnable
  /\ worktreeBusy' = worktreeBusy \cup {d}
  /\ call' = [call EXCEPT ![r] = "checked"]
  /\ owner' = [owner EXCEPT ![r] = d]
  /\ UNCHANGED <<row, process, desktop, listed, verdict>>

Returns(r) ==
  /\ worktreeBusy' = worktreeBusy \ {owner[r]}
  /\ call' = [call EXCEPT ![r] = "idle"]
  /\ owner' = [owner EXCEPT ![r] = NoDesktop]
  /\ verdict' = [verdict EXCEPT ![r] = "none"]

\* The gate is unknown, the Worktree is not ready, the insert is refused.
GateRefused(r) ==
  /\ call[r] = "checked"
  /\ Returns(r)
  /\ UNCHANGED <<row, process, desktop, listed>>

\* The insert transaction reads the phase again.
GateInsert(r) ==
  /\ call[r] = "checked"
  /\ Runnable
  /\ row' = [row EXCEPT ![r] = "RUNNING"]
  /\ call' = [call EXCEPT ![r] = "inserted"]
  /\ UNCHANGED <<process, desktop, listed, worktreeBusy, owner, verdict>>

GateSpawned(r) ==
  /\ call[r] = "inserted"
  /\ process' = [process EXCEPT ![r] = "live"]
  /\ call' = [call EXCEPT ![r] = "running"]
  /\ UNCHANGED <<row, desktop, listed, worktreeBusy, owner, verdict>>

\* The runner could not launch the command, or its host failed cleanly.
GateNotSpawned(r) ==
  /\ call[r] = "inserted"
  /\ \E v \in Outcomes \ {"PASSED", "FAILED", "TIMED_OUT"} :
       verdict' = [verdict EXCEPT ![r] = v]
  /\ call' = [call EXCEPT ![r] = "observed"]
  /\ UNCHANGED <<row, process, desktop, listed, worktreeBusy, owner>>

\* The job is empty: the command ended, or its host ended it at the timeout.
GateEnds(r) ==
  /\ process[r] = "live"
  /\ process' = [process EXCEPT ![r] = "dead"]
  /\ UNCHANGED <<row, desktop, listed, worktreeBusy, call, owner, verdict>>

\* Mutant: the runner reports the timeout before the job is empty.
GateObservedEarly(r) ==
  /\ call[r] = "running"
  /\ \E v \in Outcomes \ {"LAUNCH_FAILED"} :
       /\ v = "TIMED_OUT" \/ process[r] = "dead"
       /\ verdict' = [verdict EXCEPT ![r] = v]
  /\ call' = [call EXCEPT ![r] = "observed"]
  /\ UNCHANGED <<row, process, desktop, listed, worktreeBusy, owner>>

\* The host reports a result only after it saw the job empty.
GateObserved(r) ==
  /\ call[r] = "running"
  /\ process[r] = "dead"
  /\ \E v \in Outcomes \ {"LAUNCH_FAILED"} :
       verdict' = [verdict EXCEPT ![r] = v]
  /\ call' = [call EXCEPT ![r] = "observed"]
  /\ UNCHANGED <<row, process, desktop, listed, worktreeBusy, owner>>

\* Mutant: an unconfirmed termination is finalized like a timeout.
GateUnsettledFinalized(r) ==
  /\ call[r] \in {"inserted", "running"}
  /\ verdict' = [verdict EXCEPT ![r] = "INFRASTRUCTURE_FAILED"]
  /\ call' = [call EXCEPT ![r] = "observed"]
  /\ UNCHANGED <<row, process, desktop, listed, worktreeBusy, owner>>

\* The host is lost, answers badly or could not end the job: the process may
\* run on, so the call fails and leaves the row RUNNING.
GateUnsettled(r) ==
  /\ call[r] \in {"inserted", "running"}
  /\ Returns(r)
  /\ UNCHANGED <<row, process, desktop, listed>>

\* Mutant: the last writer wins.
GateFinalizedBlindly(r) ==
  /\ call[r] = "observed"
  /\ row' = [row EXCEPT ![r] = verdict[r]]
  /\ Returns(r)
  /\ UNCHANGED <<process, desktop, listed>>

\* finalize is a compare-and-set on RUNNING.
GateFinalized(r) ==
  /\ call[r] = "observed"
  /\ row[r] = "RUNNING"
  /\ row' = [row EXCEPT ![r] = verdict[r]]
  /\ Returns(r)
  /\ UNCHANGED <<process, desktop, listed>>

\* Another desktop process has reconciled the row, or the store fails.
GateNotFinalized(r) ==
  /\ call[r] = "observed"
  /\ row[r] # "RUNNING" \/ r \in Faulty
  /\ Returns(r)
  /\ UNCHANGED <<row, process, desktop, listed>>

-----------------------------------------------------------------------------
(* A desktop process starts and ends.                                      *)

Launch(d) ==
  /\ desktop[d] = "down"
  /\ desktop' = [desktop EXCEPT ![d] = "starting"]
  /\ UNCHANGED <<row, process, listed, worktreeBusy, call, owner, verdict>>

\* After the Agent Sessions: listUnsettled.
ReconcileStarts(d) ==
  /\ desktop[d] = "starting"
  /\ listed' = [listed EXCEPT ![d] = {r \in Runs : row[r] = "RUNNING"}]
  /\ desktop' = [desktop EXCEPT ![d] = "reconciling"]
  /\ UNCHANGED <<row, process, worktreeBusy, call, owner, verdict>>

\* finalize of the synthesized result.  It also succeeds when the row holds
\* the same result already: another desktop reconciled it in the same
\* millisecond.
ReconcileRow(d, r) ==
  /\ desktop[d] = "reconciling" /\ r \in listed[d]
  /\ row[r] \in {"RUNNING", "RECONCILED"}
  /\ row' = [row EXCEPT ![r] = "RECONCILED"]
  /\ listed' = [listed EXCEPT ![d] = @ \ {r}]
  /\ UNCHANGED <<process, desktop, worktreeBusy, call, owner, verdict>>

\* The row is finalized differently, or the store fails.  The repository
\* throws SqlitePersistenceError, which is not the error that is skipped, so
\* the loop ends, the store is closed and startup is abandoned.
ReconcileFails(d, r) ==
  /\ desktop[d] = "reconciling" /\ r \in listed[d]
  /\ row[r] # "RUNNING" \/ r \in Faulty
  /\ desktop' = [desktop EXCEPT ![d] = "failed"]
  /\ listed' = [listed EXCEPT ![d] = {}]
  /\ UNCHANGED <<row, process, worktreeBusy, call, owner, verdict>>

\* Mutant: one reconciled row is enough.
ReconcileDoneEarly(d) ==
  /\ desktop[d] = "reconciling"
  /\ Cardinality(listed[d]) <= 1
  /\ listed' = [listed EXCEPT ![d] = {}]
  /\ desktop' = [desktop EXCEPT ![d] = "up"]
  /\ UNCHANGED <<row, process, worktreeBusy, call, owner, verdict>>

ReconcileDone(d) ==
  /\ desktop[d] = "reconciling"
  /\ listed[d] = {}
  /\ desktop' = [desktop EXCEPT ![d] = "up"]
  /\ UNCHANGED <<row, process, listed, worktreeBusy, call, owner, verdict>>

\* The calls of a desktop process end with it; its gate processes and their
\* hosts do not.
Quit(d) ==
  /\ desktop[d] # "down"
  /\ desktop' = [desktop EXCEPT ![d] = "down"]
  /\ listed' = [listed EXCEPT ![d] = {}]
  /\ worktreeBusy' = worktreeBusy \ {d}
  /\ call' = [r \in Runs |-> IF owner[r] = d THEN "idle" ELSE call[r]]
  /\ verdict' = [r \in Runs |-> IF owner[r] = d THEN "none" ELSE verdict[r]]
  /\ owner' = [r \in Runs |-> IF owner[r] = d THEN NoDesktop ELSE owner[r]]
  /\ UNCHANGED <<row, process>>

-----------------------------------------------------------------------------
(* Specification.                                                          *)

CallStep(r) ==
  \/ GateRefused(r) \/ GateInsert(r) \/ GateSpawned(r) \/ GateNotSpawned(r)
  \/ GateObserved(r) \/ GateUnsettled(r)
  \/ GateFinalized(r) \/ GateNotFinalized(r)

StartupStep(d) ==
  \/ ReconcileStarts(d) \/ ReconcileDone(d)
  \/ \E r \in Runs : ReconcileRow(d, r) \/ ReconcileFails(d, r)

GateStep ==
  \/ \E r \in Runs : CallStep(r) \/ GateEnds(r)
  \/ \E r \in Runs, d \in Desktops : GateCall(r, d)
  \/ \E d \in Desktops : Launch(d) \/ StartupStep(d) \/ Quit(d)

\* The other components move the Task on, and into REVIEW only when no row is
\* RUNNING (the begin transaction of a Review).
PhaseMoves ==
  /\ \E next \in Phase :
       /\ next = "REVIEW" => ~GateActive
       /\ next = "DONE" => phase = "REVIEW"
       /\ phase' = next
  /\ phase # "DONE"
  /\ UNCHANGED gateVars

Next == (GateStep /\ UNCHANGED phase) \/ PhaseMoves

Spec == Init /\ [][Next]_vars

\* A call goes on, a gate process ends because its host enforces the timeout,
\* and startup goes on.
Fairness ==
  /\ \A r \in Runs : WF_vars(CallStep(r) /\ UNCHANGED phase)
  /\ \A r \in Runs : WF_vars(GateEnds(r) /\ UNCHANGED phase)
  /\ \A d \in Desktops : WF_vars(StartupStep(d) /\ UNCHANGED phase)

FairSpec == Spec /\ Fairness

-----------------------------------------------------------------------------
(* Properties.                                                             *)

\* A result that a call has observed is evidence that the gate's process tree
\* has ended; only a reconciled row says nothing about it.
VerdictMeansEnded ==
  \A r \in Runs : row[r] \in Observed => process[r] # "live"

\* A finalized row is never written again (finalize is a compare-and-set).
RowsAreFinal ==
  [][\A r \in Runs : row[r] \in Terminal => row'[r] = row[r]]_row

\* The gate processes that the calls of one desktop process wait for never
\* overlap: the Worktree lock is held while a gate runs.
OneGateAtATime ==
  \A r, q \in Runs :
    /\ process[r] = "live" /\ call[r] = "running"
    /\ process[q] = "live" /\ call[q] = "running"
    /\ owner[r] = owner[q]
    => r = q

\* Not true: quality-gate-restore.ts:29-33 says that a row that a concurrent window finalized
\* first is skipped and the reconciliation continues.
LostRaceIsSkipped == \A d \in Desktops : desktop[d] # "failed"

-----------------------------------------------------------------------------
(* The invariant that VerdictMeansEnded and OneGateAtATime follow from.    *)

\* A call with a verdict has no live process, a call in its first steps has
\* none either, and the row of a call is settled by that call or as an orphan.
CallsAndProcesses ==
  \A r \in Runs :
    /\ call[r] \in {"checked", "inserted"} => process[r] = "none"
    /\ row[r] = "none" => process[r] = "none"
    /\ call[r] = "observed" => process[r] # "live" /\ verdict[r] \in Observed
    /\ call[r] = "checked" => row[r] = "none"
    /\ call[r] \in {"inserted", "running", "observed"} =>
         row[r] \in {"RUNNING", "RECONCILED"}
    /\ call[r] = "idle" <=> owner[r] = NoDesktop

\* The lock: a call under way holds its desktop's, alone.
LockIsHeld ==
  \A r \in Runs :
    call[r] # "idle" =>
      /\ owner[r] \in worktreeBusy
      /\ \A q \in Runs : call[q] # "idle" /\ owner[q] = owner[r] => q = r

GInv == TypeOK /\ VerdictMeansEnded /\ CallsAndProcesses /\ LockIsHeld

-----------------------------------------------------------------------------
(* Liveness.                                                               *)

\* A runQualityGate call returns, whatever the gate does.
GateCallReturns == \A r \in Runs : call[r] # "idle" ~> call[r] = "idle"

\* A row that is RUNNING when a desktop process starts is settled before the
\* application opens, unless that startup is abandoned or quit.
OrphanIsSettled ==
  \A r \in Runs, d \in Desktops :
    row[r] = "RUNNING" /\ desktop[d] = "starting" ~>
      row[r] \in Terminal \/ desktop[d] \in {"failed", "down"}

\* Nothing about gates is left hanging: neither a call nor an orphan row.
GatesComeBack == GateCallReturns /\ OrphanIsSettled
=============================================================================
