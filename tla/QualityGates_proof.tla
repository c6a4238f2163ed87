------------------------- MODULE QualityGates_proof -------------------------
(***************************************************************************)
(* Theorems about QualityGates, for any number of runs, desktop processes, *)
(* outcomes and faults.                                                    *)
(***************************************************************************)
EXTENDS QualityGates, TLAPS

LEMMA InitGInv == Init => GInv
BY NoDesktopFresh
   DEF Init, GInv, TypeOK, VerdictMeansEnded, CallsAndProcesses, LockIsHeld,
       Phase, RowStatus, Observed, Terminal

\* The steps of a runQualityGate call that keep its lock.
LEMMA CallGoesOn ==
  ASSUME GInv, NEW r \in Runs,
         \/ GateInsert(r) \/ GateSpawned(r) \/ GateNotSpawned(r)
         \/ GateObserved(r) \/ GateEnds(r),
         UNCHANGED phase
  PROVE  GInv'
<1> USE DEF GInv, GateInsert, GateSpawned, GateNotSpawned, GateObserved, GateEnds
<1>1. TypeOK'
  BY OutcomesType DEF TypeOK, RowStatus, Observed, Terminal
<1>2. VerdictMeansEnded'
  BY DEF TypeOK, VerdictMeansEnded, CallsAndProcesses, Observed
<1>3. CallsAndProcesses'
  BY OutcomesType DEF TypeOK, CallsAndProcesses, Observed
<1>4. LockIsHeld'
  BY DEF TypeOK, LockIsHeld
<1> QED
  BY <1>1, <1>2, <1>3, <1>4

\* The steps that give the lock back.
LEMMA CallEnds ==
  ASSUME GInv, NEW r \in Runs,
         \/ GateRefused(r) \/ GateUnsettled(r)
         \/ GateFinalized(r) \/ GateNotFinalized(r),
         UNCHANGED phase
  PROVE  GInv'
<1> USE DEF GInv, GateRefused, GateUnsettled, GateFinalized, GateNotFinalized, Returns
<1>1. TypeOK'
  BY DEF TypeOK, CallsAndProcesses, RowStatus, Observed, Terminal
<1>2. VerdictMeansEnded'
  BY DEF TypeOK, VerdictMeansEnded, CallsAndProcesses, Observed
<1>3. CallsAndProcesses'
  BY DEF TypeOK, CallsAndProcesses, Observed
<1>4. LockIsHeld'
  BY DEF TypeOK, LockIsHeld, CallsAndProcesses
<1> QED
  BY <1>1, <1>2, <1>3, <1>4

\* The call takes the lock of its desktop process.
LEMMA CallBegins ==
  ASSUME GInv, NEW r \in Runs, NEW d \in Desktops, GateCall(r, d), UNCHANGED phase
  PROVE  GInv'
<1> USE DEF GInv, GateCall
<1>1. TypeOK'
  BY DEF TypeOK
<1>2. VerdictMeansEnded'
  BY DEF VerdictMeansEnded
<1>3. CallsAndProcesses'
  BY NoDesktopFresh DEF TypeOK, CallsAndProcesses
<1>4. LockIsHeld'
  BY DEF TypeOK, LockIsHeld
<1> QED
  BY <1>1, <1>2, <1>3, <1>4

\* A desktop process starts, reconciles and ends.
LEMMA DesktopActs ==
  ASSUME GInv, NEW d \in Desktops, Launch(d) \/ StartupStep(d) \/ Quit(d),
         UNCHANGED phase
  PROVE  GInv'
<1>1. CASE Launch(d) \/ ReconcileStarts(d) \/ ReconcileDone(d)
           \/ \E r \in Runs : ReconcileFails(d, r)
  <2> USE <1>1 DEF GInv, Launch, ReconcileStarts, ReconcileDone, ReconcileFails
  <2>1. TypeOK'
    BY DEF TypeOK
  <2>2. VerdictMeansEnded' /\ CallsAndProcesses' /\ LockIsHeld'
    BY DEF VerdictMeansEnded, CallsAndProcesses, LockIsHeld
  <2> QED
    BY <2>1, <2>2
<1>2. CASE \E r \in Runs : ReconcileRow(d, r)
  <2> USE <1>2 DEF GInv, ReconcileRow
  <2>1. TypeOK'
    BY DEF TypeOK, RowStatus, Terminal
  <2>2. VerdictMeansEnded' /\ CallsAndProcesses' /\ LockIsHeld'
    BY DEF TypeOK, VerdictMeansEnded, CallsAndProcesses, LockIsHeld, Observed
  <2> QED
    BY <2>1, <2>2
<1>3. CASE Quit(d)
  <2> USE <1>3 DEF GInv, Quit
  <2>1. TypeOK'
    BY DEF TypeOK
  <2>2. VerdictMeansEnded' /\ CallsAndProcesses'
    BY NoDesktopFresh DEF TypeOK, VerdictMeansEnded, CallsAndProcesses
  <2>3. LockIsHeld'
    BY NoDesktopFresh DEF TypeOK, LockIsHeld
  <2> QED
    BY <2>1, <2>2, <2>3
<1> QED
  BY <1>1, <1>2, <1>3 DEF StartupStep

LEMMA StepGInv ==
  ASSUME GInv, [Next]_vars
  PROVE  GInv'
<1>1. CASE UNCHANGED gateVars
  <2>1. phase' \in Phase
    BY <1>1 DEF GInv, TypeOK, Next, PhaseMoves, vars
  <2> QED
    BY <1>1, <2>1
       DEF gateVars, GInv, TypeOK, VerdictMeansEnded, CallsAndProcesses, LockIsHeld
<1>2. CASE GateStep /\ UNCHANGED phase
  BY <1>2, CallGoesOn, CallEnds, CallBegins, DesktopActs DEF GateStep, CallStep
<1> QED
  BY <1>1, <1>2 DEF Next, PhaseMoves, vars

-----------------------------------------------------------------------------
(* The theorems.                                                           *)

\* The invariant of rows, calls, processes and locks; its first parts are type
\* correctness and that an observed verdict is evidence.
THEOREM GateInvariant == Spec => []GInv
BY InitGInv, StepGInv, PTL DEF Spec

\* The gate processes that the calls of a desktop process wait for never
\* overlap.
THEOREM GatesNeverOverlap == Spec => []OneGateAtATime
<1>1. GInv => OneGateAtATime
  BY DEF GInv, LockIsHeld, OneGateAtATime
<1> QED
  BY <1>1, GateInvariant, PTL

\* Neither a late call nor a reconciliation ever rewrites a settled row.
THEOREM RowsStayFinal == Spec => RowsAreFinal
<1>1. ASSUME GInv, [Next]_vars
      PROVE  [\A r \in Runs : row[r] \in Terminal => row'[r] = row[r]]_row
  <2> SUFFICES ASSUME row' # row, NEW r \in Runs, row[r] \in Terminal
               PROVE  row'[r] = row[r]
    OBVIOUS
  <2>1. GateStep
    BY <1>1 DEF Next, PhaseMoves, vars, gateVars
  <2>2. \/ \E q \in Runs : GateInsert(q) \/ GateFinalized(q)
        \/ \E d \in Desktops, q \in Runs : ReconcileRow(d, q)
    BY <2>1
       DEF GateStep, CallStep, StartupStep, GateRefused, GateSpawned,
           GateNotSpawned, GateObserved, GateUnsettled, GateNotFinalized,
           GateEnds, GateCall, Launch, ReconcileStarts, ReconcileDone,
           ReconcileFails, Quit
  <2>3. row \in [Runs -> RowStatus]
    BY <1>1 DEF GInv, TypeOK
  <2> QED
    BY <1>1, <2>2, <2>3
       DEF GateInsert, GateFinalized, ReconcileRow, GInv, CallsAndProcesses,
           Terminal, Observed
<1> QED
  BY <1>1, GateInvariant, PTL DEF Spec, RowsAreFinal
=============================================================================
