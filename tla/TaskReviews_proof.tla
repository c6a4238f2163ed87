-------------------------- MODULE TaskReviews_proof --------------------------
(***************************************************************************)
(* Theorems about TaskReviews, for any number of Sessions, Reviews, calls, *)
(* gate runs and desktop processes, and any bounds.                        *)
(*                                                                         *)
(* What the gates do to their own state is proved in QualityGates_proof,   *)
(* and used here through an instance of that module.                       *)
(***************************************************************************)
EXTENDS TaskReviews, TLAPS

GateProofs == INSTANCE QualityGates_proof WITH Faulty <- {}

\* The invariant: the properties of the two runs, which hold only together.
RInv == ReviewsGovernTask /\ EvidenceHolds

-----------------------------------------------------------------------------
(* The gates: the two instances of QualityGates say the same.              *)

LEMMA SameInvariant == Gates!GInv <=> GateProofs!GInv
BY DEF Gates!GInv, Gates!TypeOK, Gates!VerdictMeansEnded,
       Gates!CallsAndProcesses, Gates!LockIsHeld, Gates!Phase,
       Gates!RowStatus, Gates!Terminal, Gates!Observed,
       GateProofs!GInv, GateProofs!TypeOK, GateProofs!VerdictMeansEnded,
       GateProofs!CallsAndProcesses, GateProofs!LockIsHeld, GateProofs!Phase,
       GateProofs!RowStatus, GateProofs!Terminal, GateProofs!Observed

LEMMA SameStep == Gates!GateStep <=> GateProofs!GateStep
BY DEF Gates!GateStep, Gates!CallStep, Gates!GateRefused, Gates!GateInsert,
       Gates!GateSpawned, Gates!GateNotSpawned, Gates!GateObserved,
       Gates!GateUnsettled, Gates!GateFinalized, Gates!GateNotFinalized,
       Gates!Returns, Gates!Runnable, Gates!GateEnds, Gates!GateCall,
       Gates!Launch, Gates!StartupStep, Gates!ReconcileStarts,
       Gates!ReconcileDone, Gates!ReconcileRow, Gates!ReconcileFails,
       Gates!Quit,
       GateProofs!GateStep, GateProofs!CallStep, GateProofs!GateRefused,
       GateProofs!GateInsert, GateProofs!GateSpawned,
       GateProofs!GateNotSpawned, GateProofs!GateObserved,
       GateProofs!GateUnsettled, GateProofs!GateFinalized,
       GateProofs!GateNotFinalized, GateProofs!Returns, GateProofs!Runnable,
       GateProofs!GateEnds, GateProofs!GateCall, GateProofs!Launch,
       GateProofs!StartupStep, GateProofs!ReconcileStarts,
       GateProofs!ReconcileDone, GateProofs!ReconcileRow,
       GateProofs!ReconcileFails, GateProofs!Quit

\* A step of a gate call, a gate process or a desktop process.
LEMMA GatesStep ==
  ASSUME Gates!GInv, Gates!GateStep, UNCHANGED phase
  PROVE  Gates!GInv'
<1>1. GateProofs!GInv
  BY SameInvariant
<1>2. GateProofs!Next
  BY SameStep DEF GateProofs!Next
<1>3. GateProofs!GInv'
  BY <1>1, <1>2, NoDesktopFresh, OutcomesType, GateProofs!StepGInv
<1>4. Gates!GInv' <=> GateProofs!GInv'
  BY SameInvariant, PTL
<1> QED
  BY <1>3, <1>4

\* Any other step: it may move the Task, and it may take and give back
\* Worktree locks that no gate call holds.
LEMMA GatesRest ==
  ASSUME Gates!GInv, UNCHANGED gatesOnly, phase' \in Gates!Phase,
         worktreeBusy' \subseteq Desktops,
         \A r \in Runs : call[r] # "idle" => owner[r] \in worktreeBusy'
  PROVE  Gates!GInv'
BY DEF gatesOnly, Gates!GInv, Gates!TypeOK, Gates!VerdictMeansEnded,
       Gates!CallsAndProcesses, Gates!LockIsHeld

-----------------------------------------------------------------------------
(* Calls and their locks.                                                  *)

LEMMA NoEvidenceType == NoEvidence \in Evidence
BY BoundsAreNatural DEF NoEvidence, Evidence, Gates!RowStatus

LEMMA JobIsThere ==
  ASSUME NEW kind, NEW d, NEW target
  PROVE  [kind |-> kind, desktop |-> d, target |-> target] # << >>
<1>1. DOMAIN [kind |-> kind, desktop |-> d, target |-> target] # DOMAIN << >>
  OBVIOUS
<1> QED
  BY <1>1

\* A call under way has a job, and so a desktop process.
LEMMA CallHasJob ==
  ASSUME RInv, NEW c \in Calls, at[c] # "idle"
  PROVE  job[c] \in Job /\ Home(c) \in Desktops
BY DEF RInv, ReviewsGovernTask, TypeOK, CallsHoldLocks, Job, Home

\* Which Worktree locks calls keep when c gives its own back, or never had it.
LEMMA OthersKeepLocks ==
  ASSUME RInv, NEW b \in Calls, NEW c \in Calls, at[c] # "idle", b # c,
         HoldsWorktree(b)
  PROVE  /\ Home(b) \in worktreeBusy \ {Home(c)}
         /\ at[b] # "idle"
         /\ \A r \in Runs : call[r] # "idle" => owner[r] # Home(b)
BY DEF RInv, ReviewsGovernTask, CallsHoldLocks, HoldsWorktree

LEMMA NewCallLocks ==
  ASSUME RInv, NewCall
  PROVE  CallsHoldLocks'
<1>1. PICK c \in Calls, d \in Desktops, kind \in Kind, t \in Sessions \cup Reviews,
          p \in {"ensuring", "workflow", "locked"} :
        /\ Begin(c, kind, d, t)
        /\ at' = [at EXCEPT ![c] = p]
        /\ t \in IF kind \in {"attempt", "resume"} THEN Sessions ELSE Reviews
        /\ p = "ensuring" => kind = "attempt"
        /\ p = "locked" => kind = "changes"
        /\ UNCHANGED gateVars
  BY DEF NewCall, AttemptCall, ResumeCall, ReviewCall, Kind
<1>2. /\ job'[c] # << >>
      /\ job'[c].kind = kind /\ job'[c].target = t /\ job'[c].desktop = d
  BY <1>1, JobIsThere DEF Begin, RInv, ReviewsGovernTask, TypeOK
<1>3. /\ at'[c] = p
      /\ \A b \in Calls : b # c => at'[b] = at[b] /\ job'[b] = job[b]
  BY <1>1 DEF Begin, RInv, ReviewsGovernTask, TypeOK
<1> QED
  BY <1>1, <1>2, <1>3
     DEF Begin, RInv, ReviewsGovernTask, CallsHoldLocks, Home, HoldsWorktree,
         gateVars

\* A call goes on and takes no lock, or its Worktree lock, or gives it back.
LEMMA MovingLocks ==
  ASSUME RInv, NEW c \in Calls, at[c] # "idle", NEW p \in Place \ {"idle"},
         at' = [at EXCEPT ![c] = p], UNCHANGED <<workflowBusy, job, call, owner>>,
         p \in {"ensuring", "ensured"} => job[c].kind = "attempt",
         worktreeBusy \ {Home(c)} \subseteq worktreeBusy',
         HoldsWorktree(c)' =>
           /\ Home(c) \in worktreeBusy'
           /\ \A r \in Runs : call[r] # "idle" => owner[r] # Home(c)
  PROVE  CallsHoldLocks'
<1>1. at'[c] = p /\ \A b \in Calls : b # c => at'[b] = at[b]
  BY DEF RInv, ReviewsGovernTask, TypeOK
<1>2. \A b \in Calls : b # c /\ HoldsWorktree(b)' =>
        Home(b) \in worktreeBusy' /\ \A r \in Runs : call[r] # "idle" => owner[r] # Home(b)
  BY <1>1, OthersKeepLocks DEF HoldsWorktree
<1> QED
  BY <1>1, <1>2
     DEF RInv, ReviewsGovernTask, CallsHoldLocks, Home

LEMMA ReturnLocks ==
  ASSUME RInv, NEW c \in Calls, at[c] # "idle", Return(c),
         UNCHANGED <<call, owner>>
  PROVE  CallsHoldLocks'
<1>1. /\ at'[c] = "idle" /\ job'[c] = << >>
      /\ \A b \in Calls : b # c => at'[b] = at[b] /\ job'[b] = job[b]
  BY DEF Return, RInv, ReviewsGovernTask, TypeOK
<1>2. worktreeBusy \ {Home(c)} \subseteq worktreeBusy'
  BY DEF Return, UnlockWorktree
<1>3. \A b \in Calls : b # c /\ HoldsWorktree(b)' =>
        Home(b) \in worktreeBusy' /\ \A r \in Runs : call[r] # "idle" => owner[r] # Home(b)
  BY <1>1, <1>2, OthersKeepLocks DEF HoldsWorktree
<1> QED
  BY <1>1, <1>3
     DEF RInv, ReviewsGovernTask, CallsHoldLocks, Home, HoldsWorktree, Return

LEMMA CallLocks ==
  ASSUME RInv, NEW c \in Calls, CallStep(c)
  PROVE  CallsHoldLocks'
<1> USE DEF Home
<1>1. CASE CallFails(c) \/ AttemptReturns(c) \/ BeginReview(c) \/ Approve(c)
           \/ RequestChanges(c)
  <2>1. at[c] # "idle" /\ Return(c) /\ UNCHANGED <<call, owner>>
    BY <1>1 DEF CallFails, AttemptReturns, BeginReview, Approve, RequestChanges,
                gatesOnly
  <2> QED
    BY <2>1, ReturnLocks
<1>2. CASE TakesWorktree(c) \/ EnsureBegins(c)
  <2>1. PICK p \in {"locked", "ensured"} :
          /\ at[c] \in {"workflow", "ensuring"} /\ at' = [at EXCEPT ![c] = p]
          /\ LockWorktree(c)
          /\ p = "ensured" => at[c] = "ensuring"
          /\ UNCHANGED <<workflowBusy, job, call, owner>>
    BY <1>2 DEF TakesWorktree, EnsureBegins, Waits, gatesOnly
  <2>2. p = "ensured" => job[c].kind = "attempt"
    BY <2>1 DEF RInv, ReviewsGovernTask, CallsHoldLocks
  <2>3. /\ Home(c) \in worktreeBusy' /\ worktreeBusy \subseteq worktreeBusy'
        /\ \A r \in Runs : call[r] # "idle" => owner[r] # Home(c)
    BY <2>1 DEF LockWorktree, RInv, ReviewsGovernTask, Gates!GInv, Gates!LockIsHeld
  <2> QED
    BY <2>1, <2>2, <2>3, MovingLocks DEF Place
<1>3. CASE EnsureEnds(c)
  <2>1. /\ at[c] = "ensured" /\ at' = [at EXCEPT ![c] = "inspected"]
        /\ job[c].kind = "attempt"
        /\ worktreeBusy \ {Home(c)} \subseteq worktreeBusy'
        /\ UNCHANGED <<workflowBusy, job, call, owner>>
    BY <1>3 DEF EnsureEnds, UnlockWorktree, RInv, ReviewsGovernTask, CallsHoldLocks,
                gatesOnly
  <2>2. ~HoldsWorktree(c)'
    BY <2>1 DEF HoldsWorktree, RInv, ReviewsGovernTask, TypeOK
  <2> QED
    BY <2>1, <2>2, MovingLocks DEF Place
<1>4. CASE ResumeReads(c) \/ RequestReads(c) \/ RequestCollects(c)
           \/ RequestInspects(c) \/ ApproveReads(c) \/ ApproveInspects(c)
           \/ ChangesRead(c) \/ SessionInserted(c)
  <2>1. PICK p \in {"read", "collected", "inspected", "starting"} :
          /\ at[c] \in {"locked", "read", "collected", "inspected"}
          /\ at' = [at EXCEPT ![c] = p]
          /\ UNCHANGED <<workflowBusy, job, worktreeBusy, call, owner>>
    BY <1>4 DEF ResumeReads, RequestReads, RequestCollects, RequestInspects,
                ApproveReads, ApproveInspects, ChangesRead, SessionInserted, gateVars
  <2>2. HoldsWorktree(c)' => HoldsWorktree(c)
    BY <2>1 DEF HoldsWorktree, RInv, ReviewsGovernTask, TypeOK
  <2> QED
    BY <2>1, <2>2, MovingLocks DEF Place, RInv, ReviewsGovernTask, CallsHoldLocks
<1> QED
  BY <1>1, <1>2, <1>3, <1>4 DEF CallStep

\* Steps that leave the calls of the application alone.
LEMMA GateLocks ==
  ASSUME RInv, UNCHANGED callVars,
         \/ \E r \in Runs : GateStarts(r) \/ GateGoesOn(r)
         \/ \E d \in Desktops : Launch(d) \/ StartupStep(d)
  PROVE  CallsHoldLocks'
<1>1. ASSUME NEW c \in Calls, HoldsWorktree(c)
      PROVE  Home(c) \in worktreeBusy' /\ \A r \in Runs : call'[r] # "idle" => owner'[r] # Home(c)
  <2> DEFINE Unlocked(o, cl) == \A r \in Runs : cl[r] # "idle" => o[r] # Home(c)
  <2>1. Home(c) \in worktreeBusy /\ Unlocked(owner, call) /\ Home(c) \in Desktops
    BY <1>1, CallHasJob DEF RInv, ReviewsGovernTask, CallsHoldLocks, HoldsWorktree
  <2>2. CASE \E r \in Runs, d \in Desktops : Gates!GateCall(r, d)
    BY <2>1, <2>2 DEF Gates!GateCall, RInv, ReviewsGovernTask, Gates!GInv, Gates!TypeOK
  <2>3. CASE \E r \in Runs : Gates!CallStep(r) /\ Gates!Returns(r) /\ call[r] # "idle"
    BY <2>1, <2>3, NoDesktopFresh DEF Gates!Returns, RInv, ReviewsGovernTask, Gates!GInv, Gates!TypeOK
  <2>4. CASE \E r \in Runs : /\ call[r] # "idle" /\ UNCHANGED <<worktreeBusy, owner>>
                             /\ \E p : call' = [call EXCEPT ![r] = p]
    BY <2>1, <2>4 DEF RInv, ReviewsGovernTask, Gates!GInv, Gates!TypeOK
  <2>5. CASE UNCHANGED <<worktreeBusy, call, owner>>
    BY <2>1, <2>5
  <2> QED
    BY <2>2, <2>3, <2>4, <2>5
       DEF GateStarts, GateGoesOn, Launch, StartupStep, Gates!CallStep, Gates!GateRefused,
           Gates!GateInsert, Gates!GateSpawned, Gates!GateNotSpawned,
           Gates!GateObserved, Gates!GateUnsettled, Gates!GateFinalized,
           Gates!GateNotFinalized, Gates!GateEnds, Gates!Launch,
           Gates!StartupStep, Gates!ReconcileStarts, Gates!ReconcileDone,
           Gates!ReconcileRow, Gates!ReconcileFails
<1> QED
  BY <1>1 DEF RInv, ReviewsGovernTask, CallsHoldLocks, HoldsWorktree, Home, callVars

LEMMA QuitLocks ==
  ASSUME RInv, NEW d \in Desktops, Quit(d)
  PROVE  CallsHoldLocks'
<1>1. \A c \in Calls :
        IF at[c] # "idle" /\ Home(c) = d
          THEN at'[c] = "idle" /\ job'[c] = << >>
          ELSE at'[c] = at[c] /\ job'[c] = job[c]
  BY DEF Quit, RInv, ReviewsGovernTask, TypeOK
<1>2. \A r \in Runs : call'[r] # "idle" => call[r] # "idle" /\ owner'[r] = owner[r]
  BY DEF Quit, Gates!Quit
<1>3. workflowBusy' = workflowBusy \ {d} /\ worktreeBusy' = worktreeBusy \ {d}
  BY DEF Quit, Gates!Quit
<1> QED
  BY <1>1, <1>2, <1>3
     DEF RInv, ReviewsGovernTask, CallsHoldLocks, HoldsWorktree, Home

LEMMA LocksKept ==
  ASSUME RInv, Next
  PROVE  CallsHoldLocks'
<1>1. CASE \/ \E s \in Sessions : AgentWrites(s) \/ AgentDies(s) \/ SessionSettles(s)
           \/ \E s \in Sessions, d \in Desktops : SessionLost(s, d)
           \/ RecordArtifact
           \/ \E r \in Runs : GateWrites(r)
  <2>1. UNCHANGED <<gateVars, callVars>>
    BY <1>1 DEF AgentWrites, AgentDies, SessionSettles, SessionLost, RecordArtifact,
                GateWrites, Write
  <2> QED
    BY <2>1 DEF RInv, ReviewsGovernTask, CallsHoldLocks, HoldsWorktree, Home,
                gateVars, callVars
<1>2. CASE \/ \E r \in Runs : GateStarts(r) \/ GateGoesOn(r)
           \/ \E d \in Desktops : Launch(d) \/ StartupStep(d)
  BY <1>2, GateLocks DEF GateStarts, GateGoesOn, Launch, StartupStep
<1> QED
  BY <1>1, <1>2, NewCallLocks, CallLocks, QuitLocks DEF Next

-----------------------------------------------------------------------------
(* The gates beside the calls, and the types.                              *)

LEMMA CallGates ==
  ASSUME RInv, NEW c \in Calls, CallStep(c)
  PROVE  Gates!GInv'
<1>1. at[c] # "idle" /\ UNCHANGED gatesOnly /\ phase' \in Gates!Phase
  BY DEF CallStep, CallFails, TakesWorktree, Waits, EnsureBegins, EnsureEnds,
         ResumeReads, SessionInserted, AttemptReturns, RequestReads,
         RequestCollects, RequestInspects, BeginReview, ApproveReads,
         ApproveInspects, Approve, ChangesRead, RequestChanges, gateVars,
         gatesOnly, RInv, ReviewsGovernTask, TypeOK, Gates!TypeOK, Gates!Phase
<1>2. \/ UNCHANGED worktreeBusy
      \/ LockWorktree(c)
      \/ HoldsWorktree(c) /\ UnlockWorktree(c)
  BY DEF CallStep, CallFails, TakesWorktree, EnsureBegins, EnsureEnds,
         ResumeReads, SessionInserted, AttemptReturns, RequestReads,
         RequestCollects, RequestInspects, BeginReview, ApproveReads,
         ApproveInspects, Approve, ChangesRead, RequestChanges, gateVars,
         Return, HoldsWorktree
<1>3. worktreeBusy' \subseteq Desktops
  BY <1>1, <1>2, CallHasJob DEF LockWorktree, UnlockWorktree, RInv,
     ReviewsGovernTask, TypeOK, Gates!TypeOK
<1>4. \A r \in Runs : call[r] # "idle" => owner[r] \in worktreeBusy'
  BY <1>2 DEF LockWorktree, UnlockWorktree, RInv, ReviewsGovernTask,
              CallsHoldLocks, Gates!GInv, Gates!LockIsHeld
<1> QED
  BY <1>1, <1>3, <1>4, GatesRest DEF RInv, ReviewsGovernTask

LEMMA GatesKept ==
  ASSUME RInv, Next
  PROVE  Gates!GInv'
<1>1. CASE UNCHANGED <<phase, gateVars>>
  BY <1>1 DEF RInv, ReviewsGovernTask, gateVars, Gates!GInv, Gates!TypeOK,
              Gates!VerdictMeansEnded, Gates!CallsAndProcesses, Gates!LockIsHeld
<1>2. CASE Gates!GateStep /\ UNCHANGED phase
  BY <1>2, GatesStep DEF RInv, ReviewsGovernTask
<1>3. CASE \E c \in Calls : CallStep(c)
  BY <1>3, CallGates
<1>4. CASE NewCall
  BY <1>1, <1>4 DEF NewCall, AttemptCall, ResumeCall, ReviewCall
<1>5. CASE \/ \E s \in Sessions : AgentWrites(s) \/ AgentDies(s) \/ SessionSettles(s)
           \/ \E s \in Sessions, d \in Desktops : SessionLost(s, d)
           \/ RecordArtifact
           \/ \E r \in Runs : GateWrites(r)
  BY <1>1, <1>5 DEF AgentWrites, AgentDies, SessionSettles, SessionLost,
                    RecordArtifact, GateWrites, Write
<1>6. CASE \/ \E r \in Runs : GateStarts(r) \/ GateGoesOn(r)
           \/ \E d \in Desktops : Launch(d) \/ StartupStep(d) \/ Quit(d)
  BY <1>2, <1>6 DEF GateStarts, GateGoesOn, Launch, StartupStep, Quit, Gates!GateStep
<1> QED
  BY <1>3, <1>4, <1>5, <1>6 DEF Next

\* What TypeOK adds to the types of the gates.
ReviewTypes ==
  /\ holders \subseteq Sessions
  /\ spent \subseteq Sessions
  /\ agents \subseteq Sessions
  /\ home \in [Sessions -> Desktops \cup {NoDesktop}]
  /\ found \in [Desktops -> SUBSET Sessions]
  /\ code \in 0..MaxCode
  /\ artifacts \in 0..MaxArtifacts
  /\ review \in [Reviews -> ReviewRow]
  /\ strayed \in BOOLEAN

CallTypes ==
  /\ workflowBusy \subseteq Desktops
  /\ at \in [Calls -> Place]
  /\ job \in [Calls -> Job \cup {<< >>}]
  /\ read \in [Calls -> Evidence]

LEMMA CallStepTypes ==
  ASSUME RInv, NEW c \in Calls, CallStep(c)
  PROVE  CallTypes'
<1>1. CallTypes
  BY DEF CallTypes, RInv, ReviewsGovernTask, TypeOK
<1>2. CASE Return(c)
  BY <1>1, <1>2, NoEvidenceType DEF CallTypes, Return, Place
<1>3. CASE /\ UNCHANGED <<workflowBusy, job, read>>
           /\ \E p \in Place : at' = [at EXCEPT ![c] = p]
  BY <1>1, <1>3 DEF CallTypes
<1>4. CASE RequestReads(c)
  <2>1. [read[c] EXCEPT !.spent = spent, !.legacy = Legacy] \in Evidence
    BY <1>1 DEF CallTypes, Evidence, Legacy, RInv, ReviewsGovernTask, TypeOK
  <2>2. read' = [read EXCEPT ![c] = [read[c] EXCEPT !.spent = spent, !.legacy = Legacy]]
    BY <1>1, <1>4 DEF RequestReads, CallTypes, Evidence
  <2> QED
    BY <1>1, <1>4, <2>1, <2>2 DEF CallTypes, RequestReads, Place
<1>5. CASE RequestCollects(c)
  <2>1. [read[c] EXCEPT !.row = row, !.artifacts = artifacts] \in Evidence
    BY <1>1 DEF CallTypes, Evidence, RInv, ReviewsGovernTask, TypeOK, Gates!TypeOK
  <2>2. read' = [read EXCEPT ![c] = [read[c] EXCEPT !.row = row, !.artifacts = artifacts]]
    BY <1>1, <1>5 DEF RequestCollects, CallTypes, Evidence
  <2> QED
    BY <1>1, <1>5, <2>1, <2>2 DEF CallTypes, RequestCollects, Place
<1>6. CASE RequestInspects(c)
  <2>1. [read[c] EXCEPT !.code = code] \in Evidence
    BY <1>1 DEF CallTypes, Evidence, RInv, ReviewsGovernTask, TypeOK
  <2> QED
    BY <1>1, <1>6, <2>1 DEF CallTypes, RequestInspects, Place
<1> QED
  BY <1>2, <1>3, <1>4, <1>5, <1>6
     DEF CallStep, CallFails, TakesWorktree, EnsureBegins, EnsureEnds,
         ResumeReads, SessionInserted, AttemptReturns, BeginReview,
         ApproveReads, ApproveInspects, Approve, ChangesRead, RequestChanges,
         Place

\* The target of a call is what its kind says.
LEMMA CallTarget ==
  ASSUME RInv, NEW c \in Calls, at[c] # "idle"
  PROVE  /\ job[c].kind \in {"attempt", "resume"} => job[c].target \in Sessions
         /\ job[c].kind \in {"request", "approve", "changes"} => job[c].target \in Reviews
BY DEF RInv, ReviewsGovernTask, CallsHoldLocks

LEMMA CallStepRows ==
  ASSUME RInv, NEW c \in Calls, CallStep(c)
  PROVE  ReviewTypes'
<1>1. ReviewTypes /\ CallTypes
  BY DEF ReviewTypes, CallTypes, RInv, ReviewsGovernTask, TypeOK
<1>2. CASE SessionInserted(c)
  BY <1>1, <1>2, CallTarget, CallHasJob
     DEF SessionInserted, Lease!Acquire, ReviewTypes, worktreeVars
<1>3. CASE BeginReview(c)
  <2>1. [status |-> "PENDING", evidence |-> read[c]] \in ReviewRow
    BY <1>1 DEF ReviewRow, Status, CallTypes
  <2> QED
    BY <1>1, <1>3, <2>1 DEF BeginReview, Stores, ReviewTypes, sessionVars, worktreeVars
<1>4. CASE Approve(c) \/ RequestChanges(c)
  <2>1. PICK status \in Status, v \in Reviews : Decides(v, status)
    BY <1>4, CallTarget DEF Approve, RequestChanges, Status
  <2>2. [review[v] EXCEPT !.status = status] \in ReviewRow
    BY <1>1 DEF ReviewTypes, ReviewRow
  <2>3. review' = [review EXCEPT ![v] = [review[v] EXCEPT !.status = status]]
    BY <1>1, <2>1 DEF Decides, ReviewTypes, ReviewRow
  <2> QED
    BY <1>1, <1>4, <2>2, <2>3 DEF Approve, RequestChanges, ReviewTypes, sessionVars, worktreeVars
<1>5. CASE UNCHANGED <<sessionVars, worktreeVars, artifacts, review>>
  BY <1>1, <1>5 DEF ReviewTypes, sessionVars, worktreeVars
<1> QED
  BY <1>2, <1>3, <1>4, <1>5
     DEF CallStep, CallFails, TakesWorktree, EnsureBegins, EnsureEnds,
         ResumeReads, AttemptReturns, RequestReads, RequestCollects,
         RequestInspects, ApproveReads, ApproveInspects, ChangesRead

LEMMA TypesKept ==
  ASSUME RInv, Next
  PROVE  TypeOK'
<1>1. ReviewTypes /\ CallTypes
  BY DEF ReviewTypes, CallTypes, RInv, ReviewsGovernTask, TypeOK
<1>2. Gates!TypeOK'
  BY GatesKept DEF Gates!GInv
<1>3. ReviewTypes' /\ CallTypes'
  <2>1. CASE NewCall
    <3>1. PICK c \in Calls, d \in Desktops, kind \in Kind, t \in Sessions \cup Reviews,
              p \in {"ensuring", "workflow", "locked"} :
            Begin(c, kind, d, t) /\ at' = [at EXCEPT ![c] = p]
      BY <2>1 DEF NewCall, AttemptCall, ResumeCall, ReviewCall, Kind
    <3>2. UNCHANGED <<sessionVars, worktreeVars, artifacts, review, read>>
      BY <2>1 DEF NewCall, AttemptCall, ResumeCall, ReviewCall
    <3> QED
      BY <1>1, <3>1, <3>2
         DEF Begin, ReviewTypes, CallTypes, Job, Place, sessionVars, worktreeVars
  <2>2. CASE \E c \in Calls : CallStep(c)
    BY <2>2, CallStepTypes, CallStepRows
  <2>3. CASE \/ \E s \in Sessions : AgentDies(s) \/ SessionSettles(s)
             \/ \E s \in Sessions, d \in Desktops : SessionLost(s, d)
             \/ RecordArtifact
    BY <1>1, <2>3, BoundsAreNatural
       DEF AgentDies, SessionSettles, SessionLost, RecordArtifact,
           Lease!Release, ReviewTypes, CallTypes, sessionVars, worktreeVars,
           callVars
  <2>7. CASE (\E s \in Sessions : AgentWrites(s)) \/ (\E r \in Runs : GateWrites(r))
    <3>1. PICK accounted : Write(accounted)
      BY <2>7 DEF AgentWrites, GateWrites
    <3>2. code' \in 0..MaxCode
      BY <1>1, <3>1, BoundsAreNatural DEF Write, ReviewTypes
    <3>3. strayed' \in BOOLEAN
      BY <3>1 DEF Write
    <3> QED
      BY <1>1, <3>1, <3>2, <3>3 DEF Write, ReviewTypes, CallTypes, sessionVars, callVars
  <2>4. CASE \/ \E r \in Runs : GateStarts(r) \/ GateGoesOn(r)
             \/ \E d \in Desktops : StartupStep(d)
    <3>1. UNCHANGED <<sessionVars, worktreeVars, artifacts, review, callVars>>
      BY <2>4 DEF GateStarts, GateGoesOn, StartupStep
    <3> QED
      BY <1>1, <3>1 DEF ReviewTypes, CallTypes, sessionVars, worktreeVars, callVars
  <2>5. CASE \E d \in Desktops : Launch(d)
    BY <1>1, <2>5 DEF Launch, ReviewTypes, CallTypes, worktreeVars, callVars
  <2>6. CASE \E d \in Desktops : Quit(d)
    BY <1>1, <2>6, NoEvidenceType
       DEF Quit, ReviewTypes, CallTypes, worktreeVars, Place
  <2> QED
    BY <2>1, <2>2, <2>3, <2>4, <2>5, <2>6, <2>7 DEF Next
<1> QED
  BY <1>2, <1>3 DEF TypeOK, ReviewTypes, CallTypes

-----------------------------------------------------------------------------
(* The Task and its Reviews.                                               *)

\* Outside REVIEW and DONE no Review stands.
LEMMA NothingStands ==
  ASSUME RInv, phase \notin {"REVIEW", "DONE"} \/ Legacy, NEW v \in Reviews
  PROVE  ~Standing(v)
BY DEF RInv, ReviewsGovernTask, PhaseMatchesReviews, Standing, Legacy, Pending,
       Approved, Reviewed

\* What the three transactions on Reviews do.
LEMMA Begun ==
  ASSUME RInv, NEW c \in Calls, BeginReview(c)
  PROVE  \E v \in Reviews :
           /\ phase' = "REVIEW" /\ Pending(v)'
           /\ review'[v].evidence = read[c]
           /\ EvidenceIsStored(read[c]) /\ holders = {} /\ ~Gates!GateActive
           /\ \A w \in Reviews : w # v => ~Standing(w)'
<1> DEFINE v == job[c].target
<1>1. v \in Reviews
  BY CallTarget DEF BeginReview
<1>2. review'[v].status = "PENDING" /\ review'[v].evidence = read[c]
  BY <1>1 DEF BeginReview, Stores, RInv, ReviewsGovernTask, TypeOK
<1>3. \A w \in Reviews : w # v => review'[w] = review[w]
  BY DEF BeginReview, Stores, RInv, ReviewsGovernTask, TypeOK
<1>4. \A w \in Reviews : ~Standing(w)
  BY NothingStands DEF BeginReview
<1> QED
  BY <1>1, <1>2, <1>3, <1>4 DEF BeginReview, Pending, Standing, Approved

LEMMA Decided ==
  ASSUME RInv, NEW c \in Calls, Approve(c) \/ RequestChanges(c)
  PROVE  \E v \in Reviews :
           /\ phase = "REVIEW" /\ Pending(v)
           /\ IF Approved(v)' THEN phase' = "DONE" ELSE phase' = "RUNNING" /\ ~Standing(v)'
           /\ ~Pending(v)'
           /\ review'[v].evidence = review[v].evidence
           /\ \A w \in Reviews : w # v => ~Standing(w)'
<1> DEFINE v == job[c].target
<1>1. v \in Reviews
  BY CallTarget DEF Approve, RequestChanges
<1>2. PICK status \in {"APPROVED", "CHANGES_REQUESTED"} :
        /\ Decides(v, status)
        /\ phase' = IF status = "APPROVED" THEN "DONE" ELSE "RUNNING"
  BY DEF Approve, RequestChanges
<1>3. review[v] \in ReviewRow
  BY <1>1 DEF RInv, ReviewsGovernTask, TypeOK
<1>4. review'[v].status = status /\ review'[v].evidence = review[v].evidence
  BY <1>1, <1>2, <1>3 DEF Decides, ReviewRow, RInv, ReviewsGovernTask, TypeOK
<1>5. \A w \in Reviews : w # v => review'[w] = review[w]
  BY <1>2 DEF Decides, RInv, ReviewsGovernTask, TypeOK
<1>6. phase = "REVIEW" /\ Pending(v)
  BY DEF Approve, RequestChanges
<1>7. \A w \in Reviews : w # v => ~Standing(w)
  BY <1>1, <1>6 DEF RInv, ReviewsGovernTask, PhaseMatchesReviews, Standing
<1> QED
  BY <1>1, <1>2, <1>4, <1>5, <1>6, <1>7 DEF Pending, Standing, Approved

\* Every other step.
Deciding == \E c \in Calls : BeginReview(c) \/ Approve(c) \/ RequestChanges(c)

LEMMA OnlyCallsDecide ==
  ASSUME Next, ~Deciding
  PROVE  UNCHANGED <<phase, review>>
BY DEF Next, Deciding, NewCall, AttemptCall, ResumeCall, ReviewCall, CallStep,
       CallFails, TakesWorktree, EnsureBegins, EnsureEnds, ResumeReads,
       SessionInserted, AttemptReturns, RequestReads, RequestCollects,
       RequestInspects, ApproveReads, ApproveInspects, ChangesRead,
       AgentWrites, AgentDies, SessionSettles, SessionLost, RecordArtifact,
       GateWrites, Write, GateStarts, GateGoesOn, Launch, StartupStep, Quit

LEMMA PhaseKept ==
  ASSUME RInv, Next
  PROVE  PhaseMatchesReviews'
<1>1. CASE ~Deciding
  <2>1. phase' = phase /\ review' = review
    BY <1>1, OnlyCallsDecide
  <2>2. PhaseMatchesReviews
    BY DEF RInv, ReviewsGovernTask
  <2> QED
    BY <2>1, <2>2
       DEF PhaseMatchesReviews, Legacy, Pending, Approved, Reviewed, Standing
<1>2. CASE \E c \in Calls : BeginReview(c)
  BY <1>2, Begun DEF PhaseMatchesReviews, Standing, Pending, Approved
<1>3. CASE \E c \in Calls : Approve(c) \/ RequestChanges(c)
  BY <1>3, Decided DEF PhaseMatchesReviews, Standing, Pending, Approved
<1> QED
  BY <1>1, <1>2, <1>3 DEF Deciding

-----------------------------------------------------------------------------
(* What moves beside a Review: rows, Sessions and the code.                *)

\* A settled row is final, no row disappears, and while nothing is RUNNING and
\* nothing may run the rows stay as they are.
LEMMA RowsMove ==
  ASSUME Gates!GInv, Gates!GateStep
  PROVE  /\ \A r \in Runs : row[r] \in Gates!Terminal => row'[r] = row[r]
         /\ \A r \in Runs : row[r] # "none" => row'[r] # "none"
         /\ ~Gates!GateActive /\ ~Gates!Runnable => row' = row
<1>1. row \in [Runs -> Gates!RowStatus]
  BY DEF Gates!GInv, Gates!TypeOK
<1>2. CASE UNCHANGED row
  BY <1>2
<1>3. CASE \E r \in Runs : Gates!GateInsert(r)
  BY <1>1, <1>3
     DEF Gates!GateInsert, Gates!GInv, Gates!CallsAndProcesses, Gates!Terminal,
         Gates!Observed
<1>4. CASE \E r \in Runs : Gates!GateFinalized(r)
  BY <1>1, <1>4
     DEF Gates!GateFinalized, Gates!GateActive, Gates!GInv,
         Gates!CallsAndProcesses, Gates!Terminal, Gates!Observed
<1>5. CASE \E d \in Desktops, r \in Runs : Gates!ReconcileRow(d, r)
  <2>1. PICK r \in Runs : /\ row[r] \in {"RUNNING", "RECONCILED"}
                          /\ row' = [row EXCEPT ![r] = "RECONCILED"]
    BY <1>5 DEF Gates!ReconcileRow
  <2>2. ~Gates!GateActive => row' = row
    BY <1>1, <2>1 DEF Gates!GateActive
  <2> QED
    BY <1>1, <2>1, <2>2 DEF Gates!Terminal, Gates!Observed
<1> QED
  BY <1>2, <1>3, <1>4, <1>5
     DEF Gates!GateStep, Gates!CallStep, Gates!StartupStep, Gates!GateRefused,
         Gates!GateSpawned, Gates!GateNotSpawned, Gates!GateObserved,
         Gates!GateUnsettled, Gates!GateNotFinalized, Gates!GateEnds,
         Gates!GateCall, Gates!Launch, Gates!ReconcileStarts,
         Gates!ReconcileDone, Gates!ReconcileFails, Gates!Quit

\* Rows move only in the steps of gates and desktop processes.
LEMMA RowsChange ==
  ASSUME Next, row' # row
  PROVE  /\ Gates!GateStep
         /\ UNCHANGED <<phase, holders, spent, worktreeVars, artifacts, review>>
<1>1. CASE NewCall
  BY <1>1 DEF NewCall, AttemptCall, ResumeCall, ReviewCall, gateVars
<1>2. CASE \E c \in Calls : CallStep(c)
  BY <1>2 DEF CallStep, CallFails, TakesWorktree, EnsureBegins, EnsureEnds,
         ResumeReads, SessionInserted, AttemptReturns, RequestReads,
         RequestCollects, RequestInspects, BeginReview, ApproveReads,
         ApproveInspects, Approve, ChangesRead, RequestChanges, gateVars,
         gatesOnly
<1>3. CASE \/ \E s \in Sessions : AgentWrites(s) \/ AgentDies(s) \/ SessionSettles(s)
           \/ \E s \in Sessions, d \in Desktops : SessionLost(s, d)
           \/ RecordArtifact
           \/ \E r \in Runs : GateWrites(r)
  BY <1>3 DEF AgentWrites, AgentDies, SessionSettles, SessionLost,
              RecordArtifact, GateWrites, Write, gateVars
<1>4. CASE \/ \E r \in Runs : GateStarts(r) \/ GateGoesOn(r)
           \/ \E d \in Desktops : Launch(d) \/ StartupStep(d) \/ Quit(d)
  BY <1>4 DEF GateStarts, GateGoesOn, Launch, StartupStep, Quit, Gates!GateStep,
              Gates!Launch, Gates!Quit, sessionVars
<1> QED
  BY <1>1, <1>2, <1>3, <1>4 DEF Next

\* The lease changes hands only when a Session is inserted, in RUNNING, or
\* settled.
LEMMA LeaseMoves ==
  ASSUME RInv, Next, ~UNCHANGED <<holders, spent>>
  PROVE  /\ UNCHANGED <<phase, row, review, worktreeVars, artifacts>>
         /\ \/ phase = "RUNNING" /\ \E s \in Sessions : Lease!Acquire(s)
            \/ UNCHANGED callVars /\ \E s \in Sessions : Lease!Release(s)
<1>1. CASE NewCall
  BY <1>1 DEF NewCall, AttemptCall, ResumeCall, ReviewCall, sessionVars
<1>2. CASE \E c \in Calls : CallStep(c)
  <2>1. PICK c \in Calls : SessionInserted(c)
    BY <1>2 DEF CallStep, CallFails, TakesWorktree, EnsureBegins, EnsureEnds,
           ResumeReads, AttemptReturns, RequestReads, RequestCollects,
           RequestInspects, BeginReview, ApproveReads, ApproveInspects, Approve,
           ChangesRead, RequestChanges, sessionVars
  <2> QED
    BY <2>1, CallTarget DEF SessionInserted, gateVars
<1>3. CASE \/ \E s \in Sessions : AgentWrites(s) \/ AgentDies(s) \/ SessionSettles(s)
           \/ \E s \in Sessions, d \in Desktops : SessionLost(s, d)
           \/ RecordArtifact
           \/ \E r \in Runs : GateWrites(r)
  BY <1>3 DEF AgentWrites, AgentDies, SessionSettles, SessionLost,
              RecordArtifact, GateWrites, Write, gateVars, sessionVars
<1>4. CASE \/ \E r \in Runs : GateStarts(r) \/ GateGoesOn(r)
           \/ \E d \in Desktops : Launch(d) \/ StartupStep(d) \/ Quit(d)
  BY <1>4 DEF GateStarts, GateGoesOn, Launch, StartupStep, Quit, sessionVars
<1> QED
  BY <1>1, <1>2, <1>3, <1>4 DEF Next

\* Neither the lease nor a row moves in REVIEW and DONE.
LEMMA QuietStep ==
  ASSUME RInv, Next, phase \in {"REVIEW", "DONE"}
  PROVE  holders = {} /\ ~Gates!GateActive /\ UNCHANGED <<holders, spent, row>>
<1>1. holders = {} /\ ~Gates!GateActive
  BY DEF RInv, ReviewsGovernTask, ReviewIsQuiet
<1>2. UNCHANGED <<holders, spent>>
  BY <1>1, LeaseMoves DEF Lease!Release
<1>3. UNCHANGED row
  BY <1>1, RowsChange, RowsMove DEF Gates!Runnable, RInv, ReviewsGovernTask
<1> QED
  BY <1>1, <1>2, <1>3

LEMMA QuietKept ==
  ASSUME RInv, Next
  PROVE  ReviewIsQuiet'
<1>1. CASE phase \in {"REVIEW", "DONE"}
  BY <1>1, QuietStep DEF ReviewIsQuiet, Gates!GateActive
<1>2. CASE phase \notin {"REVIEW", "DONE"}
  <2>1. SUFFICES ASSUME NEW c \in Calls, BeginReview(c)
                 PROVE  ReviewIsQuiet'
    BY <1>2, OnlyCallsDecide, Decided DEF Deciding, ReviewIsQuiet
  <2> QED
    BY <2>1 DEF BeginReview, gatesOnly, sessionVars, ReviewIsQuiet, Gates!GateActive
<1> QED
  BY <1>1, <1>2

\* A Review that stands was begun by this step, or stood before.
LEMMA StandsOrBegins ==
  ASSUME RInv, Next, NEW v \in Reviews, Standing(v)'
  PROVE  \/ /\ Standing(v) /\ phase \in {"REVIEW", "DONE"}
            /\ review'[v].evidence = review[v].evidence
         \/ \E c \in Calls : /\ BeginReview(c) /\ EvidenceIsStored(read[c])
                             /\ review'[v].evidence = read[c]
<1>1. Standing(v) => phase \in {"REVIEW", "DONE"}
  BY DEF RInv, ReviewsGovernTask, PhaseMatchesReviews, Standing
<1>2. CASE ~Deciding
  BY <1>1, <1>2, OnlyCallsDecide DEF Standing, Pending, Approved
<1>3. CASE \E c \in Calls : BeginReview(c)
  BY <1>3, Begun DEF Standing, Pending, Approved
<1>4. CASE \E c \in Calls : Approve(c) \/ RequestChanges(c)
  BY <1>1, <1>4, Decided DEF Standing, Pending, Approved
<1> QED
  BY <1>2, <1>3, <1>4 DEF Deciding

LEMMA ArtifactsGrow ==
  ASSUME RInv, Next
  PROVE  artifacts <= artifacts'
<1>1. artifacts \in Nat
  BY BoundsAreNatural DEF RInv, ReviewsGovernTask, TypeOK
<1>2. artifacts' = artifacts \/ artifacts' = artifacts + 1
  BY DEF Next, NewCall, AttemptCall, ResumeCall, ReviewCall, CallStep,
         CallFails, TakesWorktree, EnsureBegins, EnsureEnds, ResumeReads,
         SessionInserted, AttemptReturns, RequestReads, RequestCollects,
         RequestInspects, BeginReview, ApproveReads, ApproveInspects, Approve,
         ChangesRead, RequestChanges, AgentWrites, AgentDies, SessionSettles,
         SessionLost, RecordArtifact, GateWrites, Write, GateStarts, GateGoesOn,
         Launch, StartupStep, Quit
<1> QED
  BY <1>1, <1>2

LEMMA CurrentKept ==
  ASSUME RInv, Next
  PROVE  EvidenceIsCurrent'
<1> SUFFICES ASSUME NEW v \in Reviews, Standing(v)'
             PROVE  /\ review'[v].evidence.row = row'
                    /\ review'[v].evidence.spent = spent'
                    /\ review'[v].evidence.artifacts <= artifacts'
  BY DEF EvidenceIsCurrent
<1>0. artifacts <= artifacts' /\ artifacts \in Nat /\ artifacts' \in Nat
  BY ArtifactsGrow, TypesKept, BoundsAreNatural DEF RInv, ReviewsGovernTask, TypeOK
<1>1. CASE /\ Standing(v) /\ phase \in {"REVIEW", "DONE"}
           /\ review'[v].evidence = review[v].evidence
  <2>1. review[v].evidence.artifacts \in Nat
    BY BoundsAreNatural DEF RInv, ReviewsGovernTask, TypeOK, ReviewRow, Evidence
  <2> QED
    BY <1>0, <1>1, <2>1, QuietStep DEF RInv, EvidenceHolds, EvidenceIsCurrent
<1>2. CASE \E c \in Calls : /\ BeginReview(c) /\ EvidenceIsStored(read[c])
                            /\ review'[v].evidence = read[c]
  BY <1>0, <1>2 DEF BeginReview, EvidenceIsStored, gatesOnly, sessionVars
<1> QED
  BY <1>1, <1>2, StandsOrBegins

\* Whoever writes is accounted for by the lease or by a RUNNING row, or strays.
LEMMA CodeMoves ==
  ASSUME RInv, Next, ~UNCHANGED worktreeVars
  PROVE  /\ UNCHANGED <<phase, row, review, holders, spent, callVars>>
         /\ strayed => strayed'
         /\ strayed' \/ holders # {} \/ Gates!GateActive
<1>1. CASE \E s \in Sessions : AgentWrites(s)
  BY <1>1 DEF AgentWrites, Write, gateVars, sessionVars
<1>2. CASE \E r \in Runs : GateWrites(r)
  <2>1. PICK r \in Runs : process[r] = "live" /\ Write(row[r] # "RECONCILED")
    BY <1>2 DEF GateWrites
  <2>2. row[r] # "RECONCILED" => row[r] = "RUNNING"
    BY <2>1 DEF RInv, ReviewsGovernTask, Gates!GInv, Gates!TypeOK,
                Gates!VerdictMeansEnded, Gates!CallsAndProcesses,
                Gates!RowStatus, Gates!Terminal
  <2> QED
    BY <2>1, <2>2 DEF Write, Gates!GateActive, gateVars, sessionVars
<1> QED
  BY <1>1, <1>2
     DEF Next, NewCall, AttemptCall, ResumeCall, ReviewCall, CallStep, CallFails,
         TakesWorktree, EnsureBegins, EnsureEnds, ResumeReads, SessionInserted,
         AttemptReturns, RequestReads, RequestCollects, RequestInspects,
         BeginReview, ApproveReads, ApproveInspects, Approve, ChangesRead,
         RequestChanges, AgentDies, SessionSettles, SessionLost, RecordArtifact,
         GateStarts, GateGoesOn, Launch, StartupStep, Quit

LEMMA ReviewedCodeKept ==
  ASSUME RInv, Next
  PROVE  ReviewedCode'
<1> SUFFICES ASSUME NEW v \in Reviews, Standing(v)'
             PROVE  review'[v].evidence.code = code' \/ strayed'
  BY DEF ReviewedCode
<1>1. CASE /\ Standing(v) /\ phase \in {"REVIEW", "DONE"}
           /\ review'[v].evidence = review[v].evidence
  <2>1. review[v].evidence.code = code \/ strayed
    BY <1>1 DEF RInv, EvidenceHolds, ReviewedCode
  <2> QED
    BY <1>1, <2>1, QuietStep, CodeMoves DEF worktreeVars
<1>2. ASSUME NEW c \in Calls, BeginReview(c), EvidenceIsStored(read[c]),
             review'[v].evidence = read[c]
      PROVE  review'[v].evidence.code = code' \/ strayed'
  <2>1. at[c] = "inspected" /\ job[c].kind = "request" /\ holders = {}
        /\ UNCHANGED worktreeVars
    BY <1>2 DEF BeginReview
  <2>2. read[c].code = code \/ strayed
    BY <1>2, <2>1 DEF EvidenceIsStored, RInv, EvidenceHolds, ReadingsAge,
                ReadingAges
  <2> QED
    BY <1>2, <2>1, <2>2 DEF worktreeVars
<1> QED
  BY <1>1, <1>2, StandsOrBegins

-----------------------------------------------------------------------------
(* What a request has read.                                                *)

\* A request that does not move: the store and the Worktree do.
LEMMA ReadingAgesOn ==
  ASSUME RInv, Next, NEW c \in Calls, at[c] # "idle", job[c].kind = "request",
         at'[c] = at[c], read'[c] = read[c]
  PROVE  ReadingAges(c, read[c])'
<1> DEFINE e == read[c]
<1>0. ReadingAges(c, e) /\ holders \cap spent = {} /\ e \in Evidence
  BY DEF RInv, EvidenceHolds, ReadingsAge, ReviewsGovernTask, TypeOK
<1>1. row \in [Runs -> Gates!RowStatus] /\ row' \in [Runs -> Gates!RowStatus]
      /\ e.row \in [Runs -> Gates!RowStatus]
  BY <1>0, TypesKept DEF RInv, ReviewsGovernTask, TypeOK, Gates!TypeOK, Evidence
<1>2. CASE row' # row
  <2>1. /\ UNCHANGED <<holders, spent, worktreeVars>>
        /\ \A r \in Runs : row[r] \in Gates!Terminal => row'[r] = row[r]
        /\ \A r \in Runs : row[r] # "none" => row'[r] # "none"
    BY <1>2, RowsChange, RowsMove DEF RInv, ReviewsGovernTask
  <2>2. ASSUME at[c] \in {"collected", "inspected"}, NEW r \in Runs
        PROVE  e.row[r] # "RUNNING" /\ (e.row[r] # "none" => e.row[r] = row'[r])
    <3>1. e.row[r] # "RUNNING" /\ (e.row[r] # "none" => e.row[r] = row[r])
      BY <1>0, <2>2 DEF ReadingAges
    <3>2. row[r] \in Gates!RowStatus
      BY <1>1
    <3> QED
      BY <2>1, <3>1, <3>2 DEF Gates!RowStatus
  <2>3. ASSUME at[c] = "inspected", e.row # row
        PROVE  e.row # row'
    <3>1. PICK r \in Runs : e.row[r] # row[r]
      BY <1>1, <2>3
    <3>2. e.row[r] = "none" /\ row'[r] # "none"
      BY <1>0, <2>1, <2>3, <3>1 DEF ReadingAges
    <3> QED
      BY <3>2
  <2> QED
    BY <1>0, <2>1, <2>2, <2>3 DEF ReadingAges, worktreeVars
<1>3. CASE row' = row /\ ~UNCHANGED <<holders, spent>>
  <2>1. UNCHANGED worktreeVars /\ \E s : Lease!Acquire(s) \/ Lease!Release(s)
    BY <1>3, LeaseMoves
  <2>2. spent \subseteq spent' /\ (holders' # {} \/ ~(spent' \subseteq spent))
    BY <1>0, <2>1 DEF Lease!Acquire, Lease!Release
  <2>3. at[c] \in {"read", "collected", "inspected"} =>
          e.spent \subseteq spent' /\ (holders' # {} \/ e.spent # spent')
    BY <1>0, <2>2 DEF ReadingAges
  <2> QED
    BY <1>0, <1>3, <2>1, <2>3 DEF ReadingAges, worktreeVars
<1>4. CASE UNCHANGED <<row, holders, spent>> /\ ~UNCHANGED worktreeVars
  <2>1. (strayed => strayed') /\ (strayed' \/ holders # {} \/ Gates!GateActive)
    BY <1>4, CodeMoves
  <2>2. at[c] = "inspected" /\ Gates!GateActive => e.row # row
    BY <1>0 DEF ReadingAges, Gates!GateActive
  <2> QED
    BY <1>0, <1>4, <2>1, <2>2 DEF ReadingAges
<1>5. CASE UNCHANGED <<row, holders, spent, worktreeVars>>
  BY <1>0, <1>5 DEF ReadingAges, worktreeVars
<1> QED
  BY <1>2, <1>3, <1>4, <1>5

LEMMA RequestSteps ==
  ASSUME RInv, NEW c \in Calls, CallStep(c), at'[c] # "idle", job[c].kind = "request"
  PROVE  ReadingAges(c, read[c])'
<1>0. /\ at \in [Calls -> Place] /\ read \in [Calls -> Evidence]
      /\ at[c] # "idle" => ReadingAges(c, read[c])
  BY DEF RInv, ReviewsGovernTask, TypeOK, EvidenceHolds, ReadingsAge
<1>1. CASE TakesWorktree(c) \/ ResumeReads(c) \/ ApproveReads(c) \/ ApproveInspects(c)
           \/ ChangesRead(c) \/ EnsureBegins(c) \/ EnsureEnds(c) \/ SessionInserted(c)
  <2>1. at'[c] = "locked"
    BY <1>0, <1>1
       DEF TakesWorktree, ResumeReads, ApproveReads, ApproveInspects, ChangesRead,
           EnsureBegins, EnsureEnds, SessionInserted, RInv, ReviewsGovernTask,
           CallsHoldLocks
  <2> QED
    BY <2>1 DEF ReadingAges
<1>2. CASE RequestReads(c)
  <2>1. at'[c] = "read" /\ read'[c].spent = spent /\ spent' = spent
    BY <1>0, <1>2 DEF RequestReads, Evidence, sessionVars
  <2> QED
    BY <2>1 DEF ReadingAges
<1>3. CASE RequestCollects(c)
  <2>1. /\ at[c] = "read" /\ at'[c] = "collected"
        /\ read'[c].spent = read[c].spent /\ read'[c].row = row
        /\ UNCHANGED <<spent, row>> /\ ~Gates!GateActive
    BY <1>0, <1>3 DEF RequestCollects, Evidence, gateVars, sessionVars
  <2>2. read[c].spent \subseteq spent
    BY <1>0, <2>1 DEF ReadingAges
  <2> QED
    BY <2>1, <2>2 DEF ReadingAges, Gates!GateActive
<1>4. CASE RequestInspects(c)
  <2>1. /\ at[c] = "collected" /\ at'[c] = "inspected"
        /\ read'[c].spent = read[c].spent /\ read'[c].row = read[c].row
        /\ read'[c].code = code
        /\ UNCHANGED <<spent, row, code>>
    BY <1>0, <1>4 DEF RequestInspects, Evidence, gateVars, sessionVars, worktreeVars
  <2> QED
    BY <1>0, <2>1 DEF ReadingAges
<1>5. ~Return(c)
  BY <1>0 DEF Return
<1> QED
  BY <1>1, <1>2, <1>3, <1>4, <1>5
     DEF CallStep, CallFails, AttemptReturns, BeginReview, Approve, RequestChanges

\* A call moves by its own steps, and ends with its desktop process.
LEMMA CallsMove ==
  ASSUME RInv, Next, NEW c \in Calls, at'[c] # "idle", ~CallStep(c)
  PROVE  \/ at[c] # "idle" /\ at'[c] = at[c] /\ job'[c] = job[c] /\ read'[c] = read[c]
         \/ at'[c] \in {"ensuring", "workflow"} \/ job'[c].kind # "request"
<1>0. at \in [Calls -> Place] /\ job \in [Calls -> Job \cup {<< >>}]
      /\ read \in [Calls -> Evidence]
  BY DEF RInv, ReviewsGovernTask, TypeOK
<1>1. CASE NewCall
  BY <1>0, <1>1 DEF NewCall, AttemptCall, ResumeCall, ReviewCall, Begin
<1>2. CASE \E b \in Calls \ {c} : CallStep(b)
  BY <1>0, <1>2
     DEF CallStep, CallFails, TakesWorktree, EnsureBegins, EnsureEnds,
         ResumeReads, SessionInserted, AttemptReturns, RequestReads,
         RequestCollects, RequestInspects, BeginReview, ApproveReads,
         ApproveInspects, Approve, ChangesRead, RequestChanges, Return
<1>3. CASE \E d \in Desktops : Quit(d)
  BY <1>0, <1>3 DEF Quit
<1>4. CASE UNCHANGED callVars
  BY <1>4 DEF callVars
<1> QED
  BY <1>1, <1>2, <1>3, <1>4
     DEF Next, AgentWrites, AgentDies, SessionSettles, SessionLost,
         RecordArtifact, GateWrites, Write, GateStarts, GateGoesOn, Launch,
         StartupStep

LEMMA ReadingsKept ==
  ASSUME RInv, Next
  PROVE  ReadingsAge'
<1>1. (holders \cap spent = {})'
  <2>1. holders \cap spent = {}
    BY DEF RInv, EvidenceHolds, ReadingsAge
  <2>2. CASE UNCHANGED <<holders, spent>>
    BY <2>1, <2>2
  <2>3. CASE \E s : Lease!Acquire(s) \/ Lease!Release(s)
    BY <2>1, <2>3 DEF Lease!Acquire, Lease!Release
  <2> QED
    BY <2>2, <2>3, LeaseMoves
<1>2. ASSUME NEW c \in Calls, at'[c] # "idle", job'[c].kind = "request"
      PROVE  ReadingAges(c, read[c])'
  <2>1. CASE CallStep(c)
    <3>1. job'[c] = job[c]
      BY <1>2, <2>1
         DEF CallStep, CallFails, TakesWorktree, EnsureBegins, EnsureEnds,
             ResumeReads, SessionInserted, AttemptReturns, RequestReads,
             RequestCollects, RequestInspects, BeginReview, ApproveReads,
             ApproveInspects, Approve, ChangesRead, RequestChanges, Return,
             RInv, ReviewsGovernTask, TypeOK
    <3> QED
      BY <1>2, <2>1, <3>1, RequestSteps
  <2>2. CASE /\ at[c] # "idle" /\ at'[c] = at[c] /\ job'[c] = job[c]
             /\ read'[c] = read[c]
    BY <1>2, <2>2, ReadingAgesOn DEF ReadingAges
  <2>3. CASE at'[c] \in {"ensuring", "workflow"}
    BY <2>3 DEF ReadingAges
  <2> QED
    BY <1>2, <2>1, <2>2, <2>3, CallsMove
<1> QED
  BY <1>1, <1>2 DEF ReadingsAge

-----------------------------------------------------------------------------
(* The invariant.                                                          *)

LEMMA InitRInv == Init => RInv
<1> SUFFICES ASSUME Init PROVE RInv
  OBVIOUS
<1> USE DEF Init, Lease!Init
<1>1. Gates!GInv
  BY NoDesktopFresh
     DEF Gates!GInv, Gates!TypeOK, Gates!VerdictMeansEnded,
         Gates!CallsAndProcesses, Gates!LockIsHeld, Gates!Phase,
         Gates!RowStatus, Gates!Terminal, Gates!Observed
<1>2. TypeOK
  <2>1. [status |-> "none", evidence |-> NoEvidence] \in ReviewRow
    BY NoEvidenceType DEF ReviewRow, Status
  <2>2. ReviewTypes
    <3>1. code \in 0..MaxCode /\ artifacts \in 0..MaxArtifacts
      BY BoundsAreNatural
    <3> QED
      BY <2>1, <3>1 DEF ReviewTypes
  <2>3. CallTypes
    BY NoEvidenceType DEF CallTypes, Place
  <2> QED
    BY <1>1, <2>2, <2>3 DEF TypeOK, Gates!GInv, ReviewTypes, CallTypes
<1>3. CallsHoldLocks
  BY DEF CallsHoldLocks, HoldsWorktree
<1>4. \A v \in Reviews : ~Reviewed(v) /\ ~Pending(v) /\ ~Approved(v)
  BY DEF Reviewed, Pending, Approved
<1>5. PhaseMatchesReviews
  BY <1>4 DEF PhaseMatchesReviews, Legacy, Standing
<1>6. ReviewIsQuiet
  BY DEF ReviewIsQuiet, Gates!GateActive
<1>7. EvidenceIsCurrent /\ ReviewedCode
  BY <1>4 DEF EvidenceIsCurrent, ReviewedCode, Standing
<1>8. ReadingsAge
  BY DEF ReadingsAge
<1> QED
  BY <1>1, <1>2, <1>3, <1>5, <1>6, <1>7, <1>8 DEF RInv, ReviewsGovernTask, EvidenceHolds

LEMMA StepRInv ==
  ASSUME RInv, [Next]_vars
  PROVE  RInv'
<1>1. CASE Next
  BY <1>1, TypesKept, GatesKept, LocksKept, PhaseKept, QuietKept, CurrentKept,
     ReviewedCodeKept, ReadingsKept
     DEF RInv, ReviewsGovernTask, EvidenceHolds
<1>2. CASE UNCHANGED vars
  <2> USE <1>2 DEF vars, gateVars, sessionVars, worktreeVars, callVars
  <2>1. TypeOK' /\ Gates!GInv'
    BY DEF RInv, ReviewsGovernTask, TypeOK, Gates!GInv, Gates!TypeOK,
           Gates!VerdictMeansEnded, Gates!CallsAndProcesses, Gates!LockIsHeld
  <2>2. CallsHoldLocks' /\ ReviewIsQuiet'
    BY DEF RInv, ReviewsGovernTask, CallsHoldLocks, HoldsWorktree, Home,
           ReviewIsQuiet, Gates!GateActive
  <2>3. PhaseMatchesReviews'
    BY DEF RInv, ReviewsGovernTask, PhaseMatchesReviews, Legacy, Reviewed,
           Pending, Approved, Standing
  <2>4. EvidenceIsCurrent' /\ ReviewedCode'
    BY DEF RInv, EvidenceHolds, EvidenceIsCurrent, ReviewedCode, Standing,
           Pending, Approved
  <2>5. ReadingsAge'
    BY DEF RInv, EvidenceHolds, ReadingsAge, ReadingAges
  <2> QED
    BY <2>1, <2>2, <2>3, <2>4, <2>5 DEF RInv, ReviewsGovernTask, EvidenceHolds
<1> QED
  BY <1>1, <1>2

-----------------------------------------------------------------------------
(* The theorems.                                                           *)

\* Whatever calls, gates and desktop processes do, a Task is in REVIEW exactly
\* while a Review of it is pending, it is DONE exactly by an approved one, and
\* in both nothing is accounted to write.
THEOREM ReviewsGovern == Spec => []ReviewsGovernTask
<1>1. Spec => []RInv
  BY InitRInv, StepRInv, PTL DEF Spec
<1> QED
  BY <1>1, PTL DEF RInv

\* What a user decides on, and has decided on, is what the store holds and,
\* unless an unaccounted process wrote, what is in the Worktree.
THEOREM EvidenceIsTrue == Spec => []EvidenceHolds
<1>1. Spec => []RInv
  BY InitRInv, StepRInv, PTL DEF Spec
<1> QED
  BY <1>1, PTL DEF RInv

\* An approval is final: DONE is never left, and the approved Review, its
\* evidence and what it says of the gates and Sessions stay as they are.
ApprovalStands ==
  [][\A v \in Reviews : Approved(v) =>
       /\ phase' = "DONE" /\ Approved(v)'
       /\ review'[v].evidence = review[v].evidence
       /\ UNCHANGED <<holders, spent, row>>]_vars

\* No step of a review, a gate run, a Session or a restart unmakes an approval.
THEOREM ApprovalsStand == Spec => ApprovalStands
<1>1. Spec => []RInv
  BY InitRInv, StepRInv, PTL DEF Spec
<1>2. ASSUME RInv, [Next]_vars
      PROVE  [\A v \in Reviews : Approved(v) =>
                /\ phase' = "DONE" /\ Approved(v)'
                /\ review'[v].evidence = review[v].evidence
                /\ UNCHANGED <<holders, spent, row>>]_vars
  <2> SUFFICES ASSUME Next, NEW v \in Reviews, Approved(v)
               PROVE  /\ phase' = "DONE" /\ Approved(v)'
                      /\ review'[v].evidence = review[v].evidence
                      /\ UNCHANGED <<holders, spent, row>>
    BY <1>2
  <2>1. phase = "DONE" /\ ~Legacy
    BY <1>2 DEF RInv, ReviewsGovernTask, PhaseMatchesReviews, Legacy, Approved, Reviewed
  <2>2. ~Deciding
    BY <1>2, <2>1 DEF Deciding, BeginReview, Approve, RequestChanges
  <2> QED
    BY <1>2, <2>1, <2>2, OnlyCallsDecide, QuietStep DEF Approved
<1> QED
  BY <1>1, <1>2, PTL DEF Spec, ApprovalStands
=============================================================================
