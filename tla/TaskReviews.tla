----------------------------- MODULE TaskReviews -----------------------------
(***************************************************************************)
(* The Reviews of one Task: requestTaskReview, approveTaskReview and       *)
(* requestTaskChanges against everything that may run beside them: agent   *)
(* attempts, resumed Sessions, Quality Gate runs, new artifacts, and other *)
(* desktop processes that start and quit on the same store.                *)
(*                                                                         *)
(* It composes QualityGates (Gates) and, for the Agent Sessions, the lease *)
(* that their store implements (Lease, TaskWriterLease): holders are the   *)
(* Sessions with an unsettled row, spent those with a settled one.         *)
(*                                                                         *)
(* Each desktop process serializes its calls with two locks per Task, taken*)
(* in the order workflow, Worktree; the store's transactions are what is   *)
(* left between two desktop processes.  Lock queues are first in, first    *)
(* out in the code; here any waiting call may be next.                     *)
(***************************************************************************)
EXTENDS Naturals, FiniteSets

CONSTANTS
  Desktops, Runs, NoDesktop, Outcomes,   \* as in QualityGates
  Sessions,      \* Agent Session ids
  Reviews,       \* Task Review ids
  Calls,         \* bound: calls of the application that are under way at once
  Task,          \* the Task
  MaxCode,       \* bound: versions of the code in the Worktree
  MaxArtifacts,  \* bound: artifacts recorded for the Task
  MayQuit        \* bound: the desktop processes that may quit

ASSUME NoDesktopFresh == NoDesktop \notin Desktops
ASSUME OutcomesType ==
  Outcomes \subseteq {"PASSED", "FAILED", "TIMED_OUT", "LAUNCH_FAILED",
                      "INFRASTRUCTURE_FAILED"}
ASSUME BoundsAreNatural == MaxCode \in Nat /\ MaxArtifacts \in Nat
ASSUME MayQuitType == MayQuit \subseteq Desktops

VARIABLES
  phase, row, process, desktop, listed, worktreeBusy, call, owner,
  verdict,       \* as in QualityGates
  holders, spent,
  agents,        \* Sessions whose agent process is alive
  home,          \* Session -> the desktop process whose coordinator owns it
  found,         \* Desktop -> the unsettled Sessions that its startup found
  code,          \* version of the code in the Task Worktree
  artifacts,     \* number of artifacts recorded
  review,        \* Review -> its row
  workflowBusy,  \* desktops whose workflow lock of the Task is taken
  at,            \* Call -> where it is
  job,           \* Call -> what it does and for whom
  read,          \* Call -> the evidence it has read
  strayed        \* history variable: a process wrote that no row accounts for

Gates == INSTANCE QualityGates WITH Faulty <- {}
Lease == INSTANCE TaskWriterLease WITH
           Tasks <- {Task}, TaskOf <- [s \in Sessions |-> Task]

gateVars == <<row, process, desktop, listed, worktreeBusy, call, owner,
              verdict>>
gatesOnly == <<row, process, desktop, listed, call, owner, verdict>>
sessionVars == <<holders, spent, agents, home, found>>
callVars == <<workflowBusy, at, job, read>>
worktreeVars == <<code, strayed>>
vars == <<phase, gateVars, sessionVars, worktreeVars, artifacts, review,
          callVars>>

Kind == {"attempt", "resume", "request", "approve", "changes"}
Place == {"idle", "workflow", "ensuring", "ensured", "locked", "read",
          "collected", "inspected", "starting"}
Status == {"none", "PENDING", "APPROVED", "CHANGES_REQUESTED"}

\* What a Review stores, and what a call reads to compute it.
Evidence == [spent : SUBSET Sessions,
             row : [Runs -> Gates!RowStatus],
             artifacts : 0..MaxArtifacts,
             code : 0..MaxCode,
             legacy : BOOLEAN]
NoEvidence == [spent |-> {}, row |-> [r \in Runs |-> "none"],
               artifacts |-> 0, code |-> 0, legacy |-> FALSE]
ReviewRow == [status : Status, evidence : Evidence]
Job == [kind : Kind, desktop : Desktops, target : Sessions \cup Reviews]

TypeOK ==
  /\ Gates!TypeOK
  /\ holders \subseteq Sessions
  /\ spent \subseteq Sessions
  /\ agents \subseteq Sessions
  /\ home \in [Sessions -> Desktops \cup {NoDesktop}]
  /\ found \in [Desktops -> SUBSET Sessions]
  /\ code \in 0..MaxCode
  /\ artifacts \in 0..MaxArtifacts
  /\ review \in [Reviews -> ReviewRow]
  /\ workflowBusy \subseteq Desktops
  /\ at \in [Calls -> Place]
  /\ job \in [Calls -> Job \cup {<< >>}]
  /\ read \in [Calls -> Evidence]
  /\ strayed \in BOOLEAN

\* The Task is RUNNING, or it reached REVIEW before Reviews were recorded.
Init ==
  /\ phase \in {"RUNNING", "REVIEW"}
  /\ row = [r \in Runs |-> "none"]
  /\ process = [r \in Runs |-> "none"]
  /\ desktop = [d \in Desktops |-> "down"]
  /\ listed = [d \in Desktops |-> {}]
  /\ worktreeBusy = {}
  /\ call = [r \in Runs |-> "idle"]
  /\ owner = [r \in Runs |-> NoDesktop]
  /\ verdict = [r \in Runs |-> "none"]
  /\ Lease!Init
  /\ agents = {}
  /\ home = [s \in Sessions |-> NoDesktop]
  /\ found = [d \in Desktops |-> {}]
  /\ code = 0
  /\ artifacts = 0
  /\ review = [v \in Reviews |-> [status |-> "none", evidence |-> NoEvidence]]
  /\ workflowBusy = {}
  /\ at = [c \in Calls |-> "idle"]
  /\ job = [c \in Calls |-> << >>]
  /\ read = [c \in Calls |-> NoEvidence]
  /\ strayed = FALSE

-----------------------------------------------------------------------------
(* Calls and their locks.                                                  *)

\* serializeTaskWorkflow; a call on startup is an automatic resume.
Begin(c, kind, d, target) ==
  /\ at[c] = "idle"
  /\ desktop[d] = "up" \/ (kind = "resume" /\ desktop[d] = "starting")
  /\ d \notin workflowBusy
  /\ workflowBusy' = workflowBusy \cup {d}
  /\ job' = [job EXCEPT ![c] = [kind |-> kind, desktop |-> d,
                                target |-> target]]

Home(c) == job[c].desktop
Waits(c, kinds) == at[c] = "workflow" /\ job[c].kind \in kinds

\* serializeTaskWorktreeOperation.
LockWorktree(c) ==
  /\ Home(c) \notin worktreeBusy
  /\ worktreeBusy' = worktreeBusy \cup {Home(c)}
UnlockWorktree(c) == worktreeBusy' = worktreeBusy \ {Home(c)}

\* The call returns or throws: every lock it holds is released.
HoldsWorktree(c) ==
  \/ at[c] = "ensured"
  \/ /\ at[c] \in {"locked", "read", "collected", "inspected", "starting"}
     /\ job[c].kind \notin {"attempt", "changes"}
Return(c) ==
  /\ at' = [at EXCEPT ![c] = "idle"]
  /\ job' = [job EXCEPT ![c] = << >>]
  /\ read' = [read EXCEPT ![c] = NoEvidence]
  /\ workflowBusy' = workflowBusy \ {Home(c)}
  /\ IF HoldsWorktree(c) THEN UnlockWorktree(c) ELSE UNCHANGED worktreeBusy

\* Any check before a transaction may fail: the Worktree is not ready, Git
\* fails, the evidence is too large, a transaction is refused.  A call that
\* waits for the Worktree lock just waits.
CallFails(c) ==
  /\ at[c] \notin {"idle", "workflow", "ensuring"}
  /\ Return(c)
  /\ UNCHANGED <<phase, gatesOnly, sessionVars, worktreeVars, artifacts,
                 review>>

Pending(v) == review[v].status = "PENDING"
Reviewed(v) == review[v].status # "none"

-----------------------------------------------------------------------------
(* Agent attempts: startTaskExecution and retryTaskExecution hold the      *)
(* workflow lock, and the Worktree lock only while the Worktree is ensured;*)
(* resumeTaskSession holds both.                                           *)

Fresh(s) == s \notin holders \cup spent

AttemptCall(c, d, s) ==
  /\ Fresh(s) /\ holders = {} /\ phase = "RUNNING"
  /\ Begin(c, "attempt", d, s)
  /\ at' = [at EXCEPT ![c] = "ensuring"]
  /\ UNCHANGED <<phase, gateVars, sessionVars, worktreeVars, artifacts,
                 review, read>>

EnsureBegins(c) ==
  /\ at[c] = "ensuring"
  /\ LockWorktree(c)
  /\ at' = [at EXCEPT ![c] = "ensured"]
  /\ UNCHANGED <<phase, gatesOnly, sessionVars, worktreeVars, artifacts,
                 review, workflowBusy, job, read>>

\* Mutant: the Worktree lock is not released when the Worktree is ensured.
EnsureEndsLocked(c) ==
  /\ at[c] = "ensured"
  /\ at' = [at EXCEPT ![c] = "inspected"]
  /\ UNCHANGED <<phase, gateVars, sessionVars, worktreeVars, artifacts,
                 review, workflowBusy, job, read>>

EnsureEnds(c) ==
  /\ at[c] = "ensured"
  /\ UnlockWorktree(c)
  /\ at' = [at EXCEPT ![c] = "inspected"]
  /\ UNCHANGED <<phase, gatesOnly, sessionVars, worktreeVars, artifacts,
                 review, workflowBusy, job, read>>

ResumeCall(c, d, s) ==
  /\ Fresh(s) /\ spent # {}
  /\ Begin(c, "resume", d, s)
  /\ at' = [at EXCEPT ![c] = "workflow"]
  /\ UNCHANGED <<phase, gateVars, sessionVars, worktreeVars, artifacts,
                 review, read>>

\* inspectSessionRecovery: no unsettled Session and no RUNNING gate row.
ResumeReads(c) ==
  /\ at[c] = "locked" /\ job[c].kind = "resume"
  /\ holders = {} /\ ~Gates!GateActive /\ phase = "RUNNING"
  /\ at' = [at EXCEPT ![c] = "inspected"]
  /\ UNCHANGED <<phase, gateVars, sessionVars, worktreeVars, artifacts,
                 review, workflowBusy, job, read>>

\* Mutant: the insert transaction does not look at the Task's phase.
SessionInsertedAnyPhase(c) ==
  /\ at[c] = "inspected" /\ job[c].kind \in {"attempt", "resume"}
  /\ Lease!Acquire(job[c].target)
  /\ agents' = agents \cup {job[c].target}
  /\ home' = [home EXCEPT ![job[c].target] = Home(c)]
  /\ at' = [at EXCEPT ![c] = "starting"]
  /\ UNCHANGED <<phase, gateVars, found, worktreeVars, artifacts, review,
                 workflowBusy, job, read>>

\* coordinator.start: the insert transaction of the Session row, which takes
\* the lease and requires the phase, and then the launch of the agent.
SessionInserted(c) ==
  /\ at[c] = "inspected" /\ job[c].kind \in {"attempt", "resume"}
  /\ phase = "RUNNING"
  /\ Lease!Acquire(job[c].target)
  /\ agents' = agents \cup {job[c].target}
  /\ home' = [home EXCEPT ![job[c].target] = Home(c)]
  /\ at' = [at EXCEPT ![c] = "starting"]
  /\ UNCHANGED <<phase, gateVars, found, worktreeVars, artifacts, review,
                 workflowBusy, job, read>>

AgentDies(s) ==
  /\ s \in agents
  /\ agents' = agents \ {s}
  /\ UNCHANGED <<phase, gateVars, holders, spent, home, found, worktreeVars,
                 artifacts, review, callVars>>

\* The desktop process that owns a Session settles it, after the process has
\* ended (SettledMeansStopped of AgentSessions).
SessionSettles(s) ==
  /\ s \in holders \ agents
  /\ home[s] # NoDesktop
  /\ Lease!Release(s)
  /\ UNCHANGED <<phase, gateVars, agents, home, found, worktreeVars, artifacts,
                 review, callVars>>

\* A starting desktop process settles every Session it found: its process is
\* presumed lost, but it may live.
SessionLost(s, d) ==
  /\ desktop[d] = "starting" /\ s \in found[d] \cap holders
  /\ Lease!Release(s)
  /\ UNCHANGED <<phase, gateVars, agents, home, found, worktreeVars, artifacts,
                 review, callVars>>

-----------------------------------------------------------------------------
(* requestTaskReview.                                                      *)

ReviewCall(c, kind, d, v) ==
  /\ kind \in {"request", "approve", "changes"}
  /\ Begin(c, kind, d, v)
  /\ at' = [at EXCEPT ![c] = IF kind = "changes" THEN "locked" ELSE "workflow"]
  /\ UNCHANGED <<phase, gateVars, sessionVars, worktreeVars, artifacts,
                 review, read>>

TakesWorktree(c) ==
  /\ Waits(c, {"resume", "request", "approve"})
  /\ LockWorktree(c)
  /\ at' = [at EXCEPT ![c] = "locked"]
  /\ UNCHANGED <<phase, gatesOnly, sessionVars, worktreeVars, artifacts,
                 review, workflowBusy, job, read>>

Legacy == phase = "REVIEW" /\ \A v \in Reviews : ~Reviewed(v)

\* The Task and the Session history.  (A repeated request of a pending Review
\* returns it and changes nothing.)
RequestReads(c) ==
  /\ at[c] = "locked" /\ job[c].kind = "request"
  /\ ~Reviewed(job[c].target)
  /\ phase = "RUNNING" \/ Legacy
  /\ holders = {}
  /\ read' = [read EXCEPT ![c].spent = spent, ![c].legacy = Legacy]
  /\ at' = [at EXCEPT ![c] = "read"]
  /\ UNCHANGED <<phase, gateVars, sessionVars, worktreeVars, artifacts,
                 review, workflowBusy, job>>

\* The artifacts and the gate runs.
RequestCollects(c) ==
  /\ at[c] = "read" /\ job[c].kind = "request"
  /\ ~Gates!GateActive
  /\ read' = [read EXCEPT ![c].row = row, ![c].artifacts = artifacts]
  /\ at' = [at EXCEPT ![c] = "collected"]
  /\ UNCHANGED <<phase, gateVars, sessionVars, worktreeVars, artifacts,
                 review, workflowBusy, job>>

RequestInspects(c) ==
  /\ at[c] = "collected" /\ job[c].kind = "request"
  /\ read' = [read EXCEPT ![c].code = code]
  /\ at' = [at EXCEPT ![c] = "inspected"]
  /\ UNCHANGED <<phase, gateVars, sessionVars, worktreeVars, artifacts,
                 review, workflowBusy, job>>

\* The evidence of the call is exactly what is stored by now.
EvidenceIsStored(e) ==
  /\ e.spent = spent
  /\ e.row = row
  /\ e.artifacts = artifacts

Stores(v, status, e) ==
  review' = [review EXCEPT ![v] = [status |-> status, evidence |-> e]]

\* Mutant: the evidence is not compared with the stored rows.
BeginReviewWithoutEvidence(c) ==
  LET e == read[c]
      v == job[c].target
  IN /\ at[c] = "inspected" /\ job[c].kind = "request"
     /\ ~Reviewed(v)
     /\ IF e.legacy THEN Legacy ELSE phase = "RUNNING"
     /\ holders = {}
     /\ ~Gates!GateActive
     /\ \A w \in Reviews : ~Pending(w)
     /\ e.spent = spent
     /\ Stores(v, "PENDING", e)
     /\ phase' = "REVIEW"
     /\ Return(c)
     /\ UNCHANGED <<gatesOnly, sessionVars, worktreeVars, artifacts>>

\* reviews.begin: one transaction repeats every check.
BeginReview(c) ==
  LET e == read[c]
      v == job[c].target
  IN /\ at[c] = "inspected" /\ job[c].kind = "request"
     /\ ~Reviewed(v)
     /\ IF e.legacy THEN Legacy ELSE phase = "RUNNING"
     /\ holders = {}
     /\ ~Gates!GateActive
     /\ \A w \in Reviews : ~Pending(w)
     /\ EvidenceIsStored(e)
     /\ Stores(v, "PENDING", e)
     /\ phase' = "REVIEW"
     /\ Return(c)
     /\ UNCHANGED <<gatesOnly, sessionVars, worktreeVars, artifacts>>

-----------------------------------------------------------------------------
(* approveTaskReview and requestTaskChanges.                               *)

ApproveReads(c) ==
  /\ at[c] = "locked" /\ job[c].kind = "approve"
  /\ phase = "REVIEW" /\ Pending(job[c].target)
  /\ holders = {}
  /\ at' = [at EXCEPT ![c] = "read"]
  /\ UNCHANGED <<phase, gateVars, sessionVars, worktreeVars, artifacts,
                 review, workflowBusy, job, read>>

\* The code is inspected again and must be the code of the Review.
ApproveInspects(c) ==
  /\ at[c] = "read" /\ job[c].kind = "approve"
  /\ code = review[job[c].target].evidence.code
  /\ at' = [at EXCEPT ![c] = "inspected"]
  /\ UNCHANGED <<phase, gateVars, sessionVars, worktreeVars, artifacts,
                 review, workflowBusy, job, read>>

Decides(v, status) == review' = [review EXCEPT ![v].status = status]

\* reviews.decide, APPROVED.
Approve(c) ==
  LET v == job[c].target
  IN /\ at[c] = "inspected" /\ job[c].kind = "approve"
     /\ ~Gates!GateActive
     /\ phase = "REVIEW" /\ Pending(v)
     /\ Decides(v, "APPROVED")
     /\ phase' = "DONE"
     /\ Return(c)
     /\ UNCHANGED <<gatesOnly, sessionVars, worktreeVars, artifacts>>

ChangesRead(c) ==
  /\ at[c] = "locked" /\ job[c].kind = "changes"
  /\ phase = "REVIEW" /\ Pending(job[c].target)
  /\ at' = [at EXCEPT ![c] = "inspected"]
  /\ UNCHANGED <<phase, gateVars, sessionVars, worktreeVars, artifacts,
                 review, workflowBusy, job, read>>

\* reviews.decide, CHANGES_REQUESTED.
RequestChanges(c) ==
  LET v == job[c].target
  IN /\ at[c] = "inspected" /\ job[c].kind = "changes"
     /\ phase = "REVIEW" /\ Pending(v)
     /\ Decides(v, "CHANGES_REQUESTED")
     /\ phase' = "RUNNING"
     /\ Return(c)
     /\ UNCHANGED <<gatesOnly, sessionVars, worktreeVars, artifacts>>

\* coordinator.start has returned.
AttemptReturns(c) ==
  /\ at[c] = "starting"
  /\ Return(c)
  /\ UNCHANGED <<phase, gatesOnly, sessionVars, worktreeVars, artifacts,
                 review>>

-----------------------------------------------------------------------------
(* What goes on beside the calls.                                          *)

\* createExecutionArtifact takes no lock.  Every phase has a kind of artifact
\* (execution summary, review, and the notes of any phase).
RecordArtifact ==
  /\ \E d \in Desktops : desktop[d] = "up"
  /\ artifacts < MaxArtifacts
  /\ artifacts' = artifacts + 1
  /\ UNCHANGED <<phase, gateVars, sessionVars, worktreeVars, review, callVars>>

\* Agents and gates write in the Worktree while they live.
Write(accounted) ==
  /\ code < MaxCode
  /\ code' = code + 1
  /\ strayed' = (strayed \/ ~accounted)
  /\ UNCHANGED <<phase, gateVars, sessionVars, artifacts, review, callVars>>

AgentWrites(s) == s \in agents /\ Write(s \in holders)
GateWrites(r) == process[r] = "live" /\ Write(row[r] # "RECONCILED")

GateStarts(r) ==
  /\ \E d \in Desktops : Gates!GateCall(r, d)
  /\ UNCHANGED <<phase, sessionVars, worktreeVars, artifacts, review, callVars>>

GateGoesOn(r) ==
  /\ Gates!CallStep(r) \/ Gates!GateEnds(r)
  /\ UNCHANGED <<phase, sessionVars, worktreeVars, artifacts, review, callVars>>

\* Startup lists the unsettled Sessions once, restores and resumes them, and
\* reconciles the gate rows after that.
Launch(d) ==
  /\ Gates!Launch(d)
  /\ found' = [found EXCEPT ![d] = holders]
  /\ UNCHANGED <<phase, holders, spent, agents, home, worktreeVars, artifacts,
                 review, callVars>>

StartupStep(d) ==
  /\ Gates!StartupStep(d)
  /\ desktop[d] = "starting" =>
       /\ found[d] \cap holders = {}
       /\ \A c \in Calls : at[c] # "idle" => Home(c) # d
  /\ UNCHANGED <<phase, sessionVars, worktreeVars, artifacts, review, callVars>>

\* The calls of the desktop process end; its agents and gates do not.
Quit(d) ==
  LET mine == {c \in Calls : at[c] # "idle" /\ Home(c) = d}
  IN /\ d \in MayQuit
     /\ Gates!Quit(d)
     /\ at' = [c \in Calls |-> IF c \in mine THEN "idle" ELSE at[c]]
     /\ job' = [c \in Calls |-> IF c \in mine THEN << >> ELSE job[c]]
     /\ read' = [c \in Calls |-> IF c \in mine THEN NoEvidence ELSE read[c]]
     /\ workflowBusy' = workflowBusy \ {d}
     /\ home' = [s \in Sessions |-> IF home[s] = d THEN NoDesktop ELSE home[s]]
     /\ found' = [found EXCEPT ![d] = {}]
     /\ UNCHANGED <<phase, holders, spent, agents, worktreeVars, artifacts,
                    review>>

-----------------------------------------------------------------------------
(* Specification.                                                          *)

CallStep(c) ==
  \/ CallFails(c) \/ TakesWorktree(c)
  \/ EnsureBegins(c) \/ EnsureEnds(c) \/ ResumeReads(c)
  \/ SessionInserted(c) \/ AttemptReturns(c)
  \/ RequestReads(c) \/ RequestCollects(c) \/ RequestInspects(c)
  \/ BeginReview(c)
  \/ ApproveReads(c) \/ ApproveInspects(c) \/ Approve(c)
  \/ ChangesRead(c) \/ RequestChanges(c)

NewCall ==
  \E c \in Calls, d \in Desktops :
    \/ \E s \in Sessions : AttemptCall(c, d, s) \/ ResumeCall(c, d, s)
    \/ \E kind \in Kind, v \in Reviews : ReviewCall(c, kind, d, v)

Next ==
  \/ NewCall
  \/ \E c \in Calls : CallStep(c)
  \/ \E s \in Sessions : AgentWrites(s) \/ AgentDies(s) \/ SessionSettles(s)
  \/ \E s \in Sessions, d \in Desktops : SessionLost(s, d)
  \/ RecordArtifact
  \/ \E r \in Runs : GateWrites(r) \/ GateStarts(r) \/ GateGoesOn(r)
  \/ \E d \in Desktops : Launch(d) \/ StartupStep(d) \/ Quit(d)

Spec == Init /\ [][Next]_vars

\* Calls go on, and so do gates: their hosts end them at the timeout.  A call
\* that waits for the Worktree lock gets it even when others take it again and
\* again, because the lock is a queue.
Fairness ==
  /\ \A c \in Calls : /\ WF_vars(CallStep(c))
                      /\ SF_vars(EnsureBegins(c))
                      /\ SF_vars(TakesWorktree(c))
  /\ \A r \in Runs : WF_vars(GateGoesOn(r))

FairSpec == Spec /\ Fairness

-----------------------------------------------------------------------------
(* Properties.                                                             *)

Approved(v) == review[v].status = "APPROVED"
Standing(v) == Pending(v) \/ Approved(v)

\* The phase of the Task and its Reviews move together: a pending Review
\* exactly in REVIEW, an approved one exactly in DONE, and only one of them.
PhaseMatchesReviews ==
  /\ phase = "REVIEW" => Legacy \/ \E v \in Reviews : Pending(v)
  /\ phase = "DONE" => \E v \in Reviews : Approved(v)
  /\ \A v \in Reviews :
       /\ Pending(v) => phase = "REVIEW"
       /\ Approved(v) => phase = "DONE"
  /\ \A v, w \in Reviews : Standing(v) /\ Standing(w) => v = w

\* Nothing may write while a Task is reviewed and after it is done: the store
\* has no unsettled Session and no RUNNING gate row.
ReviewIsQuiet ==
  phase \in {"REVIEW", "DONE"} => holders = {} /\ ~Gates!GateActive

\* The evidence that a user decides on is still what the store holds.
EvidenceIsCurrent ==
  \A v \in Reviews :
    Standing(v) => /\ review[v].evidence.row = row
                   /\ review[v].evidence.spent = spent
                   /\ review[v].evidence.artifacts <= artifacts

\* The code in the Worktree is the code of the Review, unless a process wrote
\* that outlived the desktop process accounting for it.
ReviewedCode ==
  \A v \in Reviews : Standing(v) => review[v].evidence.code = code \/ strayed

\* A call that is under way has its job and holds the workflow lock of its
\* desktop alone, and the Worktree lock, when it holds it, neither with
\* another call nor with a gate.
CallsHoldLocks ==
  \A c \in Calls :
    /\ at[c] = "idle" <=> job[c] = << >>
    /\ at[c] # "idle" =>
         /\ job[c].target \in
              IF job[c].kind \in {"attempt", "resume"} THEN Sessions ELSE Reviews
         /\ Home(c) \in workflowBusy
         /\ \A b \in Calls : at[b] # "idle" /\ Home(b) = Home(c) => b = c
    /\ at[c] \in {"ensuring", "ensured"} => job[c].kind = "attempt"
    /\ HoldsWorktree(c) =>
         /\ Home(c) \in worktreeBusy
         /\ \A r \in Runs : call[r] # "idle" => owner[r] # Home(c)

\* The Task, its Reviews, its writers and its locks agree, whoever quits.
ReviewsGovernTask ==
  /\ TypeOK
  /\ Gates!GInv
  /\ CallsHoldLocks
  /\ PhaseMatchesReviews
  /\ ReviewIsQuiet

\* What a request has read is still so, or the store tells: Sessions do not
\* become unspent, a settled row is final, and whoever may have written after
\* the inspection has left a row behind that the request did not read.
ReadingAges(c, e) ==
  /\ at[c] \in {"read", "collected", "inspected"} => e.spent \subseteq spent
  /\ at[c] \in {"collected", "inspected"} =>
       \A r \in Runs : /\ e.row[r] # "RUNNING"
                       /\ e.row[r] # "none" => e.row[r] = row[r]
  /\ at[c] = "inspected" =>
       \/ e.code = code \/ strayed
       \/ holders # {} \/ e.spent # spent \/ e.row # row

ReadingsAge ==
  /\ holders \cap spent = {}
  /\ \A c \in Calls :
       at[c] # "idle" /\ job[c].kind = "request" => ReadingAges(c, read[c])

\* What a decision rests on is what the store and the Worktree hold.
EvidenceHolds == EvidenceIsCurrent /\ ReviewedCode /\ ReadingsAge

-----------------------------------------------------------------------------
(* Not true.                                                               *)

\* Not true: "Startup recovery must settle lost ownership before launching a
\* replacement" (docs/session-recovery-reliability.md). A second desktop process
\* takes the live Session of the first for lost, settles it and resumes the Task:
\* two agents work in one Worktree, though the store has one writer at a time.
AgentsDoNotOverlap == Cardinality(agents) <= 1

-----------------------------------------------------------------------------
(* Liveness.                                                               *)

\* Every call gets its locks and returns.
EveryCallReturns == \A c \in Calls : at[c] # "idle" ~> at[c] = "idle"
=============================================================================
