---------------------------- MODULE TaskPlanning ----------------------------
(***************************************************************************)
(* The way of Tasks from BACKLOG to RUNNING: research and its automatic    *)
(* advance, planning, the acceptance of a plan, the start of agents in     *)
(* each phase, the audit log, and the dependencies between Tasks that hold *)
(* agent starts back. Reviews (TaskReviews) appear only by the phases that *)
(* they move.                                                              *)
(*                                                                         *)
(* startTaskResearch, startTaskPlanning, startTaskExecution,               *)
(* recordResearch- Artifact and acceptTaskPlan hold the Task's workflow    *)
(* lock of their desktop process. transitionTask, the automatic advance,   *)
(* createExecution- Artifact and addTaskDependency hold no lock.           *)
(***************************************************************************)
EXTENDS Naturals, FiniteSets

CONSTANTS
  Tasks,
  Sessions,   \* Agent Session ids
  TaskOf,     \* Session -> its Task
  NoSession,  \* a plan that no Session is named for
  Desktops,   \* desktop processes that share the data directory
  Calls,      \* bound: calls of the application that are under way at once
  MaxPlans,   \* bound: Task -> plans recorded for it
  Dependable, \* bound: the dependencies (pairs of Tasks) that users add
  Faulty,     \* bound: the Tasks whose audit row may fail to be stored
  MayQuit     \* bound: the desktop processes that may quit

ASSUME TaskOfType == TaskOf \in [Sessions -> Tasks]
ASSUME NoSessionFresh == NoSession \notin Sessions
ASSUME MaxPlansType == MaxPlans \in [Tasks -> Nat]
ASSUME DependableType == Dependable \subseteq Tasks \X Tasks
ASSUME BoundsType == Faulty \subseteq Tasks /\ MayQuit \subseteq Desktops

VARIABLES
  phase,
  research,       \* Tasks with a RESEARCH artifact
  plan,           \* Task -> its latest PLAN artifact
  accepted,       \* history variable: Task -> the plan that was accepted
  audit,          \* Task -> number of audit rows of BACKLOG -> PLANNING
  edges,          \* <<t, u>>: Task t depends on Task u
  holders, spent, \* the Sessions, as in TaskWriterLease
  started,        \* Session -> the phase its agent was started in
  busy,           \* <<desktop, Task>> whose workflow lock is taken
  at,             \* Call -> where it is
  job,            \* Call -> what it does
  read,           \* Call -> the plan and the Sessions it has read
  raised          \* history variable: an automatic advance has thrown

Lease == INSTANCE TaskWriterLease

taskVars == <<phase, research, plan, accepted, audit>>
leaseVars == <<holders, spent, started>>
callVars == <<busy, at, job, read>>
vars == <<taskVars, edges, leaseVars, callVars, raised>>

Phase == {"BACKLOG", "PLANNING", "RUNNING", "REVIEW", "DONE"}
Starts == {"research", "planning", "execution"}
Transitions == {"begin", "advance"}
Kind == Starts \cup Transitions \cup {"record", "accept", "depend"}
Plan == [number : Nat, session : Sessions \cup {NoSession}]
NoPlan == [number |-> 0, session |-> NoSession]
Job == [kind : Kind, desktop : Desktops, task : Tasks,
        target : Sessions \cup Tasks]
Evidence == [plan : Plan, spent : SUBSET Sessions]
NoEvidence == [plan |-> NoPlan, spent |-> {}]

TypeOK ==
  /\ phase \in [Tasks -> Phase]
  /\ research \subseteq Tasks
  /\ plan \in [Tasks -> Plan]
  /\ accepted \in [Tasks -> Plan]
  /\ audit \in [Tasks -> Nat]
  /\ edges \subseteq Tasks \X Tasks
  /\ holders \subseteq Sessions
  /\ spent \subseteq Sessions
  /\ started \in [Sessions -> Phase \cup {"none"}]
  /\ busy \subseteq Desktops \X Tasks
  /\ at \in [Calls -> {"idle", "called", "ready", "checked", "updated",
                       "starting"}]
  /\ job \in [Calls -> Job \cup {<< >>}]
  /\ read \in [Calls -> Evidence]
  /\ raised \in BOOLEAN

Init ==
  /\ phase = [t \in Tasks |-> "BACKLOG"]
  /\ research = {}
  /\ plan = [t \in Tasks |-> NoPlan]
  /\ accepted = [t \in Tasks |-> NoPlan]
  /\ audit = [t \in Tasks |-> 0]
  /\ edges = {}
  /\ Lease!Init
  /\ started = [s \in Sessions |-> "none"]
  /\ busy = {}
  /\ at = [c \in Calls |-> "idle"]
  /\ job = [c \in Calls |-> << >>]
  /\ read = [c \in Calls |-> NoEvidence]
  /\ raised = FALSE

-----------------------------------------------------------------------------
(* Helpers.                                                                *)

Quiet(t) == \A s \in holders : TaskOf[s] # t
SpentOf(t) == {s \in spent : TaskOf[s] = t}
Unblocked(t) == \A u \in Tasks : <<t, u>> \in edges => phase[u] = "DONE"

\* u reaches t: t is in every set with u that is closed under dependencies.
Closed(S) == \A t \in S, u \in Tasks : <<t, u>> \in edges => u \in S
Reaches(u, t) == \A S \in SUBSET Tasks : u \in S /\ Closed(S) => t \in S

\* createTaskDependency, DUPLICATE and CYCLE.
Addable(t, u) == t # u /\ <<t, u>> \notin edges /\ ~Reaches(u, t)

PhaseFor(kind) == CASE kind = "research" -> "BACKLOG"
                    [] kind = "planning" -> "PLANNING"
                    [] kind = "execution" -> "RUNNING"

Call(c, kind, d, t, target, place) ==
  /\ at[c] = "idle"
  /\ at' = [at EXCEPT ![c] = place]
  /\ job' = [job EXCEPT ![c] = [kind |-> kind, desktop |-> d, task |-> t,
                                target |-> target]]

\* serializeTaskWorkflow.
Lock(d, t) == <<d, t>> \notin busy /\ busy' = busy \cup {<<d, t>>}
Locks(c) == IF job[c].kind \in Starts \cup {"record", "accept"}
            THEN {<<job[c].desktop, job[c].task>>} ELSE {}
Return(c) ==
  /\ at' = [at EXCEPT ![c] = "idle"]
  /\ job' = [job EXCEPT ![c] = << >>]
  /\ read' = [read EXCEPT ![c] = NoEvidence]
  /\ busy' = busy \ Locks(c)

At(c, place, kinds) == at[c] = place /\ job[c].kind \in kinds

-----------------------------------------------------------------------------
(* Agents start: startTaskResearch, startTaskPlanning, startTaskExecution  *)
(* and retryTaskExecution.                                                 *)

\* startTaskResearch does not look at the dependencies.
StartCall(c, kind, d, s) ==
  LET t == TaskOf[s]
  IN /\ kind \in Starts
     /\ phase[t] = PhaseFor(kind)
     /\ kind # "research" => Unblocked(t)
     /\ s \notin holders \cup spent /\ Quiet(t)
     /\ Lock(d, t)
     /\ Call(c, kind, d, t, s, "checked")
     /\ UNCHANGED <<taskVars, edges, leaseVars, read, raised>>

\* Mutant: only the use case looks at the phase.
StartInsertsAnyPhase(c) ==
  LET t == job[c].task
  IN /\ At(c, "checked", Starts)
     /\ Unblocked(t)
     /\ Lease!Acquire(job[c].target)
     /\ started' = [started EXCEPT ![job[c].target] = PhaseFor(job[c].kind)]
     /\ at' = [at EXCEPT ![c] = "starting"]
     /\ UNCHANGED <<taskVars, edges, busy, job, read, raised>>

\* Mutant: only the use case looks at the dependencies.
StartInsertsBlocked(c) ==
  LET t == job[c].task
  IN /\ At(c, "checked", Starts)
     /\ phase[t] = PhaseFor(job[c].kind)
     /\ Lease!Acquire(job[c].target)
     /\ started' = [started EXCEPT ![job[c].target] = PhaseFor(job[c].kind)]
     /\ at' = [at EXCEPT ![c] = "starting"]
     /\ UNCHANGED <<taskVars, edges, busy, job, read, raised>>

\* The insert transaction of the Session repeats the checks.
StartInserts(c) ==
  LET t == job[c].task
  IN /\ At(c, "checked", Starts)
     /\ phase[t] = PhaseFor(job[c].kind)
     /\ Unblocked(t)
     /\ Lease!Acquire(job[c].target)
     /\ started' = [started EXCEPT ![job[c].target] = PhaseFor(job[c].kind)]
     /\ at' = [at EXCEPT ![c] = "starting"]
     /\ UNCHANGED <<taskVars, edges, busy, job, read, raised>>

SessionSettles(s) ==
  /\ Lease!Release(s)
  /\ UNCHANGED <<taskVars, edges, started, callVars, raised>>

-----------------------------------------------------------------------------
(* Research, and the move to PLANNING.                                     *)

\* createExecutionArtifact without a Session.
CreateResearch(t) ==
  /\ phase[t] = "BACKLOG" /\ t \notin research
  /\ research' = research \cup {t}
  /\ UNCHANGED <<phase, plan, accepted, audit, edges, leaseVars, callVars,
                 raised>>

RecordCall(c, d, t) ==
  /\ phase[t] = "BACKLOG"
  /\ \E s \in holders \cup spent :
       TaskOf[s] = t /\ Call(c, "record", d, t, s, "checked")
  /\ Lock(d, t)
  /\ UNCHANGED <<taskVars, edges, leaseVars, read, raised>>

\* recordResearchArtifact inserts the artifact and releases the lock; the
\* automatic advance goes on without it, if the user wants it.
RecordInserts(c) ==
  LET t == job[c].task
  IN /\ At(c, "checked", {"record"})
     /\ phase[t] = "BACKLOG"
     /\ research' = research \cup {t}
     /\ \/ Return(c)
        \/ /\ at' = [at EXCEPT ![c] = "called"]
           /\ job' = [job EXCEPT ![c].kind = "advance"]
           /\ busy' = busy \ Locks(c)
           /\ UNCHANGED read
     /\ UNCHANGED <<phase, plan, accepted, audit, edges, leaseVars, raised>>

CanEnterPlanning(t) == phase[t] = "BACKLOG" /\ t \in research

\* autoAdvanceBacklogTaskAfterResearch reads the Task and the artifact.
AdvanceReads(c) ==
  /\ At(c, "called", {"advance"})
  /\ CanEnterPlanning(job[c].task)
  /\ at' = [at EXCEPT ![c] = "ready"]
  /\ UNCHANGED <<taskVars, edges, leaseVars, busy, job, read, raised>>

\* transitionTask reads them (again).
TransitionReads(c) ==
  /\ At(c, "ready", {"advance"})
  /\ CanEnterPlanning(job[c].task)
  /\ at' = [at EXCEPT ![c] = "checked"]
  /\ UNCHANGED <<taskVars, edges, leaseVars, busy, job, read, raised>>

\* beginTaskPlanning.
BeginCall(c, d, t) ==
  /\ CanEnterPlanning(t)
  /\ Call(c, "begin", d, t, t, "checked")
  /\ UNCHANGED <<taskVars, edges, leaseVars, busy, read, raised>>

\* tasks.update is a compare-and-set on the phase.
TransitionUpdates(c) ==
  /\ At(c, "checked", Transitions)
  /\ phase[job[c].task] = "BACKLOG"
  /\ phase' = [phase EXCEPT ![job[c].task] = "PLANNING"]
  /\ at' = [at EXCEPT ![c] = "updated"]
  /\ UNCHANGED <<research, plan, accepted, audit, edges, leaseVars, busy, job,
                 read, raised>>

\* It throws SqlitePersistenceError when the phase has changed: this is not
\* one of the errors that the automatic advance turns into a result.
TransitionLost(c) ==
  /\ At(c, "checked", Transitions)
  /\ phase[job[c].task] # "BACKLOG"
  /\ raised' = (raised \/ job[c].kind = "advance")
  /\ Return(c)
  /\ UNCHANGED <<taskVars, edges, leaseVars>>

TransitionAudits(c) ==
  /\ At(c, "updated", Transitions)
  /\ audit' = [audit EXCEPT ![job[c].task] = @ + 1]
  /\ Return(c)
  /\ UNCHANGED <<phase, research, plan, accepted, edges, leaseVars, raised>>

AuditFails(c) ==
  /\ At(c, "updated", Transitions)
  /\ job[c].task \in Faulty
  /\ raised' = (raised \/ job[c].kind = "advance")
  /\ Return(c)
  /\ UNCHANGED <<taskVars, edges, leaseVars>>

-----------------------------------------------------------------------------
(* Plans.                                                                  *)

\* Mutant: the insert does not compare the phase.
CreatePlanAnyPhase(t) ==
  /\ phase[t] \in {"PLANNING", "RUNNING"} /\ plan[t].number < MaxPlans[t]
  /\ \E s \in {r \in holders \cup spent : TaskOf[r] = t} \cup {NoSession} :
       plan' = [plan EXCEPT ![t] = [number |-> @.number + 1, session |-> s]]
  /\ UNCHANGED <<phase, research, accepted, audit, edges, leaseVars, callVars,
                 raised>>

\* createExecutionArtifact: the Session is optional, the phase is compared in
\* the insert transaction.
CreatePlan(t) ==
  /\ phase[t] = "PLANNING" /\ plan[t].number < MaxPlans[t]
  /\ \E s \in {r \in holders \cup spent : TaskOf[r] = t} \cup {NoSession} :
       plan' = [plan EXCEPT ![t] = [number |-> @.number + 1, session |-> s]]
  /\ UNCHANGED <<phase, research, accepted, audit, edges, leaseVars, callVars,
                 raised>>

\* acceptTaskPlan checks the latest plan and the Sessions.
AcceptCall(c, d, t) ==
  /\ phase[t] = "PLANNING" /\ Quiet(t)
  /\ plan[t].number > 0 /\ plan[t].session # NoSession
  /\ Lock(d, t)
  /\ Call(c, "accept", d, t, t, "checked")
  /\ read' = [read EXCEPT ![c] = [plan |-> plan[t], spent |-> SpentOf(t)]]
  /\ UNCHANGED <<taskVars, edges, leaseVars, raised>>

\* planning.acceptPlan: one transaction repeats every check.
Accepts(c) ==
  LET t == job[c].task
  IN /\ At(c, "checked", {"accept"})
     /\ phase[t] = "PLANNING" /\ Quiet(t)
     /\ read[c] = [plan |-> plan[t], spent |-> SpentOf(t)]
     /\ phase' = [phase EXCEPT ![t] = "RUNNING"]
     /\ accepted' = [accepted EXCEPT ![t] = plan[t]]
     /\ Return(c)
     /\ UNCHANGED <<research, plan, audit, edges, leaseVars, raised>>

-----------------------------------------------------------------------------
(* Dependencies.                                                           *)

\* addTaskDependency reads the graph of the Project and checks it.
DependCall(c, d, t, u) ==
  /\ <<t, u>> \in Dependable
  /\ Addable(t, u)
  /\ Call(c, "depend", d, t, u, "checked")
  /\ UNCHANGED <<taskVars, edges, leaseVars, busy, read, raised>>

\* Mutant: only the use case looks for cycles.
DependsOnStaleGraph(c) ==
  LET t == job[c].task
      u == job[c].target
  IN /\ At(c, "checked", {"depend"})
     /\ <<t, u>> \notin edges
     /\ edges' = edges \cup {<<t, u>>}
     /\ Return(c)
     /\ UNCHANGED <<taskVars, leaseVars, raised>>

\* The transaction checks the stored graph.
Depends(c) ==
  LET t == job[c].task
      u == job[c].target
  IN /\ At(c, "checked", {"depend"})
     /\ Addable(t, u)
     /\ edges' = edges \cup {<<t, u>>}
     /\ Return(c)
     /\ UNCHANGED <<taskVars, leaseVars, raised>>

RemoveDependency(e) ==
  /\ e \in edges
  /\ edges' = edges \ {e}
  /\ UNCHANGED <<taskVars, leaseVars, callVars, raised>>

-----------------------------------------------------------------------------
(* Ends of calls and of processes, Reviews, and the specification.         *)

\* A check fails, a transaction refuses, or an agent start has returned.
CallReturns(c) ==
  /\ at[c] \in {"called", "ready", "checked", "starting"}
  /\ ~At(c, "checked", Transitions)
  /\ Return(c)
  /\ UNCHANGED <<taskVars, edges, leaseVars, raised>>

\* Mutant: an approval is stored as the phase.
ReviewMovesByDecision(t) ==
  /\ \/ phase[t] = "RUNNING" /\ Quiet(t) /\ phase' = [phase EXCEPT ![t] = "REVIEW"]
     \/ phase[t] = "REVIEW" /\ \E p \in {"RUNNING", "APPROVED"} :
                                 phase' = [phase EXCEPT ![t] = p]
  /\ UNCHANGED <<research, plan, accepted, audit, edges, leaseVars, callVars,
                 raised>>

\* TaskReviews: begin requires that no Session is unsettled.
ReviewMoves(t) ==
  /\ \/ phase[t] = "RUNNING" /\ Quiet(t) /\ phase' = [phase EXCEPT ![t] = "REVIEW"]
     \/ phase[t] = "REVIEW" /\ \E p \in {"RUNNING", "DONE"} :
                                 phase' = [phase EXCEPT ![t] = p]
  /\ UNCHANGED <<research, plan, accepted, audit, edges, leaseVars, callVars,
                 raised>>

\* The calls of the desktop process end.
Quit(d) ==
  LET mine == {c \in Calls : at[c] # "idle" /\ job[c].desktop = d}
  IN /\ d \in MayQuit
     /\ at' = [c \in Calls |-> IF c \in mine THEN "idle" ELSE at[c]]
     /\ job' = [c \in Calls |-> IF c \in mine THEN << >> ELSE job[c]]
     /\ read' = [c \in Calls |-> IF c \in mine THEN NoEvidence ELSE read[c]]
     /\ busy' = {lock \in busy : lock[1] # d}
     /\ UNCHANGED <<taskVars, edges, leaseVars, raised>>

NewCall ==
  \E c \in Calls, d \in Desktops :
    \/ \E kind \in Starts, s \in Sessions : StartCall(c, kind, d, s)
    \/ \E t \in Tasks : RecordCall(c, d, t) \/ BeginCall(c, d, t)
                        \/ AcceptCall(c, d, t)
    \/ \E t, u \in Tasks : DependCall(c, d, t, u)

CallStep(c) ==
  \/ StartInserts(c) \/ RecordInserts(c) \/ AdvanceReads(c)
  \/ TransitionReads(c) \/ TransitionUpdates(c) \/ TransitionLost(c)
  \/ TransitionAudits(c) \/ AuditFails(c)
  \/ Accepts(c) \/ Depends(c) \/ CallReturns(c)

Next ==
  \/ NewCall
  \/ \E c \in Calls : CallStep(c)
  \/ \E s \in Sessions : SessionSettles(s)
  \/ \E t \in Tasks : CreateResearch(t) \/ CreatePlan(t) \/ ReviewMoves(t)
  \/ \E e \in edges : RemoveDependency(e)
  \/ \E d \in Desktops : Quit(d)

Spec == Init /\ [][Next]_vars

-----------------------------------------------------------------------------
(* Properties.                                                             *)

\* Whatever users add and remove at the same time, the dependencies have no
\* cycle: every set of Tasks has one that depends on none of them.
NoCycle ==
  \A S \in (SUBSET Tasks) \ {{}} :
    \E t \in S : \A u \in S : <<t, u>> \notin edges

\* An agent was started for the phase its Task is in; only a research agent
\* may run on into PLANNING.  (acceptPlan and begin wait for agents, transition-
\* Task does not.)
WriterFitsPhase ==
  \A s \in holders :
    LET p == phase[TaskOf[s]]
    IN \/ p = started[s]
       \/ p = "PLANNING" /\ started[s] = "BACKLOG"

\* A Task that went past PLANNING did so on its latest plan, which names a
\* settled Session of the Task; and no later plan can be recorded.
PlanGovernsExecution ==
  \A t \in Tasks :
    phase[t] \in {"RUNNING", "REVIEW", "DONE"} =>
      /\ accepted[t] = plan[t]
      /\ plan[t].session \in SpentOf(t)

\* A Task left BACKLOG with research recorded.
ResearchGovernsPlanning ==
  \A t \in Tasks : phase[t] # "BACKLOG" => t \in research

\* The move out of BACKLOG is audited at most once, and only after it.
AuditedOnce ==
  \A t \in Tasks : audit[t] <= 1 /\ (audit[t] = 1 => phase[t] # "BACKLOG")

\* No agent starts while a dependency of its Task is incomplete, even when the
\* dependency is added while the start is under way.
StartsUnblocked ==
  [][\A s \in holders' \ holders : Unblocked(TaskOf[s])]_holders

\* Not true: the automatic advance never raises (research-orchestrator.ts:64).
AdvanceNeverRaises == ~raised

\* Not true: there is one audit row per phase change that transitionTask has
\* made (task-transition-audit.ts:13-16, SQLite), but for a call that still has
\* to append it.
EveryMoveIsAudited ==
  \A t \in Tasks :
    phase[t] # "BACKLOG" =>
      audit[t] > 0 \/ \E c \in Calls : at[c] = "updated" /\ job[c].task = t

-----------------------------------------------------------------------------
(* The inductive strengthening of the invariants above.                    *)

\* What a call has checked and nobody can take back: the Session it starts is
\* of its Task, research is recorded, a move has yet to be audited, the plan
\* it accepts names a Session.
CallsAreBacked ==
  \A c \in Calls : at[c] # "idle" =>
    /\ job[c] \in Job
    /\ job[c].kind \in Starts =>
         job[c].target \in Sessions /\ TaskOf[job[c].target] = job[c].task
    /\ job[c].kind = "depend" => job[c].target \in Tasks
    /\ at[c] \in {"ready", "checked"} /\ job[c].kind \in Transitions =>
         job[c].task \in research
    /\ job[c].kind = "accept" => read[c].plan.session # NoSession
    /\ at[c] = "updated" =>
         /\ phase[job[c].task] # "BACKLOG"
         /\ audit[job[c].task] = 0
         /\ \A d \in Calls :
              at[d] = "updated" /\ job[d].task = job[c].task => d = c

\* The Session that a plan names is one of its Task.
PlansNameSessions ==
  \A t \in Tasks :
    plan[t].session # NoSession =>
      plan[t].session \in holders \cup spent /\ TaskOf[plan[t].session] = t

StartedInPhase ==
  \A s \in Sessions : started[s] \in {"none", "BACKLOG", "PLANNING", "RUNNING"}

IInv ==
  /\ TypeOK
  /\ CallsAreBacked
  /\ PlansNameSessions
  /\ StartedInPhase
  /\ WriterFitsPhase
  /\ PlanGovernsExecution
  /\ ResearchGovernsPlanning
  /\ AuditedOnce
  /\ NoCycle
=============================================================================
