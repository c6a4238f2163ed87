------------------------- MODULE TaskPlanning_proof -------------------------
(***************************************************************************)
(* Theorems about TaskPlanning, for any number of Tasks, Sessions, desktop *)
(* processes and calls, and any bounds.                                    *)
(***************************************************************************)
EXTENDS TaskPlanning, TLAPS

\* What the invariant says of Tasks, Sessions and artifacts.
TasksFit ==
  /\ PlansNameSessions
  /\ StartedInPhase
  /\ WriterFitsPhase
  /\ PlanGovernsExecution
  /\ ResearchGovernsPlanning
  /\ AuditedOnce

LEMMA InitIInv == Init => IInv
<1> SUFFICES ASSUME Init PROVE IInv
  OBVIOUS
<1> USE DEF Init, Lease!Init
<1>1. TypeOK
  <2>1. NoPlan \in Plan /\ NoEvidence \in Evidence
    BY DEF NoPlan, Plan, NoEvidence, Evidence
  <2> QED
    BY <2>1 DEF TypeOK, Phase
<1>2. CallsAreBacked
  BY DEF CallsAreBacked
<1>3. PlansNameSessions /\ StartedInPhase /\ WriterFitsPhase
  BY DEF PlansNameSessions, StartedInPhase, WriterFitsPhase, NoPlan
<1>4. PlanGovernsExecution /\ ResearchGovernsPlanning /\ AuditedOnce
  BY DEF PlanGovernsExecution, ResearchGovernsPlanning, AuditedOnce
<1>5. NoCycle
  BY DEF NoCycle
<1> QED
  BY <1>1, <1>2, <1>3, <1>4, <1>5 DEF IInv

\* Steps that change only calls and locks keep what is said of Tasks.
LEMMA TasksUnchanged ==
  ASSUME IInv, UNCHANGED <<taskVars, edges, leaseVars>>
  PROVE  TasksFit' /\ NoCycle'
BY DEF IInv, TasksFit, PlansNameSessions, StartedInPhase, WriterFitsPhase,
       PlanGovernsExecution, ResearchGovernsPlanning, AuditedOnce, NoCycle,
       SpentOf, taskVars, leaseVars

LEMMA ReturnType ==
  ASSUME TypeOK, NEW c \in Calls, Return(c)
  PROVE  /\ busy' \subseteq Desktops \X Tasks
         /\ at' \in [Calls -> {"idle", "called", "ready", "checked", "updated", "starting"}]
         /\ job' \in [Calls -> Job \cup {<< >>}]
         /\ read' \in [Calls -> Evidence]
<1>1. NoEvidence \in Evidence
  BY DEF NoPlan, Plan, NoEvidence, Evidence
<1> QED
  BY <1>1 DEF TypeOK, Return

\* A call that returns leaves the others as they are.
LEMMA ReturnBacked ==
  ASSUME IInv, NEW c \in Calls, Return(c), research \subseteq research',
         \A d \in Calls \ {c} : at[d] = "updated" =>
           /\ phase'[job[d].task] # "BACKLOG"
           /\ audit'[job[d].task] = audit[job[d].task]
  PROVE  CallsAreBacked'
BY DEF IInv, TypeOK, CallsAreBacked, Return

-----------------------------------------------------------------------------
(* Calls begin, go on and end.                                             *)

LEMMA CallBegins ==
  ASSUME IInv, NewCall
  PROVE  IInv'
<1> USE DEF IInv
<1>1. PICK c \in Calls, d \in Desktops :
        \/ \E kind \in Starts, s \in Sessions : StartCall(c, kind, d, s)
        \/ \E t \in Tasks : RecordCall(c, d, t) \/ BeginCall(c, d, t)
                            \/ AcceptCall(c, d, t)
        \/ \E t, u \in Tasks : DependCall(c, d, t, u)
  BY DEF NewCall
<1>2. UNCHANGED <<taskVars, edges, leaseVars, raised>>
  BY <1>1 DEF StartCall, RecordCall, BeginCall, AcceptCall, DependCall
<1>3. PICK kind \in Kind, task \in Tasks, target \in Sessions \cup Tasks :
        /\ Call(c, kind, d, task, target, "checked")
        /\ kind \in Starts => target \in Sessions /\ TaskOf[target] = task
        /\ kind = "depend" => target \in Tasks
        /\ kind \in Transitions => task \in research
        /\ kind = "accept" => read'[c].plan.session # NoSession
  <2>1. CASE \E k \in Starts, s \in Sessions : StartCall(c, k, d, s)
    BY <2>1, TaskOfType DEF StartCall, Kind, Starts, Transitions
  <2>2. CASE \E t \in Tasks : RecordCall(c, d, t)
    BY <2>2 DEF RecordCall, Kind, Starts, Transitions, TypeOK
  <2>3. CASE \E t \in Tasks : BeginCall(c, d, t)
    BY <2>3 DEF BeginCall, CanEnterPlanning, Kind, Starts, Transitions
  <2>4. CASE \E t \in Tasks : AcceptCall(c, d, t)
    BY <2>4 DEF AcceptCall, Kind, Starts, Transitions, TypeOK
  <2>5. CASE \E t, u \in Tasks : DependCall(c, d, t, u)
    BY <2>5 DEF DependCall, Kind, Starts, Transitions
  <2> QED
    BY <1>1, <2>1, <2>2, <2>3, <2>4, <2>5
<1>4. read' \in [Calls -> Evidence] /\ \A b \in Calls \ {c} : read'[b] = read[b]
  <2>1. CASE \E t \in Tasks : AcceptCall(c, d, t)
    BY <2>1 DEF AcceptCall, TypeOK, Evidence, SpentOf
  <2>2. CASE UNCHANGED read
    BY <2>2 DEF TypeOK
  <2> QED
    BY <1>1, <2>1, <2>2 DEF StartCall, RecordCall, BeginCall, DependCall
<1>5. busy' \subseteq Desktops \X Tasks
  <2>1. CASE \E t \in Tasks : Lock(d, t)
    BY <2>1 DEF Lock, TypeOK
  <2>2. CASE UNCHANGED busy
    BY <2>2 DEF TypeOK
  <2> QED
    BY <1>1, <2>1, <2>2, TaskOfType
       DEF StartCall, RecordCall, BeginCall, AcceptCall, DependCall
<1>6. [kind |-> kind, desktop |-> d, task |-> task, target |-> target] \in Job
  BY <1>3 DEF Job
<1>7. TypeOK'
  BY <1>2, <1>3, <1>4, <1>5, <1>6 DEF TypeOK, Call, taskVars, leaseVars
<1>8. CallsAreBacked'
  BY <1>2, <1>3, <1>4, <1>6
     DEF TypeOK, CallsAreBacked, Call, taskVars, leaseVars
<1> QED
  BY <1>2, <1>7, <1>8, TasksUnchanged DEF TasksFit

\* A call only reads, or ends.
LEMMA CallReads ==
  ASSUME IInv, NEW c \in Calls, AdvanceReads(c) \/ TransitionReads(c)
  PROVE  IInv'
<1> USE DEF IInv, AdvanceReads, TransitionReads, At
<1>1. TypeOK'
  BY DEF TypeOK, taskVars, leaseVars
<1>2. CallsAreBacked'
  <2>1. at[c] # "idle" /\ at'[c] # "updated" /\ job[c].task \in research
    BY DEF TypeOK, CanEnterPlanning
  <2>2. \A b \in Calls \ {c} : at'[b] = at[b]
    BY DEF TypeOK
  <2>3. UNCHANGED <<phase, research, audit, job, read>>
    BY DEF taskVars
  <2> QED
    BY <2>1, <2>2, <2>3 DEF CallsAreBacked
<1> QED
  BY <1>1, <1>2, TasksUnchanged DEF TasksFit

LEMMA CallEnds ==
  ASSUME IInv, NEW c \in Calls,
         CallReturns(c) \/ TransitionLost(c) \/ AuditFails(c)
  PROVE  IInv'
<1>1. UNCHANGED <<taskVars, edges, leaseVars>> /\ Return(c) /\ raised' \in BOOLEAN
  BY DEF CallReturns, TransitionLost, AuditFails, IInv, TypeOK
<1>2. TypeOK'
  BY <1>1, ReturnType DEF IInv, TypeOK, taskVars, leaseVars
<1>3. CallsAreBacked'
  <2>1. \A d \in Calls : at[d] = "updated" => phase[job[d].task] # "BACKLOG"
    BY DEF IInv, CallsAreBacked
  <2> QED
    BY <1>1, <2>1, ReturnBacked DEF taskVars
<1> QED
  BY <1>1, <1>2, <1>3, TasksUnchanged DEF IInv, TasksFit

LEMMA ProcessQuits ==
  ASSUME IInv, NEW d \in Desktops, Quit(d)
  PROVE  IInv'
<1> USE DEF IInv, Quit
<1>1. NoEvidence \in Evidence
  BY DEF NoPlan, Plan, NoEvidence, Evidence
<1>2. TypeOK'
  BY <1>1 DEF TypeOK, taskVars, leaseVars
<1>3. CallsAreBacked'
  BY DEF TypeOK, CallsAreBacked, taskVars
<1> QED
  BY <1>2, <1>3, TasksUnchanged DEF TasksFit

-----------------------------------------------------------------------------
(* Research, and the move to PLANNING.                                     *)

LEMMA ResearchGrows ==
  ASSUME IInv, research \subseteq research',
         UNCHANGED <<phase, plan, accepted, audit, edges, leaseVars>>
  PROVE  TasksFit' /\ NoCycle'
BY DEF IInv, TasksFit, PlansNameSessions, StartedInPhase, WriterFitsPhase,
       PlanGovernsExecution, ResearchGovernsPlanning, AuditedOnce, NoCycle,
       SpentOf, leaseVars

LEMMA ResearchCreated ==
  ASSUME IInv, NEW t \in Tasks, CreateResearch(t)
  PROVE  IInv'
<1> USE DEF IInv, CreateResearch
<1>1. TypeOK'
  BY DEF TypeOK, leaseVars, callVars
<1>2. CallsAreBacked'
  BY DEF CallsAreBacked, callVars
<1> QED
  BY <1>1, <1>2, ResearchGrows DEF TasksFit

LEMMA ResearchRecorded ==
  ASSUME IInv, NEW c \in Calls, RecordInserts(c)
  PROVE  IInv'
<1> USE DEF IInv, RecordInserts, At
<1>1. job[c] \in Job
  BY DEF CallsAreBacked
<1>2. research' \subseteq Tasks /\ research \subseteq research'
  BY <1>1 DEF TypeOK, Job
<1>3. CASE Return(c)
  <2>1. TypeOK'
    BY <1>2, <1>3, ReturnType DEF TypeOK, leaseVars
  <2>2. CallsAreBacked'
    BY <1>2, <1>3, ReturnBacked DEF CallsAreBacked
  <2> QED
    BY <1>2, <2>1, <2>2, ResearchGrows DEF TasksFit
<1>4. CASE /\ at' = [at EXCEPT ![c] = "called"]
           /\ job' = [job EXCEPT ![c].kind = "advance"]
           /\ busy' = busy \ Locks(c)
           /\ UNCHANGED read
  <2>1. job'[c] = [job[c] EXCEPT !.kind = "advance"] /\ job'[c] \in Job
    BY <1>1, <1>4 DEF TypeOK, Job, Kind, Transitions
  <2>2. job' \in [Calls -> Job \cup {<< >>}]
    BY <1>4, <2>1 DEF TypeOK
  <2>3. TypeOK'
    BY <1>2, <1>4, <2>2 DEF TypeOK, leaseVars
  <2>4. CallsAreBacked'
    BY <1>1, <1>2, <1>4, <2>1 DEF TypeOK, CallsAreBacked, Starts, Transitions, Job
  <2> QED
    BY <1>2, <2>3, <2>4, ResearchGrows DEF TasksFit
<1> QED
  BY <1>3, <1>4

LEMMA PhaseMoves ==
  ASSUME IInv, NEW c \in Calls, TransitionUpdates(c)
  PROVE  IInv'
<1> DEFINE t == job[c].task
<1> USE DEF IInv, TransitionUpdates, At
<1>1. job[c] \in Job /\ t \in Tasks /\ t \in research
  BY DEF CallsAreBacked, Job
<1>2. phase[t] = "BACKLOG" /\ phase' = [phase EXCEPT ![t] = "PLANNING"]
  OBVIOUS
<1>3. audit[t] = 0
  <2>1. audit[t] \in Nat /\ audit[t] <= 1 /\ audit[t] # 1
    BY <1>1, <1>2 DEF AuditedOnce, TypeOK
  <2> QED
    BY <2>1
<1>4. \A d \in Calls : at[d] = "updated" => job[d].task # t
  BY <1>2 DEF CallsAreBacked
<1>5. TypeOK'
  BY <1>1, <1>2 DEF TypeOK, Phase, leaseVars
<1>6. CallsAreBacked'
  <2>1. at'[c] = "updated" /\ \A b \in Calls \ {c} : at'[b] = at[b]
    BY DEF TypeOK
  <2>2. phase'[t] # "BACKLOG" /\ \A u \in Tasks \ {t} : phase'[u] = phase[u]
    BY <1>1, <1>2 DEF TypeOK
  <2>3. job' = job /\ read' = read /\ audit' = audit /\ research' = research
    OBVIOUS
  <2> QED
    BY <1>1, <1>3, <1>4, <2>1, <2>2, <2>3 DEF CallsAreBacked, Job
<1>7. WriterFitsPhase'
  BY <1>1, <1>2 DEF WriterFitsPhase, leaseVars, TypeOK
<1>8. PlansNameSessions' /\ StartedInPhase' /\ NoCycle'
  BY DEF PlansNameSessions, StartedInPhase, NoCycle, leaseVars
<1>9. PlanGovernsExecution'
  BY <1>1, <1>2 DEF PlanGovernsExecution, SpentOf, TypeOK, leaseVars
<1>10. ResearchGovernsPlanning' /\ AuditedOnce'
  BY <1>1, <1>2, <1>3 DEF ResearchGovernsPlanning, AuditedOnce, TypeOK
<1> QED
  BY <1>5, <1>6, <1>7, <1>8, <1>9, <1>10

LEMMA MoveAudited ==
  ASSUME IInv, NEW c \in Calls, TransitionAudits(c)
  PROVE  IInv'
<1> DEFINE t == job[c].task
<1> USE DEF IInv, TransitionAudits, At
<1>1. job[c] \in Job /\ t \in Tasks /\ audit[t] = 0 /\ phase[t] # "BACKLOG"
  BY DEF CallsAreBacked, Job
<1>2. audit' = [audit EXCEPT ![t] = 1]
  BY <1>1
<1>3. TypeOK'
  <2>1. UNCHANGED <<phase, research, plan, accepted, edges, leaseVars, raised>>
        /\ Return(c) /\ TypeOK
    OBVIOUS
  <2> HIDE DEF IInv, TransitionAudits
  <2>2. audit' \in [Tasks -> Nat]
    BY <1>2, <2>1 DEF TypeOK
  <2> QED
    BY <2>1, <2>2, ReturnType DEF TypeOK, leaseVars
<1>4. CallsAreBacked'
  <2>1. \A d \in Calls \ {c} : at[d] = "updated" =>
          phase[job[d].task] # "BACKLOG" /\ audit'[job[d].task] = audit[job[d].task]
    BY <1>2 DEF CallsAreBacked, TypeOK, Job
  <2> QED
    BY <2>1, ReturnBacked
<1>5. AuditedOnce'
  BY <1>1, <1>2 DEF AuditedOnce, TypeOK
<1>6. PlansNameSessions' /\ StartedInPhase' /\ WriterFitsPhase'
      /\ PlanGovernsExecution' /\ ResearchGovernsPlanning' /\ NoCycle'
  BY DEF PlansNameSessions, StartedInPhase, WriterFitsPhase, NoCycle,
         PlanGovernsExecution, ResearchGovernsPlanning, SpentOf, leaseVars
<1> QED
  BY <1>3, <1>4, <1>5, <1>6

-----------------------------------------------------------------------------
(* Plans and Reviews.                                                      *)

LEMMA PlanCreated ==
  ASSUME IInv, NEW t \in Tasks, CreatePlan(t)
  PROVE  IInv'
<1> USE DEF IInv, CreatePlan
<1>1. PICK s \in {r \in holders \cup spent : TaskOf[r] = t} \cup {NoSession} :
        plan' = [plan EXCEPT ![t] = [number |-> plan[t].number + 1, session |-> s]]
  OBVIOUS
<1>2. plan'[t].session = s /\ \A u \in Tasks \ {t} : plan'[u] = plan[u]
  BY <1>1 DEF TypeOK
<1>3. [number |-> plan[t].number + 1, session |-> s] \in Plan
  BY DEF TypeOK, Plan
<1>4. TypeOK'
  BY <1>1, <1>3 DEF TypeOK, leaseVars, callVars
<1>5. CallsAreBacked'
  BY DEF CallsAreBacked, callVars
<1>6. PlansNameSessions'
  BY <1>2, NoSessionFresh DEF PlansNameSessions, leaseVars
<1>7. PlanGovernsExecution'
  BY <1>2 DEF PlanGovernsExecution, SpentOf, leaseVars
<1>8. StartedInPhase' /\ WriterFitsPhase' /\ ResearchGovernsPlanning'
      /\ AuditedOnce' /\ NoCycle'
  BY DEF StartedInPhase, WriterFitsPhase, ResearchGovernsPlanning, AuditedOnce,
         NoCycle, leaseVars
<1> QED
  BY <1>4, <1>5, <1>6, <1>7, <1>8

LEMMA PlanAccepted ==
  ASSUME IInv, NEW c \in Calls, Accepts(c)
  PROVE  IInv'
<1> DEFINE t == job[c].task
<1> USE DEF IInv, Accepts, At
<1>1. job[c] \in Job /\ t \in Tasks /\ plan[t].session # NoSession
  BY DEF CallsAreBacked, Job
<1>2. t \in research /\ plan[t] \in Plan
  BY <1>1 DEF ResearchGovernsPlanning, TypeOK
<1>3. plan[t].session \in SpentOf(t)
  BY <1>1 DEF PlansNameSessions, Quiet, SpentOf
<1>4. phase'[t] = "RUNNING" /\ \A u \in Tasks \ {t} : phase'[u] = phase[u]
  BY <1>1 DEF TypeOK
<1>5. accepted'[t] = plan[t] /\ \A u \in Tasks \ {t} : accepted'[u] = accepted[u]
  BY <1>1 DEF TypeOK
<1>6. TypeOK'
  BY <1>2, ReturnType DEF TypeOK, Phase, leaseVars
<1>7. CallsAreBacked'
  <2>1. \A d \in Calls : at[d] = "updated" => job[d].task \in Tasks
                                              /\ phase[job[d].task] # "BACKLOG"
    BY DEF CallsAreBacked, Job
  <2> QED
    BY <1>4, <2>1, ReturnBacked
<1>8. WriterFitsPhase'
  BY <1>4, TaskOfType DEF WriterFitsPhase, Quiet, TypeOK, leaseVars
<1>9. PlanGovernsExecution'
  BY <1>3, <1>4, <1>5 DEF PlanGovernsExecution, SpentOf, leaseVars
<1>10. ResearchGovernsPlanning' /\ AuditedOnce'
  BY <1>2, <1>4 DEF ResearchGovernsPlanning, AuditedOnce
<1>11. PlansNameSessions' /\ StartedInPhase' /\ NoCycle'
  BY DEF PlansNameSessions, StartedInPhase, NoCycle, leaseVars
<1> QED
  BY <1>6, <1>7, <1>8, <1>9, <1>10, <1>11

LEMMA ReviewMoved ==
  ASSUME IInv, NEW t \in Tasks, ReviewMoves(t)
  PROVE  IInv'
<1> USE DEF IInv, ReviewMoves
<1>1. phase'[t] \in {"RUNNING", "REVIEW", "DONE"}
      /\ \A u \in Tasks \ {t} : phase'[u] = phase[u]
  BY DEF TypeOK
<1>2. phase[t] \in {"RUNNING", "REVIEW"}
  OBVIOUS
<1>3. Quiet(t)
  <2>1. CASE phase[t] = "REVIEW"
    <3>1. \A s \in holders : started[s] \in {"none", "BACKLOG", "PLANNING", "RUNNING"}
      BY DEF StartedInPhase, TypeOK
    <3> QED
      BY <2>1, <3>1 DEF WriterFitsPhase, Quiet
  <2> QED
    BY <2>1
<1>4. TypeOK'
  BY DEF TypeOK, Phase, leaseVars, callVars
<1>5. CallsAreBacked'
  BY <1>1 DEF CallsAreBacked, callVars, Job
<1>6. WriterFitsPhase'
  BY <1>1, <1>3, TaskOfType DEF WriterFitsPhase, Quiet, TypeOK, leaseVars
<1>7. PlanGovernsExecution'
  BY <1>1, <1>2 DEF PlanGovernsExecution, SpentOf, leaseVars
<1>8. ResearchGovernsPlanning' /\ AuditedOnce'
  BY <1>1, <1>2 DEF ResearchGovernsPlanning, AuditedOnce
<1>9. PlansNameSessions' /\ StartedInPhase' /\ NoCycle'
  BY DEF PlansNameSessions, StartedInPhase, NoCycle, leaseVars
<1> QED
  BY <1>4, <1>5, <1>6, <1>7, <1>8, <1>9

-----------------------------------------------------------------------------
(* Sessions.                                                               *)

LEMMA SessionStarts ==
  ASSUME IInv, NEW c \in Calls, StartInserts(c)
  PROVE  IInv'
<1> DEFINE t == job[c].task
           s == job[c].target
<1> USE DEF IInv, StartInserts, At, Lease!Acquire
<1>1. job[c] \in Job /\ s \in Sessions /\ TaskOf[s] = t
  BY DEF CallsAreBacked
<1>2. PhaseFor(job[c].kind) \in {"BACKLOG", "PLANNING", "RUNNING"}
  BY DEF PhaseFor, Starts
<1>3. started'[s] = phase[t] /\ \A r \in Sessions \ {s} : started'[r] = started[r]
  BY <1>1 DEF TypeOK
<1>4. TypeOK'
  BY <1>1, <1>2 DEF TypeOK, Phase, taskVars
<1>5. CallsAreBacked'
  <2>1. at[c] # "idle" /\ at'[c] = "starting"
    BY DEF TypeOK
  <2>2. \A b \in Calls \ {c} : at'[b] = at[b]
    BY DEF TypeOK
  <2>3. UNCHANGED <<phase, research, audit, job, read>>
    BY DEF taskVars
  <2> QED
    BY <2>1, <2>2, <2>3 DEF CallsAreBacked
<1>6. WriterFitsPhase'
  BY <1>1, <1>3 DEF WriterFitsPhase, taskVars, TypeOK
<1>7. StartedInPhase'
  BY <1>1, <1>2, <1>3 DEF StartedInPhase
<1>8. PlansNameSessions' /\ PlanGovernsExecution' /\ NoCycle'
  BY DEF PlansNameSessions, PlanGovernsExecution, SpentOf, NoCycle, taskVars
<1>9. ResearchGovernsPlanning' /\ AuditedOnce'
  BY DEF ResearchGovernsPlanning, AuditedOnce, taskVars
<1> QED
  BY <1>4, <1>5, <1>6, <1>7, <1>8, <1>9

LEMMA SessionSettled ==
  ASSUME IInv, NEW s \in Sessions, SessionSettles(s)
  PROVE  IInv'
<1> USE DEF IInv, SessionSettles, Lease!Release
<1>1. TypeOK'
  BY DEF TypeOK, taskVars, callVars
<1>2. CallsAreBacked'
  BY DEF CallsAreBacked, taskVars, callVars
<1>3. WriterFitsPhase' /\ StartedInPhase'
  BY DEF WriterFitsPhase, StartedInPhase, taskVars
<1>4. PlansNameSessions' /\ PlanGovernsExecution' /\ NoCycle'
  BY DEF PlansNameSessions, PlanGovernsExecution, SpentOf, NoCycle, taskVars
<1>5. ResearchGovernsPlanning' /\ AuditedOnce'
  BY DEF ResearchGovernsPlanning, AuditedOnce, taskVars
<1> QED
  BY <1>1, <1>2, <1>3, <1>4, <1>5

-----------------------------------------------------------------------------
(* Dependencies.                                                           *)

\* An edge from t to u closes no cycle when u does not reach t.
LEMMA EdgeKeepsOrder ==
  ASSUME NoCycle, NEW t \in Tasks, NEW u \in Tasks, Addable(t, u),
         edges' = edges \cup {<<t, u>>}
  PROVE  NoCycle'
<1>1. PICK C \in SUBSET Tasks : u \in C /\ Closed(C) /\ t \notin C
  BY DEF Addable, Reaches
<1> SUFFICES ASSUME NEW S \in (SUBSET Tasks) \ {{}}
             PROVE  \E v \in S : \A w \in S : <<v, w>> \notin edges'
  BY DEF NoCycle
<1>2. CASE S \cap C # {}
  <2>1. PICK v \in S \cap C : \A w \in S \cap C : <<v, w>> \notin edges
    BY <1>2 DEF NoCycle
  <2>2. \A w \in S : <<v, w>> \notin edges
    BY <1>1, <2>1 DEF Closed
  <2>3. v # t
    BY <1>1
  <2> QED
    BY <2>2, <2>3
<1>3. CASE S \cap C = {}
  <2>1. u \notin S
    BY <1>1, <1>3
  <2>2. PICK v \in S : \A w \in S : <<v, w>> \notin edges
    BY DEF NoCycle
  <2> QED
    BY <2>1, <2>2
<1> QED
  BY <1>2, <1>3

LEMMA FewerEdgesKeepOrder ==
  ASSUME NoCycle, edges' \subseteq edges
  PROVE  NoCycle'
BY DEF NoCycle

\* A dependency concerns no artifact and no Session.
LEMMA EdgesApart ==
  ASSUME IInv, UNCHANGED <<taskVars, leaseVars>>
  PROVE  TasksFit'
BY DEF IInv, TasksFit, PlansNameSessions, StartedInPhase, WriterFitsPhase,
       PlanGovernsExecution, ResearchGovernsPlanning, AuditedOnce, SpentOf,
       taskVars, leaseVars

LEMMA DependencyAdded ==
  ASSUME IInv, NEW c \in Calls, Depends(c)
  PROVE  IInv'
<1>1. job[c].task \in Tasks /\ job[c].target \in Tasks
  BY DEF IInv, CallsAreBacked, Depends, At, Job
<1>2. Return(c) /\ UNCHANGED <<taskVars, leaseVars, raised>>
  BY DEF Depends
<1>3. edges' = edges \cup {<<job[c].task, job[c].target>>}
  BY DEF Depends
<1>4. NoCycle'
  BY <1>1, EdgeKeepsOrder DEF IInv, Depends
<1>5. TypeOK'
  BY <1>1, <1>2, <1>3, ReturnType DEF IInv, TypeOK, taskVars, leaseVars
<1>6. CallsAreBacked'
  <2>1. \A d \in Calls : at[d] = "updated" => phase[job[d].task] # "BACKLOG"
    BY DEF IInv, CallsAreBacked
  <2> QED
    BY <1>2, <2>1, ReturnBacked DEF taskVars
<1> QED
  BY <1>2, <1>4, <1>5, <1>6, EdgesApart DEF IInv, TasksFit

LEMMA DependencyRemoved ==
  ASSUME IInv, NEW e \in edges, RemoveDependency(e)
  PROVE  IInv'
<1> USE DEF RemoveDependency
<1>1. TypeOK'
  BY DEF IInv, TypeOK, taskVars, leaseVars, callVars
<1>2. CallsAreBacked'
  BY DEF IInv, CallsAreBacked, taskVars, callVars
<1>3. NoCycle'
  BY FewerEdgesKeepOrder DEF IInv
<1> QED
  BY <1>1, <1>2, <1>3, EdgesApart DEF IInv, TasksFit

-----------------------------------------------------------------------------
(* The theorems.                                                           *)

LEMMA StutterIInv == IInv /\ UNCHANGED vars => IInv'
<1> SUFFICES ASSUME IInv, UNCHANGED vars PROVE IInv'
  OBVIOUS
<1>1. UNCHANGED <<taskVars, edges, leaseVars>>
  BY DEF vars
<1>2. TypeOK'
  BY DEF IInv, TypeOK, vars, taskVars, leaseVars, callVars
<1>3. CallsAreBacked'
  BY DEF IInv, CallsAreBacked, vars, taskVars, callVars
<1> QED
  BY <1>1, <1>2, <1>3, TasksUnchanged DEF IInv, TasksFit

LEMMA StepIInv == IInv /\ Next => IInv'
<1> SUFFICES ASSUME IInv, Next PROVE IInv'
  OBVIOUS
<1>1. CASE NewCall
  BY <1>1, CallBegins
<1>2. ASSUME NEW c \in Calls, CallStep(c) PROVE IInv'
  BY <1>2, SessionStarts, ResearchRecorded, CallReads, PhaseMoves, CallEnds,
     MoveAudited, PlanAccepted, DependencyAdded DEF CallStep
<1>3. ASSUME NEW s \in Sessions, SessionSettles(s) PROVE IInv'
  BY <1>3, SessionSettled
<1>4. ASSUME NEW t \in Tasks, CreateResearch(t) \/ CreatePlan(t) \/ ReviewMoves(t)
      PROVE  IInv'
  BY <1>4, ResearchCreated, PlanCreated, ReviewMoved
<1>5. ASSUME NEW e \in edges, RemoveDependency(e) PROVE IInv'
  BY <1>5, DependencyRemoved
<1>6. ASSUME NEW d \in Desktops, Quit(d) PROVE IInv'
  BY <1>6, ProcessQuits
<1> QED
  BY <1>1, <1>2, <1>3, <1>4, <1>5, <1>6 DEF Next

\* The invariant of TaskPlanning, for any number of Tasks, agents and desktop
\* processes.
THEOREM PlanningInvariant == Spec => []IInv
<1>1. IInv /\ [Next]_vars => IInv'
  BY StepIInv, StutterIInv
<1> QED
  BY <1>1, InitIInv, PTL DEF Spec

\* The checks in the transaction that adds a dependency keep the dependencies
\* free of cycles, however many users add and remove them at the same time.
THEOREM DependenciesStayAcyclic == Spec => []NoCycle
<1>1. IInv => NoCycle
  BY DEF IInv
<1> QED
  BY <1>1, PlanningInvariant, PTL

\* A Task executes only on its latest plan, which an agent of the Task wrote
\* that has stopped.
THEOREM PlanAlwaysGoverns == Spec => []PlanGovernsExecution
<1>1. IInv => PlanGovernsExecution
  BY DEF IInv
<1> QED
  BY <1>1, PlanningInvariant, PTL

\* No agent outlives the phase it was started for, except that research may go
\* on while the Task is planned.
THEOREM WriterAlwaysFitsPhase == Spec => []WriterFitsPhase
<1>1. IInv => WriterFitsPhase
  BY DEF IInv
<1> QED
  BY <1>1, PlanningInvariant, PTL

\* No agent starts on a Task with an incomplete dependency: the transaction of
\* the Session insert reads the dependencies again.
THEOREM StartsAlwaysUnblocked == Spec => StartsUnblocked
<1>1. ASSUME IInv, Next, NEW s \in holders' \ holders
      PROVE  Unblocked(TaskOf[s])
  <2>1. PICK c \in Calls : StartInserts(c)
    BY <1>1
       DEF Next, NewCall, StartCall, RecordCall, BeginCall, AcceptCall, DependCall,
           CallStep, RecordInserts, AdvanceReads, TransitionReads,
           TransitionUpdates, TransitionLost, TransitionAudits, AuditFails,
           Accepts, Depends, CallReturns, SessionSettles, Lease!Release,
           CreateResearch, CreatePlan, ReviewMoves, RemoveDependency, Quit,
           leaseVars
  <2>2. s = job[c].target /\ Unblocked(job[c].task)
    BY <2>1 DEF StartInserts, Lease!Acquire
  <2> QED
    BY <1>1, <2>1, <2>2 DEF IInv, CallsAreBacked, StartInserts, At
<1>2. IInv /\ [Next]_vars =>
        [\A s \in holders' \ holders : Unblocked(TaskOf[s])]_holders
  BY <1>1 DEF vars, leaseVars
<1> QED
  BY <1>2, PlanningInvariant, PTL DEF Spec, StartsUnblocked
=============================================================================
