------------------------- MODULE AgentSessions_proof -------------------------
(***************************************************************************)
(* Theorems about AgentSessions, for any number of Sessions and Tasks, any *)
(* fault set and any bound.                                                *)
(***************************************************************************)
EXTENDS AgentSessions, SequenceTheorems, TLAPS

-----------------------------------------------------------------------------
(* What one recorded event does to a history, for every history: it keeps  *)
(* the history readable and never takes settlement evidence back.          *)

\* The stored status is the status field of the last event.
LEMMA StatusType ==
  ASSUME NEW h \in History, Exists(h)
  PROVE  /\ Status(h) \in SessionStatus
         /\ Len(h) \in Nat \ {0}
         /\ h[Len(h)] \in SessionEvent
<1>1. Len(h) \in Nat \ {0}
  BY EmptySeq DEF History, Exists, NoHistory
<1>2. h[Len(h)] \in SessionEvent
  BY <1>1, ElementOfSeq, Len(h) \in 1..Len(h) DEF History
<1> QED
  BY <1>1, <1>2 DEF Status, SessionEvent

\* Every operation the chain runs is computed into a well-formed event.
LEMMA EventForType ==
  ASSUME NEW h \in History, Exists(h), NEW op \in Operations
  PROVE  EventFor(h, op) \in SessionEvent
<1>1. Status(h) \in SessionStatus
  BY StatusType
<1>2. CASE op \in RuntimeFailures
  <2>1. EventFor(h, op) = FailureAfter(h, StageOf[op], op \in FatalOps)
    BY <1>2 DEF EventFor
  <2>2. StageOf[op] \in FailureStage
    BY <1>2 DEF StageOf, FailureStage, RuntimeFailures
  <2>3. (op \in FatalOps) \in BOOLEAN
    OBVIOUS
  <2> HIDE DEF StageOf
  <2>4. \A b \in BOOLEAN : \A t \in FailureStage :
          FailureAfter(h, t, b) \in SessionEvent
    BY <1>1 DEF FailureAfter, Failure, SessionEvent, SessionStatus
  <2> QED
    BY <2>1, <2>2, <2>3, <2>4
<1>3. CASE op \notin RuntimeFailures
  BY <1>1, <1>3 DEF EventFor, Operations, Requests, RuntimeEvents, Reportable,
     SessionEvent, Plain, SessionStatus, LiveStatus
<1> QED
  BY <1>2, <1>3

\* What an append leaves in place and what it adds.
LEMMA Appended ==
  ASSUME NEW h \in History, NEW e \in SessionEvent
  PROVE  /\ Append(h, e) \in History
         /\ Exists(Append(h, e))
         /\ Len(Append(h, e)) = Len(h) + 1
         /\ Len(h) \in Nat
         /\ Status(Append(h, e)) = e.status
         /\ Append(h, e)[Len(h) + 1] = e
         /\ \A i \in 1..Len(h) : Append(h, e)[i] = h[i]
         /\ DOMAIN h = 1..Len(h)
         /\ DOMAIN Append(h, e) = 1..(Len(h) + 1)
<1>1. Len(h) \in Nat /\ DOMAIN h = 1..Len(h)
  BY LenProperties DEF History
<1>2. /\ Append(h, e) \in Seq(SessionEvent)
      /\ Append(h, e) # << >>
      /\ Len(Append(h, e)) = Len(h) + 1
      /\ \A i \in 1..Len(h) : Append(h, e)[i] = h[i]
      /\ Append(h, e)[Len(h) + 1] = e
  BY AppendProperties DEF History
<1>3. DOMAIN Append(h, e) = 1..(Len(h) + 1)
  BY <1>2, LenProperties
<1> QED
  BY <1>1, <1>2, <1>3 DEF History, Exists, NoHistory, Status

\* Settlement is final: an event that the domain accepts after a settled
\* history leaves it settled.
THEOREM SettledStays ==
  ASSUME NEW h \in History, NEW e \in SessionEvent,
         Settled(h), Recordable(h, e)
  PROVE  Settled(Append(h, e))
<1> USE Appended
<1>1. Status(h) \in SessionStatus
  BY StatusType DEF Settled
<1>2. Status(h) # "EXITED"
  BY DEF Recordable, AllowedFrom, LiveStatus, Reportable
<1>3. SettledFailure(h)
  BY <1>2 DEF Settled, Unsettled
<1>4. e.status = "FAILED"
  BY <1>3 DEF SettledFailure, Recordable, AllowedFrom, LiveStatus, Reportable
<1>5. SettledFailure(Append(h, e))
  <2>1. CASE HasKind(h, "PROCESS_EXITED")
    BY <2>1, <1>4 DEF SettledFailure, HasKind
  <2>2. CASE \E i \in DOMAIN h : SettlingFailure(h[i])
    BY <2>2, <1>4 DEF SettledFailure
  <2> QED
    BY <1>3, <2>1, <2>2 DEF SettledFailure
<1> QED
  BY <1>5 DEF Settled, Unsettled

\* A readable history stays readable when an accepted event is appended.
THEOREM ReplayExtends ==
  ASSUME NEW h \in History, NEW e \in SessionEvent,
         Exists(h), Replays(h), Recordable(h, e)
  PROVE  Replays(Append(h, e))
<1> DEFINE g == Append(h, e)
<1> USE Appended
<1>1. Len(h) \in Nat \ {0}
  BY StatusType
<1>2. g[1] = FirstEvent
  BY <1>1 DEF Replays
<1>3. ASSUME NEW n \in 0..Len(h)
      PROVE  SubSeq(g, 1, n) = SubSeq(h, 1, n)
  <2>1. \A i \in 1..n : g[i] \in SessionEvent /\ h[i] \in SessionEvent
    BY ElementOfSeq, <1>1 DEF History
  <2>2. /\ SubSeq(g, 1, n) \in Seq(SessionEvent)
        /\ Len(SubSeq(g, 1, n)) = n
        /\ \A i \in 1..n : SubSeq(g, 1, n)[i] = g[i]
    BY <2>1, <1>1, SubSeqProperties
  <2>3. /\ SubSeq(h, 1, n) \in Seq(SessionEvent)
        /\ Len(SubSeq(h, 1, n)) = n
        /\ \A i \in 1..n : SubSeq(h, 1, n)[i] = h[i]
    BY <2>1, <1>1, SubSeqProperties
  <2>4. \A i \in 1..n : g[i] = h[i]
    BY <1>1
  <2> HIDE DEF g
  <2> QED
    BY <2>2, <2>3, <2>4, SeqEqual
<1>4. ASSUME NEW i \in 2..Len(g)
      PROVE  Recordable(SubSeq(g, 1, i - 1), g[i])
  <2>1. CASE i \in 2..Len(h)
    <3>1. Recordable(SubSeq(h, 1, i - 1), h[i])
      BY <2>1 DEF Replays
    <3>2. SubSeq(g, 1, i - 1) = SubSeq(h, 1, i - 1)
      BY <1>1, <1>3, <2>1
    <3>3. g[i] = h[i]
      BY <1>1, <2>1
    <3> QED
      BY <3>1, <3>2, <3>3
  <2>2. CASE i = Len(h) + 1
    <3>1. SubSeq(g, 1, i - 1) = h
      BY <1>1, <1>3, <2>2, SubSeqFull DEF History
    <3>2. g[i] = e
      BY <2>2
    <3> QED
      BY <3>1, <3>2
  <2> QED
    BY <1>1, <2>1, <2>2
<1> QED
  BY <1>2, <1>4 DEF Replays

-----------------------------------------------------------------------------
(* The three things a step may do to the stored histories.                 *)

Begins(s) ==
  /\ ~Exists(hist[s])
  /\ ~WriterOf(s)
  /\ hist' = [hist EXCEPT ![s] = <<FirstEvent>>]

Grows(s) ==
  /\ Exists(hist[s])
  /\ \E e \in SessionEvent :
       Recordable(hist[s], e) /\ hist' = [hist EXCEPT ![s] = Append(@, e)]

HistoryMoves == \E s \in Sessions : Begins(s) \/ Grows(s)

\* A snapshot that the store accepts is the stored history itself.
LEMMA AcceptedSnapshot ==
  ASSUME NEW s \in Sessions, NEW n, NEW e, hist \in [Sessions -> History],
         Stored(s, n, e)
  PROVE  Snapshot(s, n) = hist[s]
BY SubSeqFull DEF Stored, Snapshot, History

\* An accepted append of a recordable event is a Grows step.
LEMMA StoredGrows ==
  ASSUME NEW s \in Sessions, NEW n, NEW e \in SessionEvent,
         Exists(hist[s]), Recordable(hist[s], e), Stored(s, n, e)
  PROVE  Grows(s)
BY DEF Stored, Grows

\* A failure event has the shape of a stored event.
LEMMA FailureType ==
  ASSUME NEW stage \in FailureStage, NEW fatal \in BOOLEAN,
         NEW status \in SessionStatus
  PROVE  Failure(stage, fatal, status) \in SessionEvent
BY DEF Failure, SessionEvent

LEMMA HistoryChange ==
  ASSUME IInv, [Next]_vars
  PROVE  UNCHANGED hist \/ HistoryMoves
<1> USE DEF IInv
<1>1. hist \in [Sessions -> History]
  BY DEF TypeOK
<1>2. ASSUME NEW s \in Sessions, Insert(s)
      PROVE  Begins(s)
  BY <1>2 DEF Insert, Begins
<1>3. ASSUME NEW s \in Sessions, LaunchFails(s)
      PROVE  UNCHANGED hist \/ Grows(s)
  <2>1. hist[s] = <<FirstEvent>>
    BY <1>3 DEF LaunchFails, LaunchIsAlone
  <2>2. Exists(hist[s]) /\ Status(hist[s]) = "STARTING"
    BY <2>1 DEF Exists, NoHistory, Status, FirstEvent, Plain
  <2>3. Failure("START", TRUE, "FAILED") \in SessionEvent
    BY FailureType DEF FailureStage, SessionStatus
  <2>4. Recordable(hist[s], Failure("START", TRUE, "FAILED"))
    BY <2>2 DEF Recordable, Failure
  <2> QED
    BY <1>3, <2>2, <2>3, <2>4, StoredGrows DEF LaunchFails, Persist, NotStored
<1>4. ASSUME NEW s \in Sessions, InitialInputFails(s)
      PROVE  UNCHANGED hist \/ Grows(s)
  <2> SUFFICES ASSUME Stored(s, 1, Failure("WRITE", TRUE, "FAILED"))
               PROVE  Grows(s)
    BY <1>4 DEF InitialInputFails, Persist, NotStored
  <2>1. Exists(hist[s])
    BY <1>4 DEF InitialInputFails, WorkIsBacked
  <2>2. Status(hist[s]) = "STARTING"
    BY <2>1 DEF Stored, HistoriesReplay, Replays, Status, FirstEvent, Plain
  <2>3. Failure("WRITE", TRUE, "FAILED") \in SessionEvent
    BY FailureType DEF FailureStage, SessionStatus
  <2>4. Recordable(hist[s], Failure("WRITE", TRUE, "FAILED"))
    BY <2>2 DEF Recordable, Failure
  <2> QED
    BY <2>1, <2>3, <2>4, StoredGrows
<1>5. ASSUME NEW s \in Sessions, OperationAppends(s)
      PROVE  UNCHANGED hist \/ Grows(s)
  <2> DEFINE before == Snapshot(s, seen[s])
             event == EventFor(before, Operation(s))
  <2> SUFFICES ASSUME Recordable(before, event), Stored(s, seen[s], event)
               PROVE  Grows(s)
    BY <1>5 DEF OperationAppends
  <2>1. tail[s] # << >>
    BY <1>5 DEF OperationAppends, CallsRemember
  <2>2. Operation(s) \in Operations
    BY <2>1, HeadTailProperties DEF TypeOK, Operation
  <2>3. Exists(hist[s])
    BY <2>1 DEF WorkIsBacked, Quiet
  <2>4. before = hist[s]
    BY <1>1, AcceptedSnapshot
  <2>5. event \in SessionEvent
    BY <1>1, <2>2, <2>3, <2>4, EventForType
  <2> QED
    BY <2>3, <2>4, <2>5, StoredGrows
<1>6. ASSUME NEW s \in Sessions, OperationFails(s)
      PROVE  UNCHANGED hist
  BY <1>6 DEF OperationFails, NotStored
<1>7. ASSUME NEW s \in Sessions, StopRecords(s)
      PROVE  UNCHANGED hist \/ Grows(s)
  <2> DEFINE event ==
               FailureAfter(Snapshot(s, stopSeen[s]), "TERMINATE", FALSE)
  <2> SUFFICES ASSUME Stored(s, stopSeen[s], event)
               PROVE  Grows(s)
    BY <1>7 DEF StopRecords, Persist, NotStored
  <2>1. Exists(hist[s])
    BY <1>7 DEF StopRecords, WorkIsBacked, Quiet
  <2>2. Snapshot(s, stopSeen[s]) = hist[s]
    BY <1>1, AcceptedSnapshot
  <2>3. Status(hist[s]) \in SessionStatus
    BY <1>1, <2>1, StatusType
  <2>4. event = Failure("TERMINATE", FALSE, Status(hist[s]))
    BY <2>2 DEF FailureAfter
  <2>5. event \in SessionEvent
    BY <2>3, <2>4, FailureType DEF FailureStage
  <2>6. Status(hist[s]) # "EXITED"
    BY <1>7 DEF StopRecords, CallsRemember, Stored
  <2>7. Recordable(hist[s], event)
    <3> HIDE DEF event
    <3> QED
      BY <2>4, <2>6 DEF Recordable, Failure
  <2> QED
    BY <2>1, <2>5, <2>7, StoredGrows
<1>8. ASSUME NEW s \in Sessions, RestoreSession(s)
      PROVE  Grows(s)
  <2>1. Exists(hist[s]) /\ Status(hist[s]) # "EXITED"
    BY <1>8 DEF RestoreSession, Lost, Unsettled
  <2>2. Failure("LOST", TRUE, "FAILED") \in SessionEvent
    BY FailureType DEF FailureStage, SessionStatus
  <2>3. Recordable(hist[s], Failure("LOST", TRUE, "FAILED"))
    BY <2>1 DEF Recordable, Failure
  <2> QED
    BY <1>8, <2>1, <2>2, <2>3, StoredGrows DEF RestoreSession
<1>9. ASSUME NEW s \in Sessions, RestoreFails(s)
      PROVE  UNCHANGED hist
  BY <1>9 DEF RestoreFails, NotStored
<1>10. ASSUME NEW s \in Sessions,
              \/ StartCall(s) \/ InsertRefused(s) \/ CommandBuilt(s)
              \/ Opened(s) \/ InitialInputWritten(s) \/ FailedStartReturns(s)
              \/ EventIgnored(s) \/ RequestRefused(s) \/ OperationReads(s)
              \/ FailureCleaned(s) \/ Report(s)
              \/ StopCall(s) \/ StopFlushed(s) \/ StopReturns(s) \/ StopReads(s)
              \/ TerminalOperationFails(s) \/ KillFails(s)
              \/ ProcessDies(s) \/ ExitDelivered(s) \/ AutoResume(s)
       PROVE  UNCHANGED hist
  BY <1>10 DEF StartCall, Admit, AutoResume, InsertRefused, CommandBuilt,
     Opened, InitialInputWritten, FailedStartReturns, EventIgnored,
     RequestRefused, OperationReads, FailureCleaned, Report, StopCall,
     StopFlushed, StopReturns, StopReads, TerminalOperationFails, KillFails,
     ProcessDies, ExitDelivered
<1>11. ASSUME Quit \/ Launch \/ ResumeRefused \/ RestoreDone \/ UNCHANGED vars
       PROVE  UNCHANGED hist
  BY <1>11 DEF Quit, Launch, ResumeRefused, RestoreDone, vars
<1> QED
  BY <1>2, <1>3, <1>4, <1>5, <1>6, <1>7, <1>8, <1>9, <1>10, <1>11
     DEF HistoryMoves, Next, SessionStep, StartStep, ChainStep, StopStep

-----------------------------------------------------------------------------
(* What these moves preserve.                                              *)

\* The first event alone is a readable, unsettled history.
LEMMA FirstHistory ==
  /\ <<FirstEvent>> \in History
  /\ Exists(<<FirstEvent>>)
  /\ Replays(<<FirstEvent>>)
  /\ Unsettled(<<FirstEvent>>)
<1>1. FirstEvent \in SessionEvent
  BY DEF FirstEvent, Plain, SessionEvent, SessionStatus, LiveStatus
<1>2. <<FirstEvent>> \in History /\ Exists(<<FirstEvent>>)
  BY <1>1 DEF History, Exists, NoHistory
<1>3. Status(<<FirstEvent>>) = "STARTING"
  BY DEF Status, FirstEvent, Plain
<1>4. Replays(<<FirstEvent>>)
  BY DEF Replays
<1> QED
  BY <1>2, <1>3, <1>4 DEF Unsettled, SettledFailure

\* A Session's history is left alone, begun, or extended by one event.
LEMMA OneHistory ==
  ASSUME hist \in [Sessions -> History], UNCHANGED hist \/ HistoryMoves,
         NEW s \in Sessions
  PROVE  \/ hist'[s] = hist[s]
         \/ ~Exists(hist[s]) /\ hist'[s] = <<FirstEvent>>
         \/ /\ Exists(hist[s])
            /\ \E e \in SessionEvent :
                 Recordable(hist[s], e) /\ hist'[s] = Append(hist[s], e)
BY DEF HistoryMoves, Begins, Grows

LEMMA HistoriesKept ==
  ASSUME hist \in [Sessions -> History], HistoriesReplay,
         UNCHANGED hist \/ HistoryMoves
  PROVE  /\ hist' \in [Sessions -> History]
         /\ HistoriesReplay'
         /\ \A s \in Sessions :
              /\ Exists(hist[s]) => Exists(hist'[s])
              /\ Exists(hist[s]) /\ hist'[s] # hist[s] =>
                   Len(hist'[s]) = Len(hist[s]) + 1
              /\ Settled(hist[s]) => Settled(hist'[s])
<1>1. ASSUME NEW s \in Sessions
      PROVE  /\ hist'[s] \in History
             /\ Exists(hist'[s]) => Replays(hist'[s])
             /\ Exists(hist[s]) => Exists(hist'[s])
             /\ Exists(hist[s]) /\ hist'[s] # hist[s] =>
                  Len(hist'[s]) = Len(hist[s]) + 1
             /\ Settled(hist[s]) => Settled(hist'[s])
  <2>1. CASE hist'[s] = hist[s]
    BY <2>1 DEF HistoriesReplay
  <2>2. CASE ~Exists(hist[s]) /\ hist'[s] = <<FirstEvent>>
    BY <2>2, FirstHistory DEF Settled
  <2>3. ASSUME Exists(hist[s]),
               NEW e \in SessionEvent, Recordable(hist[s], e),
               hist'[s] = Append(hist[s], e)
        PROVE  /\ hist'[s] \in History
               /\ Exists(hist'[s]) /\ Replays(hist'[s])
               /\ Len(hist'[s]) = Len(hist[s]) + 1
               /\ Settled(hist[s]) => Settled(hist'[s])
    BY <2>3, Appended, ReplayExtends, SettledStays DEF HistoriesReplay
  <2> QED
    BY <2>1, <2>2, <2>3, OneHistory
<1>2. hist' \in [Sessions -> History]
  BY <1>1 DEF HistoryMoves, Begins, Grows
<1> QED
  BY <1>1, <1>2 DEF HistoriesReplay

LEMMA OneWriterKept ==
  ASSUME hist \in [Sessions -> History], HistoriesReplay, OneWriter,
         UNCHANGED hist \/ HistoryMoves
  PROVE  OneWriter'
<1>1. ASSUME NEW s \in Sessions, Exists(hist[s]), Unsettled(hist'[s])
      PROVE  Unsettled(hist[s])
  BY <1>1, HistoriesKept DEF Settled
<1>2. ASSUME NEW s \in Sessions, Begins(s)
      PROVE  OneWriter'
  <2>1. \A t \in Sessions \ {s} : hist'[t] = hist[t]
    BY <1>2 DEF Begins
  <2>2. \A t \in Sessions : TaskOf[t] = TaskOf[s] => ~Unsettled(hist[t])
    BY <1>2 DEF Begins, WriterOf, Siblings
  <2> QED
    BY <2>1, <2>2 DEF OneWriter
<1>3. ASSUME NEW s \in Sessions, UNCHANGED hist \/ Grows(s)
      PROVE  OneWriter'
  <2>1. \A t \in Sessions : Unsettled(hist'[t]) => Unsettled(hist[t])
    BY <1>1, <1>3 DEF Grows, Unsettled
  <2> QED
    BY <2>1 DEF OneWriter
<1> QED
  BY <1>2, <1>3 DEF HistoryMoves, OneWriter

-----------------------------------------------------------------------------
(* Type correctness of everything but the histories.                       *)

RestTyped ==
  /\ proc \in [Sessions -> {"none", "live", "dead"}]
  /\ app \in AppState
  /\ born \subseteq Sessions
  /\ resume \in Sessions \cup {NoSession}
  /\ start \in [Sessions -> StartState]
  /\ handle \in [Sessions -> HandleState]
  /\ owned \in [Sessions -> BOOLEAN]
  /\ tail \in [Sessions -> Seq(Operations)]
  /\ buf \in [Sessions -> Seq(RuntimeEvents)]
  /\ step \in [Sessions -> {"ready", "reading", "cleaning"}]
  /\ seen \in [Sessions -> Nat]
  /\ failure \in [Sessions -> BOOLEAN]
  /\ stopper \in [Sessions -> StopState]
  /\ stopSeen \in [Sessions -> Nat]
  /\ faulted \subseteq Sessions

\* Runtime events are operations, so a drained buffer fits the chain.
LEMMA QueueTypes ==
  /\ Seq(RuntimeEvents) \subseteq Seq(Operations)
  /\ \A q \in Seq(Operations), r \in Seq(Operations) :
       q \o r \in Seq(Operations)
  /\ \A q \in Seq(RuntimeEvents), r \in Seq(RuntimeEvents) :
       q \o r \in Seq(RuntimeEvents)
  /\ \A q \in Seq(Operations), op \in Operations :
       Append(q, op) \in Seq(Operations)
  /\ \A q \in Seq(Operations) : q # << >> => Tail(q) \in Seq(Operations)
<1>1. RuntimeEvents \subseteq Operations
  BY DEF Operations
<1> QED
  BY <1>1, ConcatProperties, AppendProperties, HeadTailProperties

\* The events of an exit are runtime events.
LEMMA ExitEventsTyped ==
  ASSUME NEW s \in Sessions
  PROVE  ExitEvents(s) \subseteq Seq(RuntimeEvents)
<1>1. << >> \in Seq(RuntimeEvents)
  OBVIOUS
<1>2. \A event \in RuntimeEvents : <<event>> \in Seq(RuntimeEvents)
  OBVIOUS
<1>3. {"failCleanup", "failRuntime", "failSpawn", "exited"} \subseteq RuntimeEvents
  BY DEF RuntimeEvents, RuntimeFailures
<1> DEFINE Failed == {<< >>} \cup (IF handle[s] = "running"
                                  THEN {<<"failRuntime">>, <<"failSpawn">>}
                                  ELSE {})
           Cleanup == {<< >>, <<"failCleanup">>}
<1>4. Failed \subseteq Seq(RuntimeEvents) /\ Cleanup \subseteq Seq(RuntimeEvents)
  BY <1>1, <1>2, <1>3
<1>5. ExitEvents(s) = {failed \o cleanup \o <<"exited">> :
                         failed \in Failed, cleanup \in Cleanup}
  BY DEF ExitEvents
<1> HIDE DEF Failed, Cleanup, ExitEvents
<1>6. ASSUME NEW failed \in Failed, NEW cleanup \in Cleanup
      PROVE  failed \o cleanup \o <<"exited">> \in Seq(RuntimeEvents)
  BY <1>2, <1>3, <1>4, QueueTypes
<1>7. ASSUME NEW events \in ExitEvents(s)
      PROVE  events \in Seq(RuntimeEvents)
  <2>1. PICK failed \in Failed, cleanup \in Cleanup :
          events = failed \o cleanup \o <<"exited">>
    BY <1>5, <1>7
  <2> QED
    BY <1>6, <2>1
<1> QED
  BY <1>7

\* Queueing runtime events keeps the queues typed.
LEMMA EmitTyped ==
  ASSUME RestTyped, NEW s \in Sessions, NEW events \in Seq(RuntimeEvents),
         Emit(s, events)
  PROVE  /\ tail' \in [Sessions -> Seq(Operations)]
         /\ buf' \in [Sessions -> Seq(RuntimeEvents)]
<1>1. tail[s] \o events \in Seq(Operations)
  BY QueueTypes DEF RestTyped
<1>2. buf[s] \o events \in Seq(RuntimeEvents)
  BY QueueTypes DEF RestTyped
<1> QED
  BY <1>1, <1>2 DEF RestTyped, Emit

LEMMA DrainTyped ==
  ASSUME RestTyped, NEW s \in Sessions, Drain(s)
  PROVE  /\ tail' \in [Sessions -> Seq(Operations)]
         /\ buf' \in [Sessions -> Seq(RuntimeEvents)]
<1>1. << >> \in Seq(RuntimeEvents)
  OBVIOUS
<1> QED
  BY <1>1, QueueTypes DEF RestTyped, Drain

LEMMA DoneTyped ==
  ASSUME RestTyped, NEW s \in Sessions, Done(s), tail[s] # << >>
  PROVE  /\ tail' \in [Sessions -> Seq(Operations)]
         /\ step' \in [Sessions -> {"ready", "reading", "cleaning"}]
         /\ seen' \in [Sessions -> Nat]
BY QueueTypes DEF RestTyped, Done

LEMMA PersistTyped ==
  ASSUME RestTyped, NEW s, NEW n, NEW e,
         Persist(s, n, e) \/ Stored(s, n, e) \/ NotStored(s, n)
  PROVE  faulted' \subseteq Sessions
BY FaultyType DEF RestTyped, Persist, Stored, NotStored

LEMMA RestKept ==
  ASSUME IInv, [Next]_vars
  PROVE  RestTyped'
<1>1. RestTyped
  BY DEF IInv, TypeOK, RestTyped
<1>2. \A s \in Sessions : Len(hist[s]) \in Nat
  BY LenProperties DEF IInv, TypeOK, History
<1> USE <1>1
<1> USE DEF RestTyped, queues, stops, recovery
<1>3. ASSUME NEW s \in Sessions, StartCall(s) \/ AutoResume(s)
      PROVE  RestTyped'
  <2>1. PICK previous \in Sessions \cup {NoSession} : Admit(s, previous)
    BY <1>3 DEF StartCall, AutoResume
  <2>2. resume' \in Sessions \cup {NoSession}
    BY <1>3 DEF StartCall, AutoResume
  <2> QED
    BY <2>1, <2>2 DEF Admit, StartState
<1>4. ASSUME NEW s \in Sessions,
             Insert(s) \/ InsertRefused(s) \/ CommandBuilt(s)
      PROVE  RestTyped'
  BY <1>4 DEF Insert, InsertRefused, CommandBuilt, StartState
<1>5. ASSUME NEW s \in Sessions, LaunchFails(s)
      PROVE  RestTyped'
  BY <1>5, PersistTyped DEF LaunchFails, StartState
<1>6. ASSUME NEW s \in Sessions, Opened(s)
      PROVE  RestTyped'
  <2>1. /\ <<"started">> \in Seq(RuntimeEvents)
        /\ <<"started">> \in Seq(Operations)
    BY DEF RuntimeEvents, Operations
  <2>2. /\ start' \in [Sessions -> StartState]
        /\ tail' \in [Sessions -> Seq(Operations)]
        /\ buf' \in [Sessions -> Seq(RuntimeEvents)]
    <3>1. CASE UNCHANGED tail /\ buf' = [buf EXCEPT ![s] = <<"started">>]
      BY <1>6, <2>1, <3>1 DEF Opened, StartState
    <3>2. CASE UNCHANGED buf /\ tail' = [tail EXCEPT ![s] = <<"started">>]
      BY <1>6, <2>1, <3>2 DEF Opened, StartState
    <3> QED
      BY <1>6, <3>1, <3>2 DEF Opened
  <2> QED
    BY <1>6, <2>2 DEF Opened, HandleState
<1>7. ASSUME NEW s \in Sessions,
             InitialInputWritten(s) \/ FailedStartReturns(s)
      PROVE  RestTyped'
  BY <1>7, DrainTyped DEF InitialInputWritten, FailedStartReturns, StartState
<1>8. ASSUME NEW s \in Sessions, InitialInputFails(s)
      PROVE  RestTyped'
  <2>1. faulted' \subseteq Sessions
    BY <1>8, PersistTyped DEF InitialInputFails
  <2>2. Append(buf[s], "failWrite") \in Seq(RuntimeEvents)
    BY AppendProperties DEF RuntimeEvents, RuntimeFailures
  <2>3. Terminated(handle[s]) \in HandleState
    BY DEF Terminated, HandleState
  <2> QED
    <3>1. handle' \in [Sessions -> HandleState]
      BY <1>8, <2>3 DEF InitialInputFails
    <3>2. buf' \in [Sessions -> Seq(RuntimeEvents)]
      BY <1>8, <2>2 DEF InitialInputFails
    <3> QED
      BY <1>8, <2>1, <3>1, <3>2 DEF InitialInputFails, StartState
<1>9. ASSUME NEW s \in Sessions,
             EventIgnored(s) \/ RequestRefused(s) \/ FailureCleaned(s)
      PROVE  RestTyped'
  <2>1. tail[s] # << >>
    BY <1>9 DEF EventIgnored, RequestRefused, FailureCleaned, Busy, IInv,
       CallsRemember
  <2> QED
    BY <1>9, <2>1, DoneTyped DEF EventIgnored, RequestRefused, FailureCleaned,
       CallerFails, StopState
<1>10. ASSUME NEW s \in Sessions, OperationReads(s)
       PROVE  RestTyped'
  BY <1>2, <1>10 DEF OperationReads
<1>11. ASSUME NEW s \in Sessions, OperationAppends(s)
       PROVE  RestTyped'
  <2>1. tail[s] # << >> /\ Done(s)
    BY <1>11 DEF OperationAppends, IInv, CallsRemember
  <2>2. faulted' \subseteq Sessions
    BY <1>11, PersistTyped DEF OperationAppends
  <2>3. Terminated(handle[s]) \in HandleState
    BY DEF Terminated, HandleState
  <2>4. /\ handle' \in [Sessions -> HandleState]
        /\ owned' \in [Sessions -> BOOLEAN]
        /\ stopper' \in [Sessions -> StopState]
        /\ stopSeen' \in [Sessions -> Nat]
    <3>1. AfterAppend(s)
      BY <1>11 DEF OperationAppends
    <3>2. CASE owned' = [owned EXCEPT ![s] = FALSE] /\ UNCHANGED <<handle, stops>>
      BY <3>2
    <3>3. CASE /\ stopper' = [stopper EXCEPT ![s] = "killing"]
               /\ handle' = [handle EXCEPT ![s] = Terminated(@)]
               /\ UNCHANGED <<owned, stopSeen>>
      BY <2>3, <3>3 DEF StopState
    <3>4. CASE UNCHANGED <<handle, owned, stops>>
      BY <3>4
    <3> QED
      BY <3>1, <3>2, <3>3, <3>4 DEF AfterAppend
  <2> QED
    BY <1>11, <2>1, <2>2, <2>4, DoneTyped DEF OperationAppends
<1>12. ASSUME NEW s \in Sessions, OperationFails(s)
       PROVE  RestTyped'
  <2>1. tail[s] # << >>
    BY <1>12 DEF OperationFails, IInv, CallsRemember
  <2>2. faulted' \subseteq Sessions
    BY <1>12, PersistTyped DEF OperationFails
  <2>3. Terminated(handle[s]) \in HandleState
    BY DEF Terminated, HandleState
  <2>4. CASE CallerFails(s) /\ Done(s) /\ UNCHANGED <<handle, failure>>
    BY <1>12, <2>1, <2>2, <2>4, DoneTyped
       DEF OperationFails, CallerFails, StopState
  <2>5. CASE /\ failure' = [failure EXCEPT ![s] = TRUE]
             /\ handle' = [handle EXCEPT ![s] = Terminated(@)]
             /\ step' = [step EXCEPT ![s] = "cleaning"]
             /\ UNCHANGED <<tail, seen, stops>>
    BY <1>12, <2>2, <2>3, <2>5 DEF OperationFails
  <2> QED
    BY <1>12, <2>4, <2>5 DEF OperationFails
<1>13. ASSUME NEW s \in Sessions, Report(s)
       PROVE  RestTyped'
  <2>1. \A status \in Reported : Append(tail[s], status) \in Seq(Operations)
    BY ReportedType, AppendProperties DEF Operations, Requests
  <2> QED
    BY <1>13, <2>1 DEF Report
<1>14. ASSUME NEW s \in Sessions,
              StopCall(s) \/ StopReturns(s) \/ StopReads(s)
       PROVE  RestTyped'
  BY <1>2, <1>14 DEF StopCall, StopReturns, StopReads, StopState
<1>15. ASSUME NEW s \in Sessions, StopFlushed(s)
       PROVE  RestTyped'
  <2>1. Append(tail[s], StopRequest) \in Seq(Operations)
    BY AppendProperties DEF Operations, Requests
  <2>2. Terminated(handle[s]) \in HandleState
    BY DEF Terminated, HandleState
  <2> QED
    <3>1. tail' \in [Sessions -> Seq(Operations)]
      BY <1>15, <2>1 DEF StopFlushed
    <3>2. handle' \in [Sessions -> HandleState]
      BY <1>15, <2>2 DEF StopFlushed
    <3>3. stopper' \in [Sessions -> StopState]
      <4>1. \E next \in StopState : stopper' = [stopper EXCEPT ![s] = next]
        <5>1. {"idle", "killing", "requesting"} \subseteq StopState
          BY DEF StopState
        <5> QED
          BY <1>15, <5>1 DEF StopFlushed
      <4> QED
        BY <4>1
    <3> QED
      BY <1>15, <3>1, <3>2, <3>3 DEF StopFlushed
<1>16. ASSUME NEW s \in Sessions, StopRecords(s)
       PROVE  RestTyped'
  BY <1>16, PersistTyped DEF StopRecords, StopState
<1>17. ASSUME NEW s \in Sessions, TerminalOperationFails(s)
       PROVE  RestTyped'
  <2>1. <<"failWrite">> \in Seq(RuntimeEvents)
    BY DEF RuntimeEvents, RuntimeFailures
  <2> QED
    BY <1>17, <2>1, EmitTyped DEF TerminalOperationFails
<1>18. ASSUME NEW s \in Sessions, KillFails(s)
       PROVE  RestTyped'
  <2>1. <<"failTerminate">> \in Seq(RuntimeEvents)
    BY DEF RuntimeEvents, RuntimeFailures
  <2> QED
    BY <1>18, <2>1, EmitTyped DEF KillFails, HandleState, StopState
<1>19. ASSUME NEW s \in Sessions, ProcessDies(s)
       PROVE  RestTyped'
  BY <1>19 DEF ProcessDies
<1>20. ASSUME NEW s \in Sessions, ExitDelivered(s)
       PROVE  RestTyped'
  <2>1. PICK events \in Seq(RuntimeEvents) : Emit(s, events)
    BY <1>20, ExitEventsTyped DEF ExitDelivered
  <2> QED
    BY <1>20, <2>1, EmitTyped DEF ExitDelivered, HandleState
<1>21. ASSUME NEW s \in Sessions, RestoreSession(s) \/ RestoreFails(s)
       PROVE  RestTyped'
  BY <1>21, PersistTyped DEF RestoreSession, RestoreFails, AppState
<1>22. CASE Quit
  BY <1>22 DEF Quit, AppState, StartState, HandleState, StopState
<1>23. CASE Launch \/ ResumeRefused \/ RestoreDone
  BY <1>23 DEF Launch, ResumeRefused, RestoreDone, AppState
<1>24. CASE UNCHANGED vars
  BY <1>24 DEF vars
<1> QED
  BY <1>3, <1>4, <1>5, <1>6, <1>7, <1>8, <1>9, <1>10, <1>11, <1>12, <1>13,
     <1>14, <1>15, <1>16, <1>17, <1>18, <1>19, <1>20, <1>21, <1>22, <1>23, <1>24
     DEF Next, SessionStep, StartStep, ChainStep, StopStep

-----------------------------------------------------------------------------
(* A step of one Session leaves every other Session alone.                 *)

SameCalls(t) ==
  /\ start'[t] = start[t] /\ handle'[t] = handle[t] /\ owned'[t] = owned[t]
  /\ tail'[t] = tail[t] /\ buf'[t] = buf[t] /\ step'[t] = step[t]
  /\ stopper'[t] = stopper[t] /\ stopSeen'[t] = stopSeen[t]
  /\ hist'[t] = hist[t]

LEMMA Bystander ==
  ASSUME TypeOK, NEW s \in Sessions, SessionStep(s), NEW t \in Sessions, t # s
  PROVE  SameCalls(t)
<1> USE DEF TypeOK, SameCalls, queues, stops, recovery
<1>1. CASE StartCall(s) \/ AutoResume(s)
  BY <1>1 DEF StartCall, AutoResume, Admit
<1>2. CASE StartStep(s)
  BY <1>2 DEF StartStep, Insert, InsertRefused, CommandBuilt, LaunchFails,
     Opened, InitialInputWritten, InitialInputFails, FailedStartReturns,
     Persist, Stored, NotStored, Drain
<1>3. CASE ChainStep(s)
  BY <1>3 DEF ChainStep, EventIgnored, RequestRefused, OperationReads,
     OperationAppends, OperationFails, FailureCleaned, CallerFails, AfterAppend,
     Done, Stored, NotStored
<1>4. CASE Report(s) \/ StopCall(s) \/ TerminalOperationFails(s) \/ KillFails(s)
           \/ ProcessDies(s) \/ ExitDelivered(s)
  BY <1>4 DEF Report, StopCall, TerminalOperationFails, KillFails, ProcessDies,
     ExitDelivered, Emit
<1>5. CASE StopStep(s)
  BY <1>5 DEF StopStep, StopFlushed, StopReturns, StopReads, StopRecords,
     Persist, Stored, NotStored
<1>6. CASE RestoreSession(s) \/ RestoreFails(s)
  BY <1>6 DEF RestoreSession, RestoreFails, Stored, NotStored
<1> QED
  BY <1>1, <1>2, <1>3, <1>4, <1>5, <1>6 DEF SessionStep

-----------------------------------------------------------------------------
(* The strengthening, for the Session that takes the step.                 *)

LEMMA StatusOfBegun ==
  ASSUME NEW h, h = <<FirstEvent>>
  PROVE  Exists(h)
BY DEF Exists, NoHistory

\* A Session without a row has nothing but a start call that may be checking.
LEMMA WorkBackedStep ==
  ASSUME IInv, NEW s \in Sessions, SessionStep(s), ~Exists(hist'[s]),
         Exists(hist[s]) => Exists(hist'[s])
  PROVE  Quiet(s)' /\ start'[s] \in {"idle", "checked"}
<1> USE DEF queues, stops, recovery
<1>1. ~Exists(hist[s]) /\ Quiet(s) /\ start[s] \in {"idle", "checked"}
  BY DEF IInv, WorkIsBacked
<1>2. start \in [Sessions -> StartState]
  BY DEF IInv, TypeOK
<1>3. CASE StartCall(s) \/ AutoResume(s)
  BY <1>1, <1>2, <1>3 DEF StartCall, AutoResume, Admit, Quiet
<1>4. CASE StartStep(s)
  <2>1. ~Insert(s)
    BY StatusOfBegun DEF Insert, IInv, TypeOK
  <2> QED
    BY <1>1, <1>2, <1>4, <2>1 DEF StartStep, InsertRefused, CommandBuilt,
       LaunchFails, Opened, InitialInputWritten, InitialInputFails,
       FailedStartReturns, Quiet
<1>5. ~ChainStep(s)
  BY <1>1 DEF ChainStep, EventIgnored, RequestRefused, OperationReads,
     OperationAppends, OperationFails, FailureCleaned, Busy, Quiet
<1>6. ~StopStep(s)
  BY <1>1 DEF StopStep, StopFlushed, StopReturns, StopReads, StopRecords, Quiet,
     ChainAwaited
<1>7. ~(Report(s) \/ StopCall(s) \/ TerminalOperationFails(s) \/ KillFails(s)
        \/ ExitDelivered(s))
  BY <1>1 DEF Report, StopCall, TerminalOperationFails, KillFails,
     ExitDelivered, Quiet
<1>8. CASE ProcessDies(s)
  BY <1>1, <1>8 DEF ProcessDies, Quiet
<1>9. CASE RestoreSession(s) \/ RestoreFails(s)
  BY <1>1, <1>9 DEF RestoreSession, RestoreFails, Lost, Unsettled
<1> QED
  BY <1>3, <1>4, <1>5, <1>6, <1>7, <1>8, <1>9 DEF SessionStep

\* Nobody else works on a Session whose process is not opened yet.
LEMMA LaunchAloneStep ==
  ASSUME IInv, NEW s \in Sessions, SessionStep(s),
         start'[s] \in {"inserted", "opening"}
  PROVE  hist'[s] = <<FirstEvent>> /\ Quiet(s)'
<1> USE DEF queues, stops, recovery
<1>1. /\ hist \in [Sessions -> History]
      /\ start \in [Sessions -> StartState]
  BY DEF IInv, TypeOK
<1>2. CASE Insert(s)
  BY <1>1, <1>2 DEF Insert, IInv, WorkIsBacked, Quiet
<1>3. ASSUME ~Insert(s)
      PROVE  start[s] \in {"inserted", "opening"}
  <2>1. CASE StartStep(s)
    BY <1>1, <1>3, <2>1 DEF StartStep, InsertRefused, CommandBuilt,
       LaunchFails, Opened, InitialInputWritten, InitialInputFails,
       FailedStartReturns
  <2>2. CASE StartCall(s) \/ AutoResume(s)
    BY <1>1, <2>2 DEF StartCall, AutoResume, Admit
  <2>3. CASE ChainStep(s)
    BY <2>3 DEF ChainStep, EventIgnored, RequestRefused, OperationReads,
       OperationAppends, OperationFails, FailureCleaned
  <2>4. CASE StopStep(s)
    BY <2>4 DEF StopStep, StopFlushed, StopReturns, StopReads, StopRecords
  <2>5. CASE Report(s) \/ StopCall(s) \/ TerminalOperationFails(s)
             \/ KillFails(s) \/ ProcessDies(s) \/ ExitDelivered(s)
             \/ RestoreSession(s) \/ RestoreFails(s)
    BY <2>5 DEF Report, StopCall, TerminalOperationFails, KillFails,
       ProcessDies, ExitDelivered, RestoreSession, RestoreFails
  <2> QED
    BY <2>1, <2>2, <2>3, <2>4, <2>5 DEF SessionStep
<1>4. ASSUME ~Insert(s)
      PROVE  hist'[s] = <<FirstEvent>> /\ Quiet(s)'
  <2>1. start[s] \in {"inserted", "opening"}
    BY <1>3, <1>4
  <2>2. hist[s] = <<FirstEvent>> /\ Quiet(s)
    BY <2>1 DEF IInv, LaunchIsAlone
  <2>3. ~(StartCall(s) \/ AutoResume(s))
    BY <2>1 DEF StartCall, AutoResume, Admit, Admissible
  <2>4. CASE StartStep(s)
    BY <1>1, <1>4, <2>1, <2>2, <2>4 DEF StartStep, InsertRefused, CommandBuilt,
       LaunchFails, Opened, InitialInputWritten, InitialInputFails,
       FailedStartReturns, Quiet
  <2>5. ~ChainStep(s)
    BY <2>2 DEF ChainStep, EventIgnored, RequestRefused, OperationReads,
       OperationAppends, OperationFails, FailureCleaned, Busy, Quiet
  <2>6. ~StopStep(s)
    BY <2>2 DEF StopStep, StopFlushed, StopReturns, StopReads, StopRecords,
       Quiet, ChainAwaited
  <2>7. ~(Report(s) \/ StopCall(s) \/ TerminalOperationFails(s) \/ KillFails(s)
          \/ ExitDelivered(s))
    BY <2>2 DEF Report, StopCall, TerminalOperationFails, KillFails,
       ExitDelivered, Quiet
  <2>8. CASE ProcessDies(s)
    BY <2>2, <2>8 DEF ProcessDies, Quiet
  <2>9. ~(RestoreSession(s) \/ RestoreFails(s))
    BY <2>1 DEF RestoreSession, RestoreFails, RecoveryIdle
  <2> QED
    BY <2>3, <2>4, <2>5, <2>6, <2>7, <2>8, <2>9 DEF SessionStep
<1> QED
  BY <1>2, <1>4


\* A non-empty chain stays non-empty when something is queued behind it.
LEMMA QueueingKeepsBusy ==
  ASSUME NEW q \in Seq(Operations), q # << >>, NEW r \in Seq(Operations),
         NEW op \in Operations
  PROVE  q \o r # << >> /\ Append(q, op) # << >>
<1>1. Len(q) \in Nat \ {0} /\ Len(r) \in Nat
  BY EmptySeq, LenProperties
<1>2. Len(q \o r) # 0
  BY <1>1, ConcatProperties
<1> QED
  BY <1>2, AppendProperties

LEMMA ChainHeadStays ==
  ASSUME IInv, NEW s \in Sessions, SessionStep(s), step'[s] # "ready"
  PROVE  tail'[s] # << >>
<1> USE DEF queues, stops, recovery
<1>1. /\ step \in [Sessions -> {"ready", "reading", "cleaning"}]
      /\ tail \in [Sessions -> Seq(Operations)]
      /\ buf \in [Sessions -> Seq(RuntimeEvents)]
      /\ start \in [Sessions -> StartState]
      /\ step[s] # "ready" => tail[s] # << >>
  BY DEF IInv, TypeOK, CallsRemember
<1>2. StopRequest \in Operations /\ Reportable \subseteq Operations
  BY DEF Operations, Requests
<1>3. ASSUME UNCHANGED <<tail, step>>
      PROVE  tail'[s] # << >>
  BY <1>1, <1>3
<1>4. ASSUME NEW r \in Seq(Operations), UNCHANGED step,
             tail' = [tail EXCEPT ![s] = @ \o r]
      PROVE  tail'[s] # << >>
  <2>1. tail'[s] = tail[s] \o r /\ tail[s] # << >>
    BY <1>1, <1>4
  <2> QED
    BY <1>1, <1>2, <2>1, QueueingKeepsBusy
<1>5. ASSUME NEW op \in Operations, UNCHANGED step,
             tail' = [tail EXCEPT ![s] = Append(@, op)]
      PROVE  tail'[s] # << >>
  BY <1>1, <1>5, QueueingKeepsBusy, EmptySeq
<1>6. ASSUME NEW events \in Seq(RuntimeEvents), Emit(s, events), UNCHANGED step
      PROVE  tail'[s] # << >>
  BY <1>3, <1>4, <1>6, QueueTypes DEF Emit
<1>7. CASE StartStep(s)
  <2>1. CASE Opened(s)
    BY <1>1, <2>1 DEF Opened, IInv, LaunchIsAlone, Quiet
  <2>2. CASE InitialInputWritten(s) \/ FailedStartReturns(s)
    <3>1. buf[s] \in Seq(Operations)
      BY <1>1, QueueTypes
    <3> QED
      BY <1>4, <2>2, <3>1 DEF InitialInputWritten, FailedStartReturns, Drain
  <2>3. CASE \/ Insert(s) \/ InsertRefused(s) \/ CommandBuilt(s)
             \/ LaunchFails(s) \/ InitialInputFails(s)
    BY <1>3, <2>3 DEF Insert, InsertRefused, CommandBuilt, LaunchFails,
       InitialInputFails
  <2> QED
    BY <1>7, <2>1, <2>2, <2>3 DEF StartStep
<1>8. CASE ChainStep(s)
  <2>1. ~Done(s)
    BY <1>1 DEF Done
  <2> QED
    BY <1>1, <1>8, <2>1 DEF ChainStep, EventIgnored, RequestRefused,
       OperationReads, OperationAppends, OperationFails, FailureCleaned, Busy
<1>9. CASE StopStep(s)
  BY <1>2, <1>3, <1>5, <1>9 DEF StopStep, StopFlushed, StopReturns, StopReads,
     StopRecords
<1>10. CASE Report(s)
  BY <1>2, <1>5, <1>10, ReportedType DEF Report
<1>11. CASE TerminalOperationFails(s) \/ KillFails(s)
  <2>1. /\ <<"failWrite">> \in Seq(RuntimeEvents)
        /\ <<"failTerminate">> \in Seq(RuntimeEvents)
    BY DEF RuntimeEvents, RuntimeFailures
  <2> QED
    BY <1>6, <1>11, <2>1 DEF TerminalOperationFails, KillFails
<1>12. CASE ExitDelivered(s)
  <2>1. PICK events \in Seq(RuntimeEvents) : Emit(s, events)
    BY <1>12, ExitEventsTyped DEF ExitDelivered
  <2> QED
    BY <1>6, <1>12, <2>1 DEF ExitDelivered
<1>13. CASE \/ StartCall(s) \/ AutoResume(s) \/ StopCall(s) \/ ProcessDies(s)
            \/ RestoreSession(s) \/ RestoreFails(s)
  BY <1>3, <1>13 DEF StartCall, AutoResume, Admit, StopCall, ProcessDies,
     RestoreSession, RestoreFails
<1> QED
  BY <1>7, <1>8, <1>9, <1>10, <1>11, <1>12, <1>13 DEF SessionStep

\* A snapshot that a stop call holds falls behind as soon as the history grows.
LEMMA StopSnapshotStays ==
  ASSUME IInv, NEW s \in Sessions, SessionStep(s), stopper'[s] = "recording",
         UNCHANGED hist \/ HistoryMoves
  PROVE  /\ stopSeen'[s] <= Len(hist'[s])
         /\ stopSeen'[s] = Len(hist'[s]) => Status(hist'[s]) # "EXITED"
<1> USE DEF queues, stops, recovery
<1>1. /\ stopper \in [Sessions -> StopState]
      /\ stopSeen \in [Sessions -> Nat]
      /\ hist \in [Sessions -> History]
      /\ Len(hist[s]) \in Nat
  BY LenProperties DEF IInv, TypeOK, History
<1>2. CASE StopReads(s)
  BY <1>1, <1>2 DEF StopReads
<1>3. ASSUME ~StopReads(s)
      PROVE  stopper[s] = "recording" /\ stopSeen'[s] = stopSeen[s]
  <2>1. CASE StopStep(s)
    BY <1>1, <1>3, <2>1 DEF StopStep, StopFlushed, StopReturns, StopRecords
  <2>2. CASE ChainStep(s)
    BY <1>1, <2>2 DEF ChainStep, EventIgnored, RequestRefused, OperationReads,
       OperationAppends, OperationFails, FailureCleaned, CallerFails, AfterAppend
  <2>3. CASE StartStep(s)
    BY <1>1, <2>3 DEF StartStep, Insert, InsertRefused, CommandBuilt,
       LaunchFails, Opened, InitialInputWritten, InitialInputFails,
       FailedStartReturns
  <2>4. CASE StartCall(s) \/ AutoResume(s) \/ Report(s) \/ StopCall(s)
             \/ TerminalOperationFails(s) \/ KillFails(s) \/ ProcessDies(s)
             \/ ExitDelivered(s) \/ RestoreSession(s) \/ RestoreFails(s)
    BY <1>1, <2>4 DEF StartCall, AutoResume, Admit, Report, StopCall,
       TerminalOperationFails, KillFails, ProcessDies, ExitDelivered,
       RestoreSession, RestoreFails
  <2> QED
    BY <2>1, <2>2, <2>3, <2>4 DEF SessionStep
<1>4. ASSUME ~StopReads(s)
      PROVE  /\ stopSeen'[s] <= Len(hist'[s])
             /\ stopSeen'[s] = Len(hist'[s]) => Status(hist'[s]) # "EXITED"
  <2>1. /\ stopSeen[s] <= Len(hist[s])
        /\ stopSeen[s] = Len(hist[s]) => Status(hist[s]) # "EXITED"
        /\ Exists(hist[s])
    BY <1>3, <1>4 DEF IInv, CallsRemember, WorkIsBacked, Quiet
  <2>2. hist'[s] # hist[s] => Len(hist'[s]) = Len(hist[s]) + 1
    BY <2>1, <1>1, HistoriesKept DEF IInv
  <2> QED
    BY <1>1, <1>3, <1>4, <2>1, <2>2
<1> QED
  BY <1>2, <1>4

-----------------------------------------------------------------------------
(* The theorems.                                                           *)

\* No action invalidates the inductive invariant.
LEMMA IInvStep ==
  ASSUME IInv, [Next]_vars
  PROVE  IInv'
<1>1. hist \in [Sessions -> History] /\ HistoriesReplay /\ OneWriter
  BY DEF IInv, TypeOK
<1>2. UNCHANGED hist \/ HistoryMoves
  BY HistoryChange
<1>3. /\ hist' \in [Sessions -> History]
      /\ HistoriesReplay'
      /\ \A s \in Sessions : Exists(hist[s]) => Exists(hist'[s])
  BY <1>1, <1>2, HistoriesKept
<1>4. OneWriter'
  BY <1>1, <1>2, OneWriterKept
<1>5. TypeOK'
  BY <1>3, RestKept DEF RestTyped, TypeOK
<1>6. WorkIsBacked' /\ LaunchIsAlone' /\ CallsRemember'
  <2>1. ASSUME NEW s \in Sessions, SessionStep(s)
        PROVE  WorkIsBacked' /\ LaunchIsAlone' /\ CallsRemember'
    <3>1. \A t \in Sessions \ {s} : SameCalls(t)
      BY <2>1, Bystander DEF IInv
    <3>2. WorkIsBacked'
      BY <1>3, <2>1, <3>1, WorkBackedStep
         DEF IInv, WorkIsBacked, SameCalls, Quiet
    <3>3. LaunchIsAlone'
      BY <2>1, <3>1, LaunchAloneStep DEF IInv, LaunchIsAlone, SameCalls, Quiet
    <3>4. CallsRemember'
      BY <1>2, <2>1, <3>1, ChainHeadStays, StopSnapshotStays
         DEF IInv, CallsRemember, SameCalls
    <3> QED
      BY <3>2, <3>3, <3>4
  <2>2. CASE Quit
    BY <2>2
       DEF Quit, WorkIsBacked, LaunchIsAlone, CallsRemember, Quiet
  <2>3. CASE Launch \/ ResumeRefused \/ RestoreDone \/ UNCHANGED vars
    BY <2>3 DEF Launch, ResumeRefused, RestoreDone, vars, IInv, WorkIsBacked,
       LaunchIsAlone, CallsRemember, Quiet, queues, stops
  <2> QED
    BY <2>1, <2>2, <2>3 DEF Next
<1> QED
  BY <1>3, <1>4, <1>5, <1>6 DEF IInv

\* The inductive invariant holds of an empty store.
LEMMA IInvInit ==
  ASSUME Init
  PROVE  IInv
<1>1. /\ << >> \in History
      /\ << >> \in Seq(Operations)
      /\ << >> \in Seq(RuntimeEvents)
  BY DEF History
<1>2. \A s \in Sessions : hist[s] = << >> /\ ~Exists(hist[s])
  BY DEF Init, NoHistory, Exists
<1>3. TypeOK
  BY <1>1 DEF Init, TypeOK, NoHistory, AppState, StartState, HandleState,
     StopState
<1>4. WorkIsBacked /\ LaunchIsAlone /\ CallsRemember
  BY DEF Init, WorkIsBacked, LaunchIsAlone, CallsRemember, Quiet
<1>5. HistoriesReplay /\ OneWriter
  BY <1>2 DEF HistoriesReplay, OneWriter, Unsettled
<1> QED
  BY <1>3, <1>4, <1>5 DEF IInv

\* The first invariant, about the store and the calls that work on it.
THEOREM Inductive == Spec => []IInv
BY IInvInit, IInvStep, PTL DEF Spec

\* Every variable keeps its type: what the store, the coordinator and the
\* handles hold are always histories, operations and states of the program.
THEOREM TypeCorrect == Spec => []TypeOK
BY Inductive, PTL DEF IInv

\* The store never holds two unsettled attempts of one Task, whatever the
\* interleaving of start calls, failures, crashes and restart recovery.
THEOREM OneWriterAlways == Spec => []OneWriter
BY Inductive, PTL DEF IInv

\* Whatever the coordinator stores can be read back after any restart.
THEOREM HistoriesAlwaysReplay == Spec => []HistoriesReplay
BY Inductive, PTL DEF IInv

\* Settlement evidence is never taken back.
THEOREM SettlementFinal == Spec => SettlementIsFinal
<1>1. IInv /\ [Next]_vars =>
        [\A s \in Sessions : Settled(hist[s]) => Settled(hist'[s])]_hist
  BY HistoryChange, HistoriesKept DEF IInv, TypeOK
<1> QED
  BY <1>1, Inductive, PTL DEF Spec, SettlementIsFinal

-----------------------------------------------------------------------------
(* The refinement: stored histories implement the lease.                   *)

Holders == {s \in Sessions : Unsettled(hist[s])}
Spent == {s \in Sessions : Settled(hist[s])}

LEMMA BeginsAcquires ==
  ASSUME IInv, NEW s \in Sessions, Begins(s)
  PROVE  Lease!Acquire(s)
<1>1. hist \in [Sessions -> History]
  BY DEF IInv, TypeOK
<1>2. /\ \A t \in Sessions \ {s} : hist'[t] = hist[t]
      /\ hist'[s] = <<FirstEvent>>
  BY <1>1 DEF Begins
<1>3. s \notin Holders \cup Spent
  BY DEF Begins, Holders, Spent, Unsettled, Settled
<1>4. \A t \in Holders : TaskOf[t] # TaskOf[s]
  BY DEF Begins, WriterOf, Siblings, Holders
<1>5. Holders' = Holders \cup {s} /\ Spent' = Spent
  BY <1>2, <1>3, FirstHistory DEF Holders, Spent, Settled
<1> QED
  BY <1>3, <1>4, <1>5 DEF Lease!Acquire, Holders, Spent

LEMMA GrowsReleases ==
  ASSUME IInv, NEW s \in Sessions, Grows(s)
  PROVE  Lease!Release(s) \/ UNCHANGED <<Holders, Spent>>
<1>1. hist \in [Sessions -> History]
  BY DEF IInv, TypeOK
<1>2. \A t \in Sessions \ {s} : hist'[t] = hist[t]
  BY <1>1 DEF Grows
<1>3. /\ Exists(hist[s]) /\ Exists(hist'[s])
      /\ Settled(hist[s]) => Settled(hist'[s])
  BY HistoriesKept DEF Grows, HistoryMoves, IInv, TypeOK
<1>4. CASE Unsettled(hist[s]) /\ Settled(hist'[s])
  <2>1. Holders' = Holders \ {s} /\ Spent' = Spent \cup {s}
    BY <1>2, <1>4 DEF Holders, Spent, Settled
  <2> QED
    BY <1>4, <2>1 DEF Lease!Release, Holders, Spent
<1>5. CASE ~(Unsettled(hist[s]) /\ Settled(hist'[s]))
  <2>1. /\ Unsettled(hist'[s]) = Unsettled(hist[s])
        /\ Settled(hist'[s]) = Settled(hist[s])
    BY <1>3, <1>5 DEF Settled, Unsettled
  <2> QED
    BY <1>2, <2>1 DEF Holders, Spent
<1> QED
  BY <1>4, <1>5

\* The Agent Session store implements the lease that everything working in a
\* Worktree relies on: taken by one attempt at a time, released once, never
\* taken back.
THEOREM ImplementsLease == Spec => LeaseSpec
<1>1. Init => Lease!Init
  BY DEF Init, Lease!Init, Unsettled, Settled, Exists, NoHistory
<1>2. ASSUME IInv, [Next]_vars
      PROVE  [Lease!Next]_(Lease!lease)
  <2>1. CASE UNCHANGED hist
    BY <2>1 DEF Lease!lease
  <2>2. CASE HistoryMoves
    <3>1. PICK s \in Sessions : Begins(s) \/ Grows(s)
      BY <2>2 DEF HistoryMoves
    <3> QED
      BY <1>2, <3>1, BeginsAcquires, GrowsReleases
         DEF Lease!Next, Lease!lease, Holders, Spent
  <2> QED
    BY <1>2, <2>1, <2>2, HistoryChange
<1> QED
  BY <1>1, <1>2, Inductive, PTL DEF Spec, LeaseSpec, Lease!Spec

-----------------------------------------------------------------------------
(* Settlement: what an event says of the process behind it.                *)

\* An accepted event makes a history evident when it is evidence itself, and
\* a settled history is evident.
LEMMA EvidenceAppended ==
  ASSUME NEW h \in History, NEW e \in SessionEvent, Recordable(h, e)
  PROVE  /\ Evident(Append(h, e)) =>
              Evident(h) \/ e.kind = "PROCESS_EXITED" \/ SettlingFailure(e)
         /\ e.kind = "PROCESS_EXITED" \/ SettlingFailure(e) => Settled(Append(h, e))
         /\ Settled(Append(h, e)) => Evident(Append(h, e))
<1> DEFINE k == Append(h, e)
<1> USE Appended
<1>1. Evident(k) => Evident(h) \/ e.kind = "PROCESS_EXITED" \/ SettlingFailure(e)
  <2>1. \A i \in DOMAIN k : (i \in DOMAIN h /\ k[i] = h[i]) \/ k[i] = e
    OBVIOUS
  <2> QED
    BY <2>1 DEF Evident, HasKind
<1>2. Len(h) + 1 \in DOMAIN k /\ k[Len(h) + 1] = e /\ Status(k) = e.status
  OBVIOUS
<1>3. CASE e.kind = "PROCESS_EXITED"
  <2>1. Status(k) \in {"EXITED", "FAILED"} /\ HasKind(k, "PROCESS_EXITED")
    BY <1>2, <1>3 DEF Recordable, HasKind
  <2> QED
    BY <1>1, <1>2, <2>1 DEF Evident, Settled, Unsettled, SettledFailure
<1>4. CASE SettlingFailure(e)
  <2>1. Status(k) = "FAILED" /\ \E i \in DOMAIN k : SettlingFailure(k[i])
    BY <1>2, <1>4 DEF Recordable, SettlingFailure
  <2> QED
    BY <1>1, <1>2, <2>1 DEF Evident, Settled, Unsettled, SettledFailure
<1>5. Settled(k) => Evident(k)
  <2>1. CASE Status(k) = "EXITED"
    <3>1. e.kind = "PROCESS_EXITED"
      BY <1>2, <2>1 DEF Recordable, Reportable, LiveStatus
    <3> QED
      BY <1>2, <3>1 DEF Evident, HasKind
  <2>2. CASE SettledFailure(k)
    BY <2>2 DEF SettledFailure, Evident
  <2> QED
    BY <2>1, <2>2 DEF Settled, Unsettled
<1> QED
  BY <1>1, <1>3, <1>4, <1>5

\* An unsettled Session is settled by an event that is evidence.
LEMMA SettledByEvidence ==
  ASSUME IInv, EvidenceSettles, NEW s \in Sessions,
         UNCHANGED hist \/ HistoryMoves,
         Settled(hist'[s]), ~Settled(hist[s])
  PROVE  /\ Unsettled(hist[s])
         /\ \E e \in SessionEvent :
              /\ hist'[s] = Append(hist[s], e)
              /\ e.kind = "PROCESS_EXITED" \/ SettlingFailure(e)
<1>1. ~(~Exists(hist[s]) /\ hist'[s] = <<FirstEvent>>)
  BY FirstHistory DEF Settled
<1>2. PICK e \in SessionEvent :
        Exists(hist[s]) /\ Recordable(hist[s], e) /\ hist'[s] = Append(hist[s], e)
  BY <1>1, OneHistory DEF IInv, TypeOK
<1>3. ~Evident(hist[s])
  BY <1>2 DEF EvidenceSettles
<1> QED
  BY <1>2, <1>3, EvidenceAppended DEF Settled, IInv, TypeOK

\* A stored history that tells why the process is over is a settled one.
LEMMA EvidenceKept ==
  ASSUME IInv, EvidenceSettles, UNCHANGED hist \/ HistoryMoves
  PROVE  EvidenceSettles'
<1> SUFFICES ASSUME NEW s \in Sessions, Exists(hist'[s]), Evident(hist'[s])
             PROVE  Settled(hist'[s])
  BY DEF EvidenceSettles
<1>1. CASE hist'[s] = hist[s]
  BY <1>1 DEF EvidenceSettles
<1>2. ~Evident(<<FirstEvent>>)
  BY DEF Evident, HasKind, FirstEvent, Plain, SettlingFailure
<1>3. ASSUME NEW e \in SessionEvent, Exists(hist[s]), Recordable(hist[s], e),
             hist'[s] = Append(hist[s], e)
      PROVE  Settled(hist'[s])
  BY <1>3, EvidenceAppended, SettledStays DEF EvidenceSettles, IInv, TypeOK
<1> QED
  BY <1>1, <1>2, <1>3, OneHistory DEF IInv, TypeOK

\* Two appends that give the same history appended the same event.
LEMMA OneEvent ==
  ASSUME NEW h \in History, NEW e \in SessionEvent, NEW f \in SessionEvent,
         Append(h, e) = Append(h, f)
  PROVE  e = f
BY Appended

\* The steps that settle a Session: a failed launch, the recovery of a lost
\* one, and the end of a process that reaches the head of its chain.
LEMMA Settling ==
  ASSUME IInv, EvidenceSettles, NEW s \in Sessions, SessionStep(s),
         Settled(hist'[s]), ~Settled(hist[s])
  PROVE  \/ LaunchFails(s) \/ RestoreSession(s)
         \/ OperationAppends(s) /\ tail[s] # << >> /\ Operation(s) \in {"exited", "failSpawn"}
<1>0. UNCHANGED hist \/ HistoryMoves
  BY HistoryChange DEF Next
<1>1. PICK e \in SessionEvent :
        /\ hist'[s] = Append(hist[s], e)
        /\ e.kind = "PROCESS_EXITED" \/ SettlingFailure(e)
  BY <1>0, SettledByEvidence
<1>2. hist \in [Sessions -> History] /\ hist' # hist
  BY DEF IInv, TypeOK
<1>3. ASSUME NEW f \in SessionEvent, f.kind # "PROCESS_EXITED", ~SettlingFailure(f)
      PROVE  hist' # [hist EXCEPT ![s] = Append(@, f)]
  BY <1>1, <1>2, <1>3, OneEvent
<1>4. ~Insert(s)
  BY <1>2, FirstHistory DEF Insert, Settled
<1>5. ~InitialInputFails(s)
  <2>1. Failure("WRITE", TRUE, "FAILED") \in SessionEvent
    BY FailureType DEF FailureStage, SessionStatus
  <2>2. /\ Failure("WRITE", TRUE, "FAILED").kind # "PROCESS_EXITED"
        /\ ~SettlingFailure(Failure("WRITE", TRUE, "FAILED"))
    BY DEF Failure, SettlingFailure
  <2> QED
    BY <1>2, <1>3, <2>1, <2>2 DEF InitialInputFails, Persist, Stored, NotStored
<1>6. ~StopRecords(s)
  <2> SUFFICES ASSUME StopRecords(s) PROVE FALSE
    OBVIOUS
  <2> DEFINE f == FailureAfter(Snapshot(s, stopSeen[s]), "TERMINATE", FALSE)
  <2>1. Stored(s, stopSeen[s], f)
    BY <1>2 DEF StopRecords, Persist, NotStored
  <2>2. Snapshot(s, stopSeen[s]) = hist[s]
    BY <1>2, <2>1, AcceptedSnapshot
  <2>3. f = Failure("TERMINATE", FALSE, Status(hist[s]))
    BY <2>2 DEF FailureAfter
  <2>4. Status(hist[s]) \in SessionStatus
    BY <1>0, <1>2, SettledByEvidence, StatusType DEF Unsettled
  <2>5. f \in SessionEvent
    BY <2>3, <2>4, FailureType DEF FailureStage
  <2> HIDE DEF f
  <2>6. f.kind # "PROCESS_EXITED" /\ ~SettlingFailure(f)
    BY <2>3 DEF Failure, SettlingFailure
  <2> QED
    BY <1>3, <2>1, <2>5, <2>6 DEF Stored
<1>7. ASSUME OperationAppends(s)
      PROVE  tail[s] # << >> /\ Operation(s) \in {"exited", "failSpawn"}
  <2> DEFINE before == Snapshot(s, seen[s])
             f == EventFor(before, Operation(s))
  <2>1. Stored(s, seen[s], f)
    BY <1>2, <1>7 DEF OperationAppends
  <2>2. tail[s] # << >>
    BY <1>7 DEF OperationAppends, IInv, CallsRemember
  <2>3. Operation(s) \in Operations
    BY <2>2, HeadTailProperties DEF IInv, TypeOK, Operation
  <2>4. before = hist[s]
    BY <1>2, <2>1, AcceptedSnapshot
  <2>5. f \in SessionEvent
    BY <1>0, <1>2, <2>3, <2>4, EventForType, SettledByEvidence DEF Unsettled
  <2>6. f.kind = "PROCESS_EXITED" \/ SettlingFailure(f)
    <3> HIDE DEF f
    <3> QED
      BY <1>3, <2>1, <2>5 DEF Stored
  <2>7. Operation(s) \notin {"exited", "failSpawn"} =>
          f.kind # "PROCESS_EXITED" /\ ~SettlingFailure(f)
    BY <2>3 DEF EventFor, FailureAfter, Failure, Plain, StageOf, RuntimeFailures,
                SettlingFailure, Operations, Requests, RuntimeEvents, FatalOps
  <2> QED
    BY <2>2, <2>6, <2>7
<1>8. ~OperationFails(s) /\ ~RestoreFails(s)
  BY <1>2 DEF OperationFails, RestoreFails, NotStored
<1>9. ~(\/ StartCall(s) \/ InsertRefused(s) \/ CommandBuilt(s)
        \/ Opened(s) \/ InitialInputWritten(s) \/ FailedStartReturns(s)
        \/ EventIgnored(s) \/ RequestRefused(s) \/ OperationReads(s)
        \/ FailureCleaned(s) \/ Report(s)
        \/ StopCall(s) \/ StopFlushed(s) \/ StopReturns(s) \/ StopReads(s)
        \/ TerminalOperationFails(s) \/ KillFails(s)
        \/ ProcessDies(s) \/ ExitDelivered(s) \/ AutoResume(s))
  BY <1>2 DEF StartCall, Admit, AutoResume, InsertRefused, CommandBuilt,
     Opened, InitialInputWritten, FailedStartReturns, EventIgnored,
     RequestRefused, OperationReads, FailureCleaned, Report, StopCall,
     StopFlushed, StopReturns, StopReads, TerminalOperationFails, KillFails,
     ProcessDies, ExitDelivered
<1> QED
  BY <1>4, <1>5, <1>6, <1>7, <1>8, <1>9
     DEF SessionStep, StartStep, ChainStep, StopStep

-----------------------------------------------------------------------------
(* The process, its handle and the exit events.                            *)

\* The variables that SameCalls does not name.
LEMMA BystanderProcess ==
  ASSUME TypeOK, NEW s \in Sessions, SessionStep(s), NEW t \in Sessions, t # s
  PROVE  proc'[t] = proc[t] /\ (t \in born' <=> t \in born)
<1> USE DEF TypeOK, queues, stops, recovery
<1>1. CASE Insert(s) \/ Opened(s) \/ ProcessDies(s)
  BY <1>1 DEF Insert, Opened, ProcessDies
<1>2. CASE StartStep(s) /\ ~Insert(s) /\ ~Opened(s)
  BY <1>2 DEF StartStep, InsertRefused, CommandBuilt, LaunchFails,
     InitialInputWritten, InitialInputFails, FailedStartReturns
<1>3. CASE ChainStep(s) \/ StopStep(s)
  BY <1>3 DEF ChainStep, EventIgnored, RequestRefused, OperationReads,
     OperationAppends, OperationFails, FailureCleaned, StopStep, StopFlushed,
     StopReturns, StopReads, StopRecords
<1>4. CASE \/ StartCall(s) \/ AutoResume(s) \/ Report(s) \/ StopCall(s)
           \/ TerminalOperationFails(s) \/ KillFails(s) \/ ExitDelivered(s)
           \/ RestoreSession(s) \/ RestoreFails(s)
  BY <1>4 DEF StartCall, AutoResume, Admit, Report, StopCall,
     TerminalOperationFails, KillFails, ExitDelivered, RestoreSession,
     RestoreFails
<1> QED
  BY <1>1, <1>2, <1>3, <1>4 DEF SessionStep, StartStep

\* A handle is opened once, before that the Session is as it was inserted.
LEMMA OpenedFirst ==
  ASSUME IInv, NEW s \in Sessions, Opened(s)
  PROVE  /\ Unsettled(hist'[s]) /\ Exists(hist'[s])
         /\ handle[s] = "none" /\ ~Ends(tail[s]) /\ ~Ends(buf[s])
         /\ handle'[s] = "running" /\ proc'[s] = "live" /\ owned'[s]
         /\ start'[s] \in {"idle", "writing"}
         /\ ~Ends(tail'[s]) /\ ~Ends(buf'[s])
<1>1. hist[s] = <<FirstEvent>> /\ Quiet(s) /\ hist'[s] = hist[s]
  BY DEF Opened, IInv, LaunchIsAlone
<1>2. ~Ends(<< >>) /\ ~Ends(<<"started">>)
  BY DEF Ends
<1>3. handle'[s] = "running" /\ proc'[s] = "live" /\ owned'[s]
      /\ start'[s] \in {"idle", "writing"}
  BY DEF Opened, IInv, TypeOK
<1>4. tail'[s] \in {<< >>, <<"started">>} /\ buf'[s] \in {<< >>, <<"started">>}
  BY <1>1 DEF Opened, IInv, TypeOK, Quiet
<1> QED
  BY <1>1, <1>2, <1>3, <1>4, FirstHistory DEF Quiet

\* Every other step: a process only dies, a handle is neither opened nor
\* forgotten, and "exited" is its last state.
LEMMA HandleMoves ==
  ASSUME TypeOK, NEW s \in Sessions, SessionStep(s), ~Opened(s)
  PROVE  /\ proc'[s] = proc[s] \/ (proc[s] = "live" /\ proc'[s] = "dead")
         /\ handle[s] = "none" <=> handle'[s] = "none"
         /\ handle[s] = "exited" => handle'[s] = "exited"
         /\ handle'[s] = "exited" /\ ~ExitDelivered(s) => handle[s] = "exited"
<1> USE DEF queues, stops, recovery
<1>0. /\ proc \in [Sessions -> {"none", "live", "dead"}]
      /\ handle \in [Sessions -> HandleState]
  BY DEF TypeOK
<1> DEFINE Kept == /\ UNCHANGED proc
                   /\ \/ UNCHANGED handle
                      \/ handle' = [handle EXCEPT ![s] = Terminated(@)]
<1>1. CASE StartStep(s)
  <2>1. Kept
    BY <1>1 DEF StartStep, Insert, InsertRefused, CommandBuilt, LaunchFails,
       InitialInputWritten, InitialInputFails, FailedStartReturns
  <2> QED
    BY <1>0, <2>1 DEF Terminated
<1>2. CASE ChainStep(s)
  <2>1. Kept
    BY <1>2 DEF ChainStep, EventIgnored, RequestRefused, OperationReads,
       OperationAppends, OperationFails, FailureCleaned, AfterAppend
  <2> QED
    BY <1>0, <2>1 DEF Terminated
<1>3. CASE StopStep(s)
  <2>1. Kept
    BY <1>3 DEF StopStep, StopFlushed, StopReturns, StopReads, StopRecords
  <2> QED
    BY <1>0, <2>1 DEF Terminated
<1>4. CASE \/ StartCall(s) \/ AutoResume(s) \/ Report(s) \/ StopCall(s)
           \/ TerminalOperationFails(s) \/ RestoreSession(s) \/ RestoreFails(s)
  <2>1. Kept
    BY <1>4 DEF StartCall, AutoResume, Admit, Report, StopCall,
       TerminalOperationFails, RestoreSession, RestoreFails
  <2> QED
    BY <1>0, <2>1 DEF Terminated
<1>5. CASE KillFails(s)
  BY <1>0, <1>5 DEF KillFails
<1>6. CASE ProcessDies(s)
  BY <1>0, <1>6 DEF ProcessDies
<1>7. CASE ExitDelivered(s)
  BY <1>0, <1>7 DEF ExitDelivered
<1> QED
  BY <1>1, <1>2, <1>3, <1>4, <1>5, <1>6, <1>7 DEF SessionStep

\* What queueing and taking operations does to the settling ones.
LEMMA EndsJoined ==
  ASSUME NEW q \in Seq(Operations), NEW r \in Seq(Operations), Ends(q \o r)
  PROVE  Ends(q) \/ Ends(r)
<1>1. /\ Len(q) \in Nat /\ Len(r) \in Nat
      /\ DOMAIN q = 1..Len(q) /\ DOMAIN r = 1..Len(r)
  BY LenProperties
<1>2. PICK i \in DOMAIN (q \o r) : (q \o r)[i] \in {"exited", "failSpawn"}
  BY DEF Ends
<1>3. /\ i \in 1..(Len(q) + Len(r))
      /\ (q \o r)[i] = IF i <= Len(q) THEN q[i] ELSE r[i - Len(q)]
  BY <1>1, <1>2, ConcatProperties, LenProperties
<1>4. CASE i <= Len(q)
  BY <1>1, <1>2, <1>3, <1>4 DEF Ends
<1>5. CASE ~(i <= Len(q))
  <2>1. i - Len(q) \in 1..Len(r)
    BY <1>1, <1>3, <1>5
  <2> QED
    BY <1>1, <1>2, <1>3, <1>5, <2>1 DEF Ends
<1> QED
  BY <1>4, <1>5

\* A queue settles after an append when it did before or by the new operation.
LEMMA EndsAppended ==
  ASSUME NEW q \in Seq(Operations), NEW op \in Operations, Ends(Append(q, op))
  PROVE  Ends(q) \/ op \in {"exited", "failSpawn"}
<1>1. /\ Len(q) \in Nat /\ DOMAIN q = 1..Len(q)
      /\ \A i \in 1..Len(q) : Append(q, op)[i] = q[i]
      /\ Append(q, op)[Len(q) + 1] = op
      /\ DOMAIN Append(q, op) = 1..(Len(q) + 1)
  BY AppendProperties, LenProperties
<1> QED
  BY <1>1 DEF Ends

\* Taking the head of a queue adds nothing to the rest.
LEMMA EndsTaken ==
  ASSUME NEW q \in Seq(Operations), q # << >>
  PROVE  /\ Ends(Tail(q)) => Ends(q)
         /\ Head(q) \in {"exited", "failSpawn"} => Ends(q)
<1>1. /\ Len(q) \in Nat \ {0} /\ DOMAIN q = 1..Len(q) /\ Head(q) = q[1]
      /\ Len(Tail(q)) = Len(q) - 1 /\ Tail(q) \in Seq(Operations)
      /\ \A i \in 1..Len(Tail(q)) : Tail(q)[i] = q[i + 1]
  BY HeadTailProperties, EmptySeq, LenProperties
<1>2. DOMAIN Tail(q) = 1..Len(Tail(q))
  BY <1>1, LenProperties
<1> QED
  BY <1>1, <1>2 DEF Ends

\* Only the delivery of an exit queues an operation that settles.
LEMMA EndsMove ==
  ASSUME IInv, NEW s \in Sessions, SessionStep(s), ~Opened(s),
         Ends(tail'[s]) \/ Ends(buf'[s])
  PROVE  Ends(tail[s]) \/ Ends(buf[s]) \/ ExitDelivered(s)
<1> USE DEF queues, stops, recovery
<1>0. /\ tail \in [Sessions -> Seq(Operations)] /\ tail[s] \in Seq(Operations)
      /\ buf \in [Sessions -> Seq(RuntimeEvents)] /\ buf[s] \in Seq(Operations)
  BY QueueTypes DEF IInv, TypeOK
<1>1. "failWrite" \in Operations /\ "failTerminate" \in Operations
      /\ StopRequest \in Operations /\ ~Ends(<< >>)
      /\ ~(StopRequest \in {"exited", "failSpawn"})
  BY DEF Operations, Requests, RuntimeEvents, RuntimeFailures, StopRequest, Ends
<1>2. \A op \in {"failWrite", "failTerminate"} :
        ~Ends(<<op>>) /\ <<op>> \in Seq(Operations)
  BY <1>1 DEF Ends
<1>3. CASE UNCHANGED <<tail, buf>>
  BY <1>3
<1>4. CASE Drain(s)
  BY <1>0, <1>1, <1>4, EndsJoined DEF Drain
<1>5. CASE Done(s) /\ UNCHANGED buf /\ tail[s] # << >>
  BY <1>0, <1>5, EndsTaken DEF Done
<1>6. CASE \E op \in {"failWrite", "failTerminate"} : Emit(s, <<op>>)
  BY <1>0, <1>2, <1>6, EndsJoined DEF Emit
<1>7. CASE StartStep(s)
  <2>1. CASE InitialInputFails(s)
    BY <1>0, <1>1, <2>1, EndsAppended DEF InitialInputFails
  <2> QED
    BY <1>3, <1>4, <1>7, <2>1
       DEF StartStep, Insert, InsertRefused, CommandBuilt, LaunchFails,
           InitialInputWritten, FailedStartReturns
<1>8. CASE ChainStep(s)
  <2>1. tail[s] # << >>
    BY <1>8 DEF ChainStep, EventIgnored, RequestRefused, OperationReads, Busy,
       OperationAppends, OperationFails, FailureCleaned, IInv, CallsRemember
  <2> QED
    BY <1>3, <1>5, <1>8, <2>1
       DEF ChainStep, EventIgnored, RequestRefused, OperationReads,
           OperationAppends, OperationFails, FailureCleaned
<1>9. CASE StopStep(s)
  <2>1. CASE UNCHANGED buf /\ tail' = [tail EXCEPT ![s] = Append(@, StopRequest)]
    BY <1>0, <1>1, <2>1, EndsAppended
  <2> QED
    BY <1>3, <1>9, <2>1 DEF StopStep, StopFlushed, StopReturns, StopReads, StopRecords
<1>10. CASE Report(s)
  <2>1. PICK op \in Reportable : tail' = [tail EXCEPT ![s] = Append(@, op)]
    BY <1>10, ReportedType DEF Report
  <2>2. op \in Operations /\ op \notin {"exited", "failSpawn"}
    BY DEF Operations, Requests, Reportable
  <2> QED
    BY <1>0, <1>10, <2>1, <2>2, EndsAppended DEF Report
<1>11. CASE TerminalOperationFails(s) \/ KillFails(s)
  BY <1>6, <1>11 DEF TerminalOperationFails, KillFails
<1>12. CASE \/ StartCall(s) \/ AutoResume(s) \/ StopCall(s) \/ ProcessDies(s)
            \/ RestoreSession(s) \/ RestoreFails(s)
  BY <1>3, <1>12 DEF StartCall, AutoResume, Admit, StopCall, ProcessDies,
     RestoreSession, RestoreFails
<1> QED
  BY <1>7, <1>8, <1>9, <1>10, <1>11, <1>12 DEF SessionStep

\* What a step does to launches: only an insert begins one, and adds to born.
LEMMA LaunchMoves ==
  ASSUME IInv, NEW s \in Sessions, SessionStep(s)
  PROVE  /\ s \in born => s \in born'
         /\ start'[s] \in {"inserted", "opening"} =>
              Insert(s) \/ start[s] \in {"inserted", "opening"}
         /\ Insert(s) => s \in born' /\ start'[s] = "inserted" /\ ~Exists(hist[s])
         /\ s \in born' => Insert(s) \/ s \in born
         /\ app' = "up" => app = "up"
         /\ faulted \subseteq faulted'
<1> USE DEF queues, stops, recovery
<1>0. start \in [Sessions -> StartState]
  BY DEF IInv, TypeOK
<1>1. CASE Insert(s)
  BY <1>0, <1>1 DEF Insert
<1>2. CASE StartStep(s) /\ ~Insert(s)
  BY <1>0, <1>2 DEF StartStep, InsertRefused, CommandBuilt, LaunchFails,
     Opened, InitialInputWritten, InitialInputFails, FailedStartReturns,
     Persist, Stored, NotStored
<1>3. CASE ChainStep(s) /\ ~Insert(s)
  BY <1>3 DEF ChainStep, EventIgnored, RequestRefused, OperationReads,
     OperationAppends, OperationFails, FailureCleaned, Stored, NotStored
<1>4. CASE StopStep(s) /\ ~Insert(s)
  BY <1>4 DEF StopStep, StopFlushed, StopReturns, StopReads, StopRecords,
     Persist, Stored, NotStored
<1>5. CASE /\ ~Insert(s)
           /\ \/ StartCall(s) \/ AutoResume(s) \/ Report(s) \/ StopCall(s)
              \/ TerminalOperationFails(s) \/ KillFails(s) \/ ExitDelivered(s)
              \/ ProcessDies(s) \/ RestoreSession(s) \/ RestoreFails(s)
  BY <1>0, <1>5 DEF StartCall, AutoResume, Admit, Report, StopCall,
     TerminalOperationFails, KillFails, ExitDelivered, ProcessDies,
     RestoreSession, RestoreFails, Stored, NotStored
<1> QED
  BY <1>1, <1>2, <1>3, <1>4, <1>5 DEF SessionStep

-----------------------------------------------------------------------------
(* The second invariant, for the Session that takes the step.              *)

\* Only an insert gives a Session its first event.
LEMMA OnlyInsertBegins ==
  ASSUME IInv, NEW s \in Sessions, SessionStep(s), ~Insert(s),
         ~Exists(hist[s])
  PROVE  hist'[s] = hist[s]
<1>1. Quiet(s) /\ start[s] \in {"idle", "checked"}
  BY DEF IInv, WorkIsBacked
<1>2. ~(LaunchFails(s) \/ InitialInputFails(s) \/ StopRecords(s) \/ RestoreSession(s))
  BY <1>1 DEF LaunchFails, InitialInputFails, StopRecords, RestoreSession, Quiet,
     Lost, Unsettled
<1>3. ~OperationAppends(s)
  BY <1>1 DEF OperationAppends, Quiet
<1> QED
  BY <1>2, <1>3 DEF SessionStep, StartStep, ChainStep, StopStep, InsertRefused,
     CommandBuilt, Opened, InitialInputWritten, FailedStartReturns,
     EventIgnored, RequestRefused, OperationReads, OperationFails,
     FailureCleaned, StopFlushed, StopReturns, StopReads, StartCall, AutoResume,
     Admit, Report, StopCall, TerminalOperationFails, KillFails, ExitDelivered,
     ProcessDies, RestoreFails, NotStored

\* A launch failure settles the Session that it is recorded for.
LEMMA FailureSettles ==
  ASSUME NEW h \in History, Unsettled(h)
  PROVE  Settled(Append(h, Failure("START", TRUE, "FAILED")))
<1>1. Failure("START", TRUE, "FAILED") \in SessionEvent
  BY FailureType DEF FailureStage, SessionStatus
<1>2. /\ Recordable(h, Failure("START", TRUE, "FAILED"))
      /\ SettlingFailure(Failure("START", TRUE, "FAILED"))
  BY DEF Recordable, Failure, SettlingFailure, Unsettled
<1> QED
  BY <1>1, <1>2, EvidenceAppended

\* The exit of a process settles its Session when its append is accepted.
LEMMA ExitSettles ==
  ASSUME IInv, NEW s \in Sessions, OperationAppends(s), Operation(s) = "exited",
         Unsettled(hist[s])
  PROVE  Settled(hist'[s])
<1> DEFINE before == Snapshot(s, seen[s])
           e == EventFor(before, "exited")
<1>0. hist \in [Sessions -> History]
  BY DEF IInv, TypeOK
<1>1. Recordable(before, e) /\ Stored(s, seen[s], e)
  BY DEF OperationAppends, AlreadyRecorded, StopRequest
<1>2. before = hist[s]
  BY <1>0, <1>1, AcceptedSnapshot
<1>3. e \in SessionEvent
  BY <1>0, <1>2, EventForType DEF Operations, RuntimeEvents, Unsettled
<1>4. e.kind = "PROCESS_EXITED"
  BY DEF EventFor, Plain, RuntimeFailures
<1> HIDE DEF e
<1>5. hist'[s] = Append(hist[s], e)
  BY <1>0, <1>1 DEF Stored
<1> QED
  BY <1>0, <1>1, <1>2, <1>3, <1>4, <1>5, EvidenceAppended

\* A Session that is unsettled was so before, unless it is just inserted.
LEMMA UnsettledBefore ==
  ASSUME IInv, NEW s \in Sessions, SessionStep(s), ~Insert(s),
         Unsettled(hist'[s])
  PROVE  Unsettled(hist[s])
<1>1. UNCHANGED hist \/ HistoryMoves
  BY HistoryChange DEF Next
<1>2. Exists(hist[s])
  BY <1>1, OnlyInsertBegins, OneHistory DEF IInv, TypeOK, Unsettled
<1>3. Settled(hist[s]) => Settled(hist'[s])
  BY <1>1, HistoriesKept DEF IInv, TypeOK
<1> QED
  BY <1>2, <1>3 DEF Settled

\* A process appears when its handle is opened and at no other step.
LEMMA NotYetSpawnedStep ==
  ASSUME IInv, SInv, NEW s \in Sessions, SessionStep(s),
         \/ ~Exists(hist'[s])
         \/ start'[s] \in {"inserted", "opening"}
  PROVE  proc'[s] = "none"
<1>1. ~Opened(s)
  BY OpenedFirst
<1>2. Exists(hist[s]) => Exists(hist'[s])
  BY HistoryChange, HistoriesKept DEF Next, IInv, TypeOK
<1>3. proc[s] = "none"
  BY <1>2, LaunchMoves DEF SInv, NotYetSpawned
<1> QED
  BY <1>1, <1>3, HandleMoves DEF IInv

\* Exits are queued when they are delivered, after the process has died.
LEMMA ExitsStep ==
  ASSUME IInv, SInv, NEW s \in Sessions, SessionStep(s)
  PROVE  /\ handle'[s] = "exited" => proc'[s] = "dead"
         /\ Ends(tail'[s]) \/ Ends(buf'[s]) => handle'[s] = "exited"
<1>1. CASE Opened(s)
  BY <1>1, OpenedFirst
<1>2. CASE ExitDelivered(s)
  BY <1>2 DEF ExitDelivered, IInv, TypeOK
<1>3. CASE ~Opened(s) /\ ~ExitDelivered(s)
  <2>1. handle'[s] = "exited" <=> handle[s] = "exited"
    BY <1>3, HandleMoves DEF IInv
  <2>2. proc[s] = "dead" => proc'[s] = "dead"
    BY <1>3, HandleMoves DEF IInv
  <2> QED
    BY <1>3, <2>1, <2>2, EndsMove DEF SInv, ExitsAreReal
<1> QED
  BY <1>1, <1>2, <1>3

\* A runtime is opened for a Session that this run has inserted.
LEMMA BornStep ==
  ASSUME IInv, SInv, NEW s \in Sessions, SessionStep(s),
         \/ handle'[s] # "none"
         \/ start'[s] \in {"inserted", "opening"}
         \/ app' = "up" /\ Unsettled(hist'[s])
  PROVE  s \in born'
<1> SUFFICES ASSUME ~Insert(s) PROVE s \in born
  BY LaunchMoves
<1>1. CASE handle'[s] # "none"
  <2>1. CASE Opened(s)
    BY <2>1 DEF Opened, SInv, RuntimesAreBorn
  <2>2. CASE ~Opened(s)
    BY <1>1, <2>2, HandleMoves DEF SInv, RuntimesAreBorn, IInv
  <2> QED
    BY <2>1, <2>2
<1>2. CASE start'[s] \in {"inserted", "opening"}
  BY <1>2, LaunchMoves DEF SInv, RuntimesAreBorn
<1>3. CASE app' = "up" /\ Unsettled(hist'[s])
  <2>1. Unsettled(hist[s])
    BY <1>3, UnsettledBefore
  <2> QED
    BY <1>3, <2>1, LaunchMoves DEF SInv, RuntimesAreBorn
<1> QED
  BY <1>1, <1>2, <1>3

\* Ownership ends with the append that settles the Session.
LEMMA OwnedStep ==
  ASSUME IInv, SInv, NEW s \in Sessions, SessionStep(s), s \in born',
         Unsettled(hist'[s]), start'[s] \notin {"inserted", "opening"}
  PROVE  owned'[s] \/ s \in faulted'
<1> USE DEF queues, stops, recovery
<1>0. /\ owned \in [Sessions -> BOOLEAN] /\ hist \in [Sessions -> History]
      /\ start \in [Sessions -> StartState]
  BY DEF IInv, TypeOK
<1>1. ~Insert(s) /\ s \in born
  BY LaunchMoves
<1>2. Unsettled(hist[s])
  BY <1>1, UnsettledBefore
<1>3. CASE start[s] \in {"inserted", "opening"}
  <2>1. ~CommandBuilt(s)
    BY <1>0 DEF CommandBuilt
  <2>2. CASE Opened(s)
    BY <2>2, OpenedFirst
  <2>3. CASE LaunchFails(s)
    <3>1. ~Stored(s, IF start[s] = "inserted" THEN 1 ELSE Len(hist[s]),
                  Failure("START", TRUE, "FAILED"))
      BY <1>0, <1>2, FailureSettles DEF Stored, Settled
    <3>2. hist[s] = <<FirstEvent>> /\ Len(<<FirstEvent>>) = 1
      BY <1>3 DEF IInv, LaunchIsAlone
    <3> QED
      BY <2>3, <3>1, <3>2 DEF LaunchFails, Persist, NotStored
  <2>4. ~UNCHANGED start
    BY <1>3
  <2> QED
    BY <1>1, <1>3, <2>1, <2>2, <2>3, <2>4
       DEF SessionStep, StartStep, ChainStep, StopStep, InsertRefused,
           InitialInputWritten, InitialInputFails, FailedStartReturns,
           EventIgnored, RequestRefused, OperationReads, OperationAppends,
           OperationFails, FailureCleaned, StopFlushed, StopReturns, StopReads,
           StopRecords, StartCall, AutoResume, Admit, Admissible, Report,
           StopCall, TerminalOperationFails, KillFails, ExitDelivered,
           ProcessDies, RestoreSession, RestoreFails
<1>4. CASE start[s] \notin {"inserted", "opening"}
  <2>1. owned[s] \/ s \in faulted'
    BY <1>1, <1>2, <1>4, LaunchMoves DEF SInv, LaunchedIsOwned
  <2>2. CASE owned'[s] = owned[s]
    BY <2>1, <2>2
  <2>3. CASE OperationAppends(s) /\ Operation(s) = "exited"
    BY <1>0, <1>2, <2>3, ExitSettles DEF Settled
  <2> QED
    BY <1>0, <1>1, <1>4, <2>2, <2>3
       DEF SessionStep, StartStep, ChainStep, StopStep, InsertRefused,
           CommandBuilt, LaunchFails, Opened,
           InitialInputWritten, InitialInputFails, FailedStartReturns,
           EventIgnored, RequestRefused, OperationReads, OperationAppends,
           OperationFails, FailureCleaned, AfterAppend, StopFlushed,
           StopReturns, StopReads, StopRecords, StartCall, AutoResume, Admit,
           Report, StopCall, TerminalOperationFails, KillFails, ExitDelivered,
           ProcessDies, RestoreSession, RestoreFails
<1> QED
  BY <1>3, <1>4

\* The evidence that settles a Session is stored after its process has died,
\* before it was spawned, or by a desktop process that does not hold it.
LEMMA SettledStep ==
  ASSUME IInv, SInv, NEW s \in Sessions, SessionStep(s), Settled(hist'[s]),
         proc'[s] = "live"
  PROVE  handle'[s] = "none"
<1>1. ~Opened(s)
  BY OpenedFirst DEF Settled
<1>2. proc[s] = "live" /\ (handle'[s] = "none" <=> handle[s] = "none")
  BY <1>1, HandleMoves DEF IInv
<1>3. CASE Settled(hist[s])
  BY <1>2, <1>3 DEF SInv, SettledMeansStopped
<1>4. CASE LaunchFails(s)
  BY <1>2, <1>4 DEF LaunchFails, SInv, NotYetSpawned
<1>5. CASE RestoreSession(s)
  BY <1>2, <1>5 DEF RestoreSession, Lost, SInv, RuntimesAreBorn
<1>6. CASE tail[s] # << >> /\ Operation(s) \in {"exited", "failSpawn"}
  <2>1. Ends(tail[s])
    BY <1>6, EndsTaken DEF Operation, IInv, TypeOK
  <2> QED
    BY <1>2, <2>1 DEF SInv, ExitsAreReal
<1> QED
  BY <1>3, <1>4, <1>5, <1>6, Settling DEF SInv

-----------------------------------------------------------------------------
(* The second invariant holds.                                             *)

\* For every Session, whether or not it takes the step.
LEMMA SessionStepKeeps ==
  ASSUME IInv, SInv, NEW s \in Sessions, SessionStep(s)
  PROVE  SInv'
<1>1. UNCHANGED hist \/ HistoryMoves
  BY HistoryChange DEF Next
<1>2. /\ \A t \in Sessions \ {s} : SameCalls(t)
      /\ \A t \in Sessions \ {s} : proc'[t] = proc[t] /\ (t \in born' <=> t \in born)
  BY Bystander, BystanderProcess DEF IInv
<1>3. born' \subseteq Sessions
  BY RestKept DEF Next, RestTyped
<1>4. EvidenceSettles'
  BY <1>1, EvidenceKept DEF SInv
<1>5. NotYetSpawned'
  BY <1>2, NotYetSpawnedStep DEF SInv, NotYetSpawned, SameCalls
<1>6. ExitsAreReal'
  BY <1>2, ExitsStep DEF SInv, ExitsAreReal, SameCalls
<1>7. RuntimesAreBorn'
  BY <1>2, BornStep, LaunchMoves DEF SInv, RuntimesAreBorn, SameCalls
<1>8. LaunchedIsOwned'
  BY <1>2, <1>3, OwnedStep, LaunchMoves DEF SInv, LaunchedIsOwned, SameCalls
<1>9. SettledMeansStopped'
  BY <1>2, SettledStep DEF SInv, SettledMeansStopped, SameCalls
<1> QED
  BY <1>4, <1>5, <1>6, <1>7, <1>8, <1>9 DEF SInv

\* The other steps: the desktop process ends, starts, or opens for callers.
LEMMA SInvStep ==
  ASSUME IInv, SInv, [Next]_vars
  PROVE  SInv'
<1>1. ASSUME NEW s \in Sessions, SessionStep(s)
      PROVE  SInv'
  BY <1>1, SessionStepKeeps
<1>2. CASE Quit
  <2>1. ~Ends(<< >>)
    BY DEF Ends
  <2>2. EvidenceSettles' /\ NotYetSpawned' /\ SettledMeansStopped'
    BY <1>2 DEF Quit, SInv, EvidenceSettles, NotYetSpawned, SettledMeansStopped
  <2>3. ExitsAreReal'
    BY <1>2, <2>1 DEF Quit, ExitsAreReal
  <2>4. RuntimesAreBorn' /\ LaunchedIsOwned'
    BY <1>2 DEF Quit, RuntimesAreBorn, LaunchedIsOwned
  <2> QED
    BY <2>2, <2>3, <2>4 DEF SInv
<1>3. CASE Launch \/ ResumeRefused \/ RestoreDone \/ UNCHANGED vars
  <2>1. UNCHANGED <<hist, proc, born, start, handle, owned, tail, buf, faulted>>
    BY <1>3 DEF Launch, ResumeRefused, RestoreDone, vars, queues
  <2>2. app' = "up" => app = "up" \/ \A s \in Sessions : Unsettled(hist[s]) => s \in born
    BY <1>3 DEF Launch, ResumeRefused, RestoreDone, vars, Lost
  <2>3. EvidenceSettles' /\ NotYetSpawned' /\ SettledMeansStopped'
    BY <2>1 DEF SInv, EvidenceSettles, NotYetSpawned, SettledMeansStopped
  <2>4. ExitsAreReal' /\ LaunchedIsOwned'
    BY <2>1 DEF SInv, ExitsAreReal, LaunchedIsOwned, Ends
  <2>5. RuntimesAreBorn'
    BY <2>1, <2>2 DEF SInv, RuntimesAreBorn
  <2> QED
    BY <2>3, <2>4, <2>5 DEF SInv
<1> QED
  BY <1>1, <1>2, <1>3 DEF Next

\* A store without Sessions satisfies the second invariant.
LEMMA SInvInit ==
  ASSUME Init
  PROVE  SInv
<1>1. \A s \in Sessions : ~Exists(hist[s]) /\ ~Unsettled(hist[s]) /\ ~Settled(hist[s])
  BY DEF Init, NoHistory, Exists, Unsettled, Settled
<1>2. ~Ends(<< >>)
  BY DEF Ends
<1>3. EvidenceSettles /\ NotYetSpawned /\ SettledMeansStopped
  BY <1>1 DEF Init, EvidenceSettles, NotYetSpawned, SettledMeansStopped
<1>4. ExitsAreReal
  BY <1>2 DEF Init, ExitsAreReal
<1>5. RuntimesAreBorn /\ LaunchedIsOwned
  BY <1>1 DEF Init, RuntimesAreBorn, LaunchedIsOwned
<1> QED
  BY <1>3, <1>4, <1>5 DEF SInv

\* Both invariants: what the store says and what the processes do.
THEOREM StronglyInductive == Spec => [](IInv /\ SInv)
<1>1. Init => IInv /\ SInv
  BY IInvInit, SInvInit
<1>2. IInv /\ SInv /\ [Next]_vars => IInv' /\ SInv'
  BY IInvStep, SInvStep
<1> QED
  BY <1>1, <1>2, PTL DEF Spec

\* What the store calls settled has stopped: no process that this desktop
\* process launched still runs behind a history that says it ended or failed
\* for good, however exits, failed launches, stops and restarts interleave.
THEOREM SettledHasStopped == Spec => []SettledMeansStopped
BY StronglyInductive, PTL DEF SInv

\* A Task never has two agent processes under this desktop process: a running
\* process with a handle stands for an unsettled history, and of those a Task
\* has one.
THEOREM OneOwnedAlways == Spec => []OneOwnedProcess
<1>1. ASSUME IInv, SInv
      PROVE  OneOwnedProcess
  <2>1. ASSUME NEW s \in Sessions, proc[s] = "live", handle[s] # "none"
        PROVE  Unsettled(hist[s])
    BY <1>1, <2>1 DEF IInv, WorkIsBacked, Quiet, SInv, SettledMeansStopped, Settled
  <2> QED
    BY <1>1, <2>1 DEF IInv, OneWriter, OneOwnedProcess
<1> QED
  BY <1>1, StronglyInductive, PTL

\* Once the desktop is up and its start call has returned, an unsettled
\* Session has a runtime to stop it with: launch failures and exits are stored
\* before ownership is given up, unless the store refused the write.
THEOREM WriterOwnedAlways == Spec => []WriterIsOwned
<1>1. SInv => WriterIsOwned
  BY DEF SInv, RuntimesAreBorn, LaunchedIsOwned, WriterIsOwned
<1> QED
  BY <1>1, StronglyInductive, PTL
=============================================================================
