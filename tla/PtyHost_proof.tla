---------------------------- MODULE PtyHost_proof ----------------------------
(***************************************************************************)
(* Theorems about what runs the desktop's processes: about PtyHost, for    *)
(* any number of requests and outputs, its safety invariant and that the   *)
(* handle keeps the contract PtyContract; and about the parts of           *)
(* DesktopServices, for every value of their constants.                    *)
(***************************************************************************)
EXTENDS PtyHost, DesktopServices, FiniteSetTheorems, FunctionTheorems,
        SequenceTheorems, WellFoundedInduction, TLAPS

-----------------------------------------------------------------------------
(* Messages and events at an index.                                        *)

LEMMA TailAt ==
  ASSUME NEW S, NEW q \in Seq(S), q # << >>
  PROVE  /\ Tail(q) \in Seq(S)
         /\ \A i \in DOMAIN Tail(q) : i + 1 \in DOMAIN q /\ Tail(q)[i] = q[i + 1]
         /\ Head(q) = q[1] /\ 1 \in DOMAIN q
BY HeadTailProperties

LEMMA AppendAt ==
  ASSUME NEW S, NEW q \in Seq(S), NEW m \in S
  PROVE  /\ Append(q, m) \in Seq(S)
         /\ \A i \in DOMAIN Append(q, m) :
              \/ i \in DOMAIN q /\ Append(q, m)[i] = q[i]
              \/ i = Len(q) + 1 /\ Append(q, m)[i] = m
BY AppendProperties

LEMMA FrontAt ==
  ASSUME NEW S, NEW q \in Seq(S), q # << >>
  PROVE  /\ Front(q) \in Seq(S)
         /\ \A i \in DOMAIN Front(q) : i \in DOMAIN q /\ Front(q)[i] = q[i]
BY DEF Front

\* What is published besides an exit leaves the exit out.
Event == {"started", "output", "failed", "exited"}

LEMMA AppendContains ==
  ASSUME NEW S, NEW q \in Seq(S), NEW e \in S, NEW x
  PROVE  Contains(Append(q, e), x) <=> Contains(q, x) \/ e = x
BY AppendProperties DEF Contains

LEMMA InitSafe == Init => PtySafety
<1> SUFFICES ASSUME Init
             PROVE  PtySafety
  OBVIOUS
<1> USE DEF Init
<1>1. TypeOK
  <2>1. \A S : << >> \in Seq(S)
    BY EmptySeq
  <2>2. outputs \in 0..MaxOutput
    BY MaxOutputType
  <2> QED
    BY <2>1, <2>2 DEF TypeOK
<1>2. ~Contains(events, "exited")
  BY DEF Contains
<1>3. HandleFollowsHost
  BY <1>2 DEF HandleFollowsHost
<1>4. ExitMeansEnded /\ NoFalseSuccess /\ AgentFollowsHost
  BY DEF ExitMeansEnded, NoFalseSuccess, AgentFollowsHost
<1>5. MessagesAreTrue /\ LaunchComesFirst
  BY DEF MessagesAreTrue, LaunchComesFirst
<1> QED
  BY <1>1, <1>3, <1>4, <1>5 DEF PtySafety

-----------------------------------------------------------------------------
(* Every step keeps the invariant.                                         *)

\* Publishing anything but an exit keeps the events typed and free of an exit.
LEMMA Published ==
  ASSUME TypeOK, NEW event \in {"output", "failed"}, Publish(event)
  PROVE  /\ events' \in Seq(Event)
         /\ Contains(events', "exited") <=> Contains(events, "exited")
BY AppendAt, AppendContains DEF TypeOK, Publish, Event

\* The steps of the client that only set a timer, a flag or the channel.
LEMMA FlagsSafe ==
  ASSUME PtySafety,
         \/ StartupTimerFires \/ Disconnects
         \/ \E r \in Requests : TimerFires(r)
  PROVE  PtySafety'
<1> USE DEF PtySafety, StartupTimerFires, Disconnects, TimerFires,
            RecordHostFailure, hostVars
<1>1. TypeOK'
  <2>1. /\ UNCHANGED <<parent, handle, events, request, operation, finalized,
                       reported, host, agent, outputs, done, down, up>>
        /\ exitKnown' \in {exitKnown, "failure"}
    OBVIOUS
  <2>2. connected' \in BOOLEAN /\ killed' \in BOOLEAN /\ startupTimer' \in BOOLEAN
    BY DEF TypeOK
  <2> QED
    BY <2>1, <2>2 DEF TypeOK
<1>2. HandleFollowsHost' /\ ExitMeansEnded'
  BY DEF HandleFollowsHost, ExitMeansEnded
<1>3. NoFalseSuccess' /\ MessagesAreTrue' /\ LaunchComesFirst' /\ AgentFollowsHost'
  BY DEF NoFalseSuccess, MessagesAreTrue, LaunchComesFirst, AgentFollowsHost
<1> QED
  BY <1>1, <1>2, <1>3

\* The calls of the handle, and a message that could not be sent.
LEMMA CallsSafe ==
  ASSUME PtySafety,
         \/ CallInvalid
         \/ \E r \in Requests, wanted \in Operations : Call(r, wanted)
         \/ \E r \in Requests : SendFails(r)
  PROVE  PtySafety'
<1> USE DEF PtySafety, hostVars
<1>1. CASE CallInvalid
  <2> USE <1>1 DEF CallInvalid
  <2>1. TypeOK'
    BY Published DEF TypeOK, Usable, Event
  <2>3. HandleFollowsHost'
    BY Published DEF TypeOK, HandleFollowsHost, Usable, Event
  <2>2. ExitMeansEnded' /\ NoFalseSuccess' /\ MessagesAreTrue' /\ LaunchComesFirst'
          /\ AgentFollowsHost'
    BY DEF ExitMeansEnded, NoFalseSuccess, MessagesAreTrue, LaunchComesFirst,
           AgentFollowsHost
  <2> QED
    BY <2>1, <2>2, <2>3
<1>2. ASSUME NEW r \in Requests, NEW wanted \in Operations, Call(r, wanted)
      PROVE  PtySafety'
  <2> USE <1>2 DEF Call
  <2>1. CASE connected
    <3>1. Message(wanted, r, TRUE) \in ToHost
      BY DEF Message, ToHost
    <3>2. down' = Append(down, Message(wanted, r, TRUE)) /\ down \in Seq(ToHost)
      BY <2>1 DEF TypeOK
    <3>6. down' \in Seq(ToHost)
      BY <3>1, <3>2, AppendAt
    <3>7. /\ request' \in [Requests -> {"unused", "pending", "resolved", "rejected"}]
          /\ operation' \in [Requests -> Operations \cup {"none"}]
          /\ handle' \in {"none", "exited"} \cup Usable /\ UNCHANGED events
      BY <2>1 DEF TypeOK, Usable
    <3>3. TypeOK'
      BY <3>6, <3>7 DEF TypeOK
    <3>8. HandleFollowsHost'
      BY <2>1, <3>7 DEF TypeOK, HandleFollowsHost, Usable
    <3>4. LaunchComesFirst'
      BY <3>1, <3>2, AppendAt DEF LaunchComesFirst, Message, Operations
    <3>5. ExitMeansEnded' /\ NoFalseSuccess' /\ MessagesAreTrue' /\ AgentFollowsHost'
      BY <2>1 DEF TypeOK, ExitMeansEnded, NoFalseSuccess, MessagesAreTrue, AgentFollowsHost
    <3> QED
      BY <3>3, <3>4, <3>5, <3>8
  <2>2. CASE ~connected
    <3>1. /\ events' \in Seq(Event)
          /\ Contains(events', "exited") <=> Contains(events, "exited")
          /\ UNCHANGED down
      BY <2>2, Published
    <3>5. /\ request' \in [Requests -> {"unused", "pending", "resolved", "rejected"}]
          /\ operation' \in [Requests -> Operations \cup {"none"}]
          /\ handle' \in {"none", "exited"} \cup Usable
      BY <2>2 DEF TypeOK, Usable
    <3>2. TypeOK'
      BY <3>1, <3>5 DEF TypeOK, Event
    <3>4. HandleFollowsHost'
      BY <2>2, <3>1 DEF TypeOK, HandleFollowsHost, Usable, Event
    <3>3. ExitMeansEnded' /\ NoFalseSuccess' /\ MessagesAreTrue' /\ LaunchComesFirst'
            /\ AgentFollowsHost'
      BY <2>2, <3>1 DEF TypeOK, ExitMeansEnded, NoFalseSuccess, MessagesAreTrue,
                        LaunchComesFirst, AgentFollowsHost
    <3> QED
      BY <3>2, <3>3, <3>4
  <2> QED
    BY <2>1, <2>2
<1>3. ASSUME NEW r \in Requests, SendFails(r)
      PROVE  PtySafety'
  <2> USE <1>3 DEF SendFails, Rejected, RecordHostFailure
  <2>1. TypeOK' /\ HandleFollowsHost'
    BY Published DEF TypeOK, HandleFollowsHost, Usable, Event
  <2>2. ExitMeansEnded' /\ NoFalseSuccess' /\ MessagesAreTrue' /\ LaunchComesFirst'
          /\ AgentFollowsHost'
    BY DEF TypeOK, HandleFollowsHost, Usable, ExitMeansEnded, NoFalseSuccess,
           MessagesAreTrue, LaunchComesFirst, AgentFollowsHost
  <2> QED
    BY <2>1, <2>2
<1> QED
  BY <1>1, <1>2, <1>3

\* A message that is read was true when it was sent, and still is.
LEMMA Received ==
  ASSUME PtySafety, NEW type, Receives(type)
  PROVE  /\ Head(up) \in ToClient /\ Head(up).type = type
         /\ type = "response" /\ Head(up).ok => Head(up).requestId \in done
         /\ type = "exit" => agent = "dead"
         /\ up' \in Seq(ToClient)
         /\ handle \in Usable /\ parent = "up" /\ ~finalized
         /\ MessagesAreTrue' /\ LaunchComesFirst' /\ AgentFollowsHost'
<1>1. up \in Seq(ToClient) /\ up # << >>
  BY DEF PtySafety, TypeOK, Receives
<1>2. /\ Tail(up) \in Seq(ToClient)
      /\ \A i \in DOMAIN Tail(up) : i + 1 \in DOMAIN up /\ Tail(up)[i] = up[i + 1]
      /\ Head(up) = up[1] /\ 1 \in DOMAIN up
  BY <1>1, TailAt
<1>3. Head(up) \in ToClient
  BY <1>1, HeadTailProperties
<1>4. handle \in Usable /\ parent = "up" /\ ~finalized
  BY <1>1 DEF PtySafety, TypeOK, HandleFollowsHost, Receives
<1>5. MessagesAreTrue'
  BY <1>2 DEF PtySafety, MessagesAreTrue, Receives, hostVars
<1>6. LaunchComesFirst' /\ AgentFollowsHost'
  BY DEF PtySafety, LaunchComesFirst, AgentFollowsHost, Receives, hostVars
<1> QED
  BY <1>2, <1>3, <1>4, <1>5, <1>6 DEF PtySafety, MessagesAreTrue, Receives

LEMMA ReceivesSafe ==
  ASSUME PtySafety,
         ReceiveReady \/ ReceiveData \/ ReceiveResponse \/ ReceiveExit
  PROVE  PtySafety'
<1> USE DEF PtySafety
<1>1. CASE ReceiveReady
  <2> USE <1>1 DEF ReceiveReady
  <2>1. up' \in Seq(ToClient) /\ handle \in Usable /\ ~finalized
    BY Received
  <2>2. TypeOK'
    BY <2>1 DEF TypeOK, Receives, hostVars
  <2>3. HandleFollowsHost' /\ ExitMeansEnded' /\ NoFalseSuccess'
    BY <2>1 DEF HandleFollowsHost, ExitMeansEnded, NoFalseSuccess, Receives, hostVars, Usable
  <2> QED
    BY <2>2, <2>3, Received
<1>2. CASE ReceiveData
  <2> USE <1>2 DEF ReceiveData
  <2>1. /\ events' \in Seq(Event)
        /\ Contains(events', "exited") <=> Contains(events, "exited")
    BY Published
  <2>2. TypeOK' /\ HandleFollowsHost' /\ ExitMeansEnded' /\ NoFalseSuccess'
    BY <2>1, Received DEF TypeOK, HandleFollowsHost, ExitMeansEnded, NoFalseSuccess,
                          Receives, hostVars, Usable, Event
  <2> QED
    BY <2>2, Received
<1>3. CASE ReceiveResponse
  <2> DEFINE r == Head(up).requestId
  <2> USE <1>3
  <2>1. Receives("response") /\ UNCHANGED <<reported, startupTimer>>
    BY DEF ReceiveResponse
  <2>2. r \in Requests /\ Head(up).ok \in BOOLEAN
    BY <2>1, Received DEF ToClient
  <2>3. CASE /\ request[r] = "pending" /\ Head(up).ok
             /\ request' = [request EXCEPT ![r] = "resolved"]
             /\ UNCHANGED <<handle, events, exitKnown, killed>>
    <3>1. r \in done
      BY <2>1, <2>3, Received
    <3> HIDE DEF r
    <3>2. TypeOK' /\ HandleFollowsHost'
      BY <2>1, <2>2, <2>3, Received
         DEF TypeOK, HandleFollowsHost, Receives, hostVars, Usable
    <3>3. ExitMeansEnded' /\ NoFalseSuccess'
      BY <2>1, <2>2, <2>3, <3>1 DEF TypeOK, ExitMeansEnded, NoFalseSuccess, Receives, hostVars
    <3> QED
      BY <2>1, <3>2, <3>3, Received
  <2>4. CASE request[r] = "pending" /\ Rejected(r) /\ UNCHANGED <<exitKnown, killed>>
    <3> HIDE DEF r
    <3>1. /\ events' \in Seq(Event)
          /\ Contains(events', "exited") <=> Contains(events, "exited")
      BY <2>4, Published DEF Rejected
    <3>2. TypeOK' /\ HandleFollowsHost'
      BY <2>1, <2>2, <2>4, <3>1, Received
         DEF TypeOK, HandleFollowsHost, Receives, hostVars, Usable, Event, Rejected
    <3>3. ExitMeansEnded' /\ NoFalseSuccess'
      BY <2>1, <2>2, <2>4, Received
         DEF TypeOK, ExitMeansEnded, NoFalseSuccess, Receives, hostVars, Rejected, Usable
    <3> QED
      BY <2>1, <3>2, <3>3, Received
  <2>5. CASE RecordHostFailure /\ UNCHANGED <<handle, events, request>>
    <3>1. TypeOK' /\ HandleFollowsHost'
      BY <2>1, <2>5, Received
         DEF TypeOK, HandleFollowsHost, Receives, hostVars, Usable, RecordHostFailure
    <3>2. ExitMeansEnded' /\ NoFalseSuccess'
      BY <2>1, <2>5
         DEF TypeOK, ExitMeansEnded, NoFalseSuccess, Receives, hostVars, RecordHostFailure
    <3> QED
      BY <2>1, <3>1, <3>2, Received
  <2> QED
    BY <2>3, <2>4, <2>5 DEF ReceiveResponse
<1>4. CASE ReceiveExit
  <2>1. PICK type \in {"exit", "failure"} : Receives(type) /\ exitKnown' = type
    BY <1>4 DEF ReceiveExit
  <2>2. /\ startupTimer' = FALSE
        /\ UNCHANGED <<handle, events, request, killed, reported>>
    BY <1>4 DEF ReceiveExit
  <2>3. /\ up' \in Seq(ToClient) /\ handle \in Usable /\ ~finalized
        /\ type = "exit" => agent = "dead"
    BY <2>1, Received
  <2>4. TypeOK'
    BY <2>1, <2>2, <2>3 DEF TypeOK, Receives, hostVars
  <2>5. HandleFollowsHost' /\ ExitMeansEnded' /\ NoFalseSuccess'
    BY <2>1, <2>2, <2>3
       DEF HandleFollowsHost, ExitMeansEnded, NoFalseSuccess, Receives, hostVars, Usable
  <2> QED
    BY <2>1, <2>4, <2>5, Received
<1> QED
  BY <1>1, <1>2, <1>3, <1>4

\* The handle is opened, and the end of its host or of its process closes it.
LEMMA EndsSafe ==
  ASSUME PtySafety, Open \/ Close \/ ParentGoes
  PROVE  PtySafety'
<1> USE DEF PtySafety
<1>0. \A S : << >> \in Seq(S)
  BY EmptySeq
<1>1. CASE Open
  <2> USE <1>1 DEF Open
  <2>1. host = "none" /\ agent = "none" /\ up = << >> /\ ~finalized
    BY DEF HandleFollowsHost, AgentFollowsHost
  <2>2. down' \in Seq(ToHost)
    BY DEF ToHost, Plain
  <2>3. events' \in Seq(Event) /\ ~Contains(events', "exited")
    BY DEF Event, Contains
  <2>4. TypeOK' /\ HandleFollowsHost'
    BY <2>1, <2>2, <2>3 DEF TypeOK, HandleFollowsHost, Usable, Event
  <2>5. ExitMeansEnded' /\ NoFalseSuccess' /\ MessagesAreTrue' /\ AgentFollowsHost'
    BY <2>1 DEF ExitMeansEnded, NoFalseSuccess, MessagesAreTrue, AgentFollowsHost
  <2>6. LaunchComesFirst'
    BY DEF LaunchComesFirst
  <2> QED
    BY <2>4, <2>5, <2>6
<1>2. CASE Close
  <2> USE <1>2 DEF Close, hostVars
  <2>1. handle \in Usable
    BY DEF TypeOK, HandleFollowsHost, AgentFollowsHost
  <2>2. /\ events' \in Seq(Event)
        /\ Contains(events', "exited")
    <3>1. PICK last \in {<<"failed", "exited">>, <<"exited">>} : events' = events \o last
      OBVIOUS
    <3>2. last \in Seq(Event) /\ last[Len(last)] = "exited" /\ Len(last) \in {1, 2}
      <4>1. CASE last = <<"failed", "exited">>
        BY <4>1 DEF Event
      <4>2. CASE last = <<"exited">>
        BY <4>2 DEF Event
      <4> QED
        BY <4>1, <4>2
    <3>3. events \in Seq(Event)
      BY DEF TypeOK, Event
    <3>4. /\ events' \in Seq(Event)
          /\ Len(events') = Len(events) + Len(last)
          /\ events'[Len(events) + Len(last)] = last[Len(last)]
      BY <3>1, <3>2, <3>3, ConcatProperties
    <3> QED
      BY <3>2, <3>3, <3>4 DEF Contains
  <2>3. TypeOK' /\ HandleFollowsHost'
    BY <2>1, <2>2 DEF TypeOK, HandleFollowsHost, Usable, Event
  <2>4. ExitMeansEnded' /\ NoFalseSuccess' /\ MessagesAreTrue' /\ AgentFollowsHost'
          /\ LaunchComesFirst'
    BY DEF TypeOK, ExitMeansEnded, NoFalseSuccess, MessagesAreTrue, AgentFollowsHost,
           LaunchComesFirst
  <2> QED
    BY <2>3, <2>4
<1>3. CASE ParentGoes
  <2> USE <1>3 DEF ParentGoes, hostVars
  <2>1. ~Contains(events', "exited")
    BY DEF Contains
  <2>2. TypeOK' /\ HandleFollowsHost'
    BY <1>0, <2>1 DEF TypeOK, HandleFollowsHost, Usable
  <2>3. ExitMeansEnded' /\ NoFalseSuccess' /\ MessagesAreTrue' /\ AgentFollowsHost'
          /\ LaunchComesFirst'
    BY DEF ExitMeansEnded, NoFalseSuccess, MessagesAreTrue, AgentFollowsHost,
           LaunchComesFirst
  <2> QED
    BY <2>2, <2>3
<1> QED
  BY <1>1, <1>2, <1>3

\* The host sends: what it sends is true, and the client does not notice yet.
LEMMA Sent ==
  ASSUME PtySafety, NEW m \in ToClient, up' = Append(up, m),
         m.type = "response" /\ m.ok => m.requestId \in done',
         m.type = "exit" => agent' = "dead",
         done \subseteq done', agent = "dead" => agent' = "dead"
  PROVE  up' \in Seq(ToClient) /\ MessagesAreTrue'
<1>1. up \in Seq(ToClient)
  BY DEF PtySafety, TypeOK
<1> QED
  BY <1>1, AppendAt DEF PtySafety, MessagesAreTrue

LEMMA Taken ==
  ASSUME PtySafety, down # << >>, down' = Tail(down)
  PROVE  /\ down' \in Seq(ToHost) /\ Head(down) \in ToHost
         /\ Head(down).type = "launch" => host \notin {"starting", "running"}
         /\ \A i \in DOMAIN down' : down'[i].type # "launch"
<1>1. down \in Seq(ToHost)
  BY DEF PtySafety, TypeOK
<1> QED
  BY <1>1, TailAt, HeadTailProperties DEF PtySafety, LaunchComesFirst

\* What the steps of the host and of the agent leave alone.
LEMMA ClientUntouched ==
  ASSUME PtySafety, UNCHANGED <<parent, clientVars>>,
         host # "none", host' # "none", host = "gone" => host' = "gone",
         agent' # "live" \/ host' # "gone", agent = "dead" => agent' = "dead",
         handle # "exited" \/ up' = up, done \subseteq done'
  PROVE  HandleFollowsHost' /\ ExitMeansEnded' /\ NoFalseSuccess'
BY DEF PtySafety, TypeOK, HandleFollowsHost, ExitMeansEnded, NoFalseSuccess, clientVars,
       AgentFollowsHost

LEMMA HostSafe ==
  ASSUME PtySafety,
         \/ HostLaunches \/ HostReportsPid \/ HostHandles \/ HostIgnores
         \/ AgentOutputs \/ AgentEnds \/ HostReportsExit \/ HostFails
  PROVE  PtySafety'
<1> USE DEF PtySafety
<1>0. handle = "exited" => host = "gone"
  BY DEF ExitMeansEnded
<1>1. CASE HostLaunches
  <2> USE <1>1 DEF HostLaunches
  <2>1. down' \in Seq(ToHost) /\ LaunchComesFirst'
    BY Taken DEF LaunchComesFirst
  <2>2. TypeOK' /\ AgentFollowsHost' /\ MessagesAreTrue'
    BY <2>1 DEF TypeOK, clientVars, AgentFollowsHost, MessagesAreTrue
  <2>3. HandleFollowsHost' /\ ExitMeansEnded' /\ NoFalseSuccess'
    BY ClientUntouched DEF AgentFollowsHost
  <2> QED
    BY <2>1, <2>2, <2>3
<1>2. CASE HostReportsPid
  <2> USE <1>2 DEF HostReportsPid
  <2>1. up' \in Seq(ToClient) /\ MessagesAreTrue'
    BY Sent DEF Plain, ToClient
  <2>2. TypeOK' /\ AgentFollowsHost' /\ LaunchComesFirst'
    BY <2>1 DEF TypeOK, clientVars, AgentFollowsHost, LaunchComesFirst
  <2>3. HandleFollowsHost' /\ ExitMeansEnded' /\ NoFalseSuccess'
    BY <1>0, ClientUntouched
  <2> QED
    BY <2>1, <2>2, <2>3
<1>3. CASE HostHandles
  <2> USE <1>3
  <2> DEFINE m == Head(down)
  <2>1. /\ host \in {"starting", "running"}
        /\ down' = Tail(down)
        /\ UNCHANGED <<parent, clientVars, host, outputs>>
        /\ \E ok \in BOOLEAN :
             /\ up' = Append(up, Message("response", m.requestId, ok))
             /\ ok => m.requestId \in done'
        /\ done' \in {done, done \cup {m.requestId}}
        /\ agent' \in {agent, "killed"}
        /\ agent' # agent => agent = "live"
    BY DEF HostHandles
  <2>2. m \in ToHost /\ m.type # "launch"
    BY Taken DEF HostHandles
  <2>3. m.requestId \in Requests
    BY <2>2 DEF ToHost
  <2>4. down' \in Seq(ToHost) /\ LaunchComesFirst'
    BY <2>1, Taken DEF LaunchComesFirst, HostHandles
  <2>5. up' \in Seq(ToClient) /\ MessagesAreTrue'
    BY <2>1, <2>3, Sent DEF Message, ToClient
  <2> HIDE DEF m
  <2>6. TypeOK' /\ AgentFollowsHost'
    BY <2>1, <2>3, <2>4, <2>5 DEF TypeOK, clientVars, AgentFollowsHost
  <2>7. HandleFollowsHost' /\ ExitMeansEnded' /\ NoFalseSuccess'
    BY <1>0, <2>1, ClientUntouched
  <2> QED
    BY <2>4, <2>5, <2>6, <2>7
<1>4. CASE HostIgnores
  <2> USE <1>4 DEF HostIgnores, hostVars
  <2>1. down' \in Seq(ToHost) /\ LaunchComesFirst'
    BY Taken DEF LaunchComesFirst
  <2>2. TypeOK' /\ AgentFollowsHost' /\ MessagesAreTrue'
    BY <2>1 DEF TypeOK, clientVars, AgentFollowsHost, MessagesAreTrue
  <2>3. HandleFollowsHost' /\ ExitMeansEnded' /\ NoFalseSuccess'
    BY ClientUntouched
  <2> QED
    BY <2>1, <2>2, <2>3
<1>5. CASE AgentOutputs
  <2> USE <1>5 DEF AgentOutputs
  <2>1. up' \in Seq(ToClient) /\ MessagesAreTrue'
    BY Sent DEF Plain, ToClient
  <2>2. outputs' \in 0..MaxOutput
    BY MaxOutputType DEF TypeOK
  <2>3. TypeOK' /\ AgentFollowsHost' /\ LaunchComesFirst'
    BY <2>1, <2>2 DEF TypeOK, clientVars, AgentFollowsHost, LaunchComesFirst
  <2>4. HandleFollowsHost' /\ ExitMeansEnded' /\ NoFalseSuccess'
    BY <1>0, ClientUntouched
  <2> QED
    BY <2>1, <2>3, <2>4
<1>6. CASE AgentEnds
  <2> USE <1>6 DEF AgentEnds
  <2>1. host # "none"
    BY DEF AgentFollowsHost
  <2>2. TypeOK' /\ AgentFollowsHost' /\ LaunchComesFirst' /\ MessagesAreTrue'
    BY <2>1 DEF TypeOK, clientVars, AgentFollowsHost, LaunchComesFirst, MessagesAreTrue
  <2>3. HandleFollowsHost' /\ ExitMeansEnded' /\ NoFalseSuccess'
    BY <2>1, ClientUntouched
  <2> QED
    BY <2>2, <2>3
<1>7. CASE HostReportsExit \/ HostFails
  <2> USE <1>7 DEF HostReportsExit, HostFails, Settle
  <2>1. up' \in Seq(ToClient) /\ MessagesAreTrue'
    BY Sent DEF Plain, ToClient
  <2>2. TypeOK' /\ AgentFollowsHost' /\ LaunchComesFirst'
    BY <2>1 DEF TypeOK, clientVars, AgentFollowsHost, LaunchComesFirst
  <2>3. HandleFollowsHost' /\ ExitMeansEnded' /\ NoFalseSuccess'
    BY <1>0, ClientUntouched
  <2> QED
    BY <2>1, <2>2, <2>3
<1> QED
  BY <1>1, <1>2, <1>3, <1>4, <1>5, <1>6, <1>7

\* Whatever ends the host, its agent ends with it.
LEMMA HostGoneSafe ==
  ASSUME PtySafety, HostExits \/ HostLosesParent \/ HostDies
  PROVE  PtySafety'
<1>1. HostEnds /\ HostAlive
  BY DEF HostExits, HostLosesParent, HostDies, HostAlive
<1>2. \/ UNCHANGED up
      \/ up # << >> /\ up' = Front(up)
  BY DEF HostExits, HostLosesParent, HostDies
<1> USE DEF PtySafety
<1>3. up' \in Seq(ToClient)
  BY <1>2, FrontAt DEF TypeOK
<1>4. MessagesAreTrue'
  <2>1. agent = "dead" => agent' = "dead"
    BY <1>1 DEF HostEnds
  <2>2. UNCHANGED done
    BY <1>1 DEF HostEnds
  <2>3. \A i \in DOMAIN up' : i \in DOMAIN up /\ up'[i] = up[i]
    BY <1>2, FrontAt DEF TypeOK
  <2> QED
    BY <2>1, <2>2, <2>3 DEF MessagesAreTrue
<1>5. TypeOK' /\ AgentFollowsHost' /\ LaunchComesFirst'
  BY <1>1, <1>3, EmptySeq
     DEF HostEnds, TypeOK, clientVars, AgentFollowsHost, LaunchComesFirst
<1>6. HandleFollowsHost' /\ ExitMeansEnded' /\ NoFalseSuccess'
  BY <1>1, ClientUntouched DEF HostEnds, HostAlive, ExitMeansEnded, TypeOK
<1> QED
  BY <1>3, <1>4, <1>5, <1>6

LEMMA StepSafe ==
  ASSUME PtySafety, [Next]_ptyVars
  PROVE  PtySafety'
<1>1. CASE UNCHANGED ptyVars
  BY <1>1
     DEF ptyVars, clientVars, hostVars, PtySafety, TypeOK, ExitMeansEnded,
         NoFalseSuccess, MessagesAreTrue, LaunchComesFirst, HandleFollowsHost,
         AgentFollowsHost
<1>2. CASE Next
  BY <1>2, FlagsSafe, CallsSafe, ReceivesSafe, EndsSafe, HostSafe, HostGoneSafe
     DEF Next, ClientStep, HostStep
<1> QED
  BY <1>1, <1>2

-----------------------------------------------------------------------------
(* Every step is one of the contract, or none of its business.             *)

\* The value of the contract's variable process.
Process == CASE host = "none" -> "none"
             [] host = "gone" -> "dead"
             [] OTHER -> "live"

\* A failure that is published is one of an operation or of the termination.
LEMMA FailureIsOne ==
  ASSUME PtySafety, handle \in Usable, handle' \in {handle, "terminationFailed"},
         Publish("failed"), UNCHANGED host
  PROVE  Contract!OperationFails \/ Contract!TerminationFails
<1>1. ~Contains(events, "exited")
  BY DEF PtySafety, TypeOK, HandleFollowsHost, Usable
<1>2. events' = events \o <<"failed">>
  BY <1>1, AppendIsConcat DEF PtySafety, TypeOK, Publish
<1>3. UNCHANGED Process
  BY DEF Process
<1> QED
  BY <1>2, <1>3
     DEF Process, Usable, Contract!OperationFails, Contract!TerminationFails,
         Contract!Publish, Contract!Usable

LEMMA StepKeepsContract ==
  ASSUME PtySafety, [Next]_ptyVars
  PROVE  [Contract!Next]_(Contract!contract)
<1> DEFINE Step == Contract!Next \/ UNCHANGED <<handle, Process, events>>
<1> SUFFICES Step
  BY DEF Contract!contract, Process
<1> USE DEF PtySafety
<1>1. ASSUME \/ StartupTimerFires \/ Disconnects
             \/ \E r \in Requests : TimerFires(r)
             \/ ReceiveReady \/ ReceiveExit \/ AgentOutputs \/ AgentEnds
             \/ HostReportsPid \/ HostHandles \/ HostIgnores
             \/ HostLaunches \/ HostReportsExit \/ HostFails \/ UNCHANGED ptyVars
      PROVE  Step
  <2>1. UNCHANGED <<handle, events>>
    BY <1>1 DEF StartupTimerFires, Disconnects, TimerFires, ReceiveReady, ReceiveExit,
         AgentOutputs, AgentEnds, HostReportsPid, HostHandles, HostIgnores, HostLaunches,
         HostReportsExit, HostFails, ptyVars, clientVars
  <2>2. \/ UNCHANGED host
        \/ host \in {"waiting", "starting", "running"} /\ host' \in {"starting", "running", "settled"}
    BY <1>1 DEF StartupTimerFires, Disconnects, TimerFires, ReceiveReady, ReceiveExit,
         Receives, AgentOutputs, AgentEnds, HostReportsPid, HostHandles, HostIgnores,
         HostLaunches, HostReportsExit, HostFails, Settle, ptyVars, hostVars
  <2>3. UNCHANGED Process
    BY <2>2 DEF Process
  <2> QED
    BY <2>1, <2>3
<1>2. ASSUME CallInvalid
      PROVE  Step
  BY <1>2, FailureIsOne DEF CallInvalid, hostVars, Usable, Contract!Next
<1>3. ASSUME NEW r \in Requests, NEW wanted \in Operations, Call(r, wanted)
      PROVE  Step
  <2>1. UNCHANGED host
    BY <1>3 DEF Call, hostVars
  <2>2. CASE connected /\ wanted = "terminate"
    <3>1. Contract!Terminate
      BY <1>3, <2>1, <2>2 DEF Call, Contract!Terminate, Process
    <3> QED
      BY <3>1 DEF Contract!Next
  <2>3. CASE connected /\ wanted # "terminate"
    BY <1>3, <2>1, <2>3 DEF Call, Process
  <2>4. CASE ~connected
    BY <1>3, <2>1, <2>4, FailureIsOne DEF Call, Usable, Contract!Next
  <2> QED
    BY <2>2, <2>3, <2>4
<1>4. ASSUME NEW r \in Requests, SendFails(r)
      PROVE  Step
  <2>1. handle \in Usable
    BY <1>4 DEF SendFails, HandleFollowsHost
  <2> QED
    BY <1>4, <2>1, FailureIsOne DEF SendFails, Rejected, hostVars, Contract!Next
<1>5. ASSUME ReceiveData
      PROVE  Step
  <2>1. handle \in Usable /\ UNCHANGED <<handle, host>>
    BY <1>5, Received DEF ReceiveData, Receives, hostVars
  <2>2. events' = events \o <<"output">>
    <3>1. ~Contains(events, "exited")
      BY <2>1 DEF HandleFollowsHost, Usable
    <3>2. events' = Append(events, "output") /\ events \in Seq(Event)
      BY <1>5, <3>1 DEF ReceiveData, Publish, TypeOK, Event
    <3> QED
      BY <3>2, AppendIsConcat DEF Event
  <2>3. Contract!OutputArrives
    BY <2>1, <2>2 DEF Contract!OutputArrives, Contract!Publish, Contract!Usable, Usable
  <2> QED
    BY <2>3 DEF Contract!Next
<1>6. ASSUME ReceiveResponse
      PROVE  Step
  <2>1. handle \in Usable /\ UNCHANGED host
    BY <1>6, Received DEF ReceiveResponse, Receives, hostVars
  <2>2. UNCHANGED <<handle, events>> \/ \E r : Rejected(r)
    BY <1>6 DEF ReceiveResponse
  <2>3. CASE UNCHANGED <<handle, events>>
    BY <2>1, <2>3 DEF Process
  <2>4. CASE \E r : Rejected(r)
    BY <2>1, <2>4, FailureIsOne DEF Rejected, Contract!Next
  <2> QED
    BY <2>2, <2>3, <2>4
<1>7. ASSUME Open
      PROVE  Step
  <2>1. host = "none" /\ events = << >>
    BY <1>7 DEF Open, HandleFollowsHost
  <2>2. events' = events \o <<"started">>
    BY <1>7, <2>1 DEF Open
  <2>3. Contract!Open
    BY <1>7, <2>1, <2>2 DEF Open, Contract!Open, Contract!Publish
  <2> QED
    BY <2>3 DEF Contract!Next
<1>8. ASSUME Close
      PROVE  Step
  <2>1. handle \in Usable /\ host = "gone" /\ host' = "gone"
    BY <1>8 DEF Close, hostVars, TypeOK, HandleFollowsHost
  <2>2. \/ events' = events \o <<"exited">>
        \/ handle = "running" /\ events' = events \o <<"failed", "exited">>
    BY <1>8 DEF Close
  <2>3. Contract!Exit
    BY <1>8, <2>1, <2>2 DEF Close, Contract!Exit, Contract!Publish, Contract!Usable, Usable
  <2> QED
    BY <2>3 DEF Contract!Next
<1>9. ASSUME ParentGoes
      PROVE  Step
  <2>1. Contract!Forget
    BY <1>9 DEF ParentGoes, hostVars, Contract!Forget
  <2> QED
    BY <2>1 DEF Contract!Next
<1>10. ASSUME HostExits \/ HostLosesParent \/ HostDies
       PROVE  Step
  <2>1. HostAlive /\ host' = "gone" /\ UNCHANGED <<handle, events>>
    BY <1>10 DEF HostExits, HostLosesParent, HostDies, HostAlive, HostEnds, clientVars
  <2>2. Contract!ProcessEnds
    BY <2>1 DEF HostAlive, Contract!ProcessEnds
  <2> QED
    BY <2>2 DEF Contract!Next
<1> HIDE DEF Step
<1> QED
  BY <1>1, <1>2, <1>3, <1>4, <1>5, <1>6, <1>7, <1>8, <1>9, <1>10
     DEF Next, ClientStep, HostStep

-----------------------------------------------------------------------------
(* The theorems.                                                           *)

\* The client's handle and promises tell the truth about the agent, whatever is
\* lost, late or refused.
THEOREM PtyIsSafe == Spec => []PtySafety
BY InitSafe, StepSafe, PTL DEF Spec

\* The runtime keeps the contract that the coordinator is built on: events come
\* in order, end with one exit, and an exit is that of an ended process.
THEOREM PtyKeepsContract == Spec => KeepsContract
<1>1. Init => Contract!Init
  BY DEF Init, Contract!Init
<1> QED
  BY <1>1, PtyIsSafe, StepKeepsContract, PTL DEF Spec, KeepsContract, Contract!Spec

-----------------------------------------------------------------------------
(* The command of a Quality Gate, its host and its runner.                 *)

\* The first answer is the only one, and it is the one of a command that has ended or
\* that could not be stopped.
LEMMA RunnerFinishes ==
  ASSUME GP!IInv, NEW a \in GP!Answers, GP!Finishes(a),
         v8 = None /\ ~a.failed => v4' \in {"none", "done", "failed"}
  PROVE  /\ v8' \in GP!Answers \union {None}
         /\ v7' \in [stage : {"idle", "waits", "settled"}, timeout : BOOLEAN,
                     deadline : BOOLEAN, timedOut : BOOLEAN, broken : BOOLEAN]
         /\ v7'.stage = "settled" /\ ~v7'.timeout /\ ~v7'.deadline
         /\ v8 = None => v8' = a
         /\ v8 # None => v8' = v8
  BY DEF GP!IInv, GP!TypeOK, GP!Finishes

LEMMA GateStarts == GP!Init => GP!IInv
<1> SUFFICES ASSUME GP!Init PROVE GP!IInv
  OBVIOUS
<1>1. GP!TypeOK
  BY DEF GP!Init, GP!TypeOK, GP!Idle
<1>2. GP!StartsOnce /\ GP!ReportIsTrue
  BY DEF GP!Init, GP!StartsOnce, GP!ReportIsTrue, GP!Idle
<1>3. GP!AnswersAreLast /\ GP!GateProcessSafe
  BY DEF GP!Init, GP!AnswersAreLast, GP!GateProcessSafe, GP!ResultMeansEnded, GP!SomethingEndsTheWait, GP!Idle
<1> QED
  BY <1>1, <1>2, <1>3 DEF GP!IInv

\* The command by itself.
LEMMA CommandKeeps ==
  ASSUME GP!IInv, GP!RootForks \/ GP!RootEnds \/ GP!ChildEnds
  PROVE  GP!IInv'
<1>1. UNCHANGED <<v1, v4, v5, v6, v7, v8>>
  BY DEF GP!RootForks, GP!RootEnds, GP!ChildEnds, GP!hostVars
<1>2. /\ v2' \in {"none", "suspended", "running", "ended"}
      /\ v3' \in {"none", "running", "quiet", "ended"}
  BY DEF GP!RootForks, GP!RootEnds, GP!ChildEnds, GP!IInv, GP!TypeOK
<1>3. GP!TypeOK'
  BY <1>1, <1>2 DEF GP!IInv, GP!TypeOK
<1>4. GP!StartsOnce'
  BY <1>1, <1>2 DEF GP!IInv, GP!StartsOnce, GP!RootForks, GP!RootEnds, GP!ChildEnds
<1>5. GP!Alive = {} => GP!Alive' = {}
  BY DEF GP!Alive, GP!RootForks, GP!RootEnds, GP!ChildEnds
<1>6. "root" \notin GP!Alive => "root" \notin GP!Alive'
  BY DEF GP!Alive, GP!RootForks, GP!RootEnds, GP!ChildEnds
<1>7. GP!ReportIsTrue'
  BY <1>1, <1>5 DEF GP!IInv, GP!ReportIsTrue
<1>8. GP!AnswersAreLast'
  BY <1>1 DEF GP!IInv, GP!AnswersAreLast
<1>9. GP!GateProcessSafe'
  BY <1>1, <1>5, <1>6 DEF GP!IInv, GP!GateProcessSafe, GP!ResultMeansEnded, GP!SomethingEndsTheWait
<1> QED
  BY <1>3, <1>4, <1>7, <1>8, <1>9 DEF GP!IInv

\* The runner outside Windows.
LEMMA RunnerKeeps ==
  ASSUME GP!IInv,
         GP!Refuses \/ GP!SpawnFails \/ GP!Spawned \/ GP!Breaks \/ GP!TimesOut \/ GP!CleanupDeadline \/ GP!Closes
  PROVE  GP!IInv'
<1>1. UNCHANGED <<v1, v4, v5, v6, v3>>
  BY DEF GP!Refuses, GP!SpawnFails, GP!Spawned, GP!Breaks, GP!TimesOut, GP!CleanupDeadline, GP!Closes, GP!hostVars,
         GP!command
<1>2. v1 = "win32" => GP!Refuses
  BY DEF GP!SpawnFails, GP!Spawned, GP!Breaks, GP!TimesOut, GP!CleanupDeadline, GP!Closes, GP!IInv, GP!StartsOnce
<1>3. CASE GP!Refuses
  <2>1. PICK a \in GP!Answers : GP!Finishes(a)
    BY <1>3 DEF GP!Refuses, GP!Answer, GP!Answers
  <2>2. v7.stage = "idle" /\ v2' = v2
    BY <1>3 DEF GP!Refuses, GP!command
  <2>3. v2 = "none" /\ v3 = "none" /\ v4 = "none"
    BY <2>2 DEF GP!IInv, GP!StartsOnce
  <2>4. /\ v8' \in GP!Answers \union {None}
        /\ v7' \in [stage : {"idle", "waits", "settled"}, timeout : BOOLEAN,
                    deadline : BOOLEAN, timedOut : BOOLEAN, broken : BOOLEAN]
        /\ v7'.stage = "settled" /\ ~v7'.timeout /\ ~v7'.deadline
    BY <1>1, <2>1, <2>3, RunnerFinishes
  <2>5. GP!Alive' = {}
    BY <1>1, <2>2, <2>3 DEF GP!Alive
  <2>6. GP!TypeOK'
    BY <1>1, <2>2, <2>4 DEF GP!IInv, GP!TypeOK
  <2>7. GP!StartsOnce' /\ GP!ReportIsTrue' /\ GP!AnswersAreLast'
    BY <1>1, <2>2, <2>3, <2>4 DEF GP!IInv, GP!StartsOnce, GP!ReportIsTrue, GP!AnswersAreLast
  <2>8. GP!GateProcessSafe'
    BY <2>4, <2>5 DEF GP!GateProcessSafe, GP!ResultMeansEnded, GP!SomethingEndsTheWait
  <2> QED
    BY <2>6, <2>7, <2>8 DEF GP!IInv
<1>4. CASE GP!SpawnFails \/ GP!CleanupDeadline \/ GP!Closes
  <2>1. PICK a \in GP!Answers :
          /\ GP!Finishes(a)
          /\ ~a.failed => "root" \notin GP!Alive /\ v2' = v2
    <3>1. CASE GP!SpawnFails
      BY <3>1 DEF GP!SpawnFails, GP!Answer, GP!Answers, GP!Alive, GP!IInv, GP!StartsOnce, GP!command
    <3>2. CASE GP!CleanupDeadline
      <4>1. GP!Finishes(GP!Answer("infrastructure-error", "TERMINATION_FAILED", TRUE))
        BY <3>2, Zenon DEF GP!CleanupDeadline
      <4>2. /\ GP!Answer("infrastructure-error", "TERMINATION_FAILED", TRUE) \in GP!Answers
            /\ GP!Answer("infrastructure-error", "TERMINATION_FAILED", TRUE).failed
        BY DEF GP!Answer, GP!Answers
      <4> QED
        BY <4>1, <4>2
    <3>3. CASE GP!Closes
      <4>1. v2 = "ended" /\ v2' = v2
        BY <3>3 DEF GP!Closes, GP!command
      <4>2. \E a \in GP!Answers : GP!Finishes(a)
        BY <3>3 DEF GP!Closes, GP!Answer, GP!Answers
      <4> QED
        BY <4>1, <4>2 DEF GP!Alive
    <3> QED
      BY <1>4, <3>1, <3>2, <3>3
  <2>2. v1 = "posix" /\ v2' \in {v2, "ended"}
    BY <1>4 DEF GP!SpawnFails, GP!CleanupDeadline, GP!Closes, GP!command
  <2>3. v4 = "none"
    BY <2>2 DEF GP!IInv, GP!StartsOnce
  <2>4. /\ v8' \in GP!Answers \union {None}
        /\ v7' \in [stage : {"idle", "waits", "settled"}, timeout : BOOLEAN,
                    deadline : BOOLEAN, timedOut : BOOLEAN, broken : BOOLEAN]
        /\ v7'.stage = "settled" /\ ~v7'.timeout /\ ~v7'.deadline
        /\ v8 = None => v8' = a
        /\ v8 # None => v8' = v8
    BY <1>1, <2>1, <2>3, RunnerFinishes
  <2>5. GP!TypeOK'
    BY <1>1, <2>2, <2>4 DEF GP!IInv, GP!TypeOK
  <2>6. GP!StartsOnce'
    BY <1>1, <2>2, <2>3, <2>4 DEF GP!IInv, GP!StartsOnce
  <2>7. GP!ReportIsTrue' /\ GP!AnswersAreLast'
    BY <1>1, <2>3, <2>4 DEF GP!ReportIsTrue, GP!AnswersAreLast
  <2>8. v8' # None /\ ~v8'.failed => "root" \notin GP!Alive'
    BY <2>1, <2>2, <2>4 DEF GP!Alive, GP!IInv, GP!GateProcessSafe, GP!ResultMeansEnded
  <2>9. GP!GateProcessSafe'
    BY <1>1, <2>2, <2>4, <2>8 DEF GP!GateProcessSafe, GP!ResultMeansEnded, GP!SomethingEndsTheWait
  <2> QED
    BY <2>5, <2>6, <2>7, <2>9 DEF GP!IInv
<1>5. CASE GP!Spawned \/ GP!Breaks \/ GP!TimesOut
  <2>1. v8' = v8 /\ v1 = "posix"
    BY <1>5 DEF GP!Spawned, GP!Breaks, GP!TimesOut, GP!IInv, GP!StartsOnce
  <2>2. /\ v7' \in [stage : {"idle", "waits", "settled"}, timeout : BOOLEAN,
                    deadline : BOOLEAN, timedOut : BOOLEAN, broken : BOOLEAN]
        /\ v7'.stage = "waits" => v7'.timeout \/ v7'.deadline
        /\ v7'.stage # "settled" => v7.stage # "settled"
        /\ v7'.stage = "idle" => v7.stage = "idle" /\ ~GP!Spawned
    BY <1>5 DEF GP!Spawned, GP!Breaks, GP!TimesOut, GP!IInv, GP!TypeOK, GP!GateProcessSafe,
                GP!SomethingEndsTheWait
  <2>3. /\ v2' \in {v2, "running", "ended"}
        /\ v2' = "running" => v2 = "running" \/ v8 = None
    BY <1>5 DEF GP!Spawned, GP!Breaks, GP!TimesOut, GP!command, GP!IInv, GP!AnswersAreLast
  <2>4. v2' = "ended" \/ v2' = v2 \/ GP!Spawned
    BY <1>5 DEF GP!Spawned, GP!Breaks, GP!TimesOut, GP!command
  <2>5. v4 = "none"
    BY <2>1 DEF GP!IInv, GP!StartsOnce
  <2>6. GP!TypeOK'
    BY <1>1, <2>1, <2>2, <2>3 DEF GP!IInv, GP!TypeOK
  <2>7. GP!StartsOnce'
    <3>1. v7'.stage # "idle"
      <4>1. GP!Breaks \/ GP!Spawned => v7'.stage = "waits"
        BY DEF GP!Breaks, GP!Spawned, GP!IInv, GP!TypeOK
      <4>2. GP!TimesOut => v7'.stage = v7.stage /\ v7.timeout
        BY DEF GP!TimesOut, GP!IInv, GP!TypeOK
      <4>3. v7.stage = "idle" => ~v7.timeout
        BY DEF GP!IInv, GP!StartsOnce, GP!Idle
      <4> QED
        BY <1>5, <4>1, <4>2, <4>3
    <3> QED
      BY <1>1, <2>1, <2>3, <2>5, <3>1 DEF GP!IInv, GP!StartsOnce
  <2>8. GP!ReportIsTrue' /\ GP!AnswersAreLast'
    BY <1>1, <2>1, <2>2, <2>5 DEF GP!IInv, GP!ReportIsTrue, GP!AnswersAreLast
  <2>9. GP!GateProcessSafe'
    BY <1>1, <2>1, <2>2, <2>3 DEF GP!IInv, GP!GateProcessSafe, GP!ResultMeansEnded,
                                  GP!SomethingEndsTheWait, GP!Alive
  <2> QED
    BY <2>6, <2>7, <2>8, <2>9 DEF GP!IInv
<1> QED
  BY <1>3, <1>4, <1>5

\* The host and Windows do no more to the command than end it.
LEMMA KillsOnly ==
  ASSUME GP!IInv, NEW P, GP!Killed(P)
  PROVE  /\ v2' \in {v2, "ended"} /\ v3' \in {v3, "ended"}
         /\ v2 = "none" => v2' = "none"
         /\ v3 = "none" => v3' = "none"
         /\ GP!Alive = {} => GP!Alive' = {}
         /\ P = {"root", "child"} \/ (P = {"root"} /\ v3 = "none") =>
              (GP!Gone(P) => GP!Alive' = {})
  BY DEF GP!Killed, GP!Alive, GP!Gone, GP!IInv, GP!TypeOK

LEMMA HostStopped ==
  ASSUME GP!IInv, NEW P, NEW kind \in {"timed-out", "infrastructure-error"},
         GP!HostStops(P, kind), P = {"root", "child"} \/ (P = {"root"} /\ v3 = "none")
  PROVE  /\ GP!Killed(P) /\ v4' = "writing" /\ v6' \in GP!Reports
         /\ v6'.kind # "exited" /\ (~v6'.failed => GP!Alive' = {})
<1>1. PICK settled \in BOOLEAN :
        (settled => GP!Gone(P)) /\ v6' = GP!Report(kind, ~settled)
  BY DEF GP!HostStops
<1>2. GP!Killed(P) /\ v4' = "writing"
  BY DEF GP!HostStops
<1>3. settled => GP!Alive' = {}
  BY <1>1, <1>2, KillsOnly
<1> QED
  BY <1>1, <1>2, <1>3 DEF GP!Report, GP!Reports

\* What the host does to the command, and what it then has to write.
LEMMA HostDoes ==
  ASSUME GP!IInv,
         GP!HostRefuses \/ GP!HostCreates \/ GP!HostAssigns \/ GP!HostResumes \/ GP!HostWaits
           \/ GP!HostWrites \/ GP!HostDies
  PROVE  /\ v1 = "win32" /\ v4 \in {"starting", "created", "waiting", "writing"}
         /\ UNCHANGED <<v1, v7, v8>>
         /\ GP!TypeOK' /\ GP!StartsOnce' /\ GP!ReportIsTrue'
<1>1. v1 \in {"win32", "posix"} /\ (v1 = "posix" => v4 = "none")
  BY DEF GP!IInv, GP!TypeOK, GP!StartsOnce
<1>2. v7.stage # "idle" \/ v4 = "none"
  BY DEF GP!IInv, GP!StartsOnce
<1> DEFINE broken == GP!Report("infrastructure-error", FALSE)
<1>0. broken \in GP!Reports /\ broken.kind # "exited"
  BY DEF GP!Report, GP!Reports
<1>3. CASE GP!HostRefuses
  <2>1. /\ v4 = "starting" /\ v4' \in {"writing", "failed"}
        /\ UNCHANGED <<v1, v2, v3, v5, v7, v8>>
        /\ \/ v6' = broken
           \/ v6' = v6 /\ v4' = "failed"
    BY <1>3, Zenon DEF GP!HostRefuses, GP!command
  <2>2. v2 = "none" /\ v3 = "none"
    BY <2>1, <1>1 DEF GP!IInv, GP!StartsOnce
  <2>3. GP!Alive' = {}
    BY <2>1, <2>2 DEF GP!Alive
  <2> HIDE DEF broken
  <2>4. GP!TypeOK'
    BY <1>0, <2>1 DEF GP!IInv, GP!TypeOK
  <2>5. GP!StartsOnce' /\ GP!ReportIsTrue'
    BY <1>0, <1>1, <1>2, <2>1, <2>2, <2>3 DEF GP!IInv, GP!StartsOnce, GP!ReportIsTrue
  <2> QED
    BY <1>1, <2>1, <2>4, <2>5
<1>4. CASE GP!HostCreates
  <2>1. /\ v4 = "starting"
        /\ UNCHANGED <<v1, v3, v5, v7, v8>>
        /\ \/ v4' = "created" /\ v2' = "suspended" /\ v6' = v6
           \/ v4' = "writing" /\ v6' = broken
              /\ v2' = v2
    BY <1>4, Zenon DEF GP!HostCreates
  <2>2. v2 = "none" /\ v3 = "none"
    BY <2>1, <1>1 DEF GP!IInv, GP!StartsOnce
  <2>3. v2' = "none" => GP!Alive' = {}
    BY <2>1, <2>2 DEF GP!Alive
  <2> HIDE DEF broken
  <2>4. GP!TypeOK'
    BY <1>0, <2>1 DEF GP!IInv, GP!TypeOK
  <2>5. GP!StartsOnce' /\ GP!ReportIsTrue'
    BY <1>0, <1>1, <1>2, <2>1, <2>2, <2>3 DEF GP!IInv, GP!StartsOnce, GP!ReportIsTrue
  <2> QED
    BY <1>1, <2>1, <2>4, <2>5
<1>5. CASE GP!HostAssigns
  <2>1. v4 = "created" /\ UNCHANGED <<v1, v7, v8>>
    BY <1>5 DEF GP!HostAssigns
  <2>2. v2 = "suspended" /\ v3 = "none"
    BY <2>1 DEF GP!IInv, GP!StartsOnce
  <2>3. \/ v5' = TRUE /\ UNCHANGED <<v2, v3, v4, v6>>
        \/ GP!HostStops({"root"}, "infrastructure-error") /\ v5' = v5
    BY <1>5, Zenon DEF GP!HostAssigns, GP!command
  <2>4. CASE v5' = TRUE /\ UNCHANGED <<v2, v3, v4, v6>>
    BY <1>1, <2>1, <2>4 DEF GP!IInv, GP!TypeOK, GP!StartsOnce, GP!ReportIsTrue
  <2>5. CASE GP!HostStops({"root"}, "infrastructure-error") /\ v5' = v5
    <3>1. /\ GP!Killed({"root"}) /\ v4' = "writing" /\ v6' \in GP!Reports
          /\ v6'.kind # "exited" /\ (~v6'.failed => GP!Alive' = {})
      BY <2>2, <2>5, HostStopped
    <3>2. v2' \in {v2, "ended"} /\ v3' = "none"
      BY <3>1, <2>2, KillsOnly
    <3>3. GP!TypeOK' /\ GP!StartsOnce' /\ GP!ReportIsTrue'
      BY <1>1, <1>2, <2>1, <2>2, <2>5, <3>1, <3>2 DEF GP!IInv, GP!TypeOK, GP!StartsOnce, GP!ReportIsTrue
    <3> QED
      BY <1>1, <2>1, <3>3
  <2> QED
    BY <2>3, <2>4, <2>5
<1>6. CASE GP!HostResumes
  <2>1. v4 = "created" /\ UNCHANGED <<v1, v5, v7, v8>>
    BY <1>6 DEF GP!HostResumes
  <2>2. v2 = "suspended" /\ v3 = "none"
    BY <2>1 DEF GP!IInv, GP!StartsOnce
  <2>3. \/ v2' = "running" /\ v4' = "waiting" /\ UNCHANGED <<v3, v6>>
        \/ GP!HostStops({"root", "child"}, "infrastructure-error")
    BY <1>6, Zenon DEF GP!HostResumes
  <2>4. CASE v2' = "running" /\ v4' = "waiting" /\ UNCHANGED <<v3, v6>>
    BY <1>1, <1>2, <2>1, <2>2, <2>4 DEF GP!IInv, GP!TypeOK, GP!StartsOnce, GP!ReportIsTrue
  <2>5. CASE GP!HostStops({"root", "child"}, "infrastructure-error")
    <3>1. /\ GP!Killed({"root", "child"}) /\ v4' = "writing" /\ v6' \in GP!Reports
          /\ v6'.kind # "exited" /\ (~v6'.failed => GP!Alive' = {})
      BY <2>5, HostStopped
    <3>2. v2' \in {v2, "ended"} /\ v3' = "none"
      BY <3>1, <2>2, KillsOnly
    <3>3. GP!TypeOK' /\ GP!StartsOnce' /\ GP!ReportIsTrue'
      BY <1>1, <1>2, <2>1, <2>2, <3>1, <3>2 DEF GP!IInv, GP!TypeOK, GP!StartsOnce, GP!ReportIsTrue
    <3> QED
      BY <1>1, <2>1, <3>3
  <2> QED
    BY <2>3, <2>4, <2>5
<1>7. CASE GP!HostWaits
  <2>1. v4 = "waiting" /\ UNCHANGED <<v1, v5, v7, v8>>
    BY <1>7 DEF GP!HostWaits
  <2>2. /\ v2' \in {v2, "ended"} /\ v3' \in {v3, "ended"}
        /\ v2 = "none" => v2' = "none"
        /\ v3 = "none" => v3' = "none"
        /\ v4' = "writing" /\ v6' \in GP!Reports
        /\ v6'.kind = "exited" => ~v6'.failed
        /\ ~v6'.failed => GP!Alive' = {}
    <3>1. CASE /\ GP!JobIsEmpty /\ v4' = "writing"
               /\ v6' \in {GP!Report("exited", FALSE), GP!Report("infrastructure-error", FALSE)}
               /\ UNCHANGED GP!command
      <4>1. GP!Alive' = {} /\ v2' = v2 /\ v3' = v3
        BY <3>1 DEF GP!JobIsEmpty, GP!Alive, GP!command
      <4>2. v6' \in GP!Reports /\ (v6'.kind = "exited" => ~v6'.failed)
        <5>1. CASE v6' = GP!Report("exited", FALSE)
          BY <5>1 DEF GP!Report, GP!Reports
        <5>2. CASE v6' = broken
          BY <5>2 DEF GP!Report, GP!Reports
        <5> QED
          BY <3>1, <5>1, <5>2
      <4> QED
        BY <3>1, <4>1, <4>2
    <3>2. ASSUME NEW kind \in {"timed-out", "infrastructure-error"},
                 GP!HostStops({"root", "child"}, kind)
          PROVE  <2>2
      BY <3>2, HostStopped, KillsOnly
    <3> QED
      BY <1>7, <3>1, <3>2 DEF GP!HostWaits
  <2>3. GP!TypeOK' /\ GP!StartsOnce'
    BY <1>1, <1>2, <2>1, <2>2 DEF GP!IInv, GP!TypeOK, GP!StartsOnce
  <2>4. GP!ReportIsTrue'
    BY <2>2 DEF GP!ReportIsTrue
  <2> QED
    BY <1>1, <2>1, <2>3, <2>4
<1>8. CASE GP!HostWrites \/ GP!HostDies
  <2>1. /\ v4 \in {"starting", "created", "waiting", "writing"}
        /\ UNCHANGED <<v1, v5, v6, v7, v8>>
        /\ (v4' = "done" /\ v4 = "writing") \/ v4' = "failed"
        /\ \E P : GP!Killed(P)
    BY <1>8 DEF GP!HostWrites, GP!HostDies, GP!HostEnds
  <2>2. /\ v2' \in {v2, "ended"} /\ v3' \in {v3, "ended"}
        /\ v2 = "none" => v2' = "none"
        /\ v3 = "none" => v3' = "none"
        /\ GP!Alive = {} => GP!Alive' = {}
    BY <2>1, KillsOnly
  <2>3. GP!TypeOK' /\ GP!StartsOnce'
    BY <1>1, <1>2, <2>1, <2>2 DEF GP!IInv, GP!TypeOK, GP!StartsOnce
  <2>4. GP!ReportIsTrue'
    BY <2>1, <2>2 DEF GP!IInv, GP!ReportIsTrue
  <2> QED
    BY <1>1, <2>1, <2>3, <2>4
<1> QED
  BY <1>3, <1>4, <1>5, <1>6, <1>7, <1>8

LEMMA HostKeeps ==
  ASSUME GP!IInv,
         GP!HostRefuses \/ GP!HostCreates \/ GP!HostAssigns \/ GP!HostResumes \/ GP!HostWaits
           \/ GP!HostWrites \/ GP!HostDies
  PROVE  GP!IInv'
<1>1. /\ v1 = "win32" /\ v4 \in {"starting", "created", "waiting", "writing"}
      /\ UNCHANGED <<v1, v7, v8>>
      /\ GP!TypeOK' /\ GP!StartsOnce' /\ GP!ReportIsTrue'
  BY HostDoes
<1>2. v8 = None \/ v8.failed
  BY <1>1 DEF GP!IInv, GP!AnswersAreLast
<1>3. GP!AnswersAreLast' /\ GP!GateProcessSafe'
  BY <1>1, <1>2 DEF GP!IInv, GP!AnswersAreLast, GP!GateProcessSafe, GP!ResultMeansEnded,
                    GP!SomethingEndsTheWait
<1> QED
  BY <1>1, <1>3 DEF GP!IInv

\* The runner on Windows.
LEMMA StarterKeeps ==
  ASSUME GP!IInv,
         GP!HostStarts \/ GP!HostCannotStart \/ GP!HostPipeBreaks \/ GP!HostDeadline \/ GP!HostCloses
  PROVE  GP!IInv'
<1>1. v1 = "win32" /\ UNCHANGED <<v1, v5, v6>> /\ v6 \in GP!Reports \union {None}
  BY DEF GP!HostStarts, GP!HostCannotStart, GP!HostPipeBreaks, GP!HostDeadline, GP!HostCloses, GP!hostVars,
         GP!IInv, GP!TypeOK
<1>2. GP!Unsettled \in GP!Answers /\ GP!Unsettled.failed
  BY DEF GP!Unsettled, GP!Answer, GP!Answers
<1>3. CASE GP!HostStarts
  <2>1. /\ v7.stage = "idle" /\ v4' = "starting" /\ UNCHANGED <<v2, v3, v8>>
        /\ v7' = [GP!Idle EXCEPT !.stage = "waits", !.deadline = TRUE]
    BY <1>3 DEF GP!HostStarts, GP!command, GP!IInv, GP!StartsOnce
  <2>2. v2 = "none" /\ v4 = "none" /\ v8 = None /\ v3 = "none"
    BY <2>1 DEF GP!IInv, GP!StartsOnce, GP!AnswersAreLast
  <2>3. GP!TypeOK' /\ GP!StartsOnce' /\ GP!ReportIsTrue'
    BY <1>1, <2>1, <2>2 DEF GP!IInv, GP!TypeOK, GP!StartsOnce, GP!ReportIsTrue, GP!Idle
  <2>4. GP!AnswersAreLast' /\ GP!GateProcessSafe'
    BY <2>1, <2>2 DEF GP!AnswersAreLast, GP!GateProcessSafe, GP!ResultMeansEnded,
                      GP!SomethingEndsTheWait, GP!Idle
  <2> QED
    BY <2>3, <2>4 DEF GP!IInv
<1>4. CASE GP!HostPipeBreaks
  <2>1. /\ v8' = GP!Unsettled /\ v7' = [v7 EXCEPT !.stage = "settled"]
        /\ UNCHANGED <<v2, v3, v4>>
    BY <1>4 DEF GP!HostPipeBreaks, GP!command, GP!hostVars
  <2>2. GP!TypeOK' /\ GP!StartsOnce'
    BY <1>1, <1>2, <2>1 DEF GP!IInv, GP!TypeOK, GP!StartsOnce
  <2>3. GP!ReportIsTrue'
    BY <1>1, <2>1 DEF GP!IInv, GP!ReportIsTrue, GP!Alive
  <2>4. GP!AnswersAreLast' /\ GP!GateProcessSafe'
    BY <1>2, <2>1 DEF GP!IInv, GP!TypeOK, GP!AnswersAreLast, GP!GateProcessSafe, GP!ResultMeansEnded,
                      GP!SomethingEndsTheWait
  <2> QED
    BY <2>2, <2>3, <2>4 DEF GP!IInv
<1>5. CASE GP!HostCannotStart \/ GP!HostDeadline \/ GP!HostCloses
  <2>1. /\ (v4' = v4 /\ v2' = v2) \/ v4' = "failed"
        /\ v2' \in {v2, "ended"} /\ v3' \in {v3, "ended"}
        /\ v2 = "none" => v2' = "none"
        /\ v3 = "none" => v3' = "none"
        /\ GP!Alive = {} => GP!Alive' = {}
    <3>1. UNCHANGED <<v2, v3, v4>> \/ (v4' = "failed" /\ \E P : GP!Killed(P))
      BY <1>5 DEF GP!HostCannotStart, GP!HostDeadline, GP!HostCloses, GP!HostEnds, GP!command, GP!hostVars
    <3>2. UNCHANGED <<v2, v3>> => (GP!Alive = {} => GP!Alive' = {})
      BY DEF GP!Alive
    <3> QED
      BY <3>1, <3>2, KillsOnly
  <2>2. PICK a \in GP!Answers : GP!Finishes(a) /\ (~a.failed => v4 = "done" /\ v4' = v4 /\ GP!Alive = {})
    <3>1. CASE GP!Finishes(GP!Unsettled)
      BY <1>2, <3>1
    <3>2. CASE GP!HostCloses /\ ~GP!Finishes(GP!Unsettled)
      <4>1. /\ v4 = "done" /\ UNCHANGED <<v2, v3, v4>>
            /\ GP!Finishes(CASE v6.kind = "exited" -> GP!Answer("exited", "none", FALSE)
                      [] v6.kind = "timed-out" -> GP!Answer("timed-out", "none", v6.failed)
                      [] OTHER -> IF v6.failed THEN GP!Unsettled
                                  ELSE GP!Answer("infrastructure-error", "PROCESS_PROTOCOL_ERROR",
                                                 FALSE))
        BY <3>2, Zenon DEF GP!HostCloses, GP!command, GP!hostVars
      <4>2. /\ v6 \in GP!Reports /\ (v6.kind = "exited" => ~v6.failed)
            /\ (~v6.failed => GP!Alive = {})
        BY <4>1 DEF GP!IInv, GP!ReportIsTrue
      <4> DEFINE a == CASE v6.kind = "exited" -> GP!Answer("exited", "none", FALSE)
                      [] v6.kind = "timed-out" -> GP!Answer("timed-out", "none", v6.failed)
                      [] OTHER -> IF v6.failed THEN GP!Unsettled
                                  ELSE GP!Answer("infrastructure-error", "PROCESS_PROTOCOL_ERROR",
                                                 FALSE)
      <4>3. a \in GP!Answers /\ (~a.failed => ~v6.failed)
        BY <1>2, <4>2 DEF GP!Answer, GP!Answers, GP!Reports
      <4>4. GP!Finishes(a)
        BY <4>1
      <4> HIDE DEF a
      <4> QED
        BY <4>1, <4>2, <4>3, <4>4
    <3> QED
      BY <1>5, <3>1, <3>2 DEF GP!HostCannotStart, GP!HostDeadline
  <2>3. /\ v8' \in GP!Answers \union {None}
        /\ v7' \in [stage : {"idle", "waits", "settled"}, timeout : BOOLEAN,
                         deadline : BOOLEAN, timedOut : BOOLEAN, broken : BOOLEAN]
        /\ v7'.stage = "settled" /\ ~v7'.timeout /\ ~v7'.deadline
        /\ v8 = None => v8' = a
        /\ v8 # None => v8' = v8
    BY <2>2, RunnerFinishes
  <2>5. GP!TypeOK'
    BY <1>1, <2>1, <2>3 DEF GP!IInv, GP!TypeOK
  <2>6. GP!StartsOnce'
    BY <1>1, <2>1, <2>3 DEF GP!IInv, GP!StartsOnce
  <2>7. GP!ReportIsTrue'
    BY <1>1, <2>1 DEF GP!IInv, GP!ReportIsTrue
  <2>8. GP!AnswersAreLast'
    BY <2>1, <2>2, <2>3 DEF GP!IInv, GP!AnswersAreLast
  <2>9. GP!GateProcessSafe'
    BY <1>1, <2>1, <2>2, <2>3 DEF GP!IInv, GP!GateProcessSafe, GP!ResultMeansEnded,
                                  GP!SomethingEndsTheWait
  <2> QED
    BY <2>5, <2>6, <2>7, <2>8, <2>9 DEF GP!IInv
<1> QED
  BY <1>3, <1>4, <1>5

\* Every step of the command, of its host and of the runner.
LEMMA GateKeeps == GP!IInv /\ [GP!Next]_(GP!gateVars) => GP!IInv'
<1> SUFFICES ASSUME GP!IInv, [GP!Next]_(GP!gateVars) PROVE GP!IInv'
  OBVIOUS
<1>1. CASE UNCHANGED GP!gateVars
  BY <1>1 DEF GP!gateVars, GP!command, GP!hostVars, GP!IInv, GP!TypeOK, GP!StartsOnce, GP!ReportIsTrue, GP!Alive,
              GP!AnswersAreLast, GP!GateProcessSafe, GP!ResultMeansEnded, GP!SomethingEndsTheWait
<1>2. CASE GP!Next
  BY <1>2, CommandKeeps, RunnerKeeps, HostKeeps, StarterKeeps, Zenon DEF GP!Next
<1> QED
  BY <1>1, <1>2

-----------------------------------------------------------------------------
(* The catalogue of Quality Gates.                                         *)

LEMMA OneGateIsRemoved ==
  ASSUME NEW S, NEW s \in Seq(S), NEW i \in 1..Len(s)
  PROVE  /\ QC!RemoveAt(s, i) \in Seq(S) /\ Len(QC!RemoveAt(s, i)) = Len(s) - 1
         /\ \A k \in 1..Len(s) - 1 : QC!RemoveAt(s, i)[k] = s[IF k < i THEN k ELSE k + 1]
<1> DEFINE front == SubSeq(s, 1, i - 1)
           rest == SubSeq(s, i + 1, Len(s))
<1>1. Len(s) \in Nat /\ i \in Nat /\ 1 <= i /\ i <= Len(s)
  BY LenProperties
<1>2. front \in Seq(S) /\ Len(front) = i - 1 /\ \A k \in 1..i - 1 : front[k] = s[k]
  <2>1. \A k \in 1..i - 1 : k \in 1..Len(s)
    BY <1>1
  <2> QED
    BY <1>1, <2>1, SubSeqProperties
<1>3. rest \in Seq(S) /\ Len(rest) = Len(s) - i /\ \A k \in 1..Len(s) - i : rest[k] = s[i + k]
  <2>1. \A k \in i + 1..Len(s) : k \in 1..Len(s)
    BY <1>1
  <2> QED
    BY <1>1, <2>1, SubSeqProperties
<1> HIDE DEF front, rest
<1>4. QC!RemoveAt(s, i) = front \o rest
  BY DEF QC!RemoveAt, front, rest
<1>5. /\ front \o rest \in Seq(S) /\ Len(front \o rest) = Len(s) - 1
      /\ \A k \in 1..Len(s) - 1 : (front \o rest)[k] = IF k <= i - 1 THEN front[k] ELSE rest[k - (i - 1)]
  <2>1. /\ front \o rest \in Seq(S) /\ Len(front \o rest) = Len(front) + Len(rest)
        /\ \A k \in 1..Len(front) + Len(rest) :
             (front \o rest)[k] = IF k <= Len(front) THEN front[k] ELSE rest[k - Len(front)]
    <3>1. front \in Seq(S) /\ rest \in Seq(S)
      BY <1>2, <1>3
    <3> QED
      BY <3>1, ConcatProperties
  <2>2. Len(front) = i - 1 /\ Len(front) + Len(rest) = Len(s) - 1
    BY <1>1, <1>2, <1>3
  <2> QED
    BY <2>1, <2>2
<1>6. ASSUME NEW k \in 1..Len(s) - 1
      PROVE  (front \o rest)[k] = s[IF k < i THEN k ELSE k + 1]
  <2>1. CASE k < i
    BY <1>1, <1>2, <1>5, <2>1
  <2>2. CASE ~(k < i)
    <3>1. k - (i - 1) \in 1..Len(s) - i /\ i + (k - (i - 1)) = k + 1
      BY <1>1, <2>2
    <3> QED
      BY <1>1, <1>3, <1>5, <2>2, <3>1
  <2> QED
    BY <2>1, <2>2
<1> QED
  BY <1>4, <1>5, <1>6

LEMMA SameCardinalityOfPlaces ==
  \A S : QC!Cardinality(S) = Cardinality(S)
BY DEF QC!Cardinality, Cardinality

LEMMA FirstOnes ==
  ASSUME NEW n \in Nat, NEW P \in SUBSET (1..n), NEW i \in P
  PROVE  /\ IsFiniteSet(P) /\ Cardinality(P) \in Nat
         /\ Cardinality({j \in P : j <= i}) \in 1..Cardinality(P)
<1> DEFINE Q == {j \in P : j <= i}
<1>1. IsFiniteSet(1..n)
  BY FS_Interval
<1>2. IsFiniteSet(P) /\ Cardinality(P) \in Nat
  BY <1>1, FS_Subset, FS_CardinalityType
<1>3. Q \subseteq P /\ i \in Q
  OBVIOUS
<1> HIDE DEF Q
<1>4. IsFiniteSet(Q) /\ Cardinality(Q) <= Cardinality(P) /\ Cardinality(Q) \in Nat
  BY <1>2, <1>3, FS_Subset, FS_CardinalityType
<1>5. Cardinality(Q) # 0
  BY <1>3, <1>4, FS_EmptySet
<1>6. Cardinality(Q) \in 1..Cardinality(P)
  BY <1>2, <1>4, <1>5
<1> QED
  BY <1>2, <1>6 DEF Q

LEMMA SelectsIs ==
  ASSUME NEW list, NEW of, NEW P
  PROVE  QC!Selects(list, of, P) <=>
           /\ Len(list) = Cardinality(P)
           /\ \A i \in P : list[Cardinality({j \in P : j <= i})] = of[i]
  BY SameCardinalityOfPlaces DEF QC!Selects

\* A list that selects among the first n of another, and the next one.
LEMMA SelectsNext ==
  ASSUME NEW S, NEW list \in Seq(S), NEW of, NEW n \in Nat, NEW P \in SUBSET (1..n),
         of[n + 1] \in S, QC!Selects(list, of, P)
  PROVE  QC!Selects(Append(list, of[n + 1]), of, P \union {n + 1})
<1> DEFINE new == Append(list, of[n + 1])
           Q == P \union {n + 1}
<1>1. IsFiniteSet(P) /\ Cardinality(P) \in Nat
  <2>1. IsFiniteSet(1..n)
    BY FS_Interval
  <2> QED
    BY <2>1, FS_Subset, FS_CardinalityType
<1>2. n + 1 \notin P
  OBVIOUS
<1>3. Cardinality(Q) = Cardinality(P) + 1
  BY <1>1, <1>2, FS_AddElement
<1>4. Len(list) = Cardinality(P)
  BY SelectsIs
<1>5. /\ Len(new) = Len(list) + 1 /\ new[Len(list) + 1] = of[n + 1]
      /\ \A k \in 1..Len(list) : new[k] = list[k]
  BY AppendProperties
<1>6. ASSUME NEW i \in Q
      PROVE  new[Cardinality({j \in Q : j <= i})] = of[i]
  <2>1. CASE i = n + 1
    <3>0. \A j \in Q : j <= i
      BY <2>1
    <3>1. {j \in Q : j <= i} = Q
      BY <3>0, Zenon
    <3> HIDE DEF Q
    <3>2. Cardinality({j \in Q : j <= i}) = Len(list) + 1
      BY <1>3, <1>4, <3>1
    <3> HIDE DEF new
    <3> QED
      BY <1>5, <2>1, <3>2
  <2>2. CASE i \in P
    <3>1. {j \in Q : j <= i} = {j \in P : j <= i}
      BY <2>2
    <3>2. Cardinality({j \in P : j <= i}) \in 1..Len(list)
      BY <1>4, <2>2, FirstOnes
    <3>3. list[Cardinality({j \in P : j <= i})] = of[i]
      BY <2>2, SelectsIs
    <3> HIDE DEF new, Q
    <3> QED
      BY <1>5, <3>1, <3>2, <3>3
  <2> QED
    BY <2>1, <2>2
<1>7. Len(new) = Cardinality(Q)
  BY <1>3, <1>4, <1>5
<1> HIDE DEF new, Q
<1>8. QC!Selects(new, of, Q)
  BY <1>6, <1>7, SelectsIs
<1> QED
  BY <1>8 DEF new, Q

LEMMA NoneSelected ==
  ASSUME NEW of
  PROVE  /\ QC!Selects(<< >>, of, QC!AllowedAt(of, 0)) /\ QC!Selects(<< >>, of, QC!RefusedAt(of, 0))
<1>1. QC!AllowedAt(of, 0) = {} /\ QC!RefusedAt(of, 0) = {}
  BY DEF QC!AllowedAt, QC!RefusedAt
<1>2. Len(<< >>) = Cardinality({})
  BY FS_EmptySet
<1> QED
  BY <1>1, <1>2, SelectsIs

LEMMA PlacesGrow ==
  ASSUME NEW of, NEW n \in Nat
  PROVE  /\ QC!AllowedAt(of, n) \in SUBSET (1..n) /\ QC!RefusedAt(of, n) \in SUBSET (1..n)
         /\ of[n + 1] \in AllowedGates =>
              QC!AllowedAt(of, n + 1) = QC!AllowedAt(of, n) \union {n + 1}
                /\ QC!RefusedAt(of, n + 1) = QC!RefusedAt(of, n)
         /\ of[n + 1] \notin AllowedGates =>
              QC!RefusedAt(of, n + 1) = QC!RefusedAt(of, n) \union {n + 1}
                /\ QC!AllowedAt(of, n + 1) = QC!AllowedAt(of, n)
<1>1. \A i : i \in 1..n + 1 <=> i \in 1..n \/ i = n + 1
  OBVIOUS
<1> QED
  BY <1>1 DEF QC!AllowedAt, QC!RefusedAt

\* The shapes of calls and jobs.
LEMMA AskedIs ==
  ASSUME NEW asked \in QC!Asked
  PROVE  /\ asked.kind \in {"register", "remove", "import", "list", "export"}
         /\ asked.kind \in {"register", "remove"} => asked.id \in AllowedGates /\ asked \in QC!Taken
         /\ asked.kind = "export" => asked.gates \in Seq(AllowedGates)
<1>1. CASE asked \in [kind : {"register", "remove"}, id : AllowedGates]
  BY <1>1 DEF QC!Taken
<1>2. CASE asked \in [kind : {"import", "list"}]
  BY <1>2
<1>3. CASE asked \in [kind : {"export"}, gates : Seq(AllowedGates)]
  BY <1>3
<1> QED
  BY <1>1, <1>2, <1>3 DEF QC!Asked

LEMMA TakenIs ==
  ASSUME NEW asked \in QC!Taken
  PROVE  /\ asked.kind \in {"register", "remove", "import"}
         /\ asked.kind \in {"register", "remove"} => asked.id \in AllowedGates
         /\ asked.kind = "import" => asked.of \in Seq(QC!Ids)
<1>1. CASE asked \in [kind : {"register", "remove"}, id : AllowedGates]
  BY <1>1
<1>2. CASE asked \in [kind : {"import"}, of : Seq(QC!Ids)]
  BY <1>2
<1> QED
  BY <1>1, <1>2 DEF QC!Taken

LEMMA AskedAre ==
  /\ \A id \in AllowedGates : [kind |-> "register", id |-> id] \in QC!Asked
  /\ \A id \in AllowedGates : [kind |-> "remove", id |-> id] \in QC!Asked
  /\ [kind |-> "import"] \in QC!Asked /\ [kind |-> "list"] \in QC!Asked
  /\ \A gates \in Seq(AllowedGates) : [kind |-> "export", gates |-> gates] \in QC!Asked
  BY DEF QC!Asked

LEMMA JobIs ==
  ASSUME NEW j \in QC!Jobs
  PROVE  /\ j.call \in QC!Taken /\ j.left \in Seq(QC!Ids) /\ j.done \in Seq(AllowedGates)
         /\ j.rejected \in Seq(QC!Ids) /\ j.writes \in BOOLEAN
         /\ j = [call |-> j.call, left |-> j.left, done |-> j.done,
                 rejected |-> j.rejected, writes |-> j.writes]
  BY DEF QC!Jobs

LEMMA JobsAre ==
  ASSUME NEW asked \in QC!Taken, NEW left \in Seq(QC!Ids)
  PROVE  /\ QC!Job(asked, left) \in QC!Jobs /\ QC!Job(asked, left).call = asked
         /\ QC!Job(asked, left).left = left /\ QC!Job(asked, left).done = << >>
         /\ QC!Job(asked, left).rejected = << >>
  BY EmptySeq DEF QC!Job, QC!Jobs

LEMMA IdsHold == AllowedGates \subseteq QC!Ids
  BY DEF QC!Ids

\* What a job has become, everything that is stored and registered staying.
LEMMA GateJobMoves ==
  ASSUME QC!TypeOK, QC!StoredWhenWritten, QC!FileIsUnique, QC!ImportsAccount,
         NEW d \in GateDesktops, NEW j \in QC!Jobs \union {None},
         v3' = [v3 EXCEPT ![d] = j], v1'.gates = v1.gates, v9' = v9,
         ~v9 => v8' \subseteq QC!Range(v1.gates) /\ QC!IsStored(j, v1.gates),
         QC!Accounts(j)
  PROVE  /\ v3' \in [GateDesktops -> QC!Jobs \union {None}]
         /\ QC!StoredWhenWritten' /\ QC!FileIsUnique' /\ QC!ImportsAccount'
<1>1. v3 \in [GateDesktops -> QC!Jobs \union {None}]
  BY DEF QC!TypeOK
<1>2. /\ v3' \in [GateDesktops -> QC!Jobs \union {None}]
      /\ \A e \in GateDesktops : v3'[e] = IF e = d THEN j ELSE v3[e]
  BY <1>1
<1>3. ASSUME ~v9', NEW e \in GateDesktops PROVE QC!IsStored(v3'[e], v1'.gates)
  BY <1>2, <1>3 DEF QC!StoredWhenWritten
<1>4. QC!StoredWhenWritten'
  BY <1>3 DEF QC!StoredWhenWritten
<1>5. QC!FileIsUnique'
  BY DEF QC!FileIsUnique
<1>6. ASSUME NEW e \in GateDesktops PROVE QC!Accounts(v3'[e])
  BY <1>2 DEF QC!ImportsAccount
<1>7. QC!ImportsAccount'
  BY <1>6 DEF QC!ImportsAccount
<1> QED
  BY <1>2, <1>4, <1>5, <1>7

\* A job that ends.
LEMMA JobEnds ==
  ASSUME QC!TypeOK, QC!CallIsTaken, NEW d \in GateDesktops, v3[d] # None \/ (d = GateViewer /\ v5 # << >>),
         NEW refresh \in BOOLEAN, QC!End(d, refresh)
  PROVE  /\ v3' = [v3 EXCEPT ![d] = None] /\ v5' \in Seq(QC!Asked)
         /\ QC!CallIsTaken'
<1>1. v5 \in Seq(QC!Asked) /\ v3 \in [GateDesktops -> QC!Jobs \union {None}]
  BY DEF QC!TypeOK
<1>2. v3' = [v3 EXCEPT ![d] = None]
  BY DEF QC!End
<1>3. v5' = IF d # GateViewer THEN v5
            ELSE IF refresh THEN Append(Tail(v5), [kind |-> "list"]) ELSE Tail(v5)
  BY DEF QC!End, QC!Answered
<1>4. CASE d = GateViewer
  <2>1. v5 # << >>
    BY <1>4 DEF QC!CallIsTaken
  <2>2. Tail(v5) \in Seq(QC!Asked)
    BY <1>1, <2>1, HeadTailProperties
  <2>3. Append(Tail(v5), [kind |-> "list"]) \in Seq(QC!Asked)
    BY <2>2, AskedAre, AppendProperties
  <2>4. v3'[GateViewer] = None
    BY <1>1, <1>2, <1>4
  <2> QED
    BY <1>2, <1>3, <1>4, <2>2, <2>3, <2>4 DEF QC!CallIsTaken
<1>5. CASE d # GateViewer
  BY <1>1, <1>2, <1>3, <1>5 DEF QC!CallIsTaken
<1> QED
  BY <1>4, <1>5

LEMMA EndedJobs ==
  ASSUME NEW gates
  PROVE  QC!IsStored(None, gates) /\ QC!Accounts(None)
  BY DEF QC!IsStored, QC!Accounts

LEMMA OneMore ==
  ASSUME NEW S, NEW s \in Seq(S), NEW x
  PROVE  QC!Range(Append(s, x)) = QC!Range(s) \union {x}
<1>1. /\ Len(s) \in Nat /\ DOMAIN s = 1..Len(s)
      /\ DOMAIN Append(s, x) = 1..Len(s) + 1
      /\ \A i \in 1..Len(s) : Append(s, x)[i] = s[i]
      /\ Append(s, x)[Len(s) + 1] = x
  BY LenProperties
<1> QED
  BY <1>1 DEF QC!Range

LEMMA StillInjective ==
  ASSUME NEW S, NEW s \in Seq(S), QC!IsInjective(s)
  PROVE  /\ \A x \in S : ~QC!Contains(s, x) => QC!IsInjective(Append(s, x))
         /\ \A i \in 1..Len(s) : QC!IsInjective(QC!RemoveAt(s, i))
<1>1. Len(s) \in Nat /\ DOMAIN s = 1..Len(s)
  BY LenProperties
<1>2. ASSUME NEW x \in S, ~QC!Contains(s, x)
      PROVE  QC!IsInjective(Append(s, x))
  <2> DEFINE new == Append(s, x)
  <2>1. /\ DOMAIN new = 1..Len(s) + 1
        /\ \A i \in 1..Len(s) : new[i] = s[i]
        /\ new[Len(s) + 1] = x
    <3>1. new \in Seq(S) /\ Len(new) = Len(s) + 1
      BY AppendProperties
    <3>2. DOMAIN new = 1..Len(new)
      BY <3>1, LenProperties
    <3> QED
      BY <3>1, <3>2, AppendProperties
  <2>2. \A i \in 1..Len(s) : s[i] # x
    BY <1>2 DEF QC!Contains
  <2> HIDE DEF new
  <2>3. QC!IsInjective(new)
    BY <1>1, <2>1, <2>2 DEF QC!IsInjective
  <2> QED
    BY <2>3 DEF new
<1>3. ASSUME NEW i \in 1..Len(s)
      PROVE  QC!IsInjective(QC!RemoveAt(s, i))
  <2> DEFINE new == QC!RemoveAt(s, i)
  <2>1. /\ new \in Seq(S) /\ Len(new) = Len(s) - 1
        /\ \A k \in 1..Len(s) - 1 : new[k] = s[IF k < i THEN k ELSE k + 1]
    BY OneGateIsRemoved
  <2>2. DOMAIN new = 1..Len(s) - 1
    BY <2>1, LenProperties
  <2> HIDE DEF new
  <2>3. ASSUME NEW a \in DOMAIN new, NEW b \in DOMAIN new, new[a] = new[b]
        PROVE  a = b
    <3> DEFINE p == IF a < i THEN a ELSE a + 1
               q == IF b < i THEN b ELSE b + 1
    <3>1. a \in 1..Len(s) - 1 /\ b \in 1..Len(s) - 1 /\ i \in 1..Len(s)
      BY <2>2
    <3>2. p \in DOMAIN s /\ q \in DOMAIN s /\ (p = q => a = b)
      BY <1>1, <3>1
    <3>3. new[a] = s[p] /\ new[b] = s[q]
      BY <2>1, <3>1
    <3> HIDE DEF p, q
    <3> QED
      BY <2>3, <3>2, <3>3 DEF QC!IsInjective
  <2>4. QC!IsInjective(new)
    BY <2>3 DEF QC!IsInjective
  <2> QED
    BY <2>4 DEF new
<1> QED
  BY <1>2, <1>3

LEMMA CatalogueStarts == QC!WellFormed /\ QC!Init => QC!IInv
<1> SUFFICES ASSUME QC!WellFormed, QC!Init PROVE QC!IInv
  OBVIOUS
<1>1. \A S : << >> \in Seq(S)
  BY EmptySeq
<1>2. v1 = [torn |-> FALSE, gates |-> << >>] /\ v1.gates = << >>
  BY DEF QC!Init
<1>3. QC!TypeOK
  BY <1>1 DEF QC!Init, QC!TypeOK, QC!WellFormed
<1>4. \A d \in GateDesktops : v3[d] = None /\ v2[d] = << >>
  BY DEF QC!Init
<1>5. QC!IsInjective(<< >>)
  BY DEF QC!IsInjective
<1>6. QC!StoredWhenWritten /\ QC!ImportsAccount
  BY <1>4, EndedJobs DEF QC!Init, QC!StoredWhenWritten, QC!ImportsAccount
<1>7. QC!IdsAreUnique /\ QC!FileIsUnique
  BY <1>2, <1>4, <1>5 DEF QC!IdsAreUnique, QC!FileIsUnique
<1>8. QC!CallIsTaken /\ QC!ImportIsComplete
  BY <1>4 DEF QC!Init, QC!CallIsTaken, QC!ImportIsComplete, QC!WellFormed
<1> QED
  BY <1>3, <1>6, <1>7, <1>8 DEF QC!IInv

\* The next gate of an import is one more of its file that is accounted for.
LEMMA NextIsTaken ==
  ASSUME NEW o \in QC!Jobs, o.left # << >>
  PROVE  /\ Head(o.left) \in QC!Ids /\ Tail(o.left) \in Seq(QC!Ids) /\ Head(o.left) = o.left[1]
         /\ Len(o.left) \in Nat \ {0} /\ Len(Tail(o.left)) = Len(o.left) - 1
         /\ \A i \in 1..Len(Tail(o.left)) : Tail(o.left)[i] = o.left[i + 1]
  BY JobIs, HeadTailProperties, EmptySeq

LEMMA OneFurther ==
  ASSUME NEW o \in QC!Jobs, o # None, o.left # << >>, o.call.kind = "import", QC!Accounts(o),
         NEW j, j.call = o.call, j.left = Tail(o.left),
         \/ /\ Head(o.left) \in AllowedGates
            /\ j.done = Append(o.done, Head(o.left)) /\ j.rejected = o.rejected
         \/ /\ Head(o.left) \notin AllowedGates
            /\ j.rejected = Append(o.rejected, Head(o.left)) /\ j.done = o.done
  PROVE  QC!Accounts(j)
<1> DEFINE n == Len(o.call.of) - Len(o.left)
<1>1. /\ n \in Nat /\ Len(o.call.of) = n + Len(o.left)
      /\ \A i \in 1..Len(o.left) : o.left[i] = o.call.of[n + i]
      /\ QC!Selects(o.done, o.call.of, QC!AllowedAt(o.call.of, n))
      /\ QC!Selects(o.rejected, o.call.of, QC!RefusedAt(o.call.of, n))
  BY DEF QC!Accounts, QC!HasDone
<1> HIDE DEF n
<1>2. /\ Head(o.left) \in QC!Ids /\ Head(o.left) = o.left[1]
      /\ Len(o.left) \in Nat \ {0} /\ Len(Tail(o.left)) = Len(o.left) - 1
      /\ \A i \in 1..Len(Tail(o.left)) : Tail(o.left)[i] = o.left[i + 1]
  BY NextIsTaken
<1>3. Head(o.left) = o.call.of[n + 1]
  BY <1>1, <1>2
<1>4. o.done \in Seq(AllowedGates) /\ o.rejected \in Seq(QC!Ids)
  BY JobIs
<1>5. QC!Selects(j.done, o.call.of, QC!AllowedAt(o.call.of, n + 1))
        /\ QC!Selects(j.rejected, o.call.of, QC!RefusedAt(o.call.of, n + 1))
  <2> DEFINE of == o.call.of
  <2>1. n \in Nat /\ QC!Selects(o.done, of, QC!AllowedAt(of, n)) /\ QC!Selects(o.rejected, of, QC!RefusedAt(of, n))
    BY <1>1
  <2>2. Head(o.left) = of[n + 1] /\ of[n + 1] \in QC!Ids
    BY <1>2, <1>3
  <2> HIDE DEF of
  <2>3. QC!AllowedAt(of, n) \in SUBSET (1..n) /\ QC!RefusedAt(of, n) \in SUBSET (1..n)
    BY <2>1, PlacesGrow
  <2>4. CASE of[n + 1] \in AllowedGates
    <3>1. QC!Selects(Append(o.done, of[n + 1]), of, QC!AllowedAt(of, n) \union {n + 1})
      BY <1>4, <2>1, <2>3, <2>4, SelectsNext
    <3>2. j.done = Append(o.done, of[n + 1]) /\ j.rejected = o.rejected
      BY <2>2, <2>4
    <3>3. /\ QC!AllowedAt(of, n + 1) = QC!AllowedAt(of, n) \union {n + 1}
          /\ QC!RefusedAt(of, n + 1) = QC!RefusedAt(of, n)
      BY <2>1, <2>4, PlacesGrow
    <3>4. QC!Selects(j.done, of, QC!AllowedAt(of, n + 1)) /\ QC!Selects(j.rejected, of, QC!RefusedAt(of, n + 1))
      BY <2>1, <3>1, <3>2, <3>3
    <3> QED
      BY <3>4 DEF of
  <2>5. CASE of[n + 1] \notin AllowedGates
    <3>1. QC!Selects(Append(o.rejected, of[n + 1]), of, QC!RefusedAt(of, n) \union {n + 1})
      BY <1>4, <2>1, <2>2, <2>3, SelectsNext
    <3>2. j.rejected = Append(o.rejected, of[n + 1]) /\ j.done = o.done
      BY <2>2, <2>5
    <3>3. /\ QC!RefusedAt(of, n + 1) = QC!RefusedAt(of, n) \union {n + 1}
          /\ QC!AllowedAt(of, n + 1) = QC!AllowedAt(of, n)
      BY <2>1, <2>5, PlacesGrow
    <3>4. QC!Selects(j.done, of, QC!AllowedAt(of, n + 1)) /\ QC!Selects(j.rejected, of, QC!RefusedAt(of, n + 1))
      BY <2>1, <3>1, <3>2, <3>3
    <3> QED
      BY <3>4 DEF of
  <2> QED
    BY <2>4, <2>5
<1>7. \A i \in 1..Len(Tail(o.left)) : Tail(o.left)[i] = o.call.of[n + 1 + i]
  <2> SUFFICES ASSUME NEW i \in 1..Len(Tail(o.left))
               PROVE  Tail(o.left)[i] = o.call.of[n + 1 + i]
    OBVIOUS
  <2>1. i \in 1..Len(o.left) - 1 /\ Len(o.left) \in Nat /\ n \in Nat
    BY <1>1, <1>2
  <2>2. i + 1 \in 1..Len(o.left) /\ n + (i + 1) = n + 1 + i
    BY <2>1
  <2> QED
    BY <1>1, <1>2, <2>2
<1>8. n + 1 \in Nat /\ Len(o.call.of) = n + 1 + Len(Tail(o.left))
  <2>1. /\ n \in Nat /\ Len(o.call.of) = n + Len(o.left)
        /\ Len(o.left) \in Nat \ {0} /\ Len(Tail(o.left)) = Len(o.left) - 1
    BY <1>1, <1>2
  <2> DEFINE k == Len(Tail(o.left))
             m == Len(o.left)
             l == Len(o.call.of)
  <2>2. n \in Nat /\ l = n + m /\ m \in Nat \ {0} /\ k = m - 1
    BY <2>1
  <2> HIDE DEF k, m, l
  <2>3. n + 1 \in Nat /\ l = n + 1 + k
    BY <2>2
  <2> QED
    BY <2>3 DEF k, l
<1>9. Len(Tail(o.left)) \in Nat
  BY <1>2
<1>10. Len(o.call.of) - Len(Tail(o.left)) = n + 1
  BY <1>8, <1>9
<1>12. QC!HasDone(j, n + 1)
  BY <1>5, <1>7, <1>8 DEF QC!HasDone
<1> QED
  BY <1>10, <1>12 DEF QC!Accounts

\* RegisterNext: a gate that the rules reject, and one that becomes registered.
LEMMA GateIsRejected ==
  ASSUME NEW o \in QC!Jobs, o # None, o.left # << >>, o.call.kind = "import", QC!Accounts(o),
         Head(o.left) \notin AllowedGates, NEW gates, NEW j,
         j = [o EXCEPT !.left = Tail(o.left), !.rejected = Append(o.rejected, Head(o.left))]
  PROVE  /\ j \in QC!Jobs /\ QC!Accounts(j)
         /\ QC!IsStored(o, gates) => QC!IsStored(j, gates)
<1>1. /\ o.rejected \in Seq(QC!Ids) /\ o.done \in Seq(AllowedGates)
  BY JobIs
<1>2. Head(o.left) \in QC!Ids /\ Tail(o.left) \in Seq(QC!Ids)
  BY NextIsTaken
<1>3. Append(o.rejected, Head(o.left)) \in Seq(QC!Ids)
  BY <1>1, <1>2, AppendProperties
<1>4. /\ j \in QC!Jobs /\ j.call = o.call /\ j.left = Tail(o.left) /\ j.done = o.done
      /\ j.rejected = Append(o.rejected, Head(o.left)) /\ (j.writes <=> o.writes)
  BY <1>2, <1>3 DEF QC!Jobs
<1>5. QC!Accounts(j)
  BY <1>4, OneFurther
<1>6. QC!IsStored(o, gates) => QC!IsStored(j, gates)
  BY <1>4 DEF QC!IsStored
<1> QED
  BY <1>4, <1>5, <1>6

LEMMA BecomesRegistered ==
  ASSUME NEW o \in QC!Jobs, o # None, o.left # << >>, ~o.writes, QC!Accounts(o),
         Head(o.left) \in AllowedGates, NEW gates, NEW j,
         j = [[o EXCEPT !.left = Tail(o.left), !.done = Append(o.done, Head(o.left))]
                EXCEPT !.writes = TRUE]
  PROVE  /\ j \in QC!Jobs /\ QC!Accounts(j)
         /\ QC!IsStored(o, gates) => QC!IsStored(j, gates)
<1>1. /\ o.rejected \in Seq(QC!Ids) /\ o.done \in Seq(AllowedGates)
  BY JobIs
<1>2. Head(o.left) \in QC!Ids /\ Tail(o.left) \in Seq(QC!Ids)
  BY NextIsTaken
<1>3. Append(o.done, Head(o.left)) \in Seq(AllowedGates)
  BY <1>1, AppendProperties
<1>4. /\ j \in QC!Jobs /\ j.call = o.call /\ j.left = Tail(o.left)
      /\ j.done = Append(o.done, Head(o.left)) /\ j.rejected = o.rejected /\ j.writes
  BY <1>2, <1>3 DEF QC!Jobs
<1>5. QC!Accounts(j)
  <2>1. CASE o.call.kind = "import"
    BY <1>4, <2>1, OneFurther
  <2>2. CASE o.call.kind # "import"
    BY <1>4, <2>2 DEF QC!Accounts
  <2> QED
    BY <2>1, <2>2
<1>7. /\ Len(o.done) \in Nat /\ DOMAIN o.done = 1..Len(o.done)
      /\ Len(Append(o.done, Head(o.left))) = Len(o.done) + 1
      /\ DOMAIN Append(o.done, Head(o.left)) = 1..Len(o.done) + 1
      /\ \A i \in 1..Len(o.done) : Append(o.done, Head(o.left))[i] = o.done[i]
  BY <1>1, <1>3, LenProperties, AppendProperties
<1>8. QC!IsStored(o, gates) => QC!IsStored(j, gates)
  <2> SUFFICES ASSUME QC!IsStored(o, gates), o.call.kind # "remove", NEW i \in DOMAIN j.done
               PROVE  j.done[i] \in QC!Range(gates) \/ i = Len(j.done)
    BY <1>4 DEF QC!IsStored
  <2>1. CASE i \in 1..Len(o.done)
    BY <1>4, <1>7, <2>1 DEF QC!IsStored
  <2>2. CASE i = Len(o.done) + 1
    BY <1>4, <1>7, <2>2
  <2> QED
    BY <1>4, <1>7, <2>1, <2>2
<1> QED
  BY <1>4, <1>5, <1>8

LEMMA CatalogueIs ==
  QC!IInv <=> /\ QC!TypeOK /\ QC!StoredWhenWritten /\ QC!IdsAreUnique /\ QC!FileIsUnique /\ QC!CallIsTaken
              /\ QC!ImportsAccount /\ QC!ImportIsComplete
  BY DEF QC!IInv

LEMMA NextRegistrationKeeps ==
  ASSUME QC!WellFormed, QC!IInv, NEW d \in GateDesktops, QC!RegisterNext(d)
  PROVE  QC!IInv'
<1>1. QC!TypeOK /\ QC!StoredWhenWritten /\ QC!IdsAreUnique /\ QC!FileIsUnique /\ QC!CallIsTaken
        /\ QC!ImportsAccount /\ QC!ImportIsComplete
  BY CatalogueIs
<1> DEFINE o == v3[d]
<1>2. /\ o # None /\ ~o.writes /\ o.left # << >>
      /\ UNCHANGED <<v4, v6, v7>>
  BY DEF QC!RegisterNext
<1>3. o \in QC!Jobs /\ v3 \in [GateDesktops -> QC!Jobs \union {None}]
  BY <1>1, <1>2 DEF QC!TypeOK
<1>4. QC!Accounts(o) /\ (~v9 => QC!IsStored(o, v1.gates) /\ v8 \subseteq QC!Range(v1.gates))
  BY <1>1 DEF QC!ImportsAccount, QC!StoredWhenWritten
<1>5. CASE /\ Head(o.left) \notin AllowedGates /\ o.call.kind = "import"
           /\ v3' = [v3 EXCEPT ![d] =
                       [v3[d] EXCEPT !.left = Tail(@), !.rejected = Append(@, Head(v3[d].left))]]
           /\ UNCHANGED <<QC!catalogue, v10, v5>>
  <2> DEFINE j == [o EXCEPT !.left = Tail(o.left), !.rejected = Append(o.rejected, Head(o.left))]
  <2>1. j \in QC!Jobs /\ QC!Accounts(j) /\ (QC!IsStored(o, v1.gates) => QC!IsStored(j, v1.gates))
    <3> HIDE DEF o
    <3> QED
      BY <1>2, <1>3, <1>4, <1>5, GateIsRejected
  <2>2. v3' = [v3 EXCEPT ![d] = j]
    BY <1>5
  <2>3. v1' = v1 /\ v9' = v9 /\ v8' = v8 /\ v2' = v2
          /\ v10' = v10 /\ v5' = v5
    BY <1>5 DEF QC!catalogue
  <2> HIDE DEF j
  <2>4. /\ v3' \in [GateDesktops -> QC!Jobs \union {None}]
        /\ QC!StoredWhenWritten' /\ QC!FileIsUnique' /\ QC!ImportsAccount'
    BY <1>1, <1>4, <2>1, <2>2, <2>3, GateJobMoves
  <2>5. QC!TypeOK' /\ QC!IdsAreUnique' /\ QC!ImportIsComplete'
    BY <1>1, <1>2, <2>3, <2>4 DEF QC!TypeOK, QC!IdsAreUnique, QC!ImportIsComplete
  <2>6. QC!CallIsTaken'
    BY <1>1, <1>2, <1>3, <2>2, <2>3 DEF QC!CallIsTaken, QC!WellFormed
  <2> QED
    BY <2>4, <2>5, <2>6 DEF QC!IInv
<1>6. CASE /\ QC!Ends(d, FALSE) /\ QC!End(d, FALSE) /\ UNCHANGED QC!catalogue
  <2>1. v3' = [v3 EXCEPT ![d] = None] /\ v5' \in Seq(QC!Asked) /\ QC!CallIsTaken'
    BY <1>1, <1>2, <1>6, JobEnds
  <2>2. v1' = v1 /\ v9' = v9 /\ v8' = v8 /\ v2' = v2
    BY <1>6 DEF QC!catalogue
  <2>3. /\ v3' \in [GateDesktops -> QC!Jobs \union {None}]
        /\ QC!StoredWhenWritten' /\ QC!FileIsUnique' /\ QC!ImportsAccount'
    BY <1>1, <1>4, <2>1, <2>2, EndedJobs, GateJobMoves
  <2>4. QC!TypeOK' /\ QC!IdsAreUnique'
    BY <1>1, <1>2, <2>1, <2>2, <2>3 DEF QC!TypeOK, QC!IdsAreUnique
  <2>5. QC!ImportIsComplete'
    BY <1>1, <1>6 DEF QC!Ends, QC!ImportIsComplete
  <2> QED
    BY <2>1, <2>3, <2>4, <2>5 DEF QC!IInv
<1>7. CASE /\ Head(o.left) \in AllowedGates /\ ~QC!Contains(v2[d], Head(o.left))
           /\ QC!Persist(d, Append(v2[d], Head(o.left)),
                         [o EXCEPT !.left = Tail(@), !.done = Append(@, Head(o.left))])
           /\ UNCHANGED <<v8, v9, v10, v5>>
  <2> DEFINE j == [[o EXCEPT !.left = Tail(o.left), !.done = Append(o.done, Head(o.left))]
                     EXCEPT !.writes = TRUE]
  <2>1. j \in QC!Jobs /\ QC!Accounts(j) /\ (QC!IsStored(o, v1.gates) => QC!IsStored(j, v1.gates))
    <3> HIDE DEF o
    <3> QED
      BY <1>2, <1>3, <1>4, <1>7, BecomesRegistered
  <2>2. /\ v3' = [v3 EXCEPT ![d] = j] /\ v1' = [v1 EXCEPT !.torn = TRUE]
        /\ v2' = [v2 EXCEPT ![d] = Append(v2[d], Head(o.left))]
        /\ UNCHANGED <<v8, v9, v10, v5>>
    BY <1>7 DEF QC!Persist
  <2> HIDE DEF j
  <2>3. v1' \in [torn : BOOLEAN, gates : Seq(AllowedGates)] /\ v1'.gates = v1.gates
    BY <1>1, <2>2 DEF QC!TypeOK
  <2>4. /\ v3' \in [GateDesktops -> QC!Jobs \union {None}]
        /\ QC!StoredWhenWritten' /\ QC!FileIsUnique' /\ QC!ImportsAccount'
    BY <1>1, <1>4, <2>1, <2>2, <2>3, GateJobMoves
  <2>5. /\ v2' \in [GateDesktops -> Seq(AllowedGates)] /\ QC!IdsAreUnique'
    <3>1. v2 \in [GateDesktops -> Seq(AllowedGates)] /\ QC!IsInjective(v2[d])
      BY <1>1 DEF QC!TypeOK, QC!IdsAreUnique
    <3>2. /\ Append(v2[d], Head(o.left)) \in Seq(AllowedGates)
          /\ QC!IsInjective(Append(v2[d], Head(o.left)))
      BY <1>7, <3>1, AppendProperties, StillInjective
    <3> HIDE DEF o
    <3>3. \A e \in GateDesktops : v2'[e] = IF e = d THEN Append(v2[d], Head(o.left)) ELSE v2[e]
      BY <2>2, <3>1
    <3>4. v2' \in [GateDesktops -> Seq(AllowedGates)]
      BY <2>2, <3>1, <3>2
    <3> QED
      BY <1>1, <3>2, <3>3, <3>4 DEF QC!IdsAreUnique
  <2>6. QC!TypeOK' /\ QC!ImportIsComplete'
    BY <1>1, <1>2, <2>2, <2>3, <2>4, <2>5 DEF QC!TypeOK, QC!ImportIsComplete
  <2>7. QC!CallIsTaken'
    BY <1>1, <1>2, <1>3, <2>2 DEF QC!CallIsTaken, QC!WellFormed
  <2> QED
    BY <2>4, <2>5, <2>6, <2>7 DEF QC!IInv
<1> QED
  BY <1>5, <1>6, <1>7 DEF QC!RegisterNext

LEMMA RemovalKeeps ==
  ASSUME QC!WellFormed, QC!IInv, NEW d \in GateDesktops, QC!Unregister(d)
  PROVE  QC!IInv'
<1>1. QC!TypeOK /\ QC!StoredWhenWritten /\ QC!IdsAreUnique /\ QC!FileIsUnique /\ QC!CallIsTaken
        /\ QC!ImportsAccount /\ QC!ImportIsComplete
  BY CatalogueIs
<1> DEFINE o == v3[d]
           id == o.call.id
<1>2. /\ o # None /\ ~o.writes /\ o.call.kind = "remove"
      /\ UNCHANGED <<v4, v6, v7, v10>>
  BY DEF QC!Unregister
<1>3. o \in QC!Jobs /\ v3 \in [GateDesktops -> QC!Jobs \union {None}]
  BY <1>1, <1>2 DEF QC!TypeOK
<1>4. ~v9 => v8 \subseteq QC!Range(v1.gates)
  BY <1>1 DEF QC!StoredWhenWritten
<1>5. CASE QC!End(d, TRUE) /\ UNCHANGED QC!catalogue
  <2>1. v3' = [v3 EXCEPT ![d] = None] /\ v5' \in Seq(QC!Asked) /\ QC!CallIsTaken'
    BY <1>1, <1>2, <1>5, JobEnds
  <2>2. v1' = v1 /\ v9' = v9 /\ v8' = v8 /\ v2' = v2
    BY <1>5 DEF QC!catalogue
  <2>3. /\ v3' \in [GateDesktops -> QC!Jobs \union {None}]
        /\ QC!StoredWhenWritten' /\ QC!FileIsUnique' /\ QC!ImportsAccount'
    BY <1>1, <1>4, <2>1, <2>2, EndedJobs, GateJobMoves
  <2>4. QC!TypeOK' /\ QC!IdsAreUnique' /\ QC!ImportIsComplete'
    BY <1>1, <1>2, <2>1, <2>2, <2>3 DEF QC!TypeOK, QC!IdsAreUnique, QC!ImportIsComplete
  <2> QED
    BY <2>1, <2>3, <2>4 DEF QC!IInv
<1>6. CASE /\ QC!Contains(v2[d], id)
           /\ QC!Persist(d, QC!Without(v2[d], id), [o EXCEPT !.done = <<id>>])
           /\ v8' = v8 \ {id} /\ UNCHANGED <<v9, v5>>
  <2> DEFINE j == [[o EXCEPT !.done = <<id>>] EXCEPT !.writes = TRUE]
  <2>1. id \in AllowedGates
    BY <1>2, <1>3, JobIs, TakenIs
  <2>2. j \in QC!Jobs /\ j.call = o.call
    <3>1. <<id>> \in Seq(AllowedGates)
      BY <2>1
    <3> HIDE DEF o, id
    <3> QED
      BY <1>3, <3>1 DEF QC!Jobs
  <2>3. /\ v3' = [v3 EXCEPT ![d] = j] /\ v1' = [v1 EXCEPT !.torn = TRUE]
        /\ v2' = [v2 EXCEPT ![d] = QC!Without(v2[d], id)]
        /\ v8' = v8 \ {id} /\ UNCHANGED <<v9, v5>>
    BY <1>6 DEF QC!Persist
  <2> HIDE DEF j
  <2>4. QC!Accounts(j) /\ QC!IsStored(j, v1.gates)
    BY <1>2, <2>2 DEF QC!Accounts, QC!IsStored
  <2>5. v1' \in [torn : BOOLEAN, gates : Seq(AllowedGates)] /\ v1'.gates = v1.gates
    BY <1>1, <2>3 DEF QC!TypeOK
  <2>6. ~v9 => v8' \subseteq QC!Range(v1.gates)
    BY <1>4, <2>3
  <2>7. /\ v3' \in [GateDesktops -> QC!Jobs \union {None}]
        /\ QC!StoredWhenWritten' /\ QC!FileIsUnique' /\ QC!ImportsAccount'
    BY <1>1, <2>2, <2>3, <2>4, <2>5, <2>6, GateJobMoves
  <2>8. /\ v2' \in [GateDesktops -> Seq(AllowedGates)] /\ QC!IdsAreUnique'
    <3>1. v2 \in [GateDesktops -> Seq(AllowedGates)] /\ QC!IsInjective(v2[d])
            /\ v2[d] \in Seq(AllowedGates)
      BY <1>1 DEF QC!TypeOK, QC!IdsAreUnique
    <3>2. PICK i \in 1..Len(v2[d]) : QC!Without(v2[d], id) = QC!RemoveAt(v2[d], i)
      <4>1. \E i \in DOMAIN v2[d] : v2[d][i] = id
        BY <1>6, <3>1, LenProperties DEF QC!Contains
      <4>2. DOMAIN v2[d] = 1..Len(v2[d])
        BY <3>1, LenProperties
      <4> QED
        BY <4>1, <4>2 DEF QC!Without
    <3>3. QC!Without(v2[d], id) \in Seq(AllowedGates) /\ QC!IsInjective(QC!Without(v2[d], id))
      BY <3>1, <3>2, OneGateIsRemoved, StillInjective
    <3> HIDE DEF id
    <3>4. \A e \in GateDesktops : v2'[e] = IF e = d THEN QC!Without(v2[d], id) ELSE v2[e]
      BY <2>3, <3>1
    <3>5. v2' \in [GateDesktops -> Seq(AllowedGates)]
      BY <2>3, <3>1, <3>3
    <3> QED
      BY <1>1, <3>3, <3>4, <3>5 DEF QC!IdsAreUnique
  <2>9. QC!TypeOK' /\ QC!ImportIsComplete'
    BY <1>1, <1>2, <2>3, <2>5, <2>7, <2>8 DEF QC!TypeOK, QC!ImportIsComplete
  <2>10. QC!CallIsTaken'
    BY <1>1, <1>2, <1>3, <2>3 DEF QC!CallIsTaken, QC!WellFormed
  <2> QED
    BY <2>7, <2>8, <2>9, <2>10 DEF QC!IInv
<1> QED
  BY <1>5, <1>6 DEF QC!Unregister

\* The whole Map is written: what is registered and not in it is what another desktop
\* has written.
LEMMA WriteKeeps ==
  ASSUME QC!WellFormed, QC!IInv, NEW d \in GateDesktops, QC!Written(d)
  PROVE  QC!IInv'
<1>1. QC!TypeOK /\ QC!StoredWhenWritten /\ QC!IdsAreUnique /\ QC!FileIsUnique /\ QC!CallIsTaken
        /\ QC!ImportsAccount /\ QC!ImportIsComplete
  BY CatalogueIs
<1> DEFINE o == v3[d]
           j == [o EXCEPT !.writes = FALSE]
<1>2. /\ o # None /\ v1' = [torn |-> FALSE, gates |-> v2[d]]
      /\ v3' = [v3 EXCEPT ![d] = j]
      /\ v9' = (v9 \/ ~(QC!Registered \subseteq QC!Range(v2[d])))
      /\ UNCHANGED <<v2, v8, v4, v5, v6, v7, v10>>
  BY DEF QC!Written, QC!screen
<1>3. o \in QC!Jobs /\ v3 \in [GateDesktops -> QC!Jobs \union {None}] /\ v2[d] \in Seq(AllowedGates)
  BY <1>1, <1>2 DEF QC!TypeOK
<1>4. /\ j \in QC!Jobs /\ j.call = o.call /\ j.left = o.left /\ j.done = o.done
      /\ j.rejected = o.rejected
  <2> HIDE DEF o
  <2> QED
    BY <1>3 DEF QC!Jobs
<1> HIDE DEF j
<1>5. v1' \in [torn : BOOLEAN, gates : Seq(AllowedGates)] /\ v1'.gates = v2[d]
  BY <1>2, <1>3
<1>6. /\ v3' \in [GateDesktops -> QC!Jobs \union {None}]
      /\ \A e \in GateDesktops : v3'[e] = IF e = d THEN j ELSE v3[e]
  BY <1>2, <1>3, <1>4
<1>7. QC!ImportsAccount'
  <2>1. QC!Accounts(j)
    BY <1>1, <1>2, <1>4 DEF QC!ImportsAccount, QC!Accounts, QC!HasDone
  <2> QED
    BY <1>1, <1>6, <2>1 DEF QC!ImportsAccount
<1>8. QC!StoredWhenWritten'
  <2> SUFFICES ASSUME ~v9'
               PROVE  /\ v8' \subseteq QC!Range(v1'.gates)
                      /\ \A e \in GateDesktops : QC!IsStored(v3'[e], v1'.gates)
    BY DEF QC!StoredWhenWritten
  <2>1. QC!Registered \subseteq QC!Range(v2[d])
    BY <1>2
  <2>2. v8' \subseteq QC!Range(v1'.gates)
    BY <1>2, <1>5, <2>1 DEF QC!Registered
  <2>3. ASSUME NEW e \in GateDesktops PROVE QC!IsStored(v3'[e], v1'.gates)
    <3>1. v3'[e].call = v3[e].call /\ v3'[e].done = v3[e].done /\ (v3'[e] # None => v3[e] # None)
      BY <1>2, <1>4, <1>6
    <3>2. CASE v3[e] # None /\ v3[e].call.kind # "remove"
      <4>1. QC!Range(v3[e].done) \subseteq QC!Registered
        BY <3>2 DEF QC!Registered
      <4>2. \A i \in DOMAIN v3[e].done : v3[e].done[i] \in QC!Range(v2[d])
        BY <2>1, <4>1 DEF QC!Range
      <4> QED
        BY <1>5, <3>1, <4>2 DEF QC!IsStored
    <3> QED
      BY <3>1, <3>2 DEF QC!IsStored
  <2> QED
    BY <2>2, <2>3
<1>9. QC!FileIsUnique'
  BY <1>1, <1>5 DEF QC!FileIsUnique, QC!IdsAreUnique
<1>10. QC!IdsAreUnique' /\ QC!ImportIsComplete'
  BY <1>1, <1>2 DEF QC!IdsAreUnique, QC!ImportIsComplete
<1>11. QC!TypeOK'
  <2>1. v9' \in BOOLEAN
    BY <1>2
  <2> QED
    BY <1>1, <1>2, <1>5, <1>6, <2>1 DEF QC!TypeOK
<1>12. QC!CallIsTaken'
  BY <1>1, <1>2, <1>6 DEF QC!CallIsTaken, QC!WellFormed
<1> QED
  BY <1>7, <1>8, <1>9, <1>10, <1>11, <1>12 DEF QC!IInv

LEMMA FailureKeeps ==
  ASSUME QC!WellFormed, QC!IInv, NEW d \in GateDesktops, QC!WriteFails(d)
  PROVE  QC!IInv'
<1>1. QC!TypeOK /\ QC!StoredWhenWritten /\ QC!IdsAreUnique /\ QC!FileIsUnique /\ QC!CallIsTaken
        /\ QC!ImportsAccount /\ QC!ImportIsComplete
  BY CatalogueIs
<1>2. /\ v3[d] # None /\ QC!Ends(d, FALSE) /\ QC!End(d, FALSE)
      /\ v1' = [v1 EXCEPT !.torn = FALSE] \/ v1' = v1
      /\ UNCHANGED <<v2, v8, v9, v4, v6, v7>>
  BY DEF QC!WriteFails
<1>3. v3' = [v3 EXCEPT ![d] = None] /\ v5' \in Seq(QC!Asked) /\ QC!CallIsTaken'
  BY <1>1, <1>2, JobEnds
<1>4. v1' \in [torn : BOOLEAN, gates : Seq(AllowedGates)] /\ v1'.gates = v1.gates
  BY <1>1, <1>2 DEF QC!TypeOK
<1>5. /\ v3' \in [GateDesktops -> QC!Jobs \union {None}]
      /\ QC!StoredWhenWritten' /\ QC!FileIsUnique' /\ QC!ImportsAccount'
  <2>1. ~v9 => v8' \subseteq QC!Range(v1.gates)
    BY <1>1, <1>2 DEF QC!StoredWhenWritten
  <2> QED
    BY <1>1, <1>2, <1>3, <1>4, <2>1, EndedJobs, GateJobMoves
<1>6. QC!TypeOK' /\ QC!IdsAreUnique'
  BY <1>1, <1>2, <1>3, <1>4, <1>5 DEF QC!TypeOK, QC!IdsAreUnique
<1>7. QC!ImportIsComplete'
  BY <1>1, <1>2 DEF QC!Ends, QC!ImportIsComplete
<1> QED
  BY <1>3, <1>5, <1>6, <1>7 DEF QC!IInv

\* What an import tells: nothing is left of its file.
LEMMA AllIsTaken ==
  ASSUME NEW o \in QC!Jobs, o.call.kind = "import", o # None, o.left = << >>, QC!Accounts(o)
  PROVE  /\ QC!Selects(o.done, o.call.of, QC!AllowedAt(o.call.of, Len(o.call.of)))
         /\ QC!Selects(o.rejected, o.call.of, QC!RefusedAt(o.call.of, Len(o.call.of)))
<1>1. QC!HasDone(o, Len(o.call.of) - Len(o.left))
  BY DEF QC!Accounts
<1>2. Len(o.left) = 0
  BY EmptySeq
<1>3. Len(o.call.of) \in Nat
  BY JobIs, TakenIs, LenProperties
<1>4. Len(o.call.of) - Len(o.left) = Len(o.call.of)
  BY <1>2, <1>3
<1> QED
  BY <1>1, <1>4 DEF QC!HasDone

LEMMA FinishKeeps ==
  ASSUME QC!WellFormed, QC!IInv, NEW d \in GateDesktops, QC!Finish(d)
  PROVE  QC!IInv'
<1>1. QC!TypeOK /\ QC!StoredWhenWritten /\ QC!IdsAreUnique /\ QC!FileIsUnique /\ QC!CallIsTaken
        /\ QC!ImportsAccount /\ QC!ImportIsComplete
  BY CatalogueIs
<1> DEFINE o == v3[d]
<1>2. /\ o # None /\ ~o.writes /\ o.left = << >> /\ o.call.kind \in {"register", "import"}
      /\ v8' = v8 \union QC!Range(o.done) /\ QC!Ends(d, TRUE) /\ QC!End(d, TRUE)
      /\ UNCHANGED <<v1, v2, v9, v4, v6, v7>>
  BY DEF QC!Finish
<1>3. o \in QC!Jobs /\ QC!Accounts(o)
  BY <1>1, <1>2 DEF QC!TypeOK, QC!ImportsAccount
<1>4. v3' = [v3 EXCEPT ![d] = None] /\ v5' \in Seq(QC!Asked) /\ QC!CallIsTaken'
  BY <1>1, <1>2, JobEnds
<1>5. ~v9 => v8' \subseteq QC!Range(v1.gates)
  <2>1. ASSUME ~v9 PROVE QC!Range(o.done) \subseteq QC!Range(v1.gates)
    <3>1. QC!IsStored(o, v1.gates)
      BY <1>1, <2>1 DEF QC!StoredWhenWritten
    <3>2. \A i \in DOMAIN o.done : o.done[i] \in QC!Range(v1.gates)
      BY <1>2, <3>1 DEF QC!IsStored
    <3> QED
      BY <3>2 DEF QC!Range
  <2> QED
    BY <1>1, <1>2, <2>1 DEF QC!StoredWhenWritten
<1>6. /\ v3' \in [GateDesktops -> QC!Jobs \union {None}]
      /\ QC!StoredWhenWritten' /\ QC!FileIsUnique' /\ QC!ImportsAccount'
  BY <1>1, <1>2, <1>4, <1>5, EndedJobs, GateJobMoves
<1>7. QC!TypeOK' /\ QC!IdsAreUnique'
  BY <1>1, <1>2, <1>4, <1>6 DEF QC!TypeOK, QC!IdsAreUnique
<1>8. QC!ImportIsComplete'
  <2>1. CASE o.call.kind = "import"
    <3>1. v10' = [of |-> o.call.of, registered |-> o.done, rejected |-> o.rejected,
                  answered |-> TRUE]
      BY <1>2, <2>1 DEF QC!Ends
    <3>2. /\ QC!Selects(o.done, o.call.of, QC!AllowedAt(o.call.of, Len(o.call.of)))
          /\ QC!Selects(o.rejected, o.call.of, QC!RefusedAt(o.call.of, Len(o.call.of)))
      BY <1>2, <1>3, <2>1, AllIsTaken
    <3>3. v10'.of = o.call.of /\ v10'.registered = o.done
            /\ v10'.rejected = o.rejected
      BY <3>1
    <3> HIDE DEF o
    <3> QED
      BY <3>2, <3>3 DEF QC!ImportIsComplete
  <2>2. CASE o.call.kind # "import"
    BY <1>1, <1>2, <2>2 DEF QC!Ends, QC!ImportIsComplete
  <2> QED
    BY <2>1, <2>2
<1> QED
  BY <1>4, <1>6, <1>7, <1>8 DEF QC!IInv

\* A job that begins has registered nothing, and all of its file is left.
LEMMA JobBegins ==
  ASSUME NEW asked \in QC!Taken, NEW left \in Seq(QC!Ids), asked.kind = "import" => left = asked.of
  PROVE  /\ QC!Job(asked, left) \in QC!Jobs /\ QC!Accounts(QC!Job(asked, left))
         /\ \A gates : QC!IsStored(QC!Job(asked, left), gates)
<1> DEFINE j == QC!Job(asked, left)
<1>1. /\ j \in QC!Jobs /\ j.call = asked /\ j.left = left /\ j.done = << >> /\ j.rejected = << >>
  BY JobsAre
<1> HIDE DEF j
<1>2. ASSUME asked.kind = "import" PROVE QC!HasDone(j, Len(asked.of) - Len(left))
  <2>1. left = asked.of /\ Len(left) \in Nat
    BY <1>2, LenProperties
  <2>2. Len(asked.of) - Len(left) = 0
    BY <2>1
  <2>3. QC!HasDone(j, 0)
    <3>1. \A i \in 1..Len(left) : 0 + i = i
      OBVIOUS
    <3> QED
      BY <1>1, <2>1, <3>1, NoneSelected DEF QC!HasDone
  <2> QED
    BY <2>2, <2>3
<1>3. QC!Accounts(j)
  BY <1>1, <1>2 DEF QC!Accounts
<1>4. \A gates : QC!IsStored(j, gates)
  <2>1. DOMAIN j.done = {}
    BY <1>1
  <2> QED
    BY <2>1 DEF QC!IsStored
<1> QED
  BY <1>1, <1>3, <1>4 DEF j

LEMMA SeqMonotone ==
  ASSUME NEW S, NEW T, S \subseteq T, NEW s \in Seq(S)
  PROVE  s \in Seq(T)
<1>1. Len(s) \in Nat /\ s \in [1..Len(s) -> S]
  BY LenProperties
<1>2. s \in [1..Len(s) -> T]
  BY <1>1
<1> QED
  BY <1>1, <1>2

LEMMA QuestionBegins ==
  ASSUME QC!WellFormed, QC!IInv, NEW d \in GateDesktops, NEW asked \in QC!Asked, QC!BeginCall(d, asked),
         d = GateViewer => v5 # << >>, UNCHANGED <<QC!catalogue, v7, v10>>,
         d # GateViewer => v5' = v5
  PROVE  QC!IInv'
<1>1. QC!TypeOK /\ QC!StoredWhenWritten /\ QC!IdsAreUnique /\ QC!FileIsUnique /\ QC!CallIsTaken
        /\ QC!ImportsAccount /\ QC!ImportIsComplete
  BY CatalogueIs
<1>2. v1' = v1 /\ v2' = v2 /\ v9' = v9 /\ v8' = v8
        /\ v10' = v10 /\ v7' = v7
  BY DEF QC!catalogue
<1>3. /\ asked.kind \in {"register", "remove"} => asked.id \in AllowedGates /\ asked \in QC!Taken
      /\ asked.kind = "export" => asked.gates \in Seq(AllowedGates)
  BY AskedIs
<1>4. QC!Loaded \in Seq(QC!Ids) /\ v4 \in [trusted : BOOLEAN, gates : Seq(QC!Ids)]
  BY <1>1, EmptySeq DEF QC!TypeOK, QC!Loaded
<1>5. ~v9 => v8' \subseteq QC!Range(v1.gates)
  BY <1>1, <1>2 DEF QC!StoredWhenWritten
<1>6. QC!ImportIsComplete' /\ QC!IdsAreUnique'
  BY <1>1, <1>2 DEF QC!ImportIsComplete, QC!IdsAreUnique
<1>7. ASSUME NEW c \in QC!Taken, NEW left \in Seq(QC!Ids), c.kind = "import" => left = c.of,
             v3' = [v3 EXCEPT ![d] = QC!Job(c, left)], UNCHANGED <<v5, v4, v6>>
      PROVE  QC!IInv'
  <2>1. /\ QC!Job(c, left) \in QC!Jobs /\ QC!Accounts(QC!Job(c, left)) /\ QC!IsStored(QC!Job(c, left), v1.gates)
    BY <1>7, JobBegins
  <2>2. /\ v3' \in [GateDesktops -> QC!Jobs \union {None}]
        /\ QC!StoredWhenWritten' /\ QC!FileIsUnique' /\ QC!ImportsAccount'
    BY <1>1, <1>2, <1>5, <1>7, <2>1, GateJobMoves
  <2>3. QC!TypeOK'
    BY <1>1, <1>2, <1>7, <2>2 DEF QC!TypeOK
  <2>4. QC!CallIsTaken'
    <3>1. d # GateViewer => v3'[GateViewer] = v3[GateViewer]
      BY <1>1, <1>7 DEF QC!TypeOK, QC!WellFormed
    <3> QED
      BY <1>1, <1>7, <3>1 DEF QC!CallIsTaken
  <2> QED
    BY <1>6, <2>2, <2>3, <2>4 DEF QC!IInv
<1>8. ASSUME QC!End(d, FALSE), d = GateViewer, v4' \in [trusted : BOOLEAN, gates : Seq(QC!Ids)],
             v6' \in Seq(AllowedGates)
      PROVE  QC!IInv'
  <2>1. v3' = [v3 EXCEPT ![d] = None] /\ v5' \in Seq(QC!Asked) /\ QC!CallIsTaken'
    BY <1>1, <1>8, JobEnds
  <2>2. /\ v3' \in [GateDesktops -> QC!Jobs \union {None}]
        /\ QC!StoredWhenWritten' /\ QC!FileIsUnique' /\ QC!ImportsAccount'
    BY <1>1, <1>2, <1>5, <2>1, EndedJobs, GateJobMoves
  <2>3. QC!TypeOK'
    BY <1>1, <1>2, <1>8, <2>1, <2>2 DEF QC!TypeOK
  <2> QED
    BY <1>6, <2>1, <2>2, <2>3 DEF QC!IInv
<1>9. ASSUME QC!End(d, FALSE), d # GateViewer, v4' \in [trusted : BOOLEAN, gates : Seq(QC!Ids)],
             v6' \in Seq(AllowedGates)
      PROVE  QC!IInv'
  <2>1. v3' = [v3 EXCEPT ![d] = None] /\ v5' = v5
    BY <1>9 DEF QC!End
  <2>2. /\ v3' \in [GateDesktops -> QC!Jobs \union {None}]
        /\ QC!StoredWhenWritten' /\ QC!FileIsUnique' /\ QC!ImportsAccount'
    BY <1>1, <1>2, <1>5, <2>1, EndedJobs, GateJobMoves
  <2>3. QC!TypeOK'
    BY <1>1, <1>2, <1>9, <2>1, <2>2 DEF QC!TypeOK
  <2>4. QC!CallIsTaken'
    <3>1. v3'[GateViewer] = v3[GateViewer]
      BY <1>1, <1>9, <2>1 DEF QC!TypeOK, QC!WellFormed
    <3> QED
      BY <1>1, <2>1, <3>1 DEF QC!CallIsTaken
  <2> QED
    BY <1>6, <2>2, <2>3, <2>4 DEF QC!IInv
<1>10. CASE /\ asked.kind = "register" /\ v3' = [v3 EXCEPT ![d] = QC!Job(asked, <<asked.id>>)]
            /\ UNCHANGED <<v5, v4, v6>>
  <2>1. <<asked.id>> \in Seq(QC!Ids) /\ asked \in QC!Taken /\ asked.kind # "import"
    BY <1>3, <1>10, IdsHold
  <2> QED
    BY <1>7, <1>10, <2>1
<1>11. CASE /\ asked.kind = "remove" /\ v3' = [v3 EXCEPT ![d] = QC!Job(asked, << >>)]
            /\ UNCHANGED <<v5, v4, v6>>
  <2>1. << >> \in Seq(QC!Ids) /\ asked \in QC!Taken /\ asked.kind # "import"
    BY <1>3, <1>11, EmptySeq
  <2> QED
    BY <1>7, <1>11, <2>1
<1>12. CASE /\ asked.kind = "import"
            /\ v3' = [v3 EXCEPT ![d] = QC!Job([kind |-> "import", of |-> QC!Loaded], QC!Loaded)]
            /\ UNCHANGED <<v5, v4, v6>>
  <2> DEFINE c == [kind |-> "import", of |-> QC!Loaded]
  <2>1. c \in QC!Taken /\ c.of = QC!Loaded
    BY <1>4 DEF QC!Taken
  <2>2. v3' = [v3 EXCEPT ![d] = QC!Job(c, QC!Loaded)]
    BY <1>12
  <2> HIDE DEF c
  <2> QED
    BY <1>4, <1>7, <1>12, <2>1, <2>2
<1>13. CASE /\ QC!End(d, FALSE)
            /\ \/ UNCHANGED <<v4, v6>>
               \/ asked.kind = "export"
                    /\ v4' = [v4 EXCEPT !.gates = IF v4.trusted THEN asked.gates ELSE @]
                    /\ UNCHANGED v6
               \/ v6' = v2[d] /\ UNCHANGED v4
  <2>1. v4' \in [trusted : BOOLEAN, gates : Seq(QC!Ids)]
    <3>1. ASSUME asked.kind = "export" PROVE asked.gates \in Seq(QC!Ids)
      BY <1>3, <3>1, IdsHold, SeqMonotone
    <3> QED
      BY <1>4, <1>13, <3>1
  <2>2. v6' \in Seq(AllowedGates)
    BY <1>1, <1>13 DEF QC!TypeOK
  <2> QED
    BY <1>8, <1>9, <1>13, <2>1, <2>2
<1> QED
  BY <1>10, <1>11, <1>12, <1>13 DEF QC!BeginCall

LEMMA CallsKeep ==
  ASSUME QC!WellFormed, QC!IInv, QC!TakeCall \/ QC!OtherCall
  PROVE  QC!IInv'
<1>1. QC!TypeOK /\ QC!StoredWhenWritten /\ QC!IdsAreUnique /\ QC!FileIsUnique /\ QC!CallIsTaken
        /\ QC!ImportsAccount /\ QC!ImportIsComplete
  BY CatalogueIs
<1>2. CASE QC!TakeCall
  <2>1. v5 # << >> /\ QC!BeginCall(GateViewer, Head(v5)) /\ UNCHANGED <<QC!catalogue, v7, v10>>
    BY <1>2 DEF QC!TakeCall
  <2>2. Head(v5) \in QC!Asked /\ GateViewer \in GateDesktops
    BY <1>1, <2>1, HeadTailProperties DEF QC!TypeOK, QC!WellFormed
  <2> QED
    BY <2>1, <2>2, QuestionBegins
<1>3. CASE QC!OtherCall
  <2>1. UNCHANGED <<QC!catalogue, v7, v10>>
    BY <1>3 DEF QC!OtherCall
  <2>2. PICK d \in GateDesktops \ {GateViewer}, asked \in QC!Asked : QC!BeginCall(d, asked)
    <3>1. PICK d \in GateDesktops \ {GateViewer} :
            \/ \E id \in AllowedGates : QC!BeginCall(d, [kind |-> "register", id |-> id])
            \/ \E id \in QC!Range(v2[d]) : QC!BeginCall(d, [kind |-> "remove", id |-> id])
            \/ QC!BeginCall(d, [kind |-> "import"])
      BY <1>3 DEF QC!OtherCall
    <3>2. QC!Range(v2[d]) \subseteq AllowedGates
      <4>1. v2[d] \in Seq(AllowedGates)
        BY <1>1 DEF QC!TypeOK
      <4> QED
        BY <4>1, LenProperties DEF QC!Range
    <3> QED
      BY <3>1, <3>2, AskedAre, Zenon
  <2>3. v5' = v5
    BY <2>2 DEF QC!BeginCall, QC!End, QC!Answered
  <2> QED
    BY <2>1, <2>2, <2>3, QuestionBegins
<1> QED
  BY <1>2, <1>3

LEMMA WindowKeeps ==
  ASSUME QC!WellFormed, QC!IInv,
         QC!RegisterGate \/ QC!RemoveGate \/ QC!ImportGates \/ QC!ExportGates \/ QC!LoadReads \/ QC!LoadShows
  PROVE  QC!IInv'
<1>1. QC!TypeOK /\ QC!StoredWhenWritten /\ QC!IdsAreUnique /\ QC!FileIsUnique /\ QC!CallIsTaken
        /\ QC!ImportsAccount /\ QC!ImportIsComplete
  BY CatalogueIs
<1>2. UNCHANGED <<v1, v2, v9, v8, v3, v4, v10>>
  BY DEF QC!RegisterGate, QC!RemoveGate, QC!ImportGates, QC!ExportGates, QC!LoadReads, QC!LoadShows, QC!Call,
         QC!catalogue
<1>3. QC!StoredWhenWritten' /\ QC!IdsAreUnique' /\ QC!FileIsUnique' /\ QC!ImportsAccount' /\ QC!ImportIsComplete'
  BY <1>1, <1>2 DEF QC!StoredWhenWritten, QC!IdsAreUnique, QC!FileIsUnique, QC!ImportsAccount,
                    QC!ImportIsComplete
<1>4. /\ v5 \in Seq(QC!Asked) /\ v6 \in Seq(AllowedGates) /\ v2[GateViewer] \in Seq(AllowedGates)
      /\ v7 \in Seq(AllowedGates) \union {None}
  BY <1>1 DEF QC!TypeOK, QC!WellFormed
<1>5. /\ v5' \in Seq(QC!Asked) /\ v6' \in Seq(AllowedGates) /\ v7' \in Seq(AllowedGates) \union {None}
      /\ v5 # << >> => v5' # << >>
  <2>1. ASSUME NEW asked \in QC!Asked, QC!Call(asked) PROVE <1>5
    <3>1. v5' = Append(v5, asked) /\ v6' = v6 /\ v7' = v7
      BY <2>1 DEF QC!Call
    <3> QED
      BY <1>4, <3>1, AppendProperties
  <2>2. CASE QC!RegisterGate
    BY <2>1, <2>2, AskedAre DEF QC!RegisterGate
  <2>3. CASE QC!RemoveGate
    <3>1. QC!Range(v6) \subseteq AllowedGates
      BY <1>4, LenProperties DEF QC!Range
    <3> QED
      BY <2>1, <2>3, <3>1, AskedAre DEF QC!RemoveGate
  <2>4. CASE QC!ImportGates \/ QC!ExportGates
    BY <1>4, <2>1, <2>4, AskedAre DEF QC!ImportGates, QC!ExportGates
  <2>5. CASE QC!LoadReads \/ QC!LoadShows
    BY <1>4, <2>5 DEF QC!LoadReads, QC!LoadShows
  <2> QED
    BY <2>2, <2>3, <2>4, <2>5
<1>6. QC!TypeOK'
  BY <1>1, <1>2, <1>5 DEF QC!TypeOK
<1>7. QC!CallIsTaken'
  BY <1>1, <1>2, <1>5 DEF QC!CallIsTaken
<1> QED
  BY <1>3, <1>6, <1>7 DEF QC!IInv

LEMMA RestartKeeps ==
  ASSUME QC!WellFormed, QC!IInv, QC!Restart
  PROVE  QC!IInv'
<1>1. QC!TypeOK /\ QC!StoredWhenWritten /\ QC!IdsAreUnique /\ QC!FileIsUnique /\ QC!CallIsTaken
        /\ QC!ImportsAccount /\ QC!ImportIsComplete
  BY CatalogueIs
<1>2. PICK d \in GateDesktops :
        LET read == IF v1.torn THEN << >> ELSE v1.gates
        IN  /\ v2' = [v2 EXCEPT ![d] = read]
            /\ v3' = [v3 EXCEPT ![d] = None]
            /\ IF d = GateViewer THEN v5' = << >> /\ v6' = read /\ v7' = None
               ELSE UNCHANGED QC!screen
  BY DEF QC!Restart
<1> DEFINE read == IF v1.torn THEN << >> ELSE v1.gates
<1>3. UNCHANGED <<v1, v8, v4, v10>> /\ v9' = (v9 \/ v1.torn)
  BY DEF QC!Restart
<1>4. read \in Seq(AllowedGates) /\ QC!IsInjective(read)
  <2>1. QC!IsInjective(<< >>)
    BY DEF QC!IsInjective
  <2> QED
    BY <1>1, <2>1, EmptySeq DEF QC!TypeOK, QC!FileIsUnique
<1>5. /\ v2' = [v2 EXCEPT ![d] = read] /\ v3' = [v3 EXCEPT ![d] = None]
      /\ d = GateViewer => v5' = << >> /\ v6' = read /\ v7' = None
      /\ d # GateViewer => v5' = v5 /\ v6' = v6 /\ v7' = v7
  BY <1>2 DEF QC!screen
<1> HIDE DEF read
<1>6. /\ v2 \in [GateDesktops -> Seq(AllowedGates)] /\ v3 \in [GateDesktops -> QC!Jobs \union {None}]
      /\ v5 \in Seq(QC!Asked) /\ v6 \in Seq(AllowedGates) /\ v7 \in Seq(AllowedGates) \union {None}
      /\ v9 \in BOOLEAN /\ v1.torn \in BOOLEAN
  BY <1>1 DEF QC!TypeOK
<1>7. /\ v2' \in [GateDesktops -> Seq(AllowedGates)] /\ v3' \in [GateDesktops -> QC!Jobs \union {None}]
      /\ \A e \in GateDesktops : v2'[e] = IF e = d THEN read ELSE v2[e]
      /\ \A e \in GateDesktops : v3'[e] = IF e = d THEN None ELSE v3[e]
  BY <1>4, <1>5, <1>6
<1>8. /\ v5' \in Seq(QC!Asked) /\ v6' \in Seq(AllowedGates) /\ v7' \in Seq(AllowedGates) \union {None}
  BY <1>4, <1>5, <1>6, EmptySeq
<1>9. QC!TypeOK'
  BY <1>1, <1>3, <1>6, <1>7, <1>8 DEF QC!TypeOK
<1>10. QC!IdsAreUnique' /\ QC!FileIsUnique' /\ QC!ImportIsComplete'
  BY <1>1, <1>3, <1>4, <1>7 DEF QC!IdsAreUnique, QC!FileIsUnique, QC!ImportIsComplete
<1>11. QC!StoredWhenWritten'
  <2> SUFFICES ASSUME ~v9'
               PROVE  /\ v8' \subseteq QC!Range(v1'.gates)
                      /\ \A e \in GateDesktops : QC!IsStored(v3'[e], v1'.gates)
    BY DEF QC!StoredWhenWritten
  <2>1. ~v9
    BY <1>3
  <2> QED
    BY <1>1, <1>3, <1>7, <2>1, EndedJobs DEF QC!StoredWhenWritten
<1>12. QC!ImportsAccount'
  BY <1>1, <1>7, EndedJobs DEF QC!ImportsAccount
<1>13. QC!CallIsTaken'
  BY <1>1, <1>5, <1>7 DEF QC!CallIsTaken, QC!WellFormed
<1> QED
  BY <1>9, <1>10, <1>11, <1>12, <1>13 DEF QC!IInv

LEMMA CatalogueKeeps == QC!WellFormed /\ QC!IInv /\ [QC!Next]_(QC!gateVars) => QC!IInv'
<1> SUFFICES ASSUME QC!WellFormed, QC!IInv, [QC!Next]_(QC!gateVars) PROVE QC!IInv'
  OBVIOUS
<1>1. CASE UNCHANGED QC!gateVars
  <2>1. UNCHANGED <<v1, v2, v9, v8, v3, v4, v5, v6, v7, v10>>
    BY <1>1 DEF QC!gateVars, QC!catalogue, QC!screen
  <2>2. QC!TypeOK' /\ QC!StoredWhenWritten' /\ QC!IdsAreUnique' /\ QC!FileIsUnique'
    BY <2>1, CatalogueIs DEF QC!TypeOK, QC!StoredWhenWritten, QC!IdsAreUnique, QC!FileIsUnique
  <2>3. QC!CallIsTaken' /\ QC!ImportsAccount' /\ QC!ImportIsComplete'
    BY <2>1, CatalogueIs DEF QC!CallIsTaken, QC!ImportsAccount, QC!ImportIsComplete
  <2> QED
    BY <2>2, <2>3 DEF QC!IInv
<1>2. ASSUME NEW d \in GateDesktops,
             QC!RegisterNext(d) \/ QC!Unregister(d) \/ QC!Written(d) \/ QC!WriteFails(d) \/ QC!Finish(d)
      PROVE  QC!IInv'
  BY <1>2, NextRegistrationKeeps, RemovalKeeps, WriteKeeps, FailureKeeps, FinishKeeps
<1>3. CASE QC!TakeCall \/ QC!OtherCall
  BY <1>3, CallsKeep
<1>4. CASE QC!RegisterGate \/ QC!RemoveGate \/ QC!ImportGates \/ QC!ExportGates \/ QC!LoadReads \/ QC!LoadShows
  BY <1>4, WindowKeeps
<1>5. CASE QC!Restart
  BY <1>5, RestartKeeps
<1> QED
  BY <1>1, <1>2, <1>3, <1>4, <1>5, Zenon DEF QC!Next

LEMMA CatalogueFollows == QC!IInv => QC!CatalogueIsKept
<1> SUFFICES ASSUME QC!IInv PROVE QC!CatalogueIsKept
  OBVIOUS
<1>1. QC!AnsweredIsStored
  BY DEF QC!IInv, QC!StoredWhenWritten, QC!AnsweredIsStored
<1> QED
  BY <1>1, CatalogueIs DEF QC!CatalogueIsKept

\* A step is one of the part that runs, and that part goes on running.
LEMMA ServicesPartStays == [ServicesNext]_desktopVars => part' = part
BY DEF ServicesNext, Moves, desktopVars

LEMMA ProcessPart ==
  ASSUME part = "process", [ServicesNext]_desktopVars
  PROVE  [GP!Next]_(GP!gateVars)
BY DEF ServicesNext, Moves, desktopVars, GP!gateVars, GP!command, GP!hostVars

LEMMA CataloguePart ==
  ASSUME part = "catalogue", [ServicesNext]_desktopVars
  PROVE  [QC!Next]_(QC!gateVars)
BY DEF ServicesNext, Moves, desktopVars, QC!gateVars, QC!catalogue, QC!screen

\* Whatever the command, its host and their pipes do: a result that does not say
\* that the command could not be stopped is given when nothing of it runs any more,
\* and a timer is armed until then (NodeQualityGateProcessRunner). For any number of
\* desktops, calls, torn writes and restarts: a registration that was answered is in
\* the file, no id is in a catalogue twice, and an answered import accounts for each
\* gate of its file (JsonFileQualityGateCatalog, importQualityGateConfig).
THEOREM GatesAlwaysSafe == ServicesSpec => []GatesAreSafe
<1> DEFINE Inv == /\ part = "process" => GP!IInv
                  /\ part = "catalogue" => QC!IInv
<1>1. ServicesInit => Inv
  BY CatalogueWellFormed, GateStarts, CatalogueStarts DEF ServicesInit
<1>2. Inv /\ [ServicesNext]_desktopVars => Inv'
  BY CatalogueWellFormed, ServicesPartStays, ProcessPart, CataloguePart, GateKeeps, CatalogueKeeps
<1>3. Inv => GatesAreSafe
  BY CatalogueFollows DEF GatesAreSafe, GP!IInv
<1> QED
  BY <1>1, <1>2, <1>3, PTL DEF ServicesSpec

-----------------------------------------------------------------------------
(* The MCP server.  Its variables are sent (v1), closed (v2), chunk (v3),  *)
(* buffer (v4), discarding (v5), frame (v6), state (v7), response (v8),    *)
(* answers (v9) and loop (v10).                                            *)

LEMMA Counting ==
  ASSUME NEW P \in SUBSET Nat, 0 \in P, \A k \in P : k + 1 \in P
  PROVE  P = Nat
<1> DEFINE Q == Nat \ P
<1> SUFFICES ASSUME Q # {} PROVE FALSE
  OBVIOUS
<1>1. PICK m \in Q : \A k \in Q : ~(<<k, m>> \in OpToRel(<, Nat))
  <2>1. Q \subseteq Nat
    OBVIOUS
  <2> HIDE DEF Q
  <2> QED
    BY <2>1, WFMin, NatLessThanWellFounded, Zenon
<1>2. m # 0 /\ m \in Nat
  OBVIOUS
<1>3. m - 1 \in Nat /\ <<m - 1, m>> \in OpToRel(<, Nat)
  BY <1>2 DEF OpToRel
<1>4. m - 1 \in P
  BY <1>1, <1>3, Zenon
<1>5. (m - 1) + 1 \in P
  BY <1>4
<1>6. (m - 1) + 1 = m
  BY <1>2
<1>7. m \in P
  BY <1>5, <1>6, Zenon
<1> QED
  BY <1>7

-----------------------------------------------------------------------------
(* The MCP server: what the reference definition computes.                 *)

\* The prefixes of an input, read one symbol after the other.
IsPast(past, input, n) ==
  past = [k \in 0..n |->
            IF k = 0 THEN MS!Fresh ELSE MS!Reads(past[k - 1], input[k])]

LEMMA PastExists ==
  ASSUME NEW input, NEW n \in Nat
  PROVE  \E past : IsPast(past, input, n)
<1> DEFINE P == {m \in Nat : \E past : IsPast(past, input, m)}
<1>1. 0 \in P
  <2> DEFINE past == [k \in 0..0 |-> MS!Fresh]
  <2>1. \A k \in 0..0 : k = 0
    OBVIOUS
  <2>2. past = [k \in 0..0 |->
                  IF k = 0 THEN MS!Fresh ELSE MS!Reads(past[k - 1], input[k])]
    BY <2>1
  <2> HIDE DEF past
  <2>3. IsPast(past, input, 0)
    BY <2>2 DEF IsPast
  <2> QED
    BY <2>3
<1>2. ASSUME NEW m \in P PROVE m + 1 \in P
  <2>1. m \in Nat /\ \E past : IsPast(past, input, m)
    OBVIOUS
  <2>2. PICK past : IsPast(past, input, m)
    BY <2>1
  <2> DEFINE Step(p, k) == IF k = 0 THEN MS!Fresh ELSE MS!Reads(p[k - 1], input[k])
             more == [k \in 0..(m + 1) |->
                        IF k = m + 1 THEN MS!Reads(past[m], input[m + 1]) ELSE past[k]]
  <2>3. \A k \in 0..m : past[k] = Step(past, k)
    BY <2>2 DEF IsPast
  <2>4. \A k \in 0..m : more[k] = past[k] /\ k \in 0..(m + 1)
    BY <2>1
  <2>5. more[m + 1] = MS!Reads(past[m], input[m + 1])
    BY <2>1
  <2>6. ASSUME NEW k \in 0..(m + 1) PROVE more[k] = Step(more, k)
    <3> HIDE DEF more
    <3>1. CASE k = m + 1
      <4>1. k # 0 /\ k - 1 = m /\ m \in 0..m
        BY <2>1, <3>1
      <4>2. more[k - 1] = past[m]
        BY <2>4, <4>1
      <4> QED
        BY <2>5, <3>1, <4>1, <4>2
    <3>2. CASE k = 0
      <4>1. 0 \in 0..m
        BY <2>1
      <4> QED
        BY <2>3, <2>4, <3>2, <4>1
    <3>3. CASE k # 0 /\ k # m + 1
      <4>1. k \in 0..m /\ k - 1 \in 0..m
        BY <2>1, <3>3
      <4> QED
        BY <2>3, <2>4, <3>3, <4>1
    <3> QED
      BY <3>1, <3>2, <3>3
  <2>7. more = [k \in 0..(m + 1) |-> more[k]]
    OBVIOUS
  <2> HIDE DEF more
  <2>8. more = [k \in 0..(m + 1) |-> Step(more, k)]
    BY <2>6, <2>7
  <2>9. IsPast(more, input, m + 1)
    BY <2>8 DEF IsPast
  <2> QED
    BY <2>1, <2>9
<1>3. P \subseteq Nat
  OBVIOUS
<1> HIDE DEF P
<1>4. P = Nat
  BY <1>1, <1>2, <1>3, Counting
<1> QED
  BY <1>4 DEF P

LEMMA SessionIs ==
  ASSUME NEW input, Len(input) \in Nat
  PROVE  \E past : /\ IsPast(past, input, Len(input))
                   /\ MS!Session(input) = past[Len(input)]
<1> DEFINE past == CHOOSE p : IsPast(p, input, Len(input))
<1>1. IsPast(past, input, Len(input))
  BY PastExists
<1>2. MS!Session(input) = past[Len(input)]
  BY DEF MS!Session, IsPast
<1> QED
  BY <1>1, <1>2

\* After the first k symbols of an input.
After(input, k) == MS!Session(SubSeq(input, 1, k))

\* One symbol more is read after the others.
LEMMA AfterStep ==
  ASSUME NEW S, NEW s \in Seq(S), NEW k \in Nat, k < Len(s)
  PROVE  After(s, k + 1) = MS!Reads(After(s, k), s[k + 1])
<1> SUFFICES ASSUME NEW n \in Nat, n = k + 1, NEW a, NEW b,
                    a = SubSeq(s, 1, k), b = SubSeq(s, 1, n)
             PROVE  MS!Session(b) = MS!Reads(MS!Session(a), s[n])
  <2>1. k + 1 \in Nat
    OBVIOUS
  <2> QED
    BY <2>1 DEF After
<1>1. /\ Len(a) = k /\ \A i \in 1..k : a[i] = s[i]
      /\ Len(b) = n /\ \A i \in 1..n : b[i] = s[i]
  OBVIOUS
<1>2. (\A i \in 1..k : a[i] = b[i]) /\ b[n] = s[n]
  BY <1>1
<1>3. PICK p : IsPast(p, a, k) /\ MS!Session(a) = p[k]
  BY <1>1, SessionIs
<1>4. PICK q : IsPast(q, b, n) /\ MS!Session(b) = q[n]
  BY <1>1, SessionIs
<1>5. p[k] = q[k]
  <2> DEFINE P == {l \in Nat : l <= k => p[l] = q[l]}
  <2>0. /\ \A l \in 0..k : p[l] = IF l = 0 THEN MS!Fresh ELSE MS!Reads(p[l - 1], a[l])
        /\ \A l \in 0..n : q[l] = IF l = 0 THEN MS!Fresh ELSE MS!Reads(q[l - 1], b[l])
    BY <1>3, <1>4 DEF IsPast
  <2>1. 0 \in P
    BY <2>0
  <2>2. ASSUME NEW l \in P PROVE l + 1 \in P
    <3> SUFFICES ASSUME l + 1 <= k PROVE p[l + 1] = q[l + 1]
      OBVIOUS
    <3>1. /\ l \in Nat /\ l + 1 # 0 /\ (l + 1) - 1 = l
          /\ l + 1 \in 0..k /\ l + 1 \in 0..n /\ l + 1 \in 1..k
      OBVIOUS
    <3>2. p[l] = q[l]
      OBVIOUS
    <3>3. p[l + 1] = MS!Reads(p[l], a[l + 1]) /\ q[l + 1] = MS!Reads(q[l], b[l + 1])
      BY <2>0, <3>1
    <3> QED
      BY <1>2, <3>1, <3>2, <3>3
  <2>3. P \subseteq Nat
    OBVIOUS
  <2> HIDE DEF P
  <2>4. P = Nat
    BY <2>1, <2>2, <2>3, Counting
  <2>5. k \in P /\ k <= k
    BY <2>4
  <2> QED
    BY <2>5, Zenon DEF P
<1>6. n \in 0..n /\ n # 0 /\ n - 1 = k
  OBVIOUS
<1>7. q[n] = MS!Reads(q[k], b[n])
  BY <1>4, <1>6 DEF IsPast
<1> QED
  BY <1>2, <1>3, <1>4, <1>5, <1>7

LEMMA AfterNothing ==
  ASSUME NEW s PROVE After(s, 0) = MS!Fresh /\ MS!Session(<< >>) = MS!Fresh
<1>1. SubSeq(s, 1, 0) = << >>
  OBVIOUS
<1>2. Len(<< >>) = 0
  OBVIOUS
<1>3. PICK p : IsPast(p, << >>, 0) /\ MS!Session(<< >>) = p[0]
  BY <1>2, SessionIs
<1>4. p[0] = MS!Fresh
  BY <1>3 DEF IsPast
<1> QED
  BY <1>1, <1>3, <1>4 DEF After

LEMMA AfterAll ==
  ASSUME NEW S, NEW s \in Seq(S)
  PROVE  After(s, Len(s)) = MS!Session(s)
BY SubSeqFull DEF After

LEMMA SessionAppend ==
  ASSUME NEW S, NEW s \in Seq(S), NEW x \in S
  PROVE  MS!Session(Append(s, x)) = MS!Reads(MS!Session(s), x)
<1> DEFINE t == Append(s, x)
<1>1. /\ t \in Seq(S) /\ Len(t) = Len(s) + 1 /\ t[Len(s) + 1] = x /\ Len(s) \in Nat
      /\ SubSeq(t, 1, Len(s)) = s
  OBVIOUS
<1> HIDE DEF t
<1>2. After(t, Len(s) + 1) = MS!Reads(After(t, Len(s)), x)
  BY <1>1, AfterStep
<1> QED
  BY <1>1, <1>2, AfterAll DEF After, t

\* What a prefix of the input has come to.
Pasts == [line : Seq(Symbols), connection : MS!Connections, said : Seq(MS!Replies)]

LEMMA Answering ==
  ASSUME NEW connection \in MS!Connections, NEW line
  PROVE  /\ MS!Heard(connection, line) \in MS!Connections
         /\ MS!LineReply(connection, line) \in MS!Replies \union {None}
<1>1. \A m : MS!Handshake(connection, m) \in MS!Connections
  BY DEF MS!Handshake, MS!Connections
<1>2. \A m : MS!Reply(connection, m) \in MS!Replies \union {None}
  BY DEF MS!Reply, MS!Replies
<1> QED
  BY <1>1, <1>2 DEF MS!Heard, MS!LineReply, MS!Replies

LEMMA SaysMore ==
  ASSUME NEW said \in Seq(MS!Replies), NEW reply \in MS!Replies \union {None}
  PROVE  MS!Says(said, reply) \in Seq(MS!Replies)
BY DEF MS!Says

LEMMA ReadsType ==
  ASSUME NEW past \in Pasts, NEW x \in MS!Input
  PROVE  MS!Reads(past, x) \in Pasts
<1>1. /\ past.line \in Seq(Symbols) /\ past.connection \in MS!Connections
      /\ past.said \in Seq(MS!Replies)
  BY DEF Pasts
<1>2. CASE x = Newline
  <2>1. /\ MS!Heard(past.connection, past.line) \in MS!Connections
        /\ MS!LineReply(past.connection, past.line) \in MS!Replies \union {None}
    BY <1>1, Answering
  <2>2. MS!Says(past.said, MS!LineReply(past.connection, past.line)) \in Seq(MS!Replies)
    BY <1>1, <2>1, SaysMore
  <2>3. << >> \in Seq(Symbols)
    OBVIOUS
  <2> QED
    BY <1>2, <2>1, <2>2, <2>3 DEF MS!Reads, Pasts
<1>3. CASE x # Newline
  <2>1. x \in Symbols
    BY <1>3 DEF MS!Input
  <2>2. Append(past.line, x) \in Seq(Symbols)
    BY <1>1, <2>1
  <2> QED
    BY <1>1, <1>3, <2>2 DEF MS!Reads, Pasts
<1> QED
  BY <1>2, <1>3

LEMMA AfterType ==
  ASSUME NEW s \in Seq(MS!Input), NEW k \in Nat, k <= Len(s)
  PROVE  After(s, k) \in Pasts
<1> DEFINE P == {l \in Nat : l <= Len(s) => After(s, l) \in Pasts}
<1>1. 0 \in P
  <2>1. MS!Fresh \in Pasts
    <3>1. << >> \in Seq(Symbols) /\ << >> \in Seq(MS!Replies)
      OBVIOUS
    <3> QED
      BY <3>1 DEF MS!Fresh, Pasts, MS!Connections
  <2> QED
    BY <2>1, AfterNothing
<1>2. ASSUME NEW l \in P PROVE l + 1 \in P
  <2> SUFFICES ASSUME l + 1 <= Len(s) PROVE After(s, l + 1) \in Pasts
    OBVIOUS
  <2>1. l \in Nat /\ l < Len(s) /\ After(s, l) \in Pasts
    OBVIOUS
  <2>2. s[l + 1] \in MS!Input
    BY <2>1, ElementOfSeq
  <2>3. After(s, l + 1) = MS!Reads(After(s, l), s[l + 1])
    BY <2>1, AfterStep
  <2> QED
    BY <2>1, <2>2, <2>3, ReadsType
<1>3. P \subseteq Nat
  OBVIOUS
<1> HIDE DEF P
<1>4. P = Nat
  BY <1>1, <1>2, <1>3, Counting
<1> QED
  BY <1>4 DEF P

LEMMA SessionType ==
  ASSUME NEW s \in Seq(MS!Input)
  PROVE  MS!Session(s) \in Pasts
<1>1. Len(s) \in Nat
  OBVIOUS
<1>2. After(s, Len(s)) \in Pasts
  BY <1>1, AfterType
<1> QED
  BY <1>2, AfterAll

\* Symbols of a line are appended to it.
LEMMA PartOf ==
  ASSUME NEW S, NEW s \in Seq(S), NEW i \in Nat, NEW j \in Nat, i <= j, j <= Len(s)
  PROVE  /\ SubSeq(s, i + 1, j) \in Seq(S) /\ Len(SubSeq(s, i + 1, j)) = j - i
         /\ \A l \in 1..(j - i) : SubSeq(s, i + 1, j)[l] = s[i + l]
<1>1. \A l \in (i + 1)..j : s[l] \in S
  OBVIOUS
<1>2. /\ SubSeq(s, i + 1, j) \in Seq(S)
      /\ Len(SubSeq(s, i + 1, j)) = IF i + 1 <= j THEN j - (i + 1) + 1 ELSE 0
      /\ \A l \in 1..(j - (i + 1) + 1) : SubSeq(s, i + 1, j)[l] = s[(i + 1) + l - 1]
  BY <1>1, SubSeqProperties
<1>3. j - (i + 1) + 1 = j - i /\ \A l \in 1..(j - i) : (i + 1) + l - 1 = i + l
  OBVIOUS
<1>4. Len(SubSeq(s, i + 1, j)) = j - i
  BY <1>2
<1>5. ASSUME NEW l \in 1..(j - i) PROVE SubSeq(s, i + 1, j)[l] = s[i + l]
  BY <1>2, <1>3
<1> QED
  BY <1>2, <1>4, <1>5

LEMMA AppendOne ==
  ASSUME NEW a \in Seq(MS!Input), NEW s \in Seq(MS!Input),
         NEW i \in Nat, NEW j \in Nat, i <= j, j < Len(s)
  PROVE  a \o SubSeq(s, i + 1, j + 1) = Append(a \o SubSeq(s, i + 1, j), s[j + 1])
<1> DEFINE S == MS!Input
<1> DEFINE b == SubSeq(s, i + 1, j)
           c == SubSeq(s, i + 1, j + 1)
           x == s[j + 1]
<1>a. a \in Seq(S) /\ s \in Seq(S)
  OBVIOUS
<1> HIDE DEF S
<1>0. j \in Nat /\ j + 1 \in Nat /\ i <= j + 1 /\ j <= Len(s) /\ j + 1 <= Len(s)
  OBVIOUS
<1>1. /\ b \in Seq(S) /\ Len(b) = j - i /\ \A l \in 1..(j - i) : b[l] = s[i + l]
      /\ c \in Seq(S) /\ Len(c) = (j + 1) - i /\ \A l \in 1..((j + 1) - i) : c[l] = s[i + l]
  <2>1. /\ b \in Seq(S) /\ Len(b) = j - i
        /\ \A l \in 1..(j - i) : b[l] = s[i + l]
    BY <1>a, <1>0, PartOf
  <2>2. /\ c \in Seq(S) /\ Len(c) = (j + 1) - i
        /\ \A l \in 1..((j + 1) - i) : c[l] = s[i + l]
    BY <1>a, <1>0, PartOf
  <2> QED
    BY <2>1, <2>2
<1>2. x \in S
  BY <1>a, <1>0, ElementOfSeq
<1>2a. b \in Seq(S) /\ a \in Seq(S)
  BY <1>a, <1>1
<1>3. c[(j + 1) - i] = x
  <2>1. (j + 1) - i \in 1..((j + 1) - i) /\ i + ((j + 1) - i) = j + 1
    OBVIOUS
  <2> QED
    BY <1>1, <2>1
<1>4. \A l \in 1..(j - i) : b[l] = c[l]
  <2>1. \A l \in 1..(j - i) : l \in 1..((j + 1) - i)
    OBVIOUS
  <2> QED
    BY <1>1, <2>1
<1>5. Len(c) = Len(b) + 1 /\ Len(b) = j - i /\ j - i \in Nat
  BY <1>1
<1> HIDE DEF b, c, x
<1>6. c = Append(b, x)
  <2>1. /\ Append(b, x) \in Seq(S) /\ Len(Append(b, x)) = Len(b) + 1
        /\ \A l \in 1..Len(b) : Append(b, x)[l] = b[l]
        /\ Append(b, x)[Len(b) + 1] = x
    BY <1>2, <1>2a, AppendProperties
  <2>2. c[Len(b) + 1] = x
    BY <1>3, <1>5
  <2>3. \A l \in 1..Len(c) : c[l] = Append(b, x)[l]
    BY <1>4, <1>5, <2>1, <2>2
  <2> QED
    BY <1>1, <1>5, <2>1, <2>3, SeqEqual
<1>7. Append(b, x) = b \o <<x>> /\ Append(a \o b, x) = (a \o b) \o <<x>>
  BY <1>1, <1>2, AppendIsConcat, ConcatProperties
<1>8. (a \o b) \o <<x>> = a \o (b \o <<x>>)
  <2>1. <<x>> \in Seq(S)
    BY <1>2
  <2> QED
    BY <1>2a, <2>1, ConcatAssociative
<1>9. a \o c = Append(a \o b, x)
  BY <1>6, <1>7, <1>8
<1> QED
  BY <1>9 DEF b, c, x

LEMMA SegmentIsRead ==
  ASSUME NEW s \in Seq(MS!Input), NEW k \in Nat, NEW n \in Nat, k <= n, n <= Len(s),
         \A i \in (k + 1)..n : s[i] # Newline
  PROVE  /\ After(s, n).connection = After(s, k).connection
         /\ After(s, n).said = After(s, k).said
         /\ After(s, n).line = After(s, k).line \o SubSeq(s, k + 1, n)
<1> DEFINE Same(j) ==
             /\ After(s, j).connection = After(s, k).connection
             /\ After(s, j).said = After(s, k).said
             /\ After(s, j).line = After(s, k).line \o SubSeq(s, k + 1, j)
           P == {m \in Nat : k + m <= n => Same(k + m)}
<1>0. After(s, k).line \in Seq(Symbols) /\ After(s, k).line \in Seq(MS!Input)
  <2>1. After(s, k) \in Pasts
    BY AfterType
  <2>2. After(s, k).line \in Seq(Symbols)
    BY <2>1 DEF Pasts
  <2>3. Symbols \subseteq MS!Input
    BY DEF MS!Input
  <2> QED
    BY <2>2, <2>3, SeqMonotonic
<1>1. 0 \in P
  <2>1. SubSeq(s, k + 1, k + 0) = << >> /\ k + 0 = k
    OBVIOUS
  <2>2. After(s, k).line \o << >> = After(s, k).line
    BY <1>0, ConcatEmptySeq
  <2>3. Same(k + 0)
    BY <2>1, <2>2
  <2> QED
    BY <2>3
<1> HIDE DEF Same
<1>2. ASSUME NEW m \in P PROVE m + 1 \in P
  <2> SUFFICES ASSUME k + (m + 1) <= n PROVE Same(k + (m + 1))
    OBVIOUS
  <2> DEFINE j == k + m
  <2>1. j \in Nat /\ k <= j /\ j < Len(s) /\ j + 1 = k + (m + 1) /\ j + 1 \in (k + 1)..n
    OBVIOUS
  <2>2. Same(j)
    OBVIOUS
  <2> HIDE DEF j
  <2>3. After(s, j + 1) = MS!Reads(After(s, j), s[j + 1])
    BY <2>1, AfterStep
  <2>4. s[j + 1] # Newline
    BY <2>1
  <2>5. /\ After(s, j + 1).connection = After(s, j).connection
        /\ After(s, j + 1).said = After(s, j).said
        /\ After(s, j + 1).line = Append(After(s, j).line, s[j + 1])
    BY <2>3, <2>4 DEF MS!Reads
  <2>6. After(s, k).line \o SubSeq(s, k + 1, j + 1)
          = Append(After(s, k).line \o SubSeq(s, k + 1, j), s[j + 1])
    BY <1>0, <2>1, AppendOne
  <2>7. Same(j + 1)
    BY <2>2, <2>5, <2>6 DEF Same
  <2> QED
    BY <2>1, <2>7
<1>3. P \subseteq Nat
  OBVIOUS
<1> HIDE DEF P
<1>4. P = Nat
  BY <1>1, <1>2, <1>3, Counting
<1>5. PICK d \in Nat : k + d = n
  <2>1. n - k \in Nat /\ k + (n - k) = n
    OBVIOUS
  <2> QED
    BY <2>1
<1>6. Same(k + d)
  <2>1. k + d <= n /\ d \in P
    BY <1>4, <1>5
  <2> QED
    BY <2>1, Zenon DEF P
<1> QED
  BY <1>5, <1>6 DEF Same

-----------------------------------------------------------------------------
(* What has been said stays said.                                          *)

LEMMA PrefixOfSaid ==
  ASSUME NEW S, NEW a \in Seq(S), NEW b \in Seq(S)
  PROVE  /\ MS!IsPrefix(a, a)
         /\ MS!IsPrefix(a, b) <=> Len(a) <= Len(b) /\ \A i \in 1..Len(a) : a[i] = b[i]
<1>1. Len(a) \in Nat /\ Len(b) \in Nat
  OBVIOUS
<1>2. SubSeq(a, 1, Len(a)) = a
  BY SubSeqFull
<1>3. ASSUME Len(a) <= Len(b)
      PROVE  SubSeq(b, 1, Len(a)) = a <=> \A i \in 1..Len(a) : a[i] = b[i]
  <2>1. /\ SubSeq(b, 1, Len(a)) \in Seq(S) /\ Len(SubSeq(b, 1, Len(a))) = Len(a)
        /\ \A i \in 1..Len(a) : SubSeq(b, 1, Len(a))[i] = b[i]
    BY <1>1, <1>3
  <2> DEFINE c == SubSeq(b, 1, Len(a))
  <2> HIDE DEF c
  <2>2. (\A i \in 1..Len(a) : a[i] = c[i]) => a = c
    BY <2>1, SeqEqual DEF c
  <2> QED
    BY <2>1, <2>2 DEF c
<1> QED
  BY <1>1, <1>2, <1>3 DEF MS!IsPrefix

LEMMA SaysKeeps ==
  ASSUME NEW a \in Seq(MS!Replies), NEW b \in Seq(MS!Replies), MS!IsPrefix(a, b),
         NEW reply \in MS!Replies \union {None}
  PROVE  MS!IsPrefix(a, MS!Says(b, reply))
<1>1. CASE reply = None
  BY <1>1 DEF MS!Says
<1>2. CASE reply # None
  <2> DEFINE c == Append(b, reply)
  <2>1. /\ c \in Seq(MS!Replies) /\ Len(c) = Len(b) + 1
        /\ \A i \in 1..Len(b) : c[i] = b[i]
    BY <1>2, AppendProperties
  <2> HIDE DEF c
  <2>2. Len(a) \in Nat /\ Len(b) \in Nat
    OBVIOUS
  <2>3. Len(a) <= Len(b) /\ \A i \in 1..Len(a) : a[i] = b[i]
    BY PrefixOfSaid
  <2>4. Len(a) <= Len(c) /\ \A i \in 1..Len(a) : a[i] = c[i]
    BY <2>1, <2>2, <2>3
  <2>5. MS!IsPrefix(a, c)
    BY <2>1, <2>4, PrefixOfSaid
  <2> QED
    BY <1>2, <2>5 DEF MS!Says, c
<1> QED
  BY <1>1, <1>2

LEMMA ReadsKeeps ==
  ASSUME NEW a \in Seq(MS!Replies), NEW past \in Pasts, MS!IsPrefix(a, past.said), NEW x
  PROVE  MS!IsPrefix(a, MS!Reads(past, x).said)
<1>1. past.said \in Seq(MS!Replies) /\ past.connection \in MS!Connections
  BY DEF Pasts
<1>2. MS!LineReply(past.connection, past.line) \in MS!Replies \union {None}
  BY <1>1, Answering
<1>3. MS!IsPrefix(a, MS!Says(past.said, MS!LineReply(past.connection, past.line)))
  BY <1>1, <1>2, SaysKeeps
<1> QED
  BY <1>3 DEF MS!Reads

LEMMA SaidStays ==
  ASSUME NEW s \in Seq(MS!Input), NEW k \in Nat, k <= Len(s),
         NEW a \in Seq(MS!Replies), MS!IsPrefix(a, After(s, k).said)
  PROVE  MS!IsPrefix(a, MS!Session(s).said)
<1> DEFINE P == {m \in Nat : k + m <= Len(s) => MS!IsPrefix(a, After(s, k + m).said)}
<1>1. 0 \in P
  OBVIOUS
<1>2. ASSUME NEW m \in P PROVE m + 1 \in P
  <2> SUFFICES ASSUME k + (m + 1) <= Len(s)
               PROVE  MS!IsPrefix(a, After(s, k + (m + 1)).said)
    OBVIOUS
  <2> DEFINE j == k + m
  <2>1. j \in Nat /\ j < Len(s) /\ j <= Len(s) /\ j + 1 = k + (m + 1)
    OBVIOUS
  <2>2. MS!IsPrefix(a, After(s, j).said)
    OBVIOUS
  <2> HIDE DEF j
  <2>3. After(s, j) \in Pasts
    BY <2>1, AfterType
  <2>4. After(s, j + 1) = MS!Reads(After(s, j), s[j + 1])
    BY <2>1, AfterStep
  <2>5. MS!IsPrefix(a, After(s, j + 1).said)
    BY <2>2, <2>3, <2>4, ReadsKeeps
  <2> QED
    BY <2>1, <2>5
<1>3. P \subseteq Nat
  OBVIOUS
<1> HIDE DEF P
<1>4. P = Nat
  BY <1>1, <1>2, <1>3, Counting
<1>5. PICK d \in Nat : k + d = Len(s)
  <2>1. Len(s) - k \in Nat /\ k + (Len(s) - k) = Len(s)
    OBVIOUS
  <2> QED
    BY <2>1
<1>6. MS!IsPrefix(a, After(s, k + d).said)
  <2>1. k + d <= Len(s) /\ d \in P
    BY <1>4, <1>5
  <2> QED
    BY <2>1, Zenon DEF P
<1> QED
  BY <1>5, <1>6, AfterAll

-----------------------------------------------------------------------------
(* The MCP server.  Its variables are sent (v1), closed (v2), chunk (v3),  *)
(* buffer (v4), discarding (v5), frame (v6), state (v7), response (v8),    *)
(* answers (v9) and loop (v10).                                            *)

LEMMA McpIs ==
  /\ McpLimit \in Nat /\ McpLimit # 0 /\ MaxChunk \in Nat
  /\ Newline \notin Symbols /\ None \notin MS!Replies /\ None \notin MS!Frames
BY McpWellFormed DEF MS!WellFormed

LEMMA OneFits ==
  ASSUME NEW n \in Nat, n > McpLimit PROVE n # 1
BY McpIs

\* How much of the input has been looked at.
Looked == Len(v1) - Len(v3)

BufferHolds ==
  /\ v5 <=> Len(After(v1, Looked).line) > McpLimit
  /\ v4 = IF v5 THEN << >> ELSE After(v1, Looked).line

LEMMA LookedAt ==
  ASSUME MS!TypeOK, MS!ChunkIsLast
  PROVE  /\ Looked \in Nat /\ Looked <= Len(v1) /\ Len(v1) = Looked + Len(v3)
         /\ v1 \in Seq(MS!Input) /\ v3 \in Seq(MS!Input)
         /\ \A i \in 1..Len(v3) : v3[i] = v1[Looked + i]
         /\ MS!Consumed = SubSeq(v1, 1, Looked) /\ MS!Consumed \in Seq(MS!Input)
         /\ MS!Session(MS!Consumed) = After(v1, Looked)
         /\ After(v1, Looked) \in Pasts
<1>1. /\ v1 \in Seq(MS!Input) /\ v3 \in Seq(MS!Input) /\ Len(v3) <= Len(v1)
      /\ \A i \in DOMAIN v3 : v3[i] = v1[(Len(v1) - Len(v3)) + i]
  BY DEF MS!TypeOK, MS!ChunkIsLast
<1>2. Len(v1) \in Nat /\ Len(v3) \in Nat /\ DOMAIN v3 = 1..Len(v3)
  BY <1>1
<1>3. Looked \in Nat /\ Looked <= Len(v1) /\ Len(v1) = Looked + Len(v3)
  BY <1>1, <1>2 DEF Looked
<1>4. MS!Consumed = SubSeq(v1, 1, Looked)
  BY DEF MS!Consumed, Looked
<1>5. MS!Consumed \in Seq(MS!Input)
  BY <1>1, <1>3, <1>4
<1>6. After(v1, Looked) \in Pasts
  BY <1>1, <1>3, AfterType
<1> QED
  BY <1>1, <1>2, <1>3, <1>4, <1>5, <1>6 DEF After, Looked

\* A blank line is passed over.
LEMMA BlankLine ==
  ASSUME NEW past \in Pasts, past.line = << >>
  PROVE  MS!Reads(past, Newline) = past
<1>1. ~ (Len(<< >>) > McpLimit) /\ Len(<< >>) # 1 /\ ~MS!Contains(<< >>, "bad")
  BY McpIs DEF MS!Contains
<1>2. /\ MS!Heard(past.connection, << >>) = past.connection
      /\ MS!LineReply(past.connection, << >>) = None
  BY <1>1 DEF MS!Heard, MS!LineReply
<1>3. MS!Says(past.said, None) = past.said
  BY DEF MS!Says
<1>4. MS!Reads(past, Newline)
        = [line |-> << >>, connection |-> past.connection, said |-> past.said]
  BY <1>2, <1>3 DEF MS!Reads
<1> QED
  BY <1>4 DEF Pasts

LEMMA ReadSoFar ==
  ASSUME MS!TypeOK, MS!ChunkIsLast
  PROVE  /\ MS!Taken = IF v4 = << >> /\ ~v5 THEN MS!Reads(After(v1, Looked), Newline)
                       ELSE After(v1, Looked)
         /\ MS!Taken \in Pasts
         /\ BufferHolds => MS!Taken = After(v1, Looked)
<1>1. /\ MS!Consumed \in Seq(MS!Input) /\ MS!Session(MS!Consumed) = After(v1, Looked)
      /\ After(v1, Looked) \in Pasts
  BY LookedAt
<1>2. Newline \in MS!Input
  BY DEF MS!Input
<1>3. MS!Session(Append(MS!Consumed, Newline)) = MS!Reads(After(v1, Looked), Newline)
  BY <1>1, <1>2, SessionAppend
<1>4. MS!Reads(After(v1, Looked), Newline) \in Pasts
  BY <1>1, <1>2, ReadsType
<1>5. MS!Taken = IF v4 = << >> /\ ~v5 THEN MS!Reads(After(v1, Looked), Newline)
                 ELSE After(v1, Looked)
  BY <1>1, <1>3 DEF MS!Taken
<1>6. ASSUME BufferHolds, v4 = << >>, ~v5
      PROVE  MS!Reads(After(v1, Looked), Newline) = After(v1, Looked)
  BY <1>1, <1>6, BlankLine DEF BufferHolds
<1> QED
  BY <1>1, <1>4, <1>5, <1>6

LEMMA BufferIs ==
  ASSUME MS!TypeOK, MS!ChunkIsLast
  PROVE  MS!BufferIsLine <=> BufferHolds \/ (v2 /\ v3 = << >> /\ v4 = << >> /\ ~v5)
BY LookedAt DEF MS!BufferIsLine, BufferHolds

\* A frame is answered as its line.
LEMMA FrameIsLine ==
  ASSUME NEW line \in Seq(Symbols), NEW connection \in MS!Connections,
         NEW tooLong \in BOOLEAN, tooLong <=> Len(line) > McpLimit,
         NEW raw, raw = IF tooLong THEN << >> ELSE line
  PROVE  /\ MS!Finished(raw, tooLong) \in MS!Frames
         /\ MS!FrameReply(connection, MS!Finished(raw, tooLong))
              = MS!LineReply(connection, line)
         /\ MS!FrameHeard(connection, MS!Finished(raw, tooLong))
              = MS!Heard(connection, line)
<1> DEFINE f == MS!Finished(raw, tooLong)
<1>1. << >> \in Seq(Symbols) /\ Len(line) \in Nat /\ (Len(line) = 0 <=> line = << >>)
  OBVIOUS
<1> HIDE DEF f
<1>2. CASE tooLong
  <2>1. f = [kind |-> "oversized", raw |-> << >>]
    BY <1>2 DEF MS!Finished, f
  <2>2. Len(line) > McpLimit /\ Len(line) # 1
    <3>1. Len(line) > McpLimit
      BY <1>2
    <3>2. Len(line) \in Nat
      BY <1>1
    <3> QED
      BY <3>1, <3>2, OneFits
  <2>3. f \in MS!Frames
    BY <1>1, <2>1 DEF MS!Frames
  <2>4. /\ MS!FrameReply(connection, f) = "oversized"
        /\ MS!FrameHeard(connection, f) = connection
    BY <2>1 DEF MS!FrameReply, MS!FrameHeard
  <2>5. /\ MS!LineReply(connection, line) = "oversized"
        /\ MS!Heard(connection, line) = connection
    BY <2>2 DEF MS!LineReply, MS!Heard
  <2> QED
    BY <2>3, <2>4, <2>5 DEF f
<1>3. CASE ~tooLong /\ MS!Contains(line, "bad")
  <2>0. raw = line
    BY <1>3
  <2>1. f = [kind |-> "invalid-utf8", raw |-> << >>]
    BY <1>3, <2>0 DEF MS!Finished, f
  <2>2. Len(line) = 1 => line[1] = "bad"
    BY <1>3 DEF MS!Contains
  <2>3. MS!Handshake(connection, "bad") = connection
    BY DEF MS!Handshake
  <2>4. MS!Heard(connection, line) = connection
    BY <2>2, <2>3 DEF MS!Heard
  <2>5. f \in MS!Frames
    BY <1>1, <2>1 DEF MS!Frames
  <2>6. /\ MS!FrameReply(connection, f) = "invalid-utf8"
        /\ MS!FrameHeard(connection, f) = connection
    BY <2>1 DEF MS!FrameReply, MS!FrameHeard
  <2>7. MS!LineReply(connection, line) = "invalid-utf8"
    BY <1>3 DEF MS!LineReply
  <2> QED
    BY <2>4, <2>5, <2>6, <2>7 DEF f
<1>4. CASE ~tooLong /\ ~MS!Contains(line, "bad")
  <2>0. raw = line
    BY <1>4
  <2>1. f = [kind |-> "message", raw |-> line]
    BY <1>4, <2>0 DEF MS!Finished, f
  <2>2. f \in MS!Frames
    BY <2>1 DEF MS!Frames
  <2>3. /\ MS!FrameReply(connection, f)
             = IF line = << >> THEN None
               ELSE IF Len(line) = 1 THEN MS!Reply(connection, line[1]) ELSE "unparsed"
        /\ MS!FrameHeard(connection, f) = MS!Heard(connection, line)
    BY <2>1 DEF MS!FrameReply, MS!FrameHeard, MS!Heard
  <2>4. MS!LineReply(connection, line)
           = IF line = << >> THEN None
             ELSE IF Len(line) = 1 THEN MS!Reply(connection, line[1]) ELSE "unparsed"
    BY <1>4 DEF MS!LineReply
  <2> QED
    BY <2>2, <2>3, <2>4 DEF f
<1> QED
  BY <1>2, <1>3, <1>4 DEF f

LEMMA FrameAnswers ==
  ASSUME NEW connection \in MS!Connections, NEW f \in MS!Frames
  PROVE  /\ MS!FrameHeard(connection, f) \in MS!Connections
         /\ MS!FrameReply(connection, f) \in MS!Replies \union {None}
<1>1. \A m : MS!Handshake(connection, m) \in MS!Connections
  BY DEF MS!Handshake, MS!Connections
<1>2. \A m : MS!Reply(connection, m) \in MS!Replies \union {None}
  BY DEF MS!Reply, MS!Replies
<1>3. f.kind \in {"oversized", "invalid-utf8", "message"}
  BY DEF MS!Frames
<1> QED
  BY <1>1, <1>2, <1>3 DEF MS!FrameHeard, MS!FrameReply, MS!Replies

\* What is left to answer.
Told(past) ==
  /\ past.connection = IF v6 = None THEN v7 ELSE MS!FrameHeard(v7, v6)
  /\ past.said = MS!Says(v9, MS!Pending)

LEMMA AnswersAre ==
  MS!AnswersAreNext <=> /\ v6 # None => v8 = None
                        /\ v10 # "failed" => Told(MS!Taken)
                        /\ MS!IsPrefix(v9, MS!Taken.said)
BY DEF MS!AnswersAreNext, Told

LEMMA McpInit == MS!Init => MS!IInv
<1> SUFFICES ASSUME MS!Init PROVE MS!IInv
  OBVIOUS
<1> USE DEF MS!Init
<1>1. MS!TypeOK
  <2>1. \A S : << >> \in Seq(S)
    OBVIOUS
  <2> QED
    BY <2>1 DEF MS!TypeOK, MS!Connections
<1>2. Len(<< >>) = 0 /\ DOMAIN << >> = {}
  OBVIOUS
<1>3. MS!ChunkIsLast
  BY <1>2 DEF MS!ChunkIsLast
<1>4. Looked = 0
  BY <1>2 DEF Looked
<1>5. After(v1, Looked) = MS!Fresh
  BY <1>4, AfterNothing
<1>6. BufferHolds
  <2>1. MS!Fresh.line = << >>
    BY DEF MS!Fresh
  <2>2. ~ (0 > McpLimit)
    BY McpIs
  <2> QED
    BY <1>2, <1>5, <2>1, <2>2 DEF BufferHolds
<1>7. MS!Taken = MS!Fresh
  BY <1>1, <1>3, <1>5, <1>6, ReadSoFar
<1>8. MS!AnswersAreNext
  <2>1. MS!Fresh.connection = "NEW" /\ MS!Fresh.said = << >>
    BY DEF MS!Fresh
  <2>2. MS!Pending = None
    BY DEF MS!Pending
  <2>3. Told(MS!Taken)
    BY <1>7, <2>1, <2>2 DEF Told, MS!Says
  <2>4. MS!IsPrefix(<< >>, << >>)
    BY DEF MS!IsPrefix
  <2> QED
    BY <1>7, <2>1, <2>3, <2>4, AnswersAre
<1>9. MS!EndIsLast
  BY DEF MS!EndIsLast
<1> QED
  BY <1>1, <1>3, <1>6, <1>8, <1>9, BufferIs DEF MS!IInv

\* A step that leaves the input and what was looked at of it alone.
LEMMA FramingStays ==
  ASSUME MS!IInv, UNCHANGED <<v1, v3, v4, v5>>
  PROVE  /\ MS!ChunkIsLast' /\ MS!Taken' = MS!Taken
         /\ (v2 => v2') => MS!BufferIsLine'
BY DEF MS!IInv, MS!ChunkIsLast, MS!Taken, MS!Consumed, MS!BufferIsLine

LEMMA ChunkTaken ==
  ASSUME MS!IInv, MS!ChunkArrives PROVE MS!IInv'
<1>1. PICK size \in 1..MaxChunk : \E symbols \in [1..size -> Symbols \union {Newline}] :
        v3' = symbols /\ v1' = v1 \o symbols
  BY DEF MS!ChunkArrives
<1>2. PICK symbols \in [1..size -> MS!Input] : v3' = symbols /\ v1' = v1 \o symbols
  BY <1>1 DEF MS!Input
<1>3. /\ v10 = "running" /\ v6 = None /\ v8 = None /\ ~v2 /\ v3 = << >>
      /\ UNCHANGED <<v2, v4, v5, v6, v7, v8, v9, v10>>
  BY DEF MS!ChunkArrives, MS!Idle
<1>4. MS!TypeOK /\ MS!ChunkIsLast /\ MS!BufferIsLine /\ MS!AnswersAreNext
  BY DEF MS!IInv
<1>5. size \in Nat
  BY McpIs
<1>6. symbols \in Seq(MS!Input) /\ Len(symbols) = size
  BY <1>2, <1>5
<1>7. v1 \in Seq(MS!Input) /\ Len(v1) \in Nat /\ Len(<< >>) = 0
  BY <1>4 DEF MS!TypeOK
<1>8. /\ v1' \in Seq(MS!Input) /\ Len(v1') = Len(v1) + size
      /\ \A i \in 1..(Len(v1) + size) :
           v1'[i] = IF i <= Len(v1) THEN v1[i] ELSE symbols[i - Len(v1)]
  <2>1. /\ v1 \o symbols \in Seq(MS!Input)
        /\ Len(v1 \o symbols) = Len(v1) + Len(symbols)
        /\ \A i \in 1..(Len(v1) + Len(symbols)) :
             (v1 \o symbols)[i] = IF i <= Len(v1) THEN v1[i] ELSE symbols[i - Len(v1)]
    BY <1>6, <1>7, ConcatProperties
  <2> QED
    BY <1>2, <1>6, <2>1
<1>9. MS!TypeOK'
  BY <1>2, <1>3, <1>4, <1>6, <1>8 DEF MS!TypeOK
<1>10. MS!ChunkIsLast'
  <2>1. Len(v3') = size /\ DOMAIN v3' = 1..size
    BY <1>2, <1>6
  <2>2. ASSUME NEW i \in 1..size PROVE v3'[i] = v1'[(Len(v1') - Len(v3')) + i]
    <3>1. (Len(v1') - Len(v3')) + i = Len(v1) + i
      BY <1>5, <1>7, <1>8, <2>1
    <3>2. Len(v1) + i \in 1..(Len(v1) + size) /\ ~(Len(v1) + i <= Len(v1))
          /\ (Len(v1) + i) - Len(v1) = i
      BY <1>5, <1>7
    <3> QED
      BY <1>2, <1>8, <3>1, <3>2
  <2>3. Len(v3') <= Len(v1')
    BY <1>5, <1>7, <1>8, <2>1
  <2> QED
    BY <2>1, <2>2, <2>3 DEF MS!ChunkIsLast
<1>11. Looked = Len(v1) /\ Looked' = Len(v1)
  BY <1>2, <1>3, <1>5, <1>6, <1>7, <1>8 DEF Looked
<1>12. SubSeq(v1', 1, Len(v1)) = SubSeq(v1, 1, Len(v1))
  <2>1. \A i \in 1..Len(v1) : v1'[i] = v1[i] /\ v1[i] \in MS!Input
    BY <1>5, <1>7, <1>8
  <2> QED
    BY <1>7, <1>8, <2>1
<1>13. After(v1, Looked)' = After(v1, Looked)
  BY <1>11, <1>12 DEF After
<1>14. BufferHolds
  BY <1>3, <1>4, BufferIs
<1>15. BufferHolds'
  BY <1>3, <1>13, <1>14 DEF BufferHolds
<1>16. MS!Taken' = MS!Taken
  <2>1. (BufferHolds => MS!Taken = After(v1, Looked))'
    BY <1>9, <1>10, ReadSoFar, PTL
  <2> QED
    BY <1>4, <1>13, <1>14, <1>15, <2>1, ReadSoFar
<1>17. MS!AnswersAreNext'
  BY <1>3, <1>4, <1>16 DEF MS!AnswersAreNext, MS!Pending
<1>18. MS!BufferIsLine'
  <2>1. (MS!BufferIsLine <=> BufferHolds \/ (v2 /\ v3 = << >> /\ v4 = << >> /\ ~v5))'
    BY <1>9, <1>10, BufferIs, PTL
  <2> QED
    BY <1>15, <2>1
<1>19. MS!EndIsLast'
  BY <1>3 DEF MS!EndIsLast
<1> QED
  BY <1>9, <1>10, <1>17, <1>18, <1>19 DEF MS!IInv

\* A line that has come to its end.
LEMMA LineEnds ==
  ASSUME MS!IInv, v6 = None, v8 = None, v10 = "running",
         NEW past \in Pasts, past.connection = MS!Taken.connection,
         past.said = MS!Taken.said,
         NEW raw, NEW tooLong \in BOOLEAN, tooLong <=> Len(past.line) > McpLimit,
         raw = IF tooLong THEN << >> ELSE past.line,
         v6' = MS!Finished(raw, tooLong), UNCHANGED <<v7, v8, v9, v10>>,
         MS!Taken' = MS!Reads(past, Newline)
  PROVE  MS!AnswersAreNext' /\ v6' \in MS!Frames
<1>1. MS!TypeOK /\ MS!AnswersAreNext
  BY DEF MS!IInv
<1>2. /\ v7 \in MS!Connections /\ v9 \in Seq(MS!Replies)
  BY <1>1 DEF MS!TypeOK
<1>3. past.connection = v7 /\ past.said = v9 /\ past.line \in Seq(Symbols)
  <2>1. Told(MS!Taken)
    BY <1>1, AnswersAre
  <2>2. past.line \in Seq(Symbols)
    BY DEF Pasts
  <2> QED
    BY <2>1, <2>2 DEF Told, MS!Pending, MS!Says
<1>4. /\ v6' \in MS!Frames
      /\ MS!FrameReply(v7, v6') = MS!LineReply(v7, past.line)
      /\ MS!FrameHeard(v7, v6') = MS!Heard(v7, past.line)
  BY <1>2, <1>3, FrameIsLine
<1>5. v6' # None
  BY <1>4, McpIs
<1>6. /\ MS!Taken'.connection = MS!Heard(v7, past.line)
      /\ MS!Taken'.said = MS!Says(v9, MS!LineReply(v7, past.line))
  BY <1>3 DEF MS!Reads
<1>7. MS!Pending' = MS!LineReply(v7, past.line)
  BY <1>4, <1>5 DEF MS!Pending
<1>8. MS!LineReply(v7, past.line) \in MS!Replies \union {None}
  BY <1>2, Answering
<1>9. MS!IsPrefix(v9, MS!Taken'.said)
  <2>1. MS!IsPrefix(v9, v9)
    BY <1>2, PrefixOfSaid
  <2> QED
    BY <1>2, <1>6, <1>8, <2>1, SaysKeeps
<1> QED
  BY <1>4, <1>5, <1>6, <1>7, <1>9 DEF MS!AnswersAreNext

\* Where the segment of the chunk ends.
LEMMA SegmentIs ==
  ASSUME v3 \in Seq(MS!Input), v3 # << >>
  PROVE  /\ MS!LineEnd \in 1..(Len(v3) + 1)
         /\ \A i \in 1..(MS!LineEnd - 1) : v3[i] # Newline
         /\ MS!LineEnd <= Len(v3) => v3[MS!LineEnd] = Newline
         /\ MS!Segment \in Seq(MS!Input) /\ Len(MS!Segment) = MS!LineEnd - 1
         /\ \A i \in 1..(MS!LineEnd - 1) : MS!Segment[i] = v3[i]
<1> DEFINE I == {i \in 1..Len(v3) : v3[i] = Newline} \union {Len(v3) + 1}
<1>1. Len(v3) \in Nat /\ I \in SUBSET Nat /\ I # {}
  OBVIOUS
<1>2. MS!LineEnd = MS!Min(I)
  BY DEF MS!LineEnd
<1>3. MS!Min(I) \in I /\ \A y \in I : MS!Min(I) <= y
  <2> HIDE DEF I
  <2>1. PICK x \in I : \A y \in I : ~(<<y, x>> \in OpToRel(<, Nat))
    BY <1>1, WFMin, NatLessThanWellFounded, Zenon
  <2>2. \A y \in I : x <= y
    <3> SUFFICES ASSUME NEW y \in I PROVE x <= y
      OBVIOUS
    <3>1. ~(y < x) /\ x \in Nat /\ y \in Nat
      BY <1>1, <2>1 DEF OpToRel
    <3> QED
      BY <3>1
  <2> QED
    BY <2>2 DEF MS!Min
<1>4. MS!LineEnd \in 1..(Len(v3) + 1)
  BY <1>1, <1>2, <1>3
<1>5. \A i \in 1..(MS!LineEnd - 1) : v3[i] # Newline
  <2> SUFFICES ASSUME NEW i \in 1..(MS!LineEnd - 1), v3[i] = Newline PROVE FALSE
    OBVIOUS
  <2>1. i \in 1..Len(v3) /\ ~(MS!LineEnd <= i)
    BY <1>1, <1>4
  <2>2. i \in I
    BY <2>1
  <2> QED
    BY <1>2, <1>3, <2>1, <2>2
<1>6. MS!LineEnd <= Len(v3) => v3[MS!LineEnd] = Newline
  BY <1>1, <1>2, <1>3
<1>7. /\ MS!Segment \in Seq(MS!Input) /\ Len(MS!Segment) = MS!LineEnd - 1
      /\ \A i \in 1..(MS!LineEnd - 1) : MS!Segment[i] = v3[i]
  <2> DEFINE n == MS!LineEnd - 1
  <2>1. n \in Nat /\ n <= Len(v3)
    BY <1>1, <1>4
  <2>2. MS!Segment = SubSeq(v3, 0 + 1, n)
    BY DEF MS!Segment
  <2> HIDE DEF n
  <2>3. /\ SubSeq(v3, 0 + 1, n) \in Seq(MS!Input) /\ Len(SubSeq(v3, 0 + 1, n)) = n - 0
        /\ \A l \in 1..(n - 0) : SubSeq(v3, 0 + 1, n)[l] = v3[0 + l]
    BY <2>1, PartOf
  <2>4. n - 0 = n /\ \A l \in 1..n : 0 + l = l
    BY <2>1
  <2> QED
    BY <2>2, <2>3, <2>4 DEF n
<1> QED
  BY <1>4, <1>5, <1>6, <1>7

\* What the segment makes of the line.
LEMMA SegmentTaken ==
  ASSUME MS!TypeOK, MS!ChunkIsLast, v3 # << >>
  PROVE  LET n == Looked + (MS!LineEnd - 1)
         IN  /\ n \in Nat /\ Looked <= n /\ n <= Len(v1)
             /\ After(v1, n) \in Pasts
             /\ After(v1, n).connection = After(v1, Looked).connection
             /\ After(v1, n).said = After(v1, Looked).said
             /\ After(v1, n).line = After(v1, Looked).line \o MS!Segment
<1> DEFINE n == Looked + (MS!LineEnd - 1)
<1>1. /\ Looked \in Nat /\ Len(v1) = Looked + Len(v3)
      /\ v1 \in Seq(MS!Input) /\ v3 \in Seq(MS!Input)
      /\ \A i \in 1..Len(v3) : v3[i] = v1[Looked + i]
  BY LookedAt
<1>2. /\ MS!LineEnd \in 1..(Len(v3) + 1)
      /\ \A i \in 1..(MS!LineEnd - 1) : v3[i] # Newline
      /\ MS!Segment \in Seq(MS!Input) /\ Len(MS!Segment) = MS!LineEnd - 1
      /\ \A i \in 1..(MS!LineEnd - 1) : MS!Segment[i] = v3[i]
  BY <1>1, SegmentIs
<1>3. Len(v3) \in Nat /\ Len(v1) \in Nat
  BY <1>1
<1>4. /\ n \in Nat /\ Looked <= n /\ n <= Len(v1) /\ n - Looked = MS!LineEnd - 1
      /\ \A i \in (Looked + 1)..n : i - Looked \in 1..(MS!LineEnd - 1)
                                    /\ i - Looked \in 1..Len(v3) /\ Looked + (i - Looked) = i
      /\ \A i \in 1..(MS!LineEnd - 1) : i \in 1..Len(v3)
  BY <1>1, <1>2, <1>3
<1> HIDE DEF n
<1>5. ASSUME NEW i \in (Looked + 1)..n PROVE v1[i] # Newline
  <2>1. PICK j \in 1..(MS!LineEnd - 1) : j \in 1..Len(v3) /\ Looked + j = i
    BY <1>4
  <2>2. v3[j] # Newline /\ v3[j] = v1[Looked + j]
    BY <1>1, <1>2, <2>1
  <2> QED
    BY <2>1, <2>2
<1>6. MS!Segment = SubSeq(v1, Looked + 1, n)
  <2>1. /\ SubSeq(v1, Looked + 1, n) \in Seq(MS!Input)
        /\ Len(SubSeq(v1, Looked + 1, n)) = n - Looked
        /\ \A l \in 1..(n - Looked) : SubSeq(v1, Looked + 1, n)[l] = v1[Looked + l]
    <3>1. /\ v1 \in Seq(MS!Input) /\ Looked \in Nat /\ n \in Nat
          /\ Looked <= n /\ n <= Len(v1)
      BY <1>1, <1>4
    <3> QED
      BY <3>1, PartOf
  <2>2. Len(SubSeq(v1, Looked + 1, n)) = Len(MS!Segment)
    BY <1>2, <1>4, <2>1
  <2>3. ASSUME NEW l \in 1..Len(MS!Segment)
        PROVE  MS!Segment[l] = SubSeq(v1, Looked + 1, n)[l]
    BY <1>1, <1>2, <1>4, <2>1
  <2> QED
    BY <1>2, <2>1, <2>2, <2>3, SeqEqual
<1>7. /\ After(v1, n).connection = After(v1, Looked).connection
      /\ After(v1, n).said = After(v1, Looked).said
      /\ After(v1, n).line = After(v1, Looked).line \o SubSeq(v1, Looked + 1, n)
  BY <1>1, <1>4, <1>5, SegmentIsRead
<1>8. After(v1, n) \in Pasts
  BY <1>1, <1>4, AfterType
<1> QED
  BY <1>4, <1>6, <1>7, <1>8 DEF n

LEMMA SegmentKeeps ==
  ASSUME MS!IInv, MS!TakeSegment PROVE MS!IInv'
<1> DEFINE past == After(v1, Looked + (MS!LineEnd - 1))
           tooLong == v5 \/ Len(v4) + Len(MS!Segment) > McpLimit
           line == IF tooLong THEN << >> ELSE v4 \o MS!Segment
           ended == MS!LineEnd <= Len(v3)
<1>1. /\ v10 = "running" /\ v6 = None /\ v8 = None /\ v3 # << >>
      /\ v3' = SubSeq(v3, MS!LineEnd + 1, Len(v3))
      /\ IF ended THEN v6' = MS!Finished(line, tooLong) ELSE UNCHANGED v6
      /\ v4' = IF ended THEN << >> ELSE line
      /\ v5' = MS!StillDiscarding(tooLong, ended)
      /\ UNCHANGED <<v1, v2, v7, v8, v9, v10>>
  BY DEF MS!TakeSegment, MS!Idle
<1>2. MS!TypeOK /\ MS!ChunkIsLast /\ MS!BufferIsLine /\ MS!AnswersAreNext /\ MS!EndIsLast
  BY DEF MS!IInv
<1>3. /\ Looked \in Nat /\ Len(v1) = Looked + Len(v3) /\ v1 \in Seq(MS!Input)
      /\ v3 \in Seq(MS!Input) /\ After(v1, Looked) \in Pasts
      /\ \A i \in 1..Len(v3) : v3[i] = v1[Looked + i]
  BY <1>2, LookedAt
<1>4. /\ MS!LineEnd \in 1..(Len(v3) + 1)
      /\ \A i \in 1..(MS!LineEnd - 1) : v3[i] # Newline
      /\ MS!LineEnd <= Len(v3) => v3[MS!LineEnd] = Newline
      /\ MS!Segment \in Seq(MS!Input) /\ Len(MS!Segment) = MS!LineEnd - 1
      /\ \A i \in 1..(MS!LineEnd - 1) : MS!Segment[i] = v3[i]
  BY <1>1, <1>3, SegmentIs
<1>5. /\ Looked + (MS!LineEnd - 1) \in Nat /\ Looked + (MS!LineEnd - 1) <= Len(v1)
      /\ past \in Pasts
      /\ past.connection = After(v1, Looked).connection
      /\ past.said = After(v1, Looked).said
      /\ past.line = After(v1, Looked).line \o MS!Segment
  BY <1>1, <1>2, SegmentTaken
<1>6. BufferHolds
  BY <1>1, <1>2, BufferIs
<1>7. MS!Taken = After(v1, Looked)
  BY <1>2, <1>6, ReadSoFar
<1>8. Len(v3) \in Nat /\ Len(v1) \in Nat
  BY <1>3
<1> HIDE DEF past, tooLong, line, ended
<1>9. tooLong \in BOOLEAN /\ ended \in BOOLEAN
  BY <1>2 DEF tooLong, ended, MS!TypeOK
<1>10. /\ tooLong <=> Len(past.line) > McpLimit
       /\ line = IF tooLong THEN << >> ELSE past.line
       /\ past.line \in Seq(Symbols)
  <2> DEFINE had == After(v1, Looked).line
             more == MS!Segment
  <2>1. had \in Seq(Symbols) /\ past.line \in Seq(Symbols)
    BY <1>3, <1>5 DEF Pasts
  <2>2. /\ v5 <=> Len(had) > McpLimit
        /\ v4 = IF v5 THEN << >> ELSE had
        /\ v5 \in BOOLEAN
    BY <1>2, <1>6 DEF BufferHolds, MS!TypeOK
  <2>3. Len(past.line) = Len(had) + Len(more)
    <3>1. had \in Seq(MS!Input)
      BY <2>1, SeqMonotonic DEF MS!Input
    <3>2. more \in Seq(MS!Input)
      BY <1>4
    <3> HIDE DEF had, more
    <3>3. Len(had \o more) = Len(had) + Len(more)
      BY <3>1, <3>2, ConcatProperties
    <3> QED
      BY <1>5, <3>3 DEF had, more
  <2>4. Len(had) \in Nat /\ Len(more) \in Nat /\ McpLimit \in Nat
    BY <1>4, <2>1, McpIs
  <2>5. past.line = had \o more
    BY <1>5
  <2>6. tooLong <=> v5 \/ Len(v4) + Len(more) > McpLimit
    BY DEF tooLong
  <2>7. line = IF tooLong THEN << >> ELSE v4 \o more
    BY DEF line
  <2> HIDE DEF had, more
  <2>8. CASE v5
    <3>1. tooLong /\ line = << >>
      BY <2>6, <2>7, <2>8
    <3>2. Len(had) > McpLimit
      BY <2>2, <2>8
    <3>3. Len(had) + Len(more) > McpLimit
      BY <2>4, <3>2
    <3> QED
      BY <2>1, <2>3, <3>1, <3>3
  <2>9. CASE ~v5
    <3>1. v4 = had
      BY <2>2, <2>9
    <3>2. tooLong <=> Len(past.line) > McpLimit
      BY <2>3, <2>6, <2>9, <3>1
    <3>3. line = IF tooLong THEN << >> ELSE past.line
      BY <2>5, <2>7, <3>1
    <3> QED
      BY <2>1, <3>2, <3>3
  <2> QED
    BY <2>2, <2>8, <2>9
<1>11. CASE ~ended
  <2>1. MS!LineEnd = Len(v3) + 1
    BY <1>4, <1>8, <1>11 DEF ended
  <2>2. v3' = << >>
    <3>1. Len(v3) < MS!LineEnd + 1 /\ MS!LineEnd + 1 \in Int /\ Len(v3) \in Int
      BY <1>8, <2>1
    <3> QED
      BY <1>1, <3>1, SubSeqEmpty
  <2>3. /\ v4' = line /\ v5' = tooLong /\ v6' = v6
    BY <1>1, <1>9, <1>11 DEF MS!StillDiscarding
  <2>4. Len(v3') = 0 /\ DOMAIN v3' = {} /\ Len(v1') = Len(v1)
    <3>1. Len(v3') = 0 /\ DOMAIN v3' = {}
      BY <2>2
    <3>2. Len(v1') = Len(v1)
      BY <1>1
    <3> QED
      BY <3>1, <3>2
  <2>5. MS!TypeOK'
    <3>1. line \in Seq(Symbols) /\ << >> \in Seq(MS!Input)
      BY <1>10
    <3> QED
      BY <1>1, <1>2, <1>9, <2>2, <2>3, <3>1 DEF MS!TypeOK
  <2>6. MS!ChunkIsLast'
    BY <1>8, <2>4 DEF MS!ChunkIsLast
  <2>7. Looked' = Looked + (MS!LineEnd - 1)
    <3>1. Looked' = Len(v1)
      BY <1>8, <2>4 DEF Looked
    <3>2. Looked + (MS!LineEnd - 1) = Len(v1)
      BY <1>3, <1>8, <2>1
    <3> QED
      BY <3>1, <3>2
  <2>8. After(v1, Looked)' = past
    BY <1>1, <2>7 DEF After, past
  <2>9. BufferHolds'
    BY <1>10, <2>3, <2>8 DEF BufferHolds
  <2>10. MS!Taken' = past
    <3>1. (BufferHolds => MS!Taken = After(v1, Looked))'
      BY <2>5, <2>6, ReadSoFar, PTL
    <3> QED
      BY <2>8, <2>9, <3>1
  <2>11. MS!BufferIsLine'
    <3>1. (MS!BufferIsLine <=> BufferHolds \/ (v2 /\ v3 = << >> /\ v4 = << >> /\ ~v5))'
      BY <2>5, <2>6, BufferIs, PTL
    <3> QED
      BY <2>9, <3>1
  <2>12. MS!AnswersAreNext'
    <3>1. MS!Pending' = MS!Pending
      BY <1>1, <2>3 DEF MS!Pending
    <3> QED
      BY <1>1, <1>2, <1>5, <1>7, <2>3, <2>10, <3>1 DEF MS!AnswersAreNext
  <2>13. MS!EndIsLast'
    BY <1>1 DEF MS!EndIsLast
  <2> QED
    BY <2>5, <2>6, <2>11, <2>12, <2>13 DEF MS!IInv
<1>12. CASE ended
  <2> DEFINE n == Looked + (MS!LineEnd - 1)
  <2>1. /\ MS!LineEnd \in 1..Len(v3) /\ v3[MS!LineEnd] = Newline
    BY <1>4, <1>8, <1>12 DEF ended
  <2>2. /\ v4' = << >> /\ v5' = FALSE /\ v6' = MS!Finished(line, tooLong)
    BY <1>1, <1>12 DEF MS!StillDiscarding
  <2>3. /\ v3' \in Seq(MS!Input) /\ Len(v3') = Len(v3) - MS!LineEnd
        /\ \A i \in 1..(Len(v3) - MS!LineEnd) : v3'[i] = v3[MS!LineEnd + i]
    <3>1. MS!LineEnd \in Nat /\ Len(v3) \in Nat /\ MS!LineEnd <= Len(v3)
      BY <1>8, <2>1
    <3> QED
      BY <1>1, <1>3, <3>1, PartOf
  <2>4. MS!ChunkIsLast'
    <3>0. MS!LineEnd \in Nat /\ MS!LineEnd <= Len(v3) /\ Len(v1') = Len(v1)
      BY <1>1, <1>8, <2>1
    <3>1. Len(v3') <= Len(v1') /\ DOMAIN v3' = 1..(Len(v3) - MS!LineEnd)
      <4>1. DOMAIN v3' = 1..Len(v3')
        BY <2>3
      <4>2. Len(v3) - MS!LineEnd <= Len(v1)
        BY <1>3, <1>8, <3>0
      <4> QED
        BY <2>3, <3>0, <4>1, <4>2
    <3>2. ASSUME NEW i \in 1..(Len(v3) - MS!LineEnd)
          PROVE  v3'[i] = v1'[(Len(v1') - Len(v3')) + i]
      <4>1. /\ MS!LineEnd + i \in 1..Len(v3)
            /\ (Len(v1) - (Len(v3) - MS!LineEnd)) + i = Looked + (MS!LineEnd + i)
        BY <1>3, <1>8, <3>0
      <4>2. (Len(v1') - Len(v3')) + i = Looked + (MS!LineEnd + i)
        BY <2>3, <3>0, <4>1
      <4> QED
        BY <1>1, <1>3, <2>3, <4>1, <4>2
    <3> QED
      BY <3>1, <3>2 DEF MS!ChunkIsLast
  <2>5. Looked' = n + 1 /\ n \in Nat /\ n < Len(v1)
    <3>1. MS!LineEnd \in Nat /\ MS!LineEnd > 0 /\ MS!LineEnd <= Len(v3)
      BY <1>8, <2>1
    <3>2. Len(v1') = Len(v1) /\ Len(v3') = Len(v3) - MS!LineEnd
      BY <1>1, <2>3
    <3>3. Looked' = Len(v1) - (Len(v3) - MS!LineEnd)
      BY <3>2 DEF Looked
    <3>4. Len(v1) - (Len(v3) - MS!LineEnd) = (Looked + (MS!LineEnd - 1)) + 1
      BY <1>3, <1>8, <3>1
    <3> QED
      BY <1>3, <1>8, <3>1, <3>3, <3>4
  <2>6. v1[n + 1] = Newline
    <3>1. n + 1 = Looked + MS!LineEnd
      BY <1>3, <1>8, <2>1
    <3> QED
      BY <1>3, <2>1, <3>1
  <2>7. After(v1, n + 1) = MS!Reads(past, Newline)
    BY <1>3, <2>5, <2>6, AfterStep DEF past
  <2>8. After(v1, Looked)' = MS!Reads(past, Newline)
    BY <1>1, <2>5, <2>7 DEF After
  <2>9. BufferHolds'
    <3>1. MS!Reads(past, Newline).line = << >>
      BY DEF MS!Reads
    <3>2. ~(Len(<< >>) > McpLimit)
      BY McpIs
    <3> QED
      BY <2>2, <2>8, <3>1, <3>2 DEF BufferHolds
  <2>10. v6' \in MS!Frames
    <3>1. MS!Finished(line, tooLong) \in MS!Frames
      BY <1>2, <1>9, <1>10, FrameIsLine DEF MS!TypeOK
    <3> QED
      BY <2>2, <3>1
  <2>11. MS!TypeOK'
    <3>1. << >> \in Seq(Symbols)
      OBVIOUS
    <3> QED
      BY <1>1, <1>2, <2>2, <2>3, <2>10, <3>1 DEF MS!TypeOK
  <2>12. MS!Taken' = MS!Reads(past, Newline)
    <3>1. (BufferHolds => MS!Taken = After(v1, Looked))'
      BY <2>4, <2>11, ReadSoFar, PTL
    <3> QED
      BY <2>8, <2>9, <3>1
  <2>13. MS!AnswersAreNext'
    <3>1. past.connection = MS!Taken.connection /\ past.said = MS!Taken.said
      BY <1>5, <1>7
    <3>2. UNCHANGED <<v7, v8, v9, v10>>
      BY <1>1
    <3> QED
      BY <1>1, <1>5, <1>9, <1>10, <2>2, <2>12, <3>1, <3>2, LineEnds
  <2>14. MS!BufferIsLine'
    <3>1. (MS!BufferIsLine <=> BufferHolds \/ (v2 /\ v3 = << >> /\ v4 = << >> /\ ~v5))'
      BY <2>4, <2>11, BufferIs, PTL
    <3> QED
      BY <2>9, <3>1
  <2>15. MS!EndIsLast'
    BY <1>1 DEF MS!EndIsLast
  <2> QED
    BY <2>4, <2>11, <2>13, <2>14, <2>15 DEF MS!IInv
<1> QED
  BY <1>9, <1>11, <1>12

LEMMA LastIsTaken ==
  ASSUME MS!IInv, MS!LastFrame PROVE MS!IInv'
<1>1. /\ v10 = "running" /\ v6 = None /\ v8 = None /\ v2 /\ v3 = << >>
      /\ UNCHANGED <<v1, v2, v3, v7, v8, v9>>
  BY DEF MS!LastFrame, MS!Idle
<1>2. MS!TypeOK /\ MS!ChunkIsLast /\ MS!BufferIsLine /\ MS!AnswersAreNext /\ MS!EndIsLast
  BY DEF MS!IInv
<1>3. After(v1, Looked) \in Pasts /\ Looked' = Looked /\ After(v1, Looked)' = After(v1, Looked)
  BY <1>1, <1>2, LookedAt DEF Looked, After
<1>4. CASE v4 # << >> \/ v5
  <2>1. /\ v6' = MS!Finished(v4, v5) /\ v4' = << >> /\ v5' = FALSE /\ v10' = v10
    BY <1>4 DEF MS!LastFrame
  <2>2. BufferHolds
    BY <1>2, <1>4, BufferIs
  <2>3. MS!Taken = After(v1, Looked)
    BY <1>2, <2>2, ReadSoFar
  <2>4. /\ v5 <=> Len(After(v1, Looked).line) > McpLimit
        /\ v4 = IF v5 THEN << >> ELSE After(v1, Looked).line
        /\ v5 \in BOOLEAN
    BY <1>2, <2>2 DEF BufferHolds, MS!TypeOK
  <2>5. v6' \in MS!Frames
    <3>1. After(v1, Looked).line \in Seq(Symbols) /\ v7 \in MS!Connections
      BY <1>2, <1>3 DEF Pasts, MS!TypeOK
    <3>2. MS!Finished(v4, v5) \in MS!Frames
      BY <2>4, <3>1, FrameIsLine
    <3> QED
      BY <2>1, <3>2
  <2>6. MS!TypeOK'
    <3>1. << >> \in Seq(Symbols)
      OBVIOUS
    <3> QED
      BY <1>1, <1>2, <2>1, <2>5, <3>1 DEF MS!TypeOK
  <2>7. MS!ChunkIsLast'
    BY <1>1, <1>2 DEF MS!ChunkIsLast
  <2>8. MS!Taken' = MS!Reads(After(v1, Looked), Newline)
    <3>1. (MS!Taken = IF v4 = << >> /\ ~v5 THEN MS!Reads(After(v1, Looked), Newline)
                      ELSE After(v1, Looked))'
      BY <2>6, <2>7, ReadSoFar, PTL
    <3> QED
      BY <1>3, <2>1, <3>1
  <2>9. MS!AnswersAreNext'
    <3>1. UNCHANGED <<v7, v8, v9, v10>>
      BY <1>1, <2>1
    <3> DEFINE past == After(v1, Looked)
    <3>2. past \in Pasts /\ past.connection = MS!Taken.connection /\ past.said = MS!Taken.said
      BY <1>3, <2>3
    <3>3. (v5 <=> Len(past.line) > McpLimit) /\ (v4 = IF v5 THEN << >> ELSE past.line)
      BY <2>4
    <3>4. MS!Taken' = MS!Reads(past, Newline)
      BY <2>8
    <3> HIDE DEF past
    <3> QED
      BY <1>1, <2>1, <2>4, <3>1, <3>2, <3>3, <3>4, LineEnds
  <2>10. MS!BufferIsLine'
    <3>1. (MS!BufferIsLine <=> BufferHolds \/ (v2 /\ v3 = << >> /\ v4 = << >> /\ ~v5))'
      BY <2>6, <2>7, BufferIs, PTL
    <3> QED
      BY <1>1, <2>1, <3>1
  <2>11. MS!EndIsLast'
    BY <1>1, <2>1 DEF MS!EndIsLast
  <2> QED
    BY <2>6, <2>7, <2>9, <2>10, <2>11 DEF MS!IInv
<1>5. CASE v4 = << >> /\ ~v5
  <2>1. v10' = "ended" /\ UNCHANGED <<v4, v5, v6>>
    BY <1>5 DEF MS!LastFrame
  <2>2. MS!ChunkIsLast' /\ MS!Taken' = MS!Taken /\ MS!BufferIsLine'
    BY <1>1, <2>1, FramingStays
  <2>3. MS!TypeOK'
    BY <1>1, <1>2, <2>1 DEF MS!TypeOK
  <2>4. MS!AnswersAreNext'
    BY <1>1, <1>2, <2>1, <2>2 DEF MS!AnswersAreNext, MS!Pending
  <2>5. MS!EndIsLast'
    BY <1>1, <1>5, <2>1 DEF MS!EndIsLast
  <2> QED
    BY <2>2, <2>3, <2>4, <2>5 DEF MS!IInv
<1> QED
  BY <1>4, <1>5

LEMMA InputIsClosed ==
  ASSUME MS!IInv, MS!InputCloses PROVE MS!IInv'
<1>1. ~v2 /\ v2' = TRUE /\ UNCHANGED <<v1, v3, v4, v5, v6, v7, v8, v9, v10>>
  BY DEF MS!InputCloses, MS!framing
<1>2. MS!TypeOK /\ MS!AnswersAreNext /\ MS!EndIsLast
  BY DEF MS!IInv
<1>3. MS!ChunkIsLast' /\ MS!Taken' = MS!Taken /\ MS!BufferIsLine'
  BY <1>1, FramingStays
<1>4. MS!TypeOK'
  BY <1>1, <1>2 DEF MS!TypeOK
<1>5. MS!AnswersAreNext'
  BY <1>1, <1>2, <1>3 DEF MS!AnswersAreNext, MS!Pending
<1>6. MS!EndIsLast'
  BY <1>1, <1>2 DEF MS!EndIsLast
<1> QED
  BY <1>3, <1>4, <1>5, <1>6 DEF MS!IInv

LEMMA FrameIsHandled ==
  ASSUME MS!IInv, MS!HandleFrame PROVE MS!IInv'
<1>1. /\ v6 # None /\ v8 = None /\ v10 = "running" /\ v6' = None
      /\ v8' = MS!FrameReply(v7, v6) /\ v7' = MS!FrameHeard(v7, v6)
      /\ UNCHANGED <<v1, v2, v3, v4, v5, v9, v10>>
  BY DEF MS!HandleFrame, MS!framing
<1>2. MS!TypeOK /\ MS!AnswersAreNext /\ MS!EndIsLast
  BY DEF MS!IInv
<1>3. MS!ChunkIsLast' /\ MS!Taken' = MS!Taken /\ MS!BufferIsLine'
  BY <1>1, FramingStays
<1>4. v6 \in MS!Frames /\ v7 \in MS!Connections
  BY <1>1, <1>2 DEF MS!TypeOK
<1>5. v7' \in MS!Connections /\ v8' \in MS!Replies \union {None}
  BY <1>1, <1>4, FrameAnswers
<1>6. MS!TypeOK'
  BY <1>1, <1>2, <1>5 DEF MS!TypeOK
<1>7. MS!Pending' = MS!Pending
  BY <1>1 DEF MS!Pending
<1>8. MS!AnswersAreNext'
  BY <1>1, <1>2, <1>3, <1>7 DEF MS!AnswersAreNext
<1>9. MS!EndIsLast'
  BY <1>1 DEF MS!EndIsLast
<1> QED
  BY <1>3, <1>6, <1>8, <1>9 DEF MS!IInv

LEMMA AnswerIsWritten ==
  ASSUME MS!IInv, MS!ResponseWritten PROVE MS!IInv'
<1>1. /\ v8 # None /\ v10 = "running" /\ v8' = None
      /\ \/ v9' = Append(v9, v8) /\ v10' = v10
         \/ v10' = "failed" /\ v9' = v9
      /\ UNCHANGED <<v1, v2, v3, v4, v5, v6, v7>>
  BY DEF MS!ResponseWritten, MS!framing
<1>2. MS!TypeOK /\ MS!AnswersAreNext /\ MS!EndIsLast /\ MS!ChunkIsLast
  BY DEF MS!IInv
<1>3. MS!ChunkIsLast' /\ MS!Taken' = MS!Taken /\ MS!BufferIsLine'
  BY <1>1, FramingStays
<1>4. v6 = None /\ MS!Pending = v8
  BY <1>1, <1>2 DEF MS!AnswersAreNext, MS!Pending
<1>5. v8 \in MS!Replies /\ v9 \in Seq(MS!Replies)
  BY <1>1, <1>2 DEF MS!TypeOK
<1>6. Append(v9, v8) \in Seq(MS!Replies)
  BY <1>5
<1>7. MS!TypeOK'
  BY <1>1, <1>2, <1>6 DEF MS!TypeOK
<1>8. MS!Taken.connection = v7 /\ MS!Taken.said = Append(v9, v8)
  BY <1>1, <1>2, <1>4 DEF MS!AnswersAreNext, MS!Says
<1>9. CASE v9' = Append(v9, v8) /\ v10' = v10
  <2>1. MS!Pending' = None /\ v6' = None
    BY <1>1, <1>4 DEF MS!Pending
  <2>2. MS!IsPrefix(v9', MS!Taken'.said)
    <3>1. MS!IsPrefix(Append(v9, v8), Append(v9, v8))
      BY <1>6, PrefixOfSaid
    <3> QED
      BY <1>3, <1>8, <1>9, <3>1
  <2>3. MS!Says(v9', None) = v9'
    BY DEF MS!Says
  <2> QED
    BY <1>1, <1>3, <1>7, <1>8, <1>9, <2>1, <2>2, <2>3
       DEF MS!AnswersAreNext, MS!EndIsLast, MS!IInv
<1>10. CASE v10' = "failed" /\ v9' = v9
  <2>1. MS!AnswersAreNext'
    BY <1>1, <1>2, <1>3, <1>10 DEF MS!AnswersAreNext
  <2>2. MS!EndIsLast'
    BY <1>10 DEF MS!EndIsLast
  <2> QED
    BY <1>3, <1>7, <2>1, <2>2 DEF MS!IInv
<1> QED
  BY <1>1, <1>9, <1>10

LEMMA McpStep ==
  MS!IInv /\ [MS!Next]_(MS!mcpVars) => MS!IInv'
<1> SUFFICES ASSUME MS!IInv, [MS!Next]_(MS!mcpVars) PROVE MS!IInv'
  OBVIOUS
<1>1. CASE UNCHANGED MS!mcpVars
  <2>1. UNCHANGED <<v1, v2, v3, v4, v5, v6, v7, v8, v9, v10>>
    BY <1>1 DEF MS!mcpVars, MS!framing
  <2>2. MS!ChunkIsLast' /\ MS!Taken' = MS!Taken /\ MS!BufferIsLine'
    BY <2>1, FramingStays
  <2>3. MS!TypeOK /\ MS!AnswersAreNext /\ MS!EndIsLast
    BY DEF MS!IInv
  <2>4. MS!TypeOK'
    BY <2>1, <2>3 DEF MS!TypeOK
  <2>5. MS!AnswersAreNext' /\ MS!EndIsLast'
    BY <2>1, <2>2, <2>3 DEF MS!AnswersAreNext, MS!Pending, MS!EndIsLast
  <2> QED
    BY <2>2, <2>4, <2>5 DEF MS!IInv
<1>2. CASE MS!Next
  BY <1>2, ChunkTaken, SegmentKeeps, InputIsClosed, LastIsTaken, FrameIsHandled,
     AnswerIsWritten DEF MS!Next
<1> QED
  BY <1>1, <1>2

\* What is written is what the whole input is answered, as far as it goes.
LEMMA AnswersAreTold ==
  ASSUME MS!IInv PROVE MS!AnswersAreThoseOfTheLines
<1>1. MS!TypeOK /\ MS!ChunkIsLast /\ MS!BufferIsLine /\ MS!AnswersAreNext /\ MS!EndIsLast
  BY DEF MS!IInv
<1>2. /\ Looked \in Nat /\ Looked <= Len(v1) /\ Len(v1) = Looked + Len(v3)
      /\ v1 \in Seq(MS!Input) /\ After(v1, Looked) \in Pasts
      /\ MS!Consumed \in Seq(MS!Input) /\ MS!Session(MS!Consumed) = After(v1, Looked)
  BY <1>1, LookedAt
<1>3. v9 \in Seq(MS!Replies) /\ Newline \in MS!Input
  BY <1>1 DEF MS!TypeOK, MS!Input
<1>4. /\ MS!WholeAnswers = MS!Reads(MS!Session(v1), Newline).said
      /\ MS!Session(v1) \in Pasts
  BY <1>2, <1>3, SessionAppend, SessionType DEF MS!WholeAnswers
<1>5. MS!IsPrefix(v9, MS!Taken.said)
  BY <1>1 DEF MS!AnswersAreNext
<1>6. v3 = << >> => Looked = Len(v1) /\ After(v1, Looked) = MS!Session(v1)
  <2>1. Len(<< >>) = 0 /\ Len(v1) \in Nat
    BY <1>2
  <2>2. v3 = << >> => Looked = Len(v1)
    BY <1>2, <2>1
  <2> QED
    BY <1>2, <2>2, AfterAll
<1>7. MS!Taken = IF v4 = << >> /\ ~v5 THEN MS!Reads(After(v1, Looked), Newline)
                 ELSE After(v1, Looked)
  BY <1>1, ReadSoFar
<1>8. MS!IsPrefix(v9, MS!WholeAnswers)
  <2>1. CASE BufferHolds
    <3>1. MS!Taken = After(v1, Looked)
      BY <1>1, <2>1, ReadSoFar
    <3>2. MS!IsPrefix(v9, After(v1, Looked).said)
      BY <1>5, <3>1
    <3>3. MS!IsPrefix(v9, MS!Session(v1).said)
      BY <1>2, <1>3, <3>2, SaidStays
    <3> QED
      BY <1>3, <1>4, <3>3, ReadsKeeps
  <2>2. CASE v2 /\ v3 = << >> /\ v4 = << >> /\ ~v5
    BY <1>4, <1>5, <1>6, <1>7, <2>2
  <2> QED
    BY <1>1, <2>1, <2>2, BufferIs
<1>9. v10 = "ended" => v9 = MS!WholeAnswers
  <2> SUFFICES ASSUME v10 = "ended" PROVE v9 = MS!WholeAnswers
    OBVIOUS
  <2>1. v3 = << >> /\ v4 = << >> /\ ~v5 /\ v6 = None /\ v8 = None
    BY <1>1 DEF MS!EndIsLast
  <2>2. MS!Taken.said = v9
    BY <1>1, <2>1 DEF MS!AnswersAreNext, MS!Pending, MS!Says
  <2> QED
    BY <1>4, <1>6, <1>7, <2>1, <2>2
<1>10. MS!Idle /\ v3 = << >> /\ ~v2
         => MS!Session(v1).connection = v7 /\ MS!Session(v1).said = v9
  <2> SUFFICES ASSUME MS!Idle, v3 = << >>, ~v2
               PROVE  MS!Session(v1).connection = v7 /\ MS!Session(v1).said = v9
    OBVIOUS
  <2>1. v10 = "running" /\ v6 = None /\ v8 = None
    BY DEF MS!Idle
  <2>2. MS!Taken.connection = v7 /\ MS!Taken.said = v9
    BY <1>1, <2>1 DEF MS!AnswersAreNext, MS!Pending, MS!Says
  <2>3. MS!Taken = MS!Session(v1)
    BY <1>1, <1>6, BufferIs, ReadSoFar
  <2> QED
    BY <2>2, <2>3
<1> QED
  BY <1>8, <1>9, <1>10 DEF MS!AnswersAreThoseOfTheLines

-----------------------------------------------------------------------------
LEMMA McpPart ==
  ASSUME part = "mcp", [ServicesNext]_desktopVars
  PROVE  [MS!Next]_(MS!mcpVars)
BY DEF ServicesNext, Moves, desktopVars, MS!mcpVars, MS!framing

\* The MCP server answers every line of its input as if it had been read by itself, in
\* order and once, whatever is sent and however it is cut into chunks: IInv says of
\* what readFrames has looked at where its line is, and that the answers written and
\* the one on its way are those to it; the answers to more begin with them.
THEOREM McpAlwaysTrue == ServicesSpec => []McpAnswersAreTrue
<1> DEFINE Inv == part = "mcp" => MS!IInv
<1>1. ServicesInit => Inv
  BY McpInit DEF ServicesInit
<1>2. Inv /\ [ServicesNext]_desktopVars => Inv'
  BY ServicesPartStays, McpPart, McpStep
<1>3. Inv => McpAnswersAreTrue
  BY AnswersAreTold DEF McpAnswersAreTrue
<1> QED
  BY <1>1, <1>2, <1>3, PTL DEF ServicesSpec
=============================================================================
