------------------------------ MODULE PtyHost ------------------------------
(***************************************************************************)
(* The terminal of one agent: the handle of WindowsConPtyRuntime, the      *)
(* client that talks to the host process over an IPC channel, the host and *)
(* the agent in its pseudo console.  Requests time out, answers come late, *)
(* the channel breaks, each process may die.                               *)
(*                                                                         *)
(* Left out: the contents of launches, input and output; messages that are *)
(* not well-formed, which neither side sends; subscriptions that throw.    *)
(***************************************************************************)
EXTENDS Naturals, Sequences, SequencesExt

CONSTANTS
  Requests,     \* bound: the requests that callers make
  MaxOutput     \* bound: the outputs of the agent

ASSUME MaxOutputType == MaxOutput \in Nat

VARIABLES
  parent,       \* the desktop process: "up" or "gone"
  handle,       \* ManagedConPtyHandle.state
  events,       \* history variable: the events published to the sink
  request,      \* Request -> its promise
  operation,    \* Request -> what it asks for
  connected,    \* child.connected, as the client sees it
  killed,       \* child.killed
  finalized,    \* the host's "close" event has been handled
  exitKnown,    \* pendingTerminalExit: "none", "failure" or "exit"
  reported,     \* the process id of the agent is known
  startupTimer, \* the startup timer is armed
  host,         \* the host process
  agent,        \* the agent process
  outputs,      \* number of outputs so far
  done,         \* history variable: the requests that the host carried out
  down, up      \* messages to the host and to the client

clientVars == <<handle, events, request, operation, connected, killed,
                finalized, exitKnown, reported, startupTimer>>
hostVars == <<host, agent, outputs, done>>
ptyVars == <<parent, clientVars, hostVars, down, up>>

Operations == {"write", "terminate"}  \* a resize is handled like a write
Message(type, requestId, ok) == [type |-> type, requestId |-> requestId, ok |-> ok]
Plain(type) == [type |-> type]
ToHost == [type : {"launch"}]
            \cup [type : Operations, requestId : Requests, ok : BOOLEAN]
ToClient == [type : {"ready", "data", "exit", "failure"}]
              \cup [type : {"response"}, requestId : Requests, ok : BOOLEAN]
Usable == {"running", "terminating", "terminationFailed"}

TypeOK ==
  /\ parent \in {"up", "gone"}
  /\ handle \in {"none", "exited"} \cup Usable
  /\ events \in Seq({"started", "output", "failed", "exited"})
  /\ request \in [Requests -> {"unused", "pending", "resolved", "rejected"}]
  /\ operation \in [Requests -> Operations \cup {"none"}]
  /\ connected \in BOOLEAN /\ killed \in BOOLEAN /\ finalized \in BOOLEAN
  /\ reported \in BOOLEAN /\ startupTimer \in BOOLEAN
  /\ exitKnown \in {"none", "failure", "exit"}
  /\ host \in {"none", "waiting", "starting", "running", "settled", "gone"}
  /\ agent \in {"none", "live", "killed", "dead"}
  /\ outputs \in 0..MaxOutput
  /\ done \subseteq Requests
  /\ down \in Seq(ToHost)
  /\ up \in Seq(ToClient)

Init ==
  /\ parent = "up"
  /\ handle = "none" /\ events = << >>
  /\ request = [r \in Requests |-> "unused"]
  /\ operation = [r \in Requests |-> "none"]
  /\ connected = FALSE /\ killed = FALSE /\ finalized = FALSE
  /\ exitKnown = "none" /\ reported = FALSE /\ startupTimer = FALSE
  /\ host = "none" /\ agent = "none" /\ outputs = 0 /\ done = {}
  /\ down = << >> /\ up = << >>

-----------------------------------------------------------------------------
(* Helpers of the client.                                                  *)

\* PtyEventDispatcher: nothing is published after the exit.
Publish(event) ==
  events' = IF Contains(events, "exited") THEN events ELSE Append(events, event)

\* recordHostFailure: the host is killed, its "close" event ends everything.
RecordHostFailure ==
  /\ exitKnown' = IF exitKnown = "none" THEN "failure" ELSE exitKnown
  /\ killed' = TRUE

\* A rejected request fails its operation; a rejected terminate request fails
\* the termination.
Rejected(r) ==
  /\ request' = [request EXCEPT ![r] = "rejected"]
  /\ handle' = IF operation[r] = "terminate" THEN "terminationFailed" ELSE handle
  /\ Publish("failed")

-----------------------------------------------------------------------------
(* The handle: open, write, resize, terminate.                             *)

Open ==
  /\ parent = "up" /\ handle = "none"
  /\ handle' = "running" /\ events' = <<"started">>
  /\ connected' = TRUE /\ startupTimer' = TRUE
  /\ host' = "waiting"
  /\ down' = <<Plain("launch")>>
  /\ UNCHANGED <<parent, request, operation, killed, finalized, exitKnown,
                 reported, agent, outputs, done, up>>

\* Input that is no text or a size that is out of range.
CallInvalid ==
  /\ parent = "up" /\ handle = "running"
  /\ Len(events) = 1 \* bound
  /\ Publish("failed")
  /\ UNCHANGED <<parent, handle, request, operation, connected, killed,
                 finalized, exitKnown, reported, startupTimer, hostVars, down, up>>

\* assertRunning; a client whose channel is gone rejects at once.
Call(r, wanted) ==
  /\ parent = "up" /\ request[r] = "unused"
  /\ \/ wanted = "write" /\ handle = "running"
     \/ wanted = "terminate" /\ handle \in {"running", "terminationFailed"}
  /\ operation' = [operation EXCEPT ![r] = wanted]
  /\ \/ /\ connected
        /\ request' = [request EXCEPT ![r] = "pending"]
        /\ handle' = IF wanted = "terminate" THEN "terminating" ELSE handle
        /\ down' = Append(down, Message(wanted, r, TRUE))
        /\ UNCHANGED events
     \/ /\ ~connected
        /\ request' = [request EXCEPT ![r] = "rejected"]
        /\ handle' = IF wanted = "terminate" THEN "terminationFailed" ELSE handle
        /\ Publish("failed")
        /\ UNCHANGED down
  /\ UNCHANGED <<parent, connected, killed, finalized, exitKnown, reported,
                 startupTimer, hostVars, up>>

-----------------------------------------------------------------------------
(* The client.                                                             *)

\* The callback of a send reports that the message could not be delivered.
SendFails(r) ==
  /\ parent = "up" /\ request[r] = "pending" /\ host = "gone"
  /\ Rejected(r)
  /\ RecordHostFailure
  /\ UNCHANGED <<parent, operation, connected, finalized, reported,
                 startupTimer, hostVars, down, up>>

\* The time limit of a request does not settle it.
TimerFires(r) ==
  /\ parent = "up" /\ request[r] = "pending" /\ ~killed
  /\ RecordHostFailure
  /\ UNCHANGED <<parent, handle, events, request, operation, connected,
                 finalized, reported, startupTimer, hostVars, down, up>>

StartupTimerFires ==
  /\ parent = "up" /\ startupTimer
  /\ startupTimer' = FALSE
  /\ RecordHostFailure
  /\ UNCHANGED <<parent, handle, events, request, operation, connected,
                 finalized, reported, hostVars, down, up>>

Receives(type) ==
  /\ parent = "up" /\ up # << >> /\ Head(up).type = type
  /\ up' = Tail(up)
  /\ UNCHANGED <<parent, operation, connected, finalized, hostVars, down>>

ReceiveReady ==
  /\ Receives("ready")
  /\ startupTimer' = FALSE /\ reported' = TRUE
  /\ UNCHANGED <<handle, events, request, killed, exitKnown>>

ReceiveData ==
  /\ Receives("data")
  /\ Publish("output")
  /\ UNCHANGED <<handle, request, killed, exitKnown, reported, startupTimer>>

\* An answer to a request that is no longer pending condemns the host.
ReceiveResponse ==
  /\ Receives("response")
  /\ LET r == Head(up).requestId
     IN \/ /\ request[r] = "pending" /\ Head(up).ok
           /\ request' = [request EXCEPT ![r] = "resolved"]
           /\ UNCHANGED <<handle, events, exitKnown, killed>>
        \/ /\ request[r] = "pending" /\ ~Head(up).ok
           /\ Rejected(r)
           /\ UNCHANGED <<exitKnown, killed>>
        \/ /\ request[r] # "pending"
           /\ RecordHostFailure
           /\ UNCHANGED <<handle, events, request>>
  /\ UNCHANGED <<reported, startupTimer>>

\* Mutant: the exit is published as soon as the host reports it.
ReceiveExitAtOnce ==
  /\ \E type \in {"exit", "failure"} : Receives(type) /\ exitKnown' = type
  /\ startupTimer' = FALSE
  /\ handle' = "exited" /\ Publish("exited")
  /\ UNCHANGED <<request, killed, reported>>

\* The exit that the host reports waits for the end of the host.
ReceiveExit ==
  /\ \E type \in {"exit", "failure"} : Receives(type) /\ exitKnown' = type
  /\ startupTimer' = FALSE
  /\ UNCHANGED <<handle, events, request, killed, reported>>

Disconnects ==
  /\ parent = "up" /\ connected /\ host = "gone"
  /\ connected' = FALSE
  /\ UNCHANGED <<parent, handle, events, request, operation, killed, finalized,
                 exitKnown, reported, startupTimer, hostVars, down, up>>

\* finalize: the host has ended and its messages have been read.  The exit
\* is published first, then what is pending is rejected; rejections that come
\* after the exit publish nothing.
Close ==
  /\ parent = "up" /\ host = "gone" /\ up = << >> /\ ~finalized
  /\ finalized' = TRUE /\ connected' = FALSE /\ startupTimer' = FALSE
  /\ exitKnown' = IF exitKnown = "none" THEN "failure" ELSE exitKnown
  /\ handle' = "exited"
  /\ events' = events \o (IF handle = "running" /\ exitKnown' = "failure"
                          THEN <<"failed", "exited">> ELSE <<"exited">>)
  /\ request' = [r \in Requests |->
                   IF request[r] = "pending" THEN "rejected" ELSE request[r]]
  /\ UNCHANGED <<parent, operation, killed, reported, hostVars, down, up>>

\* The desktop process quits or dies, and its memory is lost.
ParentGoes ==
  /\ parent = "up" /\ handle # "none"
  /\ parent' = "gone"
  /\ handle' = "none" /\ events' = << >>
  /\ request' = [r \in Requests |-> "unused"]
  /\ operation' = [r \in Requests |-> "none"]
  /\ connected' = FALSE /\ killed' = FALSE /\ finalized' = FALSE
  /\ exitKnown' = "none" /\ reported' = FALSE /\ startupTimer' = FALSE
  /\ up' = << >>
  /\ UNCHANGED <<hostVars, down>>

-----------------------------------------------------------------------------
(* The host process.                                                       *)

HostAlive == host \in {"waiting", "starting", "running", "settled"}
Settle(type) == host' = "settled" /\ up' = Append(up, Plain(type))

\* The launch is valid and the pseudo console has started.
HostLaunches ==
  /\ host = "waiting" /\ down # << >> /\ Head(down).type = "launch"
  /\ host' = "starting" /\ agent' = "live"
  /\ down' = Tail(down)
  /\ UNCHANGED <<parent, clientVars, outputs, done, up>>

HostReportsPid ==
  /\ host = "starting"
  /\ host' = "running"
  /\ up' = Append(up, Plain("ready"))
  /\ UNCHANGED <<parent, clientVars, agent, outputs, done, down>>

\* A terminate request only starts the end of the agent; any request may throw.
HostHandles ==
  /\ host \in {"starting", "running"}
  /\ down # << >>
  /\ LET m == Head(down)
     IN \/ /\ up' = Append(up, Message("response", m.requestId, TRUE))
           /\ done' = done \cup {m.requestId}
           /\ agent' = IF m.type = "terminate" /\ agent = "live"
                       THEN "killed" ELSE agent
        \/ /\ up' = Append(up, Message("response", m.requestId, FALSE))
           /\ UNCHANGED <<done, agent>>
  /\ down' = Tail(down)
  /\ UNCHANGED <<parent, clientVars, host, outputs>>

\* A settled host lets requests drop.
HostIgnores ==
  /\ host = "settled" /\ down # << >>
  /\ down' = Tail(down)
  /\ UNCHANGED <<parent, clientVars, hostVars, up>>

AgentOutputs ==
  /\ host \in {"starting", "running"} /\ agent \in {"live", "killed"}
  /\ outputs < MaxOutput
  /\ outputs' = outputs + 1
  /\ up' = Append(up, Plain("data"))
  /\ UNCHANGED <<parent, clientVars, host, agent, done, down>>

AgentEnds ==
  /\ agent \in {"live", "killed"}
  /\ agent' = "dead"
  /\ UNCHANGED <<parent, clientVars, host, outputs, done, down, up>>

\* finish.
HostReportsExit ==
  /\ host \in {"starting", "running"} /\ agent = "dead"
  /\ Settle("exit")
  /\ UNCHANGED <<parent, clientVars, agent, outputs, done, down>>

\* failHost: an invalid launch, an exception, a send that fails.
HostFails ==
  /\ host \in {"waiting", "starting", "running"}
  /\ Settle("failure")
  /\ UNCHANGED <<parent, clientVars, agent, outputs, done, down>>

\* The host ends and Windows reclaims the pseudo console with its processes.
HostEnds ==
  /\ host' = "gone"
  /\ agent' = IF agent = "none" THEN "none" ELSE "dead"
  /\ down' = << >>
  /\ UNCHANGED <<parent, clientVars, outputs, done>>

\* The last message has been flushed, or the shutdown timer fires without.
HostExits ==
  /\ host = "settled"
  /\ HostEnds
  /\ \/ UNCHANGED up
     \/ up # << >> /\ Last(up).type \in {"exit", "failure"} /\ up' = Front(up)

\* Mutant: only a host that has settled notices.
HostLosesParentSettled ==
  /\ parent = "gone" /\ host = "settled"
  /\ HostEnds
  /\ UNCHANGED up

\* terminateAfterParentDisconnect.
HostLosesParent ==
  /\ parent = "gone" /\ HostAlive
  /\ HostEnds
  /\ UNCHANGED up

\* The client kills it, or it crashes.
HostDies ==
  /\ HostAlive
  /\ HostEnds
  /\ UNCHANGED up

-----------------------------------------------------------------------------
(* Specification.                                                          *)

ClientStep ==
  \/ StartupTimerFires \/ ReceiveReady \/ ReceiveData \/ ReceiveResponse
  \/ ReceiveExit \/ Disconnects \/ Close
  \/ \E r \in Requests : TimerFires(r)

HostStep ==
  \/ HostLaunches \/ HostReportsPid \/ HostHandles \/ HostIgnores
  \/ HostReportsExit \/ HostExits \/ HostLosesParent

Next ==
  \/ Open \/ CallInvalid
  \/ \E r \in Requests, wanted \in Operations : Call(r, wanted)
  \/ \E r \in Requests : SendFails(r)
  \/ ClientStep \/ ParentGoes
  \/ HostStep \/ AgentOutputs \/ AgentEnds \/ HostFails \/ HostDies

Spec == Init /\ [][Next]_ptyVars

\* Timers fire and messages are read; a host that was killed dies; an agent
\* whose pseudo console was closed ends.  Nobody has to call anything and an
\* agent need not end by itself.
Fairness ==
  /\ WF_ptyVars(ClientStep)
  /\ WF_ptyVars(HostStep)
  /\ WF_ptyVars(killed /\ HostDies)
  /\ WF_ptyVars(agent = "killed" /\ AgentEnds)

FairSpec == Spec /\ Fairness

-----------------------------------------------------------------------------
(* Properties.                                                             *)

\* An exit is published only when the agent's process has ended with its
\* host, and it is the agent's own exit only if the agent ended first.
ExitMeansEnded ==
  /\ handle = "exited" => host = "gone" /\ agent # "live"
  /\ exitKnown = "exit" => agent = "dead"

\* A promise resolves only for a request that the host has carried out.
NoFalseSuccess == \A r \in Requests : request[r] = "resolved" => r \in done

\* What is on its way is true: an answer of success is for a request that the
\* host has carried out, and a reported exit is that of an ended agent.
MessagesAreTrue ==
  \A i \in DOMAIN up :
    /\ up[i].type = "response" /\ up[i].ok => up[i].requestId \in done
    /\ up[i].type = "exit" => agent = "dead"

\* The host gets the launch before any request, and only once.
LaunchComesFirst ==
  \A i \in DOMAIN down :
    down[i].type = "launch" => i = 1 /\ host \notin {"starting", "running"}

\* The handle, the promises, the events and the channel of a desktop process
\* follow its host: there is a handle from the spawn to the quit, and after
\* its exit nothing is pending, nothing is read and nothing is published.
HandleFollowsHost ==
  /\ handle # "none" => parent = "up"
  /\ parent = "up" => (handle = "none" <=> host = "none")
  /\ handle = "none" => events = << >>
  /\ host = "none" => up = << >>
  /\ handle = "exited" <=> finalized
  /\ finalized => up = << >>
  /\ finalized <=> Contains(events, "exited")
  /\ \A r \in Requests : request[r] = "pending" => handle \in Usable

\* The agent lives only under a host that has launched it.
AgentFollowsHost ==
  /\ host \in {"none", "waiting"} => agent = "none"
  /\ host \in {"starting", "running"} => agent # "none"
  /\ host = "gone" => agent \in {"none", "dead"}

PtySafety ==
  /\ TypeOK
  /\ ExitMeansEnded
  /\ NoFalseSuccess
  /\ MessagesAreTrue
  /\ LaunchComesFirst
  /\ HandleFollowsHost
  /\ AgentFollowsHost

\* The handle keeps the contract that the coordinator relies on.
Contract ==
  INSTANCE PtyContract WITH
    process <- CASE host = "none" -> "none"
                 [] host = "gone" -> "dead"
                 [] OTHER -> "live"
KeepsContract == Contract!Spec

\* Every promise settles: a time limit ends in the rejection of everything.
RequestsSettle ==
  \A r \in Requests :
    request[r] = "pending" ~> request[r] # "pending" \/ parent = "gone"

\* Neither a termination nor the end of the desktop process leaves the agent
\* running, unless the termination is reported as failed.
AgentIsNotLeft ==
  /\ handle = "terminating" ~> handle # "terminating" \/ parent = "gone"
  /\ parent = "gone" ~> agent \notin {"live", "killed"}

\* windows-conpty-host-client.ts: whatever is lost or late, nobody waits for ever
\* on a request or a termination, and no agent outlives the desktop process.
EverythingEnds == RequestsSettle /\ AgentIsNotLeft
=============================================================================
