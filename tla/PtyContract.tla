---------------------------- MODULE PtyContract ----------------------------
(***************************************************************************)
(* What the runtime promises to the coordinator about one agent process:   *)
(* events come in an order that ends with one exit, and an exit is reported*)
(* only when the process has ended.  AgentSessions is built on this.       *)
(***************************************************************************)
EXTENDS Sequences

VARIABLES
  handle,   \* the state of the handle that open returned
  process,  \* "none", "live", "dead"
  events    \* the events that were published

contract == <<handle, process, events>>

Usable == {"running", "terminating", "terminationFailed"}
Publish(more) == events' = events \o more

Init == handle = "none" /\ process = "none" /\ events = << >>

Open ==
  /\ handle = "none" /\ process = "none"
  /\ handle' = "running" /\ process' = "live" /\ Publish(<<"started">>)

OutputArrives ==
  /\ handle \in Usable
  /\ Publish(<<"output">>)
  /\ UNCHANGED <<handle, process>>

OperationFails ==
  /\ handle \in Usable
  /\ Publish(<<"failed">>)
  /\ UNCHANGED <<handle, process>>

Terminate ==
  /\ handle \in {"running", "terminationFailed"}
  /\ handle' = "terminating"
  /\ UNCHANGED <<process, events>>

TerminationFails ==
  /\ handle \in Usable
  /\ handle' = "terminationFailed"
  /\ Publish(<<"failed">>)
  /\ UNCHANGED process

ProcessEnds ==
  /\ process = "live"
  /\ process' = "dead"
  /\ UNCHANGED <<handle, events>>

\* Only an exit that nobody asked for counts as a failure.
Exit ==
  /\ handle \in Usable /\ process = "dead"
  /\ handle' = "exited"
  /\ \/ Publish(<<"exited">>)
     \/ handle = "running" /\ Publish(<<"failed", "exited">>)
  /\ UNCHANGED process

\* The desktop process ends, and with it what it knew.
Forget ==
  /\ handle # "none"
  /\ handle' = "none" /\ events' = << >>
  /\ UNCHANGED process

Next == Open \/ OutputArrives \/ OperationFails \/ Terminate
        \/ TerminationFails \/ ProcessEnds \/ Exit \/ Forget

Spec == Init /\ [][Next]_contract
=============================================================================
