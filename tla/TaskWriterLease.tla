-------------------------- MODULE TaskWriterLease --------------------------
(***************************************************************************)
(* What the Agent Session store promises to everything that writes in the  *)
(* Worktree of a Task: the right to write is a lease.  One Session of a    *)
(* Task holds it at a time, takes it at most once, and a Session that gave *)
(* it up never gets it back.                                               *)
(***************************************************************************)
CONSTANTS Sessions, Tasks, TaskOf

VARIABLES
  holders,  \* Sessions that may still have a code-writing process
  spent     \* Sessions that gave the lease up

lease == <<holders, spent>>

Init == holders = {} /\ spent = {}

Acquire(s) ==
  /\ s \notin holders \cup spent
  /\ \A t \in holders : TaskOf[t] # TaskOf[s]
  /\ holders' = holders \cup {s}
  /\ UNCHANGED spent

Release(s) ==
  /\ s \in holders
  /\ holders' = holders \ {s}
  /\ spent' = spent \cup {s}

Next == \E s \in Sessions : Acquire(s) \/ Release(s)

Spec == Init /\ [][Next]_lease
=============================================================================
