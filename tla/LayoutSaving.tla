---------------------------- MODULE LayoutSaving ----------------------------
(***************************************************************************)
(* How a workspace window saves its layout: changes are gathered for a     *)
(* moment, each attempt waits for the one before it and carries the        *)
(* revision that the window knew when its timer fired, and the store takes *)
(* it only if that is still the stored revision.                           *)
(*                                                                         *)
(* A layout is the number of the change of the user that made it.  What a  *)
(* layout is, and when it is one the store takes, is PaneLayout's; so are  *)
(* the tabs that a refresh adds, which are saved with the next change.     *)
(***************************************************************************)
EXTENDS Naturals, Sequences

CONSTANTS
  MaxChanges,   \* bound: changes of the layout
  MaxFailures,  \* bound: saves that the disk refuses
  None

VARIABLES
  row,          \* the stored row: its revision and its layout, 0 for none
  failures,
  shown,        \* the layout that the window shows
  revision,     \* the revision that the window knows
  queued,       \* a change waits for its save
  timer,        \* the layout that the timer will save, or None
  attempts,     \* the attempts that are chained, the first of them running
  skipped,      \* an attempt found its change taken by another (history)
  failed,       \* the last attempt that ran was refused (history)
  error,        \* the window shows that saving failed
  reading       \* the stored revision that a refresh has read, or None

windowVars == <<shown, revision, queued, timer, attempts, skipped, failed, error, reading>>
layoutVars == <<row, failures, windowVars>>

Init ==
  /\ row = [revision |-> 0, layout |-> 0] /\ failures = 0
  /\ shown = 0 /\ revision = 0 /\ queued = FALSE /\ timer = None
  /\ attempts = << >> /\ skipped = FALSE /\ failed = FALSE
  /\ error = FALSE /\ reading = None

-----------------------------------------------------------------------------
(* Changing and gathering.                                                 *)

\* schedulePersistLayout; the timer starts over.
Change ==
  /\ shown < MaxChanges
  /\ shown' = shown + 1
  /\ queued' = TRUE /\ timer' = shown + 1
  /\ UNCHANGED <<row, failures, revision, attempts, skipped, failed, error, reading>>

-----------------------------------------------------------------------------
(* The chain of attempts.                                                  *)

Running == attempts # << >>
FirstAt(chain, stage) == [chain EXCEPT ![1].stage = stage]

\* runPersistLayout of the first attempt, in the turn in which it becomes the
\* first: it sends its save, unless an earlier save has taken the change along;
\* then those behind it have nothing to send either.
Runs(chain) ==
  IF chain = << >> \/ Head(chain).stage # "waits"
  THEN attempts' = chain /\ UNCHANGED <<queued, skipped>>
  ELSE IF queued
  THEN /\ attempts' = FirstAt(chain, "sent")
       /\ queued' = FALSE /\ UNCHANGED skipped
  ELSE attempts' = << >> /\ skipped' = TRUE /\ UNCHANGED queued

\* persistLayout: the expected revision is the one known at this moment.
TimerFires ==
  /\ timer # None
  /\ Runs(Append(attempts, [layout |-> timer, expected |-> revision, stage |-> "waits"]))
  /\ timer' = None
  /\ UNCHANGED <<row, failures, shown, revision, failed, error, reading>>

Becomes(stage) == attempts' = FirstAt(attempts, stage)

\* Mutant: the row takes any layout.
TakesAnyway(attempt) == TRUE

\* One transaction: no row and revision 0, or the row's revision.
Takes(attempt) == attempt.expected = row.revision

StoreTakes ==
  /\ Running /\ Head(attempts).stage = "sent" /\ Takes(Head(attempts))
  /\ row' = [revision |-> Head(attempts).expected + 1, layout |-> Head(attempts).layout]
  /\ Becomes("saved")
  /\ UNCHANGED <<failures, shown, revision, queued, timer, skipped, failed, error, reading>>

StoreRefuses ==
  /\ Running /\ Head(attempts).stage = "sent"
  /\ \/ ~ Takes(Head(attempts)) /\ UNCHANGED failures
     \/ failures < MaxFailures /\ failures' = failures + 1
  /\ Becomes("refused")
  /\ UNCHANGED <<row, shown, revision, queued, timer, skipped, failed, error, reading>>

\* The answer: a refusal is shown, and nothing is tried again.
AttemptEnds ==
  /\ Running /\ Head(attempts).stage \in {"saved", "refused"}
  /\ failed' = (Head(attempts).stage = "refused")
  /\ error' = failed'
  /\ revision' = IF failed' THEN revision ELSE Head(attempts).expected + 1
  /\ Runs(Tail(attempts))
  /\ UNCHANGED <<row, failures, shown, timer, reading>>

-----------------------------------------------------------------------------
(* Refreshing and opening again.                                           *)

RefreshReads ==
  /\ reading' = row.revision
  /\ UNCHANGED <<row, failures, shown, revision, queued, timer, attempts,
                 skipped, failed, error>>

\* The window takes over a newer revision, not its layout.  publishReady
\* leaves the error out.
RefreshAnswers ==
  /\ reading # None
  /\ revision' = IF reading > revision THEN reading ELSE revision
  /\ error' = FALSE
  /\ reading' = None
  /\ UNCHANGED <<row, failures, shown, queued, timer, attempts, skipped, failed>>

\* The window closes: its timer and its chain are gone, except for a save that
\* is already on its way, and the next window loads what is stored after it.
Reopen ==
  /\ "sent" \notin {attempts[i].stage : i \in DOMAIN attempts}
  /\ shown' = row.layout /\ revision' = row.revision
  /\ queued' = FALSE /\ timer' = None /\ attempts' = << >>
  /\ skipped' = FALSE /\ failed' = FALSE /\ error' = FALSE /\ reading' = None
  /\ UNCHANGED <<row, failures>>

Saves == TimerFires \/ StoreTakes \/ StoreRefuses \/ AttemptEnds

Next == Change \/ Saves \/ RefreshReads \/ RefreshAnswers \/ Reopen

Spec == Init /\ [][Next]_layoutVars

-----------------------------------------------------------------------------
(* Properties.                                                             *)

Quiet == timer = None /\ attempts = << >>

\* When saving has come to rest, the layout that is shown is stored or its save
\* was refused.  Not always true: of two attempts that are chained, the first takes
\* the mark of the change from the second, which then saves nothing.
SavedOrRefused == Quiet => row.layout = shown \/ failed

\* Saves are stored in the order of the changes, each over the revision before
\* it, so that an older layout never comes back over a newer one; the window
\* never believes in a revision that is not stored; and only an attempt that
\* found its change taken by an earlier one keeps the last layout from being
\* stored or refused.
LayoutMovesOn ==
  /\ row'.layout >= row.layout
  /\ row'.layout # row.layout => row'.revision = row.revision + 1
  /\ revision' <= row'.revision
  /\ skipped' \/ SavedOrRefused'

LayoutIsSaved == [][LayoutMovesOn]_layoutVars

-----------------------------------------------------------------------------
(* An inductive invariant.                                                 *)

Attempts ==
  [layout : Nat, expected : Nat, stage : {"waits", "sent", "saved", "refused"}]

TypeOK ==
  /\ row \in [revision : Nat, layout : Nat]
  /\ shown \in Nat /\ revision \in Nat
  /\ timer \in Nat \union {None} /\ reading \in Nat \union {None}
  /\ attempts \in Seq(Attempts)
  /\ skipped \in BOOLEAN /\ failed \in BOOLEAN

\* The window has seen no revision that is not stored.
RevisionIsStored ==
  /\ revision <= row.revision
  /\ reading # None => reading <= row.revision

\* The attempts are in the order of the changes, none is older than the row, and
\* one that is saved is what the row holds.
InOrder(chain) ==
  /\ \A i \in DOMAIN chain :
       /\ row.layout <= chain[i].layout /\ chain[i].layout <= shown
       /\ chain[i].expected <= row.revision
       /\ chain[i].stage = "saved" =>
            chain[i].expected < row.revision /\ chain[i].layout = row.layout
  /\ \A i, j \in DOMAIN chain : i <= j => chain[i].layout <= chain[j].layout
  /\ \A i \in DOMAIN chain : i > 1 => chain[i].stage = "waits"

\* What is shown is what the timer or the last attempt will save, or it is settled.
LastCounts ==
  IF timer # None THEN timer = shown
  ELSE skipped \/ IF attempts = << >> THEN row.layout = shown \/ failed
                  ELSE attempts[Len(attempts)].layout = shown

IInv ==
  /\ TypeOK /\ RevisionIsStored /\ InOrder(attempts) /\ LastCounts
  /\ row.layout <= shown
=============================================================================
