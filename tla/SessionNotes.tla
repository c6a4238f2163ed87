----------------------------- MODULE SessionNotes -----------------------------
(***************************************************************************)
(* Notes of an Agent Session: the overlay in which the user writes one,    *)
(* the controller that sends it for the selected Task, its storing beside  *)
(* other processes that move the Task, and a Review, which takes all the   *)
(* artifacts of its Task as evidence.                                      *)
(*                                                                         *)
(* A note's text is blank or not; ids, times and file names are left out.  *)
(***************************************************************************)
EXTENDS Naturals, Sequences, FiniteSets, SequencesExt

CONSTANTS
  Tasks,
  Sessions,      \* Agent Sessions
  Owner,         \* the Task of each Session
  Texts,         \* what the user writes; "" is blank
  MaxNotes,      \* bound: submitted notes
  MaxChanges,    \* bound: changes of Tasks, Sessions and the selection
  None

VARIABLES
  phase,      \* the stored phase of each Task
  active,     \* the live Session of each Task, or None
  used,       \* the Sessions that have been started
  shown,      \* the controller's snapshot: [selected, session]
  acting,     \* its actionAttempt: "no", "note" or "other"
  overlay,    \* noteCapture and the text in it: [kind, body, of], or None
  call,       \* the call of the main process: [note, stage, phase], or None
  stored,     \* the notes of the store, in order
  reviews,    \* what came of the last request of a Review for each Task
  submitted,  \* the notes that the user submitted
  changes

view == <<shown, overlay, submitted>>
store == <<phase, active, used, stored, reviews>>
noteVars == <<view, store, acting, call, changes>>

Kinds == {"brainstorm", "sweep"}

Init ==
  /\ phase = [t \in Tasks |-> "PLANNING"]
  /\ \E live \in [Tasks -> Sessions] :
       /\ \A t \in Tasks : Owner[live[t]] = t
       /\ active = live /\ used = {live[t] : t \in Tasks}
       /\ \E t \in Tasks : shown = [selected |-> t, session |-> live]
  /\ acting = "no" /\ overlay = None /\ call = None /\ stored = << >>
  /\ reviews = [t \in Tasks |-> "none"] /\ submitted = {} /\ changes = 0

-----------------------------------------------------------------------------
(* What happens meanwhile.                                                 *)

Changes == changes < MaxChanges /\ changes' = changes + 1

\* The user chooses a Task or a tab.
SelectTask ==
  /\ Changes
  /\ \E t \in Tasks \ {shown.selected} : shown' = [shown EXCEPT !.selected = t]
  /\ UNCHANGED <<overlay, submitted, store, acting, call>>

SessionEnds ==
  /\ Changes
  /\ \E t \in Tasks : active[t] # None /\ active' = [active EXCEPT ![t] = None]
  /\ UNCHANGED <<view, phase, used, stored, reviews, acting, call>>

SessionStarts ==
  /\ Changes
  /\ \E s \in Sessions \ used :
       /\ active[Owner[s]] = None /\ phase[Owner[s]] \in {"PLANNING", "RUNNING"}
       /\ active' = [active EXCEPT ![Owner[s]] = s]
       /\ used' = used \union {s}
  /\ UNCHANGED <<view, phase, stored, reviews, acting, call>>

\* A plan is accepted, a Review decided; another process may do it at any time.
PhaseMoves ==
  /\ Changes
  /\ \E t \in Tasks : \E next \in {"RUNNING", "DONE"} :
       /\ <<phase[t], next>> \in
            {<<"PLANNING", "RUNNING">>, <<"REVIEW", "RUNNING">>, <<"REVIEW", "DONE">>}
       /\ phase' = [phase EXCEPT ![t] = next]
  /\ UNCHANGED <<view, active, used, stored, reviews, acting, call>>

\* The overview is loaded again.
Refresh ==
  /\ shown.session # active
  /\ shown' = [shown EXCEPT !.session = active]
  /\ UNCHANGED <<overlay, submitted, store, acting, call, changes>>

\* Another action of the user begins and ends.
OtherAction ==
  /\ acting # "note"
  /\ acting' = IF acting = "no" THEN "other" ELSE "no"
  /\ UNCHANGED <<view, store, call, changes>>

-----------------------------------------------------------------------------
(* The overlay.                                                            *)

\* openNoteCapture: the text of an open overlay stays unless the kind changes.
OpenNoteCapture(kind, task) ==
  overlay' = [kind |-> kind, of |-> task,
              body |-> IF overlay # None /\ overlay.kind = kind THEN overlay.body ELSE ""]

\* The palette offers it for the selected Task, see CommandPalette.
OpenFromPalette ==
  /\ acting = "no" /\ shown.session[shown.selected] # None
  /\ \E kind \in Kinds : OpenNoteCapture(kind, shown.selected)
  /\ UNCHANGED <<shown, submitted, store, acting, call, changes>>

\* The slash command in a terminal, of the selected Task or of another pane.
OpenBySlashCommand ==
  /\ \E task \in Tasks : \E kind \in Kinds :
       shown.session[task] # None /\ OpenNoteCapture(kind, task)
  /\ UNCHANGED <<shown, submitted, store, acting, call, changes>>

WriteBody ==
  /\ overlay # None
  /\ \E body \in Texts : overlay' = [overlay EXCEPT !.body = body]
  /\ UNCHANGED <<shown, submitted, store, acting, call, changes>>

CancelNoteCapture ==
  /\ overlay # None /\ overlay' = None
  /\ UNCHANGED <<shown, submitted, store, acting, call, changes>>

\* executeSelectedNoteCapture: nothing is sent during another action, and for a
\* Task without a Session.
Sends(note) ==
  IF acting = "no" /\ note.session # None
  THEN acting' = "note" /\ call' = [note |-> note, stage |-> "asked", phase |-> None]
  ELSE UNCHANGED <<acting, call>>

\* submitNoteCapture: the overlay closes when dispatch has returned, which it
\* does at once.
SubmitNoteCapture ==
  LET note == [id |-> Cardinality(submitted) + 1, kind |-> overlay.kind, body |-> overlay.body,
               of |-> overlay.of, task |-> shown.selected,
               session |-> shown.session[shown.selected]]
  IN  /\ overlay # None /\ overlay.body # "" /\ Cardinality(submitted) < MaxNotes
      /\ overlay' = None
      /\ submitted' = submitted \union {note}
      /\ Sends(note)
      /\ UNCHANGED <<shown, store, changes>>

-----------------------------------------------------------------------------
(* The main process and the store.                                         *)

Calling(stage) == call # None /\ call.stage = stage

\* recordSessionNote: whose Session it is, and the phase of the Task.
ReadProvenance ==
  /\ Calling("asked")
  /\ call' = IF Owner[call.note.session] = call.note.task
             THEN [call EXCEPT !.stage = "read", !.phase = phase[call.note.task]]
             ELSE [call EXCEPT !.stage = "failed"]
  /\ UNCHANGED <<view, store, acting, changes>>

\* createExecutionArtifact: one with a phase that is not its kind's contract.
Artifact(note, producing) ==
  [id |-> note.id, kind |-> note.kind, body |-> note.body, phase |-> producing,
   task |-> note.task, session |-> note.session]

\* Mutant of InItsPhase: the phase that was read is not compared.
InAnyPhase(task, expected) == TRUE

InItsPhase(task, expected) == phase[task] = expected

\* The transaction of insert.
InsertArtifact ==
  /\ Calling("read")
  /\ IF /\ InItsPhase(call.note.task, call.phase)
        /\ \A i \in DOMAIN stored : stored[i].id # call.note.id
     THEN /\ stored' = Append(stored, Artifact(call.note, call.phase))
          /\ call' = [call EXCEPT !.stage = "done"]
     ELSE UNCHANGED stored /\ call' = [call EXCEPT !.stage = "failed"]
  /\ UNCHANGED <<view, phase, active, used, reviews, acting, changes>>

\* The call or its transaction fails.
RecordingFails ==
  /\ call # None /\ call.stage \in {"asked", "read"}
  /\ call' = [call EXCEPT !.stage = "failed"]
  /\ UNCHANGED <<view, store, acting, changes>>

\* The controller has its answer and loads the overview again; a failure is told
\* beside the Task's actions.
NoteAnswer ==
  /\ call # None /\ call.stage \in {"done", "failed"}
  /\ call' = None /\ acting' = "no"
  /\ shown' = IF call.stage = "done" THEN [shown EXCEPT !.session = active] ELSE shown
  /\ UNCHANGED <<overlay, submitted, store, changes>>

\* The kinds that the table of a Review's artifacts admits.
ReviewableKinds == {"plan", "execution-summary", "research", "review"}

\* readReviewEvidenceByTaskId, all of the Task's artifacts, and the rows that
\* begin inserts of them.
ReviewEvidence(task) == SelectSeq(stored, LAMBDA artifact : artifact.task = task)

\* A Review of a Task whose agents have stopped, see TaskReviews.
RequestReview ==
  /\ \E t \in Tasks :
       /\ phase[t] = "RUNNING" /\ active[t] = None
       /\ IF \A i \in DOMAIN ReviewEvidence(t) : ReviewEvidence(t)[i].kind \in ReviewableKinds
          THEN /\ phase' = [phase EXCEPT ![t] = "REVIEW"]
               /\ reviews' = [reviews EXCEPT ![t] = "requested"]
          ELSE reviews' = [reviews EXCEPT ![t] = "failed"] /\ UNCHANGED phase
  /\ UNCHANGED <<view, active, used, stored, acting, call, changes>>

Next ==
  \/ SelectTask \/ SessionEnds \/ SessionStarts \/ PhaseMoves \/ Refresh \/ OtherAction
  \/ OpenFromPalette \/ OpenBySlashCommand \/ WriteBody \/ CancelNoteCapture
  \/ SubmitNoteCapture \/ ReadProvenance \/ InsertArtifact \/ RecordingFails \/ NoteAnswer
  \/ RequestReview

Spec == Init /\ [][Next]_noteVars

-----------------------------------------------------------------------------
(* What must hold.                                                         *)

SubmittedAs(artifact) ==
  \E note \in submitted :
    /\ note.id = artifact.id /\ note.kind = artifact.kind /\ note.body = artifact.body
    /\ note.task = artifact.task /\ note.session = artifact.session

\* A stored note is what the user submitted while its Task was selected, with a
\* Session of that Task; the phase beside it is the Task's phase in the moment in
\* which it is stored, whoever moves the Task meanwhile; a submission is stored
\* once and no stored note changes.  (recordSessionNote, insert.)
NoteIsTrue ==
  /\ IsPrefix(stored, stored') /\ Len(stored') <= Len(stored) + 1
  /\ stored' # stored =>
       LET artifact == Last(stored')
       IN  /\ SubmittedAs(artifact) /\ Owner[artifact.session] = artifact.task
           /\ artifact.phase = phase[artifact.task]
           /\ \A i \in DOMAIN stored : stored[i].id # artifact.id

NotesAreTrue == [][NoteIsTrue]_noteVars

\* Not true: a note does not keep its Task from a Review (the table of evidence does
\* not accept its kind).
NotesAllowReviews == \A t \in Tasks : reviews[t] # "failed"

\* Not true: a submitted note that is not being saved is stored, or the overlay
\* still shows it.
NoteIsKeptOrShown ==
  \A note \in submitted :
    \/ \E i \in DOMAIN stored : stored[i].id = note.id
    \/ call # None /\ call.note = note
    \/ overlay # None

\* Not true: a note belongs to the Task in whose terminal it was begun.
NoteStaysWithItsSession ==
  \A note \in submitted : \A i \in DOMAIN stored : stored[i].id = note.id => note.task = note.of

-----------------------------------------------------------------------------
(* An inductive invariant.                                                 *)

Phases == {"PLANNING", "RUNNING", "REVIEW", "DONE"}

TypeOK ==
  /\ phase \in [Tasks -> Phases]
  /\ active \in [Tasks -> Sessions \union {None}]
  /\ shown \in [selected : Tasks, session : [Tasks -> Sessions \union {None}]]
  /\ \A note \in submitted : note.task \in Tasks

\* Only what was submitted is sent, and it is read for its own Task.
SentWasSubmitted ==
  call # None =>
    /\ call \in [note : submitted, stage : {"asked", "read", "done", "failed"},
                 phase : Phases \union {None}]
    /\ call.stage = "read" =>
         Owner[call.note.session] = call.note.task /\ call.phase \in Phases

ArtifactsOf(notes) == {Artifact(note, producing) : note \in notes, producing \in Phases}

\* Only what was submitted is stored.
StoredWasSubmitted == stored \in Seq(ArtifactsOf(submitted))

IInv == TypeOK /\ SentWasSubmitted /\ StoredWasSubmitted
=============================================================================
