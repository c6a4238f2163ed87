------------------------------ MODULE Terminals ------------------------------
(***************************************************************************)
(* One terminal pane of the workspace window, its TerminalController, and  *)
(* the main process that holds the interactive attachment of each Agent    *)
(* Session: attaching, detaching, typing, pasting and the queue of writes, *)
(* with the messages between the two processes in flight.                  *)
(*                                                                         *)
(* React renders the pane; a render of AgentWorkspace gives it a new       *)
(* onSlashCommand, and the effect that depends on it puts the controller   *)
(* away and makes another.  An attempt is one call of attachTerminal, named*)
(* by its number.  What the process prints is not modelled.                *)
(***************************************************************************)
EXTENDS Naturals, Sequences, SequencesExt

CONSTANTS
  Sessions,
  Starting,     \* the Sessions that are being started
  MaxAttempts,  \* bound: attachments that are asked for
  MaxActs,      \* bound: what the user types, pastes, interrupts or focuses
  MaxRenders,   \* bound: renders of the workspace for another reason
  MaxEnds,      \* bound: processes that fail or exit
  None

VARIABLES
  process,      \* [Sessions -> {"starting", "running", "failed", "gone"}]
  holder,       \* the attempt that holds the interactive attachment, or 0
  log,          \* what each Session's process was given (history)
  wire,         \* messages to the main process
  inbox,        \* answers and events on their way to the window
  written,      \* answers to writes on their way to the window
  attempts,     \* the Session that each attempt asked for
  pane,         \* what React knows: Session, focus, label, dialogs
  ctl,          \* the controller of the pane
  acts, taken,  \* what the user did; what each attempt's queue took (history)
  renders, ends

mainVars == <<process, holder, log, ends>>
windowVars == <<attempts, pane, ctl, acts, taken, renders>>
terminalVars == <<mainVars, wire, inbox, written, windowVars>>

\* A TerminalController that was given no Session.
NewController ==
  [attempt |-> 0, active |-> 0, state |-> "empty", unavailable |-> FALSE,
   fatal |-> FALSE, line |-> "empty", queue |-> << >>, sending |-> None]

\* hooked: the last render saw the controller that is there now.
\* due: the workspace has something to render.
Init ==
  /\ process = [s \in Sessions |-> IF s \in Starting THEN "starting" ELSE "running"]
  /\ holder = [s \in Sessions |-> 0] /\ log = [s \in Sessions |-> << >>]
  /\ wire = << >> /\ inbox = << >> /\ written = {} /\ attempts = << >>
  /\ pane = [session |-> None, focused |-> TRUE, label |-> "empty", due |-> TRUE,
             hooked |-> FALSE, clipboard |-> None, paste |-> None]
  /\ ctl = NewController
  /\ acts = 0 /\ taken = [n \in 1..MaxAttempts |-> << >>] /\ renders = 0 /\ ends = 0

-----------------------------------------------------------------------------
(* Rendering.                                                              *)

\* A clipboard read goes on with the controller that it was asked with, as long
\* as no render has seen another.
Reads(p) == IF p.clipboard = None THEN None
            ELSE [p.clipboard EXCEPT !.same = @ /\ p.hooked]

Rendered(p) == [p EXCEPT !.clipboard = Reads(p), !.hooked = TRUE]

\* stateSink: a state of the controller that is new becomes the label, which
\* the workspace is told of.
Shown(p, c, d) ==
  IF d.state = c.state \/ d.state = p.label THEN p
  ELSE [Rendered(p) EXCEPT !.label = d.state, !.due = TRUE]

Detaches(c) == IF c.active = 0 THEN << >> ELSE <<[kind |-> "detach", to |-> c.active]>>

\* AgentWorkspace renders: dispose and a new TerminalController.
Rerender ==
  /\ pane.due \/ renders < MaxRenders
  /\ renders' = IF pane.due THEN renders ELSE renders + 1
  /\ pane' = [pane EXCEPT !.clipboard = Reads(pane), !.hooked = FALSE, !.due = FALSE]
  /\ ctl' = NewController
  /\ wire' = wire \o Detaches(ctl)
  /\ UNCHANGED <<mainVars, inbox, written, attempts, acts, taken>>

\* The pane is given another Session: setSession.
SetSession(s) ==
  /\ s # pane.session
  /\ s # None => Len(attempts) < MaxAttempts
  /\ attempts' = IF s = None THEN attempts ELSE Append(attempts, s)
  /\ ctl' = [NewController EXCEPT !.attempt = IF s = None THEN 0 ELSE Len(attempts'),
                                  !.state = IF s = None THEN "empty" ELSE "attaching"]
  /\ pane' = [Shown(Rendered(pane), ctl, ctl') EXCEPT !.session = s, !.paste = None]
  /\ wire' = wire \o Detaches(ctl)
             \o IF s = None THEN << >> ELSE <<[kind |-> "attach", to |-> Len(attempts')]>>
  /\ UNCHANGED <<mainVars, inbox, written, acts, taken, renders>>

Acts == acts < MaxActs /\ acts' = acts + 1

\* The pane becomes the active one, or another pane does.
Focus ==
  /\ Acts
  /\ pane' = [Rendered(pane) EXCEPT !.focused = ~@, !.paste = None]
  /\ UNCHANGED <<mainVars, wire, inbox, written, attempts, ctl, taken, renders>>

-----------------------------------------------------------------------------
(* The queue of writes.                                                    *)

\* drainInput up to its first await.
Drained(c) ==
  IF c.sending = None /\ c.queue # << >> /\ c.active # 0
     /\ c.state = "connected" /\ ~c.unavailable
  THEN [c EXCEPT !.queue = Tail(@), !.sending = Head(c.queue)]
  ELSE c

Sends(c, d) ==
  IF d.sending \in {None, c.sending} THEN << >>
  ELSE <<[kind |-> "write", to |-> d.active, item |-> d.sending]>>

Accepts(c) == c.active # 0 /\ c.state = "connected"

\* failInput.
FailInput(c) == [c EXCEPT !.queue = << >>, !.unavailable = TRUE, !.state = "failed"]

\* enqueueWrite of what the user means for Session s; with something in the
\* queue already it may be more than the queue holds.
Enqueues(c, s) ==
  LET item == [meant |-> s, by |-> c.active, nth |-> Len(taken[c.active]) + 1]
      fits == Drained([c EXCEPT !.queue = Append(@, item)])
  IN  IF ~Accepts(c) THEN {c}
      ELSE {fits} \union IF c.sending = None THEN {} ELSE {FailInput(c)}

Held(c) == c.queue \o IF c.sending = None THEN << >> ELSE <<c.sending>>

\* The user's input has changed the controller from ctl to d.
Input(d, p) ==
  /\ ctl' = d
  /\ wire' = wire \o Sends(ctl, d)
  /\ taken' = IF Len(Held(d)) <= Len(Held(ctl)) THEN taken
              ELSE [taken EXCEPT ![ctl.active] =
                      Append(@, Last(IF d.queue = << >> THEN <<d.sending>> ELSE d.queue))]
  /\ pane' = Shown(p, ctl, d)
  /\ UNCHANGED <<mainVars, inbox, written, attempts, renders>>

Keystroke == pane.focused /\ Acts

\* The line that is being typed: only whether it is one of AgentTerm's commands.
Grown(line, part) ==
  IF line = "empty" /\ part = "command" THEN "command" ELSE "other"

\* trackInputAndForward of a chunk without an Enter.
Type ==
  /\ Keystroke
  /\ \E part \in {"command", "text"} :
       \E d \in Enqueues([ctl EXCEPT !.line = Grown(@, part)], pane.session) :
         Input(d, pane)

\* trackInputAndForward of a chunk that ends with Enter: a command opens its
\* dialog and is not forwarded.
Enter ==
  /\ Keystroke
  /\ \E part \in {"nothing", "command"} :
       LET line == IF part = "nothing" THEN ctl.line ELSE Grown(ctl.line, part)
           cleared == [ctl EXCEPT !.line = "empty"]
       IN  IF line = "command"
           THEN /\ ctl' = cleared
                /\ pane' = [pane EXCEPT !.due = TRUE]
                /\ UNCHANGED <<mainVars, wire, inbox, written, attempts, taken, renders>>
           ELSE \E d \in Enqueues(cleared, pane.session) : Input(d, pane)

\* sendText: the controller that the hook knows must be there still.
Sendable == pane.hooked /\ Accepts(ctl) /\ ~ctl.unavailable

Refused(p) ==
  /\ pane' = Rendered(p)
  /\ UNCHANGED <<mainVars, wire, inbox, written, attempts, ctl, taken, renders>>

\* Ctrl+C: sendBytes.
Interrupt ==
  /\ Keystroke
  /\ IF Sendable THEN \E d \in Enqueues(ctl, pane.session) : Input(d, pane)
     ELSE Refused(pane)

\* The context menu of a pane that says it is connected.
Menu == pane.label = "connected" /\ Acts

\* "Send Signal": sendBytes of the controller that is there.
MenuSignal ==
  /\ Menu /\ pane.session # None
  /\ IF Accepts(ctl) /\ ~ctl.unavailable
     THEN \E d \in Enqueues(ctl, pane.session) : Input(d, pane)
     ELSE Refused(pane)

-----------------------------------------------------------------------------
(* Pasting.                                                                *)

\* Ctrl+V or the context menu: the clipboard is read.
AskClipboard ==
  /\ Keystroke \/ Menu
  /\ pane.clipboard = None
  /\ pane' = [pane EXCEPT !.clipboard = [session |-> pane.session, same |-> TRUE]]
  /\ UNCHANGED <<mainVars, wire, inbox, written, attempts, ctl, taken, renders>>

\* pasteText of the controller, through the terminal's own paste.
Pastes(p, s) ==
  IF Sendable /\ attempts[ctl.active] = s
  THEN \E d \in Enqueues([ctl EXCEPT !.line = "empty"], s) : Input(d, Rendered(p))
  ELSE Refused(p)

\* The clipboard answers: pasteText of the hook.  More than one line, or much
\* of it, is asked about first; too much is refused.
ClipboardAnswers ==
  /\ pane.clipboard # None
  /\ UNCHANGED acts
  /\ LET read == pane.clipboard
         done == [pane EXCEPT !.clipboard = None]
     IN  IF ~pane.focused \/ read.session # pane.session \/ ~read.same
         THEN /\ pane' = done
              /\ UNCHANGED <<mainVars, wire, inbox, written, attempts, ctl, taken, renders>>
         ELSE \/ /\ read.session # None
                 /\ Pastes([done EXCEPT !.paste = None], read.session)
              \/ /\ read.session # None
                 /\ Refused([done EXCEPT !.paste = read.session])
              \/ Refused([done EXCEPT !.paste = None])

ConfirmPaste ==
  /\ pane.paste # None
  /\ UNCHANGED acts
  /\ LET done == [pane EXCEPT !.paste = None]
     IN  IF pane.focused /\ pane.paste = pane.session THEN Pastes(done, pane.paste)
         ELSE Refused(done)

RejectPaste ==
  /\ pane.paste # None
  /\ Refused([pane EXCEPT !.paste = None])
  /\ UNCHANGED acts

-----------------------------------------------------------------------------
(* The main process.                                                       *)

Takes(kind) == wire # << >> /\ Head(wire).kind = kind /\ wire' = Tail(wire)

Tells(n, kind) == inbox' = Append(inbox, [kind |-> kind, to |-> n])

\* attachTerminal of the coordinator: one interactive attachment per Session.
TakesInput(s) == process[s] \in {"starting", "running"}
IsFree(s) == TakesInput(s) /\ holder[s] = 0

\* requireAttachedHandle.
IsOpen(n) == TakesInput(attempts[n]) /\ holder[attempts[n]] = n

MainAttaches ==
  /\ Takes("attach")
  /\ LET n == Head(wire).to
         s == attempts[n]
     IN  IF IsFree(s)
         THEN holder' = [holder EXCEPT ![s] = n] /\ Tells(n, "attached")
         ELSE Tells(n, "refused") /\ UNCHANGED holder
  /\ UNCHANGED <<process, log, ends, written, windowVars>>

\* write: the process has it, or not, and a write that is taken too long for
\* has it and is answered as failed.
MainWrites ==
  /\ Takes("write")
  /\ LET n == Head(wire).to
         s == attempts[n]
     IN  \E reaches \in {FALSE, IsOpen(n)}, ok \in BOOLEAN :
           /\ ok => reaches
           /\ log' = IF reaches THEN [log EXCEPT ![s] = Append(@, Head(wire).item)] ELSE log
           /\ written' = written \union {[to |-> n, ok |-> ok]}
  /\ UNCHANGED <<process, holder, ends, inbox, windowVars>>

MainDetaches ==
  /\ Takes("detach")
  /\ LET n == Head(wire).to
         s == attempts[n]
     IN  holder' = IF holder[s] = n THEN [holder EXCEPT ![s] = 0] ELSE holder
  /\ UNCHANGED <<process, log, ends, inbox, written, windowVars>>

Ends == ends < MaxEnds /\ ends' = ends + 1

\* A Session's runtime reports; a terminal report ends its input.
Reports(s, from, to, kind) ==
  /\ process[s] \in from
  /\ process' = [process EXCEPT ![s] = to]
  /\ IF holder[s] = 0 THEN UNCHANGED inbox ELSE Tells(holder[s], kind)
  /\ UNCHANGED <<holder, log, wire, written, windowVars>>

Starts(s) == Reports(s, {"starting"}, "running", "started") /\ UNCHANGED ends
Fails(s) == Ends /\ Reports(s, {"starting", "running"}, "failed", "failed")
Exits(s) == Ends /\ Reports(s, {"starting", "running", "failed"}, "gone", "exited")

-----------------------------------------------------------------------------
(* What the window is told.                                                *)

\* Mutant of IsLate: an answer is late when nothing is being attached.
NotAttaching(n) == ctl.state # "attaching"

\* The answer or the event is about another attempt than the controller's.
IsLate(n) == n # ctl.attempt

\* The controller as the head of the inbox leaves it.
Told(m) ==
  IF IsLate(m.to) THEN ctl
  ELSE CASE m.kind = "attached" -> [ctl EXCEPT !.active = m.to, !.state = "connected"]
         [] m.kind = "refused" -> [ctl EXCEPT !.state = "failed"]
         [] m.kind = "started" -> [ctl EXCEPT !.state = "connected"]
         [] m.kind = "failed" -> [ctl EXCEPT !.state = "failed", !.fatal = TRUE]
         [] m.kind = "exited" -> [ctl EXCEPT !.state = IF ctl.fatal THEN "failed" ELSE "exited",
                                             !.active = 0, !.queue = << >>, !.sending = None]

\* An attachment that came too late is given back at once, and so is that of a
\* process that has exited.
Receive ==
  /\ inbox # << >>
  /\ inbox' = Tail(inbox)
  /\ LET m == Head(inbox)
     IN  /\ ctl' = Told(m)
         /\ wire' = wire \o
              CASE m.kind = "attached" /\ IsLate(m.to) -> <<[kind |-> "detach", to |-> m.to]>>
                [] m.kind = "exited" /\ ~IsLate(m.to) -> Detaches(ctl)
                [] OTHER -> << >>
  /\ pane' = Shown(pane, ctl, ctl')
  /\ UNCHANGED <<mainVars, written, attempts, acts, taken, renders>>

\* A write is answered: the next one is sent, or the input is given up.
Answered(a) ==
  IF a.to # ctl.active THEN ctl
  ELSE IF a.ok THEN Drained([ctl EXCEPT !.sending = None])
  ELSE [FailInput(ctl) EXCEPT !.sending = None]

WriteAnswered ==
  \E a \in written :
    /\ written' = written \ {a}
    /\ ctl' = Answered(a)
    /\ wire' = wire \o Sends(ctl, ctl')
    /\ pane' = IF a.to = ctl.active /\ ~a.ok THEN Rendered(Shown(pane, ctl, ctl'))
               ELSE Shown(pane, ctl, ctl')
    /\ UNCHANGED <<mainVars, inbox, attempts, acts, taken, renders>>

-----------------------------------------------------------------------------
Next ==
  \/ Rerender \/ Focus \/ Type \/ Enter \/ Interrupt \/ MenuSignal
  \/ AskClipboard \/ ClipboardAnswers \/ ConfirmPaste \/ RejectPaste
  \/ \E s \in Sessions \union {None} : SetSession(s)
  \/ MainAttaches \/ MainWrites \/ MainDetaches
  \/ \E s \in Sessions : Starts(s) \/ Fails(s) \/ Exits(s)
  \/ Receive \/ WriteAnswered

Spec == Init /\ [][Next]_terminalVars

-----------------------------------------------------------------------------
(* Properties.                                                             *)

\* What is typed or pasted reaches the Session that the pane showed when the
\* user typed or asked for it, whatever was attached since, and nothing of an
\* earlier attachment comes after that of a later one.
InputReachesItsSession ==
  \A s \in Sessions :
    /\ \A i \in 1..Len(log[s]) : log[s][i].meant = s
    /\ \A i, j \in 1..Len(log[s]) : i < j => log[s][i].by <= log[s][j].by

\* What an attachment gives its process is all that its queue took up to some
\* point, in one piece: nothing is left out in the middle, nothing comes twice,
\* and nothing is sent after a failed write.
NothingIsSkipped ==
  \A n \in 1..Len(attempts) :
    LET given == log[attempts[n]]
    IN  \E before \in 0..Len(given), k \in 0..Len(taken[n]) :
          /\ \A i \in 1..Len(given) : given[i].by = n <=> before < i /\ i <= before + k
          /\ \A j \in 1..k : before + j <= Len(given) /\ given[before + j] = taken[n][j]

\* Once every message has arrived, the one attachment that the main process
\* holds for this pane is that of its controller: none is left behind that
\* would keep its Session from being attached again.
NoStrayAttachment ==
  wire = << >> /\ inbox = << >> =>
    \A s \in Sessions : holder[s] # 0 => holder[s] = ctl.active

TerminalsSafe == InputReachesItsSession /\ NothingIsSkipped /\ NoStrayAttachment

\* A pane that says "Agent Session connected", with no message on its way and
\* nothing left to render, is attached to its Session.  Not true: a render of the
\* workspace makes a new controller, which nobody tells its Session.
ConnectedIsAttached ==
  pane.label = "connected" /\ wire = << >> /\ inbox = << >> /\ ~pane.due => ctl.active # 0

-----------------------------------------------------------------------------
(* The invariant.                                                          *)

\* Attempts are numbered, and what is taken is told apart from None.
Items == [meant : Sessions, by : Nat, nth : Nat]

WellFormed == MaxAttempts \in Nat /\ None \notin Sessions /\ None \notin Items

States == {"empty", "attaching", "connected", "failed", "exited"}

Controllers ==
  [attempt : Nat, active : Nat, state : States, unavailable : BOOLEAN, fatal : BOOLEAN,
   line : {"empty", "command", "other"}, queue : Seq(Items), sending : Items \cup {None}]

Panes ==
  [session : Sessions \cup {None}, focused : BOOLEAN, label : States, due : BOOLEAN,
   hooked : BOOLEAN,
   clipboard : [session : Sessions \cup {None}, same : BOOLEAN] \cup {None},
   paste : Sessions \cup {None}]

Messages ==
  [kind : {"attach", "detach"}, to : Nat] \cup [kind : {"write"}, to : Nat, item : Items]

Answers == [kind : {"attached", "refused", "started", "failed", "exited"}, to : Nat]

TypeOK ==
  /\ process \in [Sessions -> {"starting", "running", "failed", "gone"}]
  /\ holder \in [Sessions -> Nat] /\ log \in [Sessions -> Seq(Items)]
  /\ wire \in Seq(Messages) /\ inbox \in Seq(Answers)
  /\ written \subseteq [to : Nat, ok : BOOLEAN]
  /\ attempts \in Seq(Sessions) /\ Len(attempts) <= MaxAttempts
  /\ pane \in Panes /\ ctl \in Controllers
  /\ taken \in [1..MaxAttempts -> Seq(Items)]

\* The p-th thing that the queue of attempt n took.
Item(n, p) == [meant |-> attempts[n], by |-> n, nth |-> p]

\* Of what attempt n took, its process was given the first k things, no more.
GivenUpTo(n, k) ==
  LET given == log[attempts[n]]
  IN  /\ \A i \in 1..Len(given) : given[i].by = n => given[i].nth <= k
      /\ k # 0 => \E i \in 1..Len(given) : given[i].by = n /\ given[i].nth = k

\* Everything is about an attempt that was made; the controller's is one for
\* the Session that the pane shows.
AttemptsAreMade ==
  /\ \A s \in Sessions : holder[s] # 0 => holder[s] <= Len(attempts) /\ attempts[holder[s]] = s
  /\ \A i \in 1..Len(wire) : wire[i].to \in 1..Len(attempts)
  /\ \A i \in 1..Len(inbox) : inbox[i].to \in 1..Len(attempts)
  /\ \A a \in written : a.to \in 1..Len(attempts)
  /\ ctl.attempt <= Len(attempts) /\ ctl.active \in {0, ctl.attempt}
  /\ ctl.attempt # 0 => attempts[ctl.attempt] = pane.session
  /\ ctl.active = 0 => ctl.queue = << >> /\ ctl.sending = None

TakenInOrder ==
  \A n \in 1..MaxAttempts : \A p \in 1..Len(taken[n]) :
    n <= Len(attempts) /\ taken[n][p] = Item(n, p)

LogIsTaken ==
  \A s \in Sessions : \A i \in 1..Len(log[s]) :
    LET item == log[s][i]
    IN  /\ item.by \in 1..Len(attempts) /\ attempts[item.by] = s
        /\ item.nth \in 1..Len(taken[item.by]) /\ item = Item(item.by, item.nth)
        /\ holder[s] # 0 => item.by <= holder[s]
        /\ \A j \in 1..Len(log[s]) : i < j => item.by <= log[s][j].by

\* An attempt whose message the main process has not read is later than all
\* that it holds, has answered or was sent input for.
AttachesAreNew ==
  \A i \in 1..Len(wire) : wire[i].kind = "attach" =>
    LET n == wire[i].to
    IN  /\ \A s \in Sessions : holder[s] < n
        /\ \A j \in 1..Len(inbox) : inbox[j].to < n
        /\ ctl.active < n
        /\ \A m \in 1..MaxAttempts : n <= m => taken[m] = << >>
        /\ \A j \in 1..Len(wire) : i < j /\ wire[j].kind = "attach" => n < wire[j].to

\* An attempt is told once that it is attached, before it takes anything.
AttachedOnce ==
  \A i \in 1..Len(inbox) : inbox[i].kind = "attached" =>
    LET n == inbox[i].to
    IN  /\ n # ctl.active /\ taken[n] = << >>
        /\ \A j \in 1..Len(inbox) : inbox[j].kind = "attached" /\ inbox[j].to = n => j = i

\* Of an attempt one write at a time is on its way or answered, and it is the
\* next one.
WritesAreNext ==
  \A i \in 1..Len(wire) : wire[i].kind = "write" =>
    LET n == wire[i].to
        item == wire[i].item
    IN  /\ item.nth \in 1..Len(taken[n]) /\ item = Item(n, item.nth)
        /\ GivenUpTo(n, item.nth - 1)
        /\ n = ctl.active => item = ctl.sending
        /\ \A a \in written : a.to # n
        /\ \A j \in 1..Len(wire) : wire[j].kind = "write" /\ wire[j].to = n => j = i

AnswersAreTrue ==
  \A a \in written :
    /\ taken[a.to] # << >>
    /\ a.to = ctl.active =>
         ctl.sending # None /\ (a.ok => GivenUpTo(a.to, ctl.sending.nth))
    /\ \A b \in written : a.to = b.to => a = b

\* The queue of the controller holds the last of what it took, after what is
\* being sent; input that has failed is not sent any more.
QueueIsTaken ==
  ctl.active # 0 =>
    LET n == ctl.active
        sent == Len(taken[n]) - Len(ctl.queue)
    IN  /\ ctl.sending # None =>
             ctl.sending.nth \in 1..Len(taken[n]) /\ ctl.sending = Item(n, ctl.sending.nth)
        /\ ~ctl.unavailable =>
             /\ sent >= 0
             /\ \A i \in 1..Len(ctl.queue) : ctl.queue[i] = Item(n, sent + i)
             /\ IF ctl.sending = None THEN GivenUpTo(n, sent) ELSE ctl.sending.nth = sent

\* The main process holds for this pane what the controller has, will be told of
\* or has asked to put away.
HoldersAreKnown ==
  \A s \in Sessions : holder[s] # 0 =>
    \/ holder[s] = ctl.active
    \/ \E i \in 1..Len(wire) : wire[i].kind = "detach" /\ wire[i].to = holder[s]
    \/ \E i \in 1..Len(inbox) : inbox[i].kind = "attached" /\ inbox[i].to = holder[s]

IInv ==
  /\ TypeOK /\ AttemptsAreMade /\ TakenInOrder /\ LogIsTaken /\ NothingIsSkipped
  /\ AttachesAreNew /\ AttachedOnce /\ WritesAreNext /\ AnswersAreTrue
  /\ QueueIsTaken /\ HoldersAreKnown
=============================================================================
