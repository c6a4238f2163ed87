--------------------------- MODULE PluginBindings ---------------------------
(***************************************************************************)
(* Which workflow plugin a Task is bound to and which of its phases is     *)
(* active: the settings panel asks, the main process loads the file,       *)
(* checks the revision that the window knew and stores.                    *)
(*                                                                         *)
(* The main process loads and stores in one turn: reading a file and       *)
(* SQLite are synchronous there. What interleaves is the panel, whose      *)
(* operations overlap, windows that close, other windows, and edits of the *)
(* files.                                                                  *)
(*                                                                         *)
(* Left out: names and texts, links in the trust roots, and that the panel *)
(* shows the buttons of a phase only when the overview knows the plugin.   *)
(***************************************************************************)
EXTENDS Naturals, Sequences, FiniteSets, SequencesExt, Functions

CONSTANTS
  Tasks,
  Files,         \* the plugin files
  Texts,         \* what they may hold
  MaxPhases,     \* phases that a plugin has at most
  MadeKinds,     \* bound: the kinds that an artifact is made of
  Catalog,       \* the agents, in the order of the catalogue
  MaxInstalls,   \* bound: installations of a Task
  MaxRevision,   \* bound: the revision of a binding
  MaxAsked,      \* bound: operations under way
  None

VARIABLES
  contents,      \* of the files
  binding,       \* the stored binding of each Task, or None
  installs,      \* how often each Task got a binding: tells one from the next
  artifacts,     \* the kinds of which a Task has an artifact
  resolved,      \* the phase and the agent of the last resolution, or None
  mirror,        \* the bindings that the window knows
  flags,         \* what the panel shows: [running, advancing], the operations
                 \* under way but advances, and the Task that it last advanced
  dialogs,       \* the operations for which the user still picks a file
  requests,      \* the operations on their way to the main process
  replies        \* the answers on their way to the window

storeVars == <<contents, binding, installs, artifacts, resolved>>
panelVars == <<mirror, flags, dialogs, requests, replies>>
bindingVars == <<storeVars, panelVars>>

Operations == {"install", "remove", "switch", "advance"}
Idle == [running |-> {}, advancing |-> None]
Kinds == {"research", "planning", "running", "review"}
Ids(plugin) == {p.id : p \in ToSet(plugin)}
PhaseAt(plugin, id) == SelectInSeq(plugin, LAMBDA p : p.id = id)

-----------------------------------------------------------------------------
(* Plugin files: whether they may be read, what they hold, and the phases, *)
(* each with an id, a kind and its required headings.                      *)

\* createWorkflowPlugin
IsPlugin(phases) ==
  /\ Len(phases) \in 1..MaxPhases
  /\ Cardinality(Ids(phases)) = Len(phases)
  /\ \A p \in ToSet(phases) :
       p.kind \in Kinds /\ Len(p.headings) > 0 /\ IsInjective(p.headings)

\* The readers: every member of the file is there, with its type.
Parses(text) == text.format = "plugin"

\* configurator.load: a file within the trusted roots that can be read, is not
\* too large and holds a plugin.
Loads(text) ==
  /\ text.trusted /\ text.readable
  /\ Parses(text) /\ IsPlugin(text.phases)

\* The agents that a phase of a kind may have; a plugin cannot widen them.
AllowedAgents(kind) ==
  CASE kind = "research" -> {"gemini"}
    [] kind = "planning" -> {"claude", "codex", "gemini"}
    [] OTHER -> {"claude", "codex"}

\* bindPhaseAgent: the first agent of the catalogue that the phase allows.
PhaseAgent(phase) ==
  LET first == SelectInSeq(Catalog, LAMBDA a : a \in AllowedAgents(phase.kind))
  IN IF first = 0 THEN None ELSE Catalog[first]

Init ==
  /\ contents \in [Files -> Texts]
  /\ binding = [t \in Tasks |-> None] /\ installs = [t \in Tasks |-> 0]
  /\ artifacts = [t \in Tasks |-> {}] /\ resolved = None
  /\ mirror = [t \in Tasks |-> None] /\ flags = Idle /\ dialogs = {}
  /\ requests = << >> /\ replies = << >>

-----------------------------------------------------------------------------
(* Around it.                                                              *)

FileChanges(f, text) ==
  /\ contents[f] # text
  /\ contents' = [contents EXCEPT ![f] = text]
  /\ UNCHANGED <<binding, installs, artifacts, resolved, panelVars>>

ArtifactIsMade(t, kind) ==
  /\ kind \notin artifacts[t]
  /\ artifacts' = [artifacts EXCEPT ![t] = @ \cup {kind}]
  /\ UNCHANGED <<contents, binding, installs, resolved, panelVars>>

\* resolveAgentForTask, when no agent was named: the bound file is loaded, and
\* the phase is the one whose id is the name of the Task's phase.
ResolveAgent(t, name) ==
  /\ binding[t] # None
  /\ LET text == contents[binding[t].file]
     IN /\ Loads(text) /\ name \in Ids(text.phases)
        /\ LET phase == text.phases[PhaseAt(text.phases, name)]
           IN /\ PhaseAgent(phase) # None
              /\ resolved' = [phase |-> phase, agent |-> PhaseAgent(phase)]
  /\ UNCHANGED <<contents, binding, installs, artifacts, panelVars>>

\* A new window knows no binding; the answers for the old one reach nobody.
Reopen ==
  /\ mirror' = [t \in Tasks |-> None] /\ flags' = Idle /\ dialogs' = {}
  /\ requests' = [i \in DOMAIN requests |-> [requests[i] EXCEPT !.window = "gone"]]
  /\ replies' = << >>
  /\ UNCHANGED storeVars

-----------------------------------------------------------------------------
(* The panel.  An operation keeps the entry that was shown at the click.   *)

Operation(what, t, move) ==
  [what |-> what, task |-> t, entry |-> mirror[t], file |-> None, move |-> move,
   window |-> "open"]

MayAsk == Cardinality(dialogs) + Len(requests) + Len(replies) < MaxAsked

\* handleInstall also unflags a removal that runs.
AskInstall(t) ==
  /\ "install" \notin flags.running /\ MayAsk
  /\ flags' = [flags EXCEPT !.running = (@ \ {"remove"}) \cup {"install"}]
  /\ dialogs' = dialogs \cup {Operation("install", t, None)}
  /\ UNCHANGED <<storeVars, mirror, requests, replies>>

AskSwitch(t) ==
  /\ mirror[t] # None /\ flags = Idle /\ MayAsk
  /\ flags' = [flags EXCEPT !.running = {"switch"}]
  /\ dialogs' = dialogs \cup {Operation("switch", t, None)}
  /\ UNCHANGED <<storeVars, mirror, requests, replies>>

Picks(o, file) ==
  /\ dialogs' = dialogs \ {o}
  /\ requests' = Append(requests, [o EXCEPT !.file = file])
  /\ UNCHANGED <<storeVars, mirror, flags, replies>>

Cancels(o) ==
  /\ dialogs' = dialogs \ {o}
  /\ flags' = [flags EXCEPT !.running = @ \ {o.what}]
  /\ UNCHANGED <<storeVars, mirror, requests, replies>>

Sends(what, t, move) ==
  /\ mirror[t] # None /\ flags.running \cap {"remove", "switch"} = {} /\ MayAsk
  /\ requests' = Append(requests, Operation(what, t, move))
  /\ UNCHANGED <<storeVars, mirror, dialogs, replies>>

\* After a second click that confirms.
AskRemove(t) ==
  /\ flags.advancing = None
  /\ flags' = [flags EXCEPT !.running = @ \cup {"remove"}]
  /\ Sends("remove", t, None)

\* A move names a direction or, through the same request, a phase; the
\* buttons only send the directions without force.
Moves(plugin) ==
  [to : {"next", "previous"} \cup Ids(plugin), force : BOOLEAN]

\* Another Task may be advanced meanwhile; its end unflags both.
AskAdvance(t, move) ==
  /\ flags.advancing # t
  /\ flags' = [flags EXCEPT !.advancing = t]
  /\ Sends("advance", t, move)

-----------------------------------------------------------------------------
(* The main process.                                                       *)

Expected(o) == IF o.entry = None THEN 0 ELSE o.entry.revision
Stored(t) == IF binding[t] = None THEN 0 ELSE binding[t].revision

\* Mutant: the revision is not asked.
AnyRevision(o) == o.what = "install" \/ binding[o.task] # None

\* findByTaskId and the comparison of the revisions; upsert compares again.
RevisionMatches(o) ==
  /\ Stored(o.task) = Expected(o)
  /\ o.what # "install" => binding[o.task] # None

\* The active phase stays, so the new plugin must have it.
Switches(o) ==
  /\ Loads(contents[o.file])
  /\ binding[o.task].active \in Ids(contents[o.file].phases)

\* The index that a move leads to, if the plugin has it.
Target(plugin, active, move) ==
  LET at == PhaseAt(plugin, active)
  IN CASE move.to = "next" -> at + 1
       [] move.to = "previous" -> at - 1
       [] OTHER -> PhaseAt(plugin, move.to)

\* A forward move into a phase that has its artifact already needs force.
MayEnter(o, plugin, to) ==
  to > PhaseAt(plugin, binding[o.task].active)
    => o.move.force \/ plugin[to].kind \notin artifacts[o.task]

\* The bound file is loaded again, whatever it holds by now.
Advances(o) ==
  LET text == contents[binding[o.task].file]
      plugin == text.phases
      active == binding[o.task].active
  IN /\ Loads(text)
     /\ active \in Ids(plugin)
     /\ Target(plugin, active, o.move) \in DOMAIN plugin
     /\ MayEnter(o, plugin, Target(plugin, active, o.move))

Accepts(o) ==
  /\ RevisionMatches(o)
  /\ CASE o.what = "install" -> Loads(contents[o.file])
       [] o.what = "remove" -> TRUE
       [] o.what = "switch" -> Switches(o)
       [] o.what = "advance" -> Advances(o)

Replies(o, result, entry) ==
  /\ requests' = Tail(requests)
  /\ replies' = IF o.window = "gone" THEN replies
                ELSE Append(replies, [what |-> o.what, task |-> o.task,
                                      result |-> result, entry |-> entry])
  /\ UNCHANGED <<contents, artifacts, resolved, mirror, flags, dialogs>>

Stores(o, file, active) ==
  LET new == [file |-> file, plugin |-> contents[file].phases, active |-> active,
              revision |-> Stored(o.task) + 1,
              nth |-> IF binding[o.task] = None THEN installs[o.task] + 1
                      ELSE installs[o.task]]
  IN /\ new.revision <= MaxRevision /\ new.nth <= MaxInstalls
     /\ binding' = [binding EXCEPT ![o.task] = new]
     /\ installs' = [installs EXCEPT ![o.task] = new.nth]
     /\ Replies(o, "stored", new)

InstallForTask(o) ==
  /\ o.what = "install" /\ Accepts(o)
  /\ Stores(o, o.file, Head(contents[o.file].phases).id)

RemoveForTask(o) ==
  /\ o.what = "remove" /\ Accepts(o)
  /\ binding' = [binding EXCEPT ![o.task] = None]
  /\ UNCHANGED installs
  /\ Replies(o, "removed", None)

SwitchForTask(o) ==
  /\ o.what = "switch" /\ Accepts(o)
  /\ Stores(o, o.file, binding[o.task].active)

AdvanceForTask(o) ==
  /\ o.what = "advance" /\ Accepts(o)
  /\ LET file == binding[o.task].file
         to == Target(contents[file].phases, binding[o.task].active, o.move)
     IN Stores(o, file, contents[file].phases[to].id)

Refuse(o) ==
  /\ ~ Accepts(o)
  /\ UNCHANGED <<binding, installs>>
  /\ Replies(o, "refused", None)

Handle ==
  /\ requests # << >>
  /\ LET o == Head(requests)
     IN InstallForTask(o) \/ RemoveForTask(o) \/ SwitchForTask(o) \/ AdvanceForTask(o) \/ Refuse(o)

\* The answer goes into what the window knows; a switch or an advance only
\* updates an entry that is there.
Learn ==
  /\ replies # << >>
  /\ LET r == Head(replies)
     IN /\ flags' = IF r.what = "advance" THEN [flags EXCEPT !.advancing = None]
                    ELSE [flags EXCEPT !.running = @ \ {r.what}]
        /\ mirror' =
             CASE r.result = "refused" -> mirror
               [] r.result = "removed" -> [mirror EXCEPT ![r.task] = None]
               [] r.what # "install" /\ mirror[r.task] = None -> mirror
               [] OTHER -> [mirror EXCEPT ![r.task] = r.entry]
  /\ replies' = Tail(replies)
  /\ UNCHANGED <<storeVars, dialogs, requests>>

Next ==
  \/ \E f \in Files, text \in Texts : FileChanges(f, text)
  \/ \E t \in Tasks :
       \/ \E kind \in MadeKinds : ArtifactIsMade(t, kind)
       \/ AskInstall(t) \/ AskSwitch(t) \/ AskRemove(t)
       \/ \E text \in Texts : \E move \in Moves(text.phases) : AskAdvance(t, move)
       \/ \E name \in Kinds : ResolveAgent(t, name)
  \/ \E o \in dialogs : Cancels(o) \/ \E file \in Files : Picks(o, file)
  \/ Reopen \/ Handle \/ Learn

Spec == Init /\ [][Next]_bindingVars

-----------------------------------------------------------------------------
(* Properties.                                                             *)

\* A binding is only changed by a request of which the window had shown that
\* very binding (no update is lost), unless it was removed and installed anew
\* in between: revisions start over then.
NoUpdateIsLost ==
  \A t \in Tasks : binding'[t] # binding[t] =>
    LET o == Head(requests)
    IN /\ o.task = t
       /\ \/ o.entry = binding[t]
          \/ None \notin {o.entry, binding[t]} /\ o.entry.nth # binding[t].nth

\* A forward step never enters a phase whose artifact is recorded unless it was
\* forced, judged by what the file held at the step.
RecordedNeedsForce ==
  \A t \in Tasks :
    LET o == Head(requests)
        old == binding[t]
        new == binding'[t]
    IN requests # << >> /\ o.what = "advance" /\ new # old
         => \/ o.move.force
            \/ PhaseAt(new.plugin, new.active) <= PhaseAt(new.plugin, old.active)
            \/ new.plugin[PhaseAt(new.plugin, new.active)].kind \notin artifacts[t]

\* At every change, the phase that becomes active is one of the plugin that the
\* binding names, as that plugin's file was read for the change.
PhaseIsDeclared ==
  \A t \in Tasks : binding[t] # None =>
    /\ binding[t].active \in Ids(binding[t].plugin)
    /\ Len(binding[t].plugin) = Cardinality(Ids(binding[t].plugin))

\* The agent that a Task is given by its plugin is one that the phase allows.
AgentIsAllowed ==
  resolved # None => resolved.agent \in AllowedAgents(resolved.phase.kind)

\* The four of them, for every step.
BindingStepIsSound ==
  NoUpdateIsLost /\ RecordedNeedsForce /\ PhaseIsDeclared' /\ AgentIsAllowed'

BindingsAreSound == [][BindingStepIsSound]_bindingVars

\* Not true: what a window shows, when nothing is on its way, is what is stored (the
\* window never loads the bindings).
PersistedIsShown ==
  requests = << >> /\ replies = << >> => mirror = binding

-----------------------------------------------------------------------------
(* An inductive invariant.                                                 *)

\* The catalogue is a list of agents, and a file lists its phases.
WellFormed ==
  /\ Catalog \in Seq(ToSet(Catalog))
  /\ \A text \in Texts : text.phases \in Seq(ToSet(text.phases))

Plugins == {text.phases : text \in Texts}

Entries ==
  [file : Files, plugin : Plugins, active : UNION {Ids(plugin) : plugin \in Plugins},
   revision : Nat \ {0}, nth : Nat \ {0}]

Asked ==
  [what : Operations, task : Tasks, entry : Entries \cup {None}, file : Files \cup {None},
   move : (UNION {Moves(plugin) : plugin \in Plugins}) \cup {None}, window : {"open", "gone"}]

Answers ==
  [what : Operations, task : Tasks, result : {"stored", "removed", "refused"},
   entry : Entries \cup {None}]

TypeOK ==
  /\ contents \in [Files -> Texts]
  /\ binding \in [Tasks -> Entries \cup {None}] /\ mirror \in [Tasks -> Entries \cup {None}]
  /\ installs \in [Tasks -> Nat]
  /\ dialogs \subseteq Asked /\ requests \in Seq(Asked) /\ replies \in Seq(Answers)

\* A binding is of the last installation.
BindingIsLatest == \A t \in Tasks : binding[t] # None => binding[t].nth = installs[t]

\* An entry that the window knows, or asked or hears with, was stored: it is of an
\* installation that has been, and if that one lasts, it is the binding or an earlier one.
WasStored(t, entry) ==
  entry # None =>
    /\ entry.nth <= installs[t]
    /\ binding[t] # None /\ entry.nth = binding[t].nth =>
         /\ entry.revision <= binding[t].revision
         /\ entry.revision = binding[t].revision => entry = binding[t]

KnownWasStored ==
  /\ \A t \in Tasks : WasStored(t, mirror[t])
  /\ \A o \in dialogs : WasStored(o.task, o.entry)
  /\ \A i \in DOMAIN requests : WasStored(requests[i].task, requests[i].entry)
  /\ \A i \in DOMAIN replies : WasStored(replies[i].task, replies[i].entry)

\* A file was picked for the requests that load one.
FilesArePicked ==
  \A i \in DOMAIN requests :
    requests[i].what \in {"install", "switch"} => requests[i].file \in Files

IInv ==
  /\ TypeOK /\ BindingIsLatest /\ KnownWasStored /\ FilesArePicked
  /\ PhaseIsDeclared /\ AgentIsAllowed
=============================================================================
