--------------------------- MODULE SettingsStore ---------------------------
(***************************************************************************)
(* The settings of the application: one row with a revision, and the rows  *)
(* of the agents' executables that belong to it.  An update compares the   *)
(* revision, inspects every executable, one after the other, and stores    *)
(* only if the revision is still the same; SQLite does that in one step.   *)
(***************************************************************************)
EXTENDS Naturals

CONSTANTS
  Windows,       \* those that edit the settings
  Agents,        \* the agents of the catalogue
  Foreign,       \* an agent that the catalogue does not have
  Tokens,        \* tokens of the MCP server
  MaxRevision,   \* bound
  None

VARIABLES
  settings,      \* revision, default agent, token, agents with an executable
  absent,        \* the agents whose executable cannot be found now
  view,          \* the settings that each window shows, or None
  update         \* the update that each window waits for, or None

settingsVars == <<settings, absent, view, update>>

\* What a form sends: without a token, the token is to stay.
Inputs == [agent : Agents \cup {Foreign}, executables : SUBSET (Agents \cup {Foreign}),
           token : Tokens \cup {None}]

Init ==
  /\ \E agent \in Agents :
       settings = [revision |-> 0, agent |-> agent, token |-> None, executables |-> {}]
  /\ absent = {}
  /\ view = [w \in Windows |-> None] /\ update = [w \in Windows |-> None]

-----------------------------------------------------------------------------

ExecutableComesOrGoes(a) ==
  /\ absent' = (absent \ {a}) \cup ({a} \ absent)
  /\ UNCHANGED <<settings, view, update>>

\* loadApplicationSettings
Load(w) ==
  /\ update[w] = None /\ view[w] # settings
  /\ view' = [view EXCEPT ![w] = settings]
  /\ UNCHANGED <<settings, absent, update>>

\* createApplicationSettings: the revision advances by one, and a token that
\* the input leaves out is the one that was read.
ChangedFrom(read, input) ==
  [revision |-> read.revision + 1, agent |-> input.agent,
   token |-> IF input.token = None THEN read.token ELSE input.token,
   executables |-> input.executables]

Changed(input) == ChangedFrom(settings, input)

\* updateApplicationSettings up to the first inspection; what it refuses at
\* once changes nothing.
Update(w, input) ==
  /\ view[w] # None /\ update[w] = None
  /\ view[w].revision = settings.revision /\ settings.revision < MaxRevision
  /\ input.agent \in Agents
  /\ update' = [update EXCEPT ![w] =
       [input |-> input, next |-> Changed(input), inspect |-> input.executables,
        stored |-> FALSE]]
  /\ UNCHANGED <<settings, absent, view>>

Ends(w) == update' = [update EXCEPT ![w] = None]
Runs(w) == update[w] # None /\ ~ update[w].stored

Inspect(w, a) ==
  /\ Runs(w) /\ a \in update[w].inspect
  /\ IF a \notin Agents \/ a \in absent THEN Ends(w)
     ELSE update' = [update EXCEPT ![w].inspect = @ \ {a}]
  /\ UNCHANGED <<settings, absent, view>>

\* Mutant: what was read before the inspections is not compared again.
NotCompared(u) == TRUE

\* UPDATE ... WHERE revision = the expected one.
StillExpected(u) == settings.revision = u.next.revision - 1

Store(w) ==
  /\ Runs(w) /\ update[w].inspect = {}
  /\ IF StillExpected(update[w])
     THEN /\ settings' = update[w].next
          /\ update' = [update EXCEPT ![w].stored = TRUE]
     ELSE UNCHANGED settings /\ Ends(w)
  /\ UNCHANGED <<absent, view>>

\* The disk refuses: the transaction is rolled back.
StoreFails(w) ==
  /\ Runs(w) /\ update[w].inspect = {}
  /\ Ends(w)
  /\ UNCHANGED <<settings, absent, view>>

\* The window shows what it has saved.
Answer(w) ==
  /\ update[w] # None /\ update[w].stored
  /\ view' = [view EXCEPT ![w] = update[w].next]
  /\ Ends(w)
  /\ UNCHANGED <<settings, absent>>

Next ==
  \/ \E a \in Agents : ExecutableComesOrGoes(a)
  \/ \E w \in Windows :
       \/ Load(w) \/ Store(w) \/ StoreFails(w) \/ Answer(w)
       \/ \E input \in Inputs : Update(w, input)
       \/ \E a \in Agents \cup {Foreign} : Inspect(w, a)

Spec == Init /\ [][Next]_settingsVars

-----------------------------------------------------------------------------
(* Properties.                                                             *)

\* Each change of the settings is one window's input put on the very settings
\* that this window showed: no other window's save is overwritten unseen, a
\* token is never lost on the way, and every executable is of a known agent.
ChangeWasSeen ==
  settings' # settings =>
    \E w \in Windows :
      /\ Runs(w) /\ view[w] = settings
      /\ settings' = Changed(update[w].input)
      /\ settings'.executables \subseteq Agents

NoSettingsAreLost == [][ChangeWasSeen]_settingsVars

-----------------------------------------------------------------------------
(* Why it holds.                                                           *)

Settings == [revision : Nat, agent : Agents, token : Tokens \cup {None},
             executables : SUBSET (Agents \cup {Foreign})]

TypeOK ==
  /\ settings \in Settings
  /\ view \in [Windows -> Settings \cup {None}]
  /\ update \in [Windows -> [input : Inputs, next : Settings, stored : BOOLEAN,
                             inspect : SUBSET (Agents \cup {Foreign})] \cup {None}]

\* Of two settings that were stored, the later one has the higher revision.
StoredBefore(read) ==
  /\ read.revision <= settings.revision
  /\ read.revision = settings.revision => read = settings

\* A window shows settings that were stored, and an update is the input put on
\* those that its window shows, until it is stored itself.
UpdatesFollowViews ==
  \A w \in Windows :
    /\ view[w] # None => StoredBefore(view[w])
    /\ Runs(w) =>
         /\ view[w] # None
         /\ update[w].next = ChangedFrom(view[w], update[w].input)
         /\ update[w].input.executables \ update[w].inspect \subseteq Agents
    /\ update[w] # None /\ update[w].stored => StoredBefore(update[w].next)

IInv == TypeOK /\ UpdatesFollowViews
=============================================================================
