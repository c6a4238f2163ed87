---------------------------- MODULE CommandPalette ----------------------------
(***************************************************************************)
(* The keyboard of the workspace: the commands that a Task allows, the     *)
(* palette that lists, ranks and runs them, the commands run before, and   *)
(* the mnemonic keys. The overview may change while the palette is open.   *)
(*                                                                         *)
(* A command's id is the sequence of the words its colons separate; label  *)
(* and keywords are one short text.                                        *)
(***************************************************************************)
EXTENDS Integers, Sequences, FiniteSets, SequencesExt

CONSTANTS
  Contexts,     \* what the overview says of the selected Task, see WorkspaceCommand
  Queries,      \* the texts that the user searches
  Text(_),      \* a command's label, category, id and keywords, as characters
  LabelRank(_), \* the order of the labels
  MaxActs,      \* bound: keys and clicks of one run
  None

VARIABLES
  context,      \* the context that is rendered
  palette,      \* [open, query, activeIndex]
  recents,      \* ids of the last commands
  last,         \* [by, shown, does, unique] of the last command, or None
  acts

paletteVars == <<context, palette, recents, last, acts>>

MaxRecents == 5
Closed == [open |-> FALSE, query |-> << >>, activeIndex |-> 0]

Init ==
  /\ context \in Contexts /\ palette = Closed /\ recents = << >>
  /\ last = None /\ acts = 0

-----------------------------------------------------------------------------
(* The commands of a context [tasks, selected, busy, agent, can, gates,    *)
(* dependencies]: "can" holds the names of the read model's flags.         *)

Command(category, id, does) == [category |-> category, id |-> id, does |-> does]
Where(condition, commands) == IF condition THEN commands ELSE << >>
Each(elements, Make(_)) == [i \in DOMAIN elements |-> Make(elements[i])]

SelectCommands(c) ==
  Each(c.tasks, LAMBDA t : Command("Task", <<"task", t>>, <<"selectTask", t>>))

NoteCommands(c) ==
  Where("captureNote" \in c.can,
        <<Command("Task", <<"task", "capture-brainstorm">>, <<"captureBrainstormNote">>),
          Command("Task", <<"task", "capture-sweep">>, <<"captureSweepNote">>)>>)

AttemptCommands(c) ==
  Where("startResearch" \in c.can,
        <<Command("Task", <<"research", "start">>, <<"startResearch">>)>>)
  \o (IF c.can \intersect {"startPlanning", "revisePlan"} # {}
      THEN <<Command("Task", <<"execution", "planning">>, <<"startPlanning">>)>>
      ELSE IF "retryExecution" \in c.can
      THEN <<Command("Task", <<"execution", "retry">>, <<"retryExecution">>)>>
      ELSE Where("startExecution" \in c.can,
                 <<Command("Task", <<"execution", "start">>, <<"startExecution">>)>>))

ReviewCommands(c) ==
  Where("requestReview" \in c.can,
        <<Command("Task", <<"review", "request">>, <<"requestReview">>)>>)
  \o Where("checkMergeConflicts" \in c.can,
           <<Command("Task", <<"review", "merge-conflicts", "check">>, <<"checkMergeConflicts">>)>>)
  \o Where("sendMergeConflictResolution" \in c.can,
           <<Command("Task", <<"review", "merge-conflicts", "resolve">>,
                     <<"sendMergeConflictResolution">>)>>)

FocusCommands ==
  Each(<<<<"focus", "sidebar">>, <<"focus", "workspace">>, <<"open", "terminal">>,
         <<"open", "artifacts">>, <<"open", "checks">>, <<"open", "changes">>,
         <<"open", "review">>>>,
       LAMBDA id : Command("Navigate", id, <<"focus", id[2]>>))

\* A gate's id may hold colons of its own.
GateCommands(c) ==
  Each(c.gates, LAMBDA g : Command("Quality gates", <<"gate">> \o g, <<"runQualityGate", g>>))
  \o Each(c.gates, LAMBDA g : Command("Quality gates", <<"gate", "remove">> \o g,
                                      <<"unregisterQualityGate", g>>))
  \o <<Command("Quality gates", <<"gate", "config", "import">>, <<"importQualityGateConfig">>)>>
  \o Where(c.gates # << >>,
           <<Command("Quality gates", <<"gate", "config", "export">>,
                     <<"exportQualityGateConfig">>)>>)

\* The first Task that is not required yet, and the first that is.
DependencyCommands(c) ==
  LET unmet == SelectSeq(c.tasks, LAMBDA t : t # c.selected /\ ~Contains(c.dependencies, t))
  IN  Where(unmet # << >>, Each(SubSeq(unmet, 1, 1), LAMBDA t :
              Command("Task", <<"dependency", "require", t>>, <<"addDependency", t>>)))
      \o Where(c.dependencies # << >>, Each(SubSeq(c.dependencies, 1, 1), LAMBDA t :
              Command("Task", <<"dependency", "remove", t>>, <<"removeDependency", t>>)))

ActionCommands(c) ==
  Where(c.agent, NoteCommands(c) \o AttemptCommands(c))
  \o ReviewCommands(c)

EditCommands(c) ==
  Where("runQualityGate" \in c.can, GateCommands(c))
  \o Where("produceArtifact" \in c.can,
           <<Command("Task", <<"artifact", "produce">>, <<"focus", "artifact-producer">>)>>)
  \o DependencyCommands(c)
  \o Where("runQualityGate" \in c.can,
           <<Command("Quality gates", <<"gate", "register">>, <<"focus", "checks">>)>>)

Commands(c) ==
  SelectCommands(c)
  \o Where(c.selected # None,
           Where(~c.busy, ActionCommands(c)) \o FocusCommands \o Where(~c.busy, EditCommands(c))
           \o <<Command("Navigate", <<"view", "open-board">>, <<"openBoardWindow">>)>>)

-----------------------------------------------------------------------------
(* The list of the palette.                                                *)

\* fuzzyScore: the needle's characters are taken where they come first; runs
\* and beginnings of words gain, gaps lose more and more.
Taken(haystack, needle) ==
  LET taken[h \in 0 .. Len(haystack)] ==
        IF h = 0 THEN [found |-> 0, at |-> -1, bonus |-> 0, gaps |-> 0, score |-> 0]
        ELSE LET s == taken[h - 1]
                 follows == h = s.at + 1
                 bonus == IF follows THEN s.bonus + 2 ELSE 0
                 gaps == IF follows THEN s.gaps ELSE s.gaps + 1
                 begins == h = 1 \/ haystack[h - 1] = " "
             IN  IF s.found = Len(needle) \/ haystack[h] # needle[s.found + 1] THEN s
                 ELSE [found |-> s.found + 1, at |-> h, bonus |-> bonus, gaps |-> gaps,
                       score |-> s.score + 1 + (IF follows THEN bonus ELSE 1 - gaps)
                                 + (IF begins THEN 5 ELSE 0)]
  IN  taken[Len(haystack)]

FuzzyScore(haystack, needle) ==
  LET taken == Taken(haystack, needle)
      score == taken.score + (IF taken.at = Len(haystack) THEN 2 ELSE 0)
  IN  IF needle = << >> \/ taken.found < Len(needle) \/ score < 0 THEN 0 ELSE score

Ranked(commands, query) ==
  LET scored == Each(commands, LAMBDA c : [command |-> c, score |-> FuzzyScore(Text(c), query)])
      Before(a, b) == \/ a.score > b.score
                      \/ a.score = b.score /\ LabelRank(a.command) < LabelRank(b.command)
  IN  IF query = << >> THEN commands
      ELSE Each(SortSeq(SelectSeq(scored, LAMBDA e : e.score > 0), Before), LAMBDA e : e.command)

\* commandsById: of two commands with one id, the later.
ById(commands, id) ==
  commands[CHOOSE i \in DOMAIN commands :
             /\ commands[i].id = id
             /\ \A j \in DOMAIN commands : commands[j].id = id => j <= i]

UniqueIds(commands) ==
  \A i, j \in DOMAIN commands : commands[i].id = commands[j].id => i = j

HasId(commands, id) == \E i \in DOMAIN commands : commands[i].id = id

RecentStrip(commands, ranked) ==
  Each(SelectSeq(recents, LAMBDA id : HasId(commands, id) /\ HasId(ranked, id)),
       LAMBDA id : ById(commands, id))

\* groupCommandsByCategory: in the order in which the categories come.
ByCategory(commands) ==
  LET firsts == SelectSeq([i \in DOMAIN commands |-> i], LAMBDA i :
                  \A j \in 1 .. i - 1 : commands[j].category # commands[i].category)
  IN  FlattenSeq(Each(firsts, LAMBDA i :
        SelectSeq(commands, LAMBDA c : c.category = commands[i].category)))

\* Mutant of WithoutRecent: the recent ones stay in their categories, too.
WithRecent(ranked, strip) == ByCategory(ranked)

\* filterOutRecent.
WithoutRecent(ranked, strip) ==
  ByCategory(SelectSeq(ranked, LAMBDA c : ~HasId(strip, c.id)))

ListFor(query) ==
  LET commands == Commands(context)
      ranked == Ranked(commands, query)
      strip == RecentStrip(commands, ranked)
  IN  strip \o WithoutRecent(ranked, strip)

List == ListFor(palette.query)

-----------------------------------------------------------------------------
(* Keys and clicks.                                                        *)

Acts == acts < MaxActs /\ acts' = acts + 1

\* reduceCommandPalette; an index of -1 is no command.
Starting(count) == IF count = 0 THEN -1 ELSE 0

\* The shortcut and the button; the shortcut also starts an open palette anew.
OpenPalette ==
  /\ Acts
  /\ palette' = [open |-> TRUE, query |-> << >>, activeIndex |-> 0]
  /\ UNCHANGED <<context, recents, last>>

\* Escape, the backdrop, or a shortcut that goes elsewhere.
ClosePalette ==
  /\ palette.open /\ Acts
  /\ palette' = Closed
  /\ UNCHANGED <<context, recents, last>>

Search ==
  /\ palette.open /\ Acts
  /\ \E query \in Queries :
       palette' = [palette EXCEPT !.query = query,
                                  !.activeIndex = Starting(Len(Ranked(Commands(context), query)))]
  /\ UNCHANGED <<context, recents, last>>

Move ==
  /\ palette.open /\ Acts
  /\ \E delta \in {-1, 1} :
       LET count == Len(List)
       IN  palette' = [palette EXCEPT !.activeIndex =
                         IF count = 0 THEN -1 ELSE (@ + delta + count) % count]
  /\ UNCHANGED <<context, recents, last>>

\* The mouse enters an entry: its index is taken for a number of results.
Hover ==
  /\ palette.open /\ Acts
  /\ \E flatIndex \in 0 .. Len(List) - 1 :
       palette' = [palette EXCEPT !.activeIndex = Starting(flatIndex)]
  /\ UNCHANGED <<context, recents, last>>

Run(shown) ==
  LET command == ById(Commands(context), shown.id)
      others == SelectSeq(recents, LAMBDA id : id # command.id)
      ids == <<command.id>> \o others
  IN  /\ last' = [by |-> "palette", shown |-> shown.does, does |-> command.does,
                  unique |-> UniqueIds(Commands(context))]
      /\ recents' = SubSeq(ids, 1, IF Len(ids) < MaxRecents THEN Len(ids) ELSE MaxRecents)
      /\ palette' = Closed
      /\ UNCHANGED context

Enter ==
  /\ palette.open /\ Acts
  /\ LET list == List
         active == palette.activeIndex + 1
     IN  active \in DOMAIN list /\ Run(list[active])

Click ==
  /\ palette.open /\ Acts
  /\ \E shown \in ToSet(List) : Run(shown)

\* resolveWorkspaceMnemonic.  A key is its letter and whether Shift is down.
Mnemonic(can, key) ==
  CASE key = <<"p", FALSE>> ->
         IF "beginPlanning" \in can THEN "beginPlanning"
         ELSE IF can \intersect {"startPlanning", "revisePlan"} # {} THEN "startPlanning" ELSE None
    [] key = <<"s", FALSE>> -> IF "startExecution" \in can THEN "startExecution" ELSE None
    [] key = <<"r", TRUE>> -> IF "requestReview" \in can THEN "requestReview" ELSE None
    [] key = <<"r", FALSE>> -> IF "retryExecution" \in can THEN "retryExecution" ELSE None
    [] key = <<"e", TRUE>> -> IF "startResearch" \in can THEN "startResearch" ELSE None
    [] key = <<"b", TRUE>> -> IF "captureNote" \in can THEN "captureBrainstormNote" ELSE None
    [] key = <<"w", TRUE>> -> IF "captureNote" \in can THEN "captureSweepNote" ELSE None
    [] key = <<"a", FALSE>> -> IF "acceptPlan" \in can THEN "acceptPlan" ELSE None
    [] key = <<"c", TRUE>> -> IF "requestChanges" \in can THEN "requestChanges" ELSE None
    [] key = <<"d", FALSE>> -> IF "approveReview" \in can THEN "approveReview" ELSE None
    [] OTHER -> None

\* Its handler knows no case for the two notes.
Dispatched(action) ==
  IF action \in {"captureBrainstormNote", "captureSweepNote"} THEN <<"nothing">> ELSE <<action>>

PressMnemonic ==
  /\ ~palette.open /\ context.selected # None /\ ~context.busy /\ Acts
  /\ \E key \in {"p", "s", "r", "e", "b", "w", "a", "c", "d"} \X BOOLEAN :
       LET action == Mnemonic(context.can, key)
       IN  /\ action # None
           /\ last' = [by |-> "mnemonic", shown |-> <<action>>, does |-> Dispatched(action),
                       unique |-> TRUE]
  /\ UNCHANGED <<context, palette, recents>>

\* Something else has happened, and the workspace is rendered again.
Rerender ==
  /\ context' \in Contexts \ {context}
  /\ UNCHANGED <<palette, recents, last, acts>>

Next ==
  \/ OpenPalette \/ ClosePalette \/ Search \/ Move \/ Hover \/ Enter \/ Click
  \/ PressMnemonic \/ Rerender

Spec == Init /\ [][Next]_paletteVars

-----------------------------------------------------------------------------
(* What must hold.                                                         *)

\* While no two commands have one id, the entry that runs is the entry that is
\* shown.  Not so otherwise: a gate may be called "register", and its command then
\* has the id of another.
RunsWhatIsShown ==
  last # None /\ last.by = "palette" /\ last.unique => last.shown = last.does

\* While no two commands have one id, the list holds every command that the query
\* finds, each once, whether it has been run before or not.  An id that was run
\* before outlives the overview it came from: it stands for what the command is now,
\* or for nothing.  (command-palette.tsx gives every command one entry, in the
\* recent strip or in its category.)
ListsEachOnce ==
  LET commands == Commands(context)
      ranked == Ranked(commands, palette.query)
      list == List
  IN  palette.open /\ UniqueIds(commands) =>
        /\ ToSet(list) = ToSet(ranked)
        /\ Len(list) = Len(ranked) /\ IsInjective(list)

\* The recent commands are five at most, and no two of them the same.
RecentsAreShort == Len(recents) <= MaxRecents /\ IsInjective(recents)

\* While ids are unique, what the palette shows is what it runs, all of it and
\* once, whatever was run before and however the workspace changes while it is open.
PaletteIsSound == RunsWhatIsShown /\ ListsEachOnce /\ RecentsAreShort

\* Not true: every key that is taken for a command runs it.
MnemonicsRun == last # None /\ last.by = "mnemonic" => last.shown = last.does

\* Not true: a command whose text contains the query is found.
LiteralMatchIsFound ==
  \A i \in DOMAIN Commands(context) :
    LET c == Commands(context)[i]
        text == Text(c)
    IN  (\E h \in DOMAIN text : \E k \in h .. Len(text) : SubSeq(text, h, k) = palette.query)
        => Contains(List, c)

\* Not true: when the mouse enters an entry, an entry is active.
HoverActivates == [][Hover => palette'.activeIndex >= 0]_paletteVars
=============================================================================
