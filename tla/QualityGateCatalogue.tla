------------------------ MODULE QualityGateCatalogue ------------------------
(***************************************************************************)
(* The Quality Gates that a desktop may run: the catalogue in the main     *)
(* process with its file quality-gates.json, the import and export of      *)
(* trusted configuration files, and the window that lists, registers and   *)
(* removes them.                                                           *)
(*                                                                         *)
(* A gate is its id and whether the application's rules allow it: its time *)
(* limit, path and arguments. A main process does one call after the       *)
(* other, for none of them waits; another desktop may have the same data   *)
(* directory.                                                              *)
(***************************************************************************)
EXTENDS Naturals, Sequences, FiniteSets, SequencesExt

CONSTANTS
  Desktops,
  Viewer,     \* the desktop whose window is modelled
  Allowed,    \* ids of gates that the rules allow
  Texts,      \* configuration files: [trusted, gates]; one that is missing or
              \* malformed has no gates
  MaxCalls,   \* bound: calls of the windows
  MaxFailures, \* bound: crashes and failed writes
  None

VARIABLES
  file,       \* quality-gates.json: [torn, gates]
  memory,     \* the Map of each main process, in its order
  job,        \* what each main process does, or None
  config,     \* the configuration file that the dialog selects
  calls,      \* calls of Viewer's window that wait for its main process
  shown,      \* the gates that the window lists
  loading,    \* those that a load of the whole workspace has read, or None
  answered,   \* the ids whose registration was answered and that were not removed
  spoiled,    \* a desktop wrote what lacks gates of another, or began with a torn file
  imported,   \* the last import: [of, registered, rejected, answered], or None
  made,       \* calls so far
  failures

catalogue == <<file, memory, spoiled, answered>>
screen == <<calls, shown, loading>>
gateVars == <<catalogue, job, config, screen, imported, made, failures>>

Init ==
  /\ file = [torn |-> FALSE, gates |-> << >>]
  /\ memory = [d \in Desktops |-> << >>] /\ job = [d \in Desktops |-> None]
  /\ config \in Texts
  /\ calls = << >> /\ shown = << >> /\ loading = None
  /\ answered = {} /\ spoiled = FALSE /\ imported = None /\ made = 0 /\ failures = 0

Failure == failures < MaxFailures /\ failures' = failures + 1

-----------------------------------------------------------------------------
(* The catalogue. A job has the gates that are still to be registered.     *)

Job(call, left) == [call |-> call, left |-> left, done |-> << >>, rejected |-> << >>,
                    writes |-> FALSE]

\* What an import that ends has done, and whether the window is told.
Ends(d, told) ==
  imported' = IF job[d].call.kind # "import" THEN imported
              ELSE [of |-> job[d].call.of, registered |-> job[d].done,
                    rejected |-> job[d].rejected, answered |-> told]

\* What the window does with an answer: it lists the gates again.
Answered(d, refresh) ==
  calls' = IF d # Viewer THEN calls
           ELSE IF refresh THEN Append(Tail(calls), [kind |-> "list"]) ELSE Tail(calls)

End(d, refresh) == job' = [job EXCEPT ![d] = None] /\ Answered(d, refresh)

\* register and unregister change the Map and begin to write all of it: the file
\* is truncated first.
Persist(d, gates, next) ==
  /\ memory' = [memory EXCEPT ![d] = gates]
  /\ file' = [file EXCEPT !.torn = TRUE]
  /\ job' = [job EXCEPT ![d] = [next EXCEPT !.writes = TRUE]]

\* registerQualityGate: the rules reject a gate (an import goes on), the catalogue a
\* duplicate (an import ends there, with an error).
RegisterNext(d) ==
  LET id == Head(job[d].left)
  IN  /\ job[d] # None /\ ~job[d].writes /\ job[d].left # << >>
      /\ \/ /\ id \notin Allowed /\ job[d].call.kind = "import"
            /\ job' = [job EXCEPT ![d] =
                       [job[d] EXCEPT !.left = Tail(@), !.rejected = Append(@, id)]]
            /\ UNCHANGED <<catalogue, imported, calls>>
         \/ /\ id \in Allowed /\ Contains(memory[d], id)
            /\ Ends(d, FALSE) /\ End(d, FALSE)
            /\ UNCHANGED catalogue
         \/ /\ id \in Allowed /\ ~Contains(memory[d], id)
            /\ Persist(d, Append(memory[d], id),
                       [job[d] EXCEPT !.left = Tail(@), !.done = Append(@, id)])
            /\ UNCHANGED <<answered, spoiled, imported, calls>>
      /\ UNCHANGED <<config, shown, loading, made, failures>>

\* The Map without one of its entries.
Without(gates, id) == RemoveAt(gates, CHOOSE i \in DOMAIN gates : gates[i] = id)

\* unregisterQualityGate.
Unregister(d) ==
  LET id == job[d].call.id
  IN  /\ job[d] # None /\ ~job[d].writes /\ job[d].call.kind = "remove"
      /\ IF Contains(memory[d], id) /\ job[d].done = << >>
         THEN /\ Persist(d, Without(memory[d], id), [job[d] EXCEPT !.done = <<id>>])
              /\ answered' = answered \ {id}
              /\ UNCHANGED <<spoiled, calls>>
         ELSE End(d, TRUE) /\ UNCHANGED catalogue
      /\ UNCHANGED <<config, shown, loading, imported, made, failures>>

\* What is registered already, the answer being on its way or given.
Registered ==
  answered \union
    UNION {Range(job[d].done) :
             d \in {e \in Desktops : job[e] # None /\ job[e].call.kind # "remove"}}

\* The file is written, with all of the Map.
Written(d) ==
  /\ job[d] # None /\ job[d].writes
  /\ file' = [torn |-> FALSE, gates |-> memory[d]]
  /\ job' = [job EXCEPT ![d] = [job[d] EXCEPT !.writes = FALSE]]
  /\ spoiled' = (spoiled \/ ~(Registered \subseteq Range(memory[d])))
  /\ UNCHANGED <<memory, answered, config, screen, imported, made, failures>>

\* The write fails, at once or half-way: the call ends with an error and the Map
\* keeps the change.
WriteFails(d) ==
  /\ Failure
  /\ job[d] # None /\ job[d].writes
  /\ \/ file' = [file EXCEPT !.torn = FALSE]
     \/ UNCHANGED file
  /\ Ends(d, FALSE) /\ End(d, FALSE)
  /\ UNCHANGED <<memory, answered, spoiled, config, shown, loading, made>>

\* A register or an import is done.
Finish(d) ==
  /\ job[d] # None /\ ~job[d].writes /\ job[d].left = << >>
  /\ job[d].call.kind \in {"register", "import"}
  /\ answered' = answered \union Range(job[d].done)
  /\ Ends(d, TRUE)
  /\ End(d, TRUE)
  /\ UNCHANGED <<file, memory, spoiled, config, shown, loading, made, failures>>

-----------------------------------------------------------------------------
(* The calls, as the main process takes them.                              *)

\* importQualityGateConfig: load, of a path that is trusted. A file without gates is
\* refused.
Loaded == IF config.trusted THEN config.gates ELSE << >>

BeginCall(d, call) ==
  /\ job[d] = None
  /\ \/ /\ call.kind = "register" /\ job' = [job EXCEPT ![d] = Job(call, <<call.id>>)]
        /\ UNCHANGED <<calls, config, shown>>
     \/ /\ call.kind = "remove" /\ job' = [job EXCEPT ![d] = Job(call, << >>)]
        /\ UNCHANGED <<calls, config, shown>>
     \/ /\ call.kind = "import" /\ Loaded # << >>
        /\ job' = [job EXCEPT ![d] = Job([kind |-> "import", of |-> Loaded], Loaded)]
        /\ UNCHANGED <<calls, config, shown>>
     \/ /\ call.kind = "import" /\ Loaded = << >> /\ End(d, FALSE)
        /\ UNCHANGED <<config, shown>>
     \/ /\ call.kind = "export" /\ End(d, FALSE)
        /\ config' = [config EXCEPT !.gates = IF config.trusted THEN call.gates ELSE @]
        /\ UNCHANGED shown
     \/ /\ call.kind = "list" /\ End(d, FALSE)
        /\ shown' = memory[d]
        /\ UNCHANGED config

TakeCall ==
  /\ calls # << >> /\ BeginCall(Viewer, Head(calls))
  /\ UNCHANGED <<catalogue, loading, imported, made, failures>>

\* Another desktop's window.
OtherCall ==
  /\ made < MaxCalls /\ made' = made + 1
  /\ \E d \in Desktops \ {Viewer} :
       \/ \E id \in Allowed : BeginCall(d, [kind |-> "register", id |-> id])
       \/ \E id \in Range(memory[d]) : BeginCall(d, [kind |-> "remove", id |-> id])
       \/ BeginCall(d, [kind |-> "import"])
  /\ UNCHANGED <<catalogue, loading, imported, failures>>

-----------------------------------------------------------------------------
(* The window.                                                             *)

Waiting(kinds) == \E i \in 1..Len(calls) : calls[i].kind \in kinds

Call(call) ==
  /\ made < MaxCalls /\ made' = made + 1
  /\ calls' = Append(calls, call)
  /\ UNCHANGED <<catalogue, job, config, shown, loading, imported, failures>>

\* The form is closed while it is submitted, and checks the rules itself.
RegisterGate == ~Waiting({"register"}) /\ \E id \in Allowed : Call([kind |-> "register", id |-> id])

RemoveGate ==
  /\ ~Waiting({"register"})
  /\ \E id \in Range(shown) : Call([kind |-> "remove", id |-> id])

Importing == Waiting({"import", "export"})
ImportGates == ~Importing /\ Call([kind |-> "import"])
ExportGates == ~Importing /\ shown # << >> /\ Call([kind |-> "export", gates |-> shown])

\* The workspace is loaded: its parts are read one by one and shown at the end.
LoadReads ==
  /\ loading = None /\ job[Viewer] = None
  /\ loading' = memory[Viewer]
  /\ UNCHANGED <<catalogue, job, config, calls, shown, imported, made, failures>>

LoadShows ==
  /\ loading # None
  /\ shown' = loading /\ loading' = None
  /\ UNCHANGED <<catalogue, job, config, calls, imported, made, failures>>

\* A desktop is killed and starts again: a torn file is ignored.
Restart ==
  /\ Failure
  /\ \E d \in Desktops :
       LET read == IF file.torn THEN << >> ELSE file.gates
       IN  /\ memory' = [memory EXCEPT ![d] = read]
           /\ job' = [job EXCEPT ![d] = None]
           /\ IF d = Viewer THEN calls' = << >> /\ shown' = read /\ loading' = None
              ELSE UNCHANGED screen
  /\ spoiled' = (spoiled \/ file.torn)
  /\ UNCHANGED <<file, answered, config, imported, made>>

Next ==
  \/ \E d \in Desktops :
       RegisterNext(d) \/ Unregister(d) \/ Written(d) \/ WriteFails(d) \/ Finish(d)
  \/ TakeCall \/ OtherCall
  \/ RegisterGate \/ RemoveGate \/ ImportGates \/ ExportGates
  \/ LoadReads \/ LoadShows \/ Restart

Spec == Init /\ [][Next]_gateVars

-----------------------------------------------------------------------------
(* What must hold.                                                         *)

\* JsonFileQualityGateCatalog: a registration that was answered is in the file,
\* whatever is registered, removed, imported or restarted later, unless a write was
\* torn or another desktop wrote from an older Map.
AnsweredIsStored == ~spoiled /\ ~file.torn => answered \subseteq Range(file.gates)

\* No id is in a catalogue twice, whatever an import's file has.
IdsAreUnique == \A d \in Desktops : IsInjective(memory[d])

\* A list has what stands at some places of another, in order and nothing else.
Selects(list, of, places) ==
  /\ Len(list) = Cardinality(places)
  /\ \A i \in places : list[Cardinality({j \in places : j <= i})] = of[i]

\* Of the first n gates of a file those that the rules allow, and the others.
AllowedAt(of, n) == {i \in 1..n : of[i] \in Allowed}
RefusedAt(of, n) == {i \in 1..n : of[i] \notin Allowed}

\* importQualityGateConfig: an answered import accounts for each gate of its file,
\* in order; none was allowed and refused, or the other way round.
ImportIsComplete ==
  imported # None /\ imported.answered =>
    LET of == imported.of
    IN  /\ Selects(imported.registered, of, AllowedAt(of, Len(of)))
        /\ Selects(imported.rejected, of, RefusedAt(of, Len(of)))

\* All of these.
CatalogueIsKept == AnsweredIsStored /\ IdsAreUnique /\ ImportIsComplete

-----------------------------------------------------------------------------
(* The inductive invariant behind it.                                      *)

Ids == Allowed \union UNION {Range(text.gates) : text \in Texts}

\* What a window asks for, and what its main process then does.
Asked == [kind : {"register", "remove"}, id : Allowed]
           \union [kind : {"import", "list"}]
           \union [kind : {"export"}, gates : Seq(Allowed)]
Taken == [kind : {"register", "remove"}, id : Allowed]
           \union [kind : {"import"}, of : Seq(Ids)]
Jobs == [call : Taken, left : Seq(Ids), done : Seq(Allowed), rejected : Seq(Ids),
         writes : BOOLEAN]

WellFormed ==
  /\ Viewer \in Desktops
  /\ Texts \subseteq [trusted : BOOLEAN, gates : Seq(Ids)]

TypeOK ==
  /\ file \in [torn : BOOLEAN, gates : Seq(Allowed)]
  /\ memory \in [Desktops -> Seq(Allowed)] /\ job \in [Desktops -> Jobs \union {None}]
  /\ config \in [trusted : BOOLEAN, gates : Seq(Ids)]
  /\ calls \in Seq(Asked)
  /\ shown \in Seq(Allowed) /\ loading \in Seq(Allowed) \union {None}
  /\ spoiled \in BOOLEAN

\* Unless a desktop wrote from an older Map, what was answered is in the file, torn
\* or not yet, and so is what a job has registered but for the gate it is writing.
IsStored(j, gates) ==
  j # None /\ j.call.kind # "remove" =>
    \A i \in DOMAIN j.done : j.done[i] \in Range(gates) \/ (j.writes /\ i = Len(j.done))

StoredWhenWritten ==
  ~spoiled =>
    answered \subseteq Range(file.gates) /\ \A d \in Desktops : IsStored(job[d], file.gates)

FileIsUnique == IsInjective(file.gates)

\* An import has accounted for the first n gates of its file, and the rest are left.
HasDone(j, n) ==
  /\ n \in Nat /\ Len(j.call.of) = n + Len(j.left)
  /\ \A i \in 1..Len(j.left) : j.left[i] = j.call.of[n + i]
  /\ Selects(j.done, j.call.of, AllowedAt(j.call.of, n))
  /\ Selects(j.rejected, j.call.of, RefusedAt(j.call.of, n))

Accounts(j) ==
  j # None /\ j.call.kind = "import" => HasDone(j, Len(j.call.of) - Len(j.left))

ImportsAccount == \A d \in Desktops : Accounts(job[d])

\* What the main process of the window does is the first of its calls.
CallIsTaken == job[Viewer] # None => calls # << >>

IInv ==
  /\ TypeOK /\ StoredWhenWritten /\ IdsAreUnique /\ FileIsUnique /\ CallIsTaken
  /\ ImportsAccount /\ ImportIsComplete

-----------------------------------------------------------------------------
(* Not true: what the comments or the layout of the code suggest.          *)

\* Not true: "concurrent windows cannot silently overwrite one another"
\* (import-quality-gate-config.ts) of the windows of two desktops.
NoGateIsOverwritten ==
  failures = 0 /\ ~file.torn => answered \subseteq Range(file.gates)

\* Not true: "Gates persist to quality-gates.json" (quality-gate-config.tsx), through
\* a crash within a later write, which truncates the file first.
GatesSurviveCrashes ==
  Cardinality(Desktops) = 1 /\ ~(\E d \in Desktops : job[d] # None)
    => answered \subseteq Range(memory[Viewer])

\* Not true: "`rejected` enumerates gates the configurator accepted but the catalog
\* refused (e.g. duplicate identity)" (import-quality-gate-config.ts): a duplicate
\* ends the import with an error, the gates before it registered.
ImportsAreAnswered == imported # None /\ failures = 0 => imported.answered

\* Not true: a registration that failed leaves the catalogue as it was.
RefusedIsNotConfigured ==
  (\A d \in Desktops : job[d] = None) => Range(memory[Viewer]) \subseteq Range(file.gates)

\* Not true: the window shows the gates when nothing is under way (a load that read
\* them before a registration shows them after it).
ShownIsCurrent ==
  calls = << >> /\ loading = None /\ job[Viewer] = None => shown = memory[Viewer]
=============================================================================
