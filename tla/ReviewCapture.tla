---------------------------- MODULE ReviewCapture ----------------------------
(***************************************************************************)
(* How the code of a Task is captured for a Review: two captures of the    *)
(* Worktree, one after the other, that must say the same. A capture is     *)
(* many commands and many reads of files, while an agent or a person may   *)
(* go on editing, staging and committing in the same Worktree.             *)
(*                                                                         *)
(* A file is two blocks, read one after the other; a hash is what was      *)
(* hashed. TaskReviews is about what a Review does with the captured       *)
(* state.                                                                  *)
(***************************************************************************)
EXTENDS Naturals, Sequences, FiniteSets, FiniteSetsExt

CONSTANTS
  MaxPath,        \* bound: the paths are 1..MaxPath, in the order they are sorted
  Starts,         \* bound: what a Worktree may hold when the capture begins
  MaximumChanged, \* maximumChangedPaths
  MaximumEntries, \* maximumFingerprintEntries
  MaxEdits,       \* bound: edits while the code is captured
  None

Paths == 1..MaxPath

VARIABLES
  tree,      \* the Worktree: [trees, branch, head, index, hidden, files]
  stamps,    \* Paths -> what stat says of a file, its content apart
  past,      \* the states that the Worktree had since the capture began
  restored,  \* something was given back a value that it had before
  edits,     \* how often it was edited
  stage,     \* what is captured now
  seen,      \* what this capture has read
  current,   \* the file that is read now, or None
  first,     \* the first capture, or None
  answer     \* what inspect answered, or None

treeVars == <<tree, stamps, past, restored, edits>>
captureVars == <<stage, seen, current, first, answer>>
reviewVars == <<treeVars, captureVars>>

Nothing == [branch |-> None, head |-> None, commands |-> {}, unread |-> {},
            status |-> None, index |-> None, hidden |-> None, files |-> << >>]

\* A file or an index entry is a pair of blocks, or Absent; a file may be a link,
\* an entry unmerged.
Absent == << >>
Link == <<0>>
Unmerged == <<1>>
IsFile(content) == Len(content) = 2

Pairs == {0, 1} \X {0, 1}
Entries == Pairs \union {Absent, Unmerged}
Contents == Pairs \union {Absent, Link}

\* What a Worktree may hold: the head is one of the commits.
TreeStates ==
  [trees : Seq([Paths -> Entries]), branch : {"task", "other"}, head : Nat,
   index : [Paths -> Entries], hidden : SUBSET Paths, files : [Paths -> Contents]]
Worktrees == {t \in TreeStates : t.head \in DOMAIN t.trees}

\* What the proofs assume of the constants.
WellFormed ==
  MaxPath \in Nat /\ Starts \subseteq Worktrees /\ None \notin Nat \union {"task"}

Failed == [failed |-> TRUE]

\* The first commit is the base.
Init ==
  /\ tree \in Starts
  /\ stamps = [p \in Paths |-> 0]
  /\ past = {tree} /\ restored = FALSE /\ edits = 0
  /\ stage = "context" /\ seen = Nothing /\ current = None
  /\ first = None /\ answer = None

HeadTree(t) == t.trees[t.head]
Tracked(t) == {p \in Paths : t.index[p] # Absent}

-----------------------------------------------------------------------------
(* Edits of the Worktree.                                                  *)

\* A part of the Worktree gets a value that it had, and had lost; a block is a part.
Part(content, b) == IF IsFile(content) THEN <<content[b], b>> ELSE content

Restores(t) ==
  \E old \in past :
    \/ old.branch = t.branch /\ t.branch # tree.branch
    \/ old.head = t.head /\ t.head # tree.head
    \/ \E p \in Paths :
         \/ old.index[p] = t.index[p] /\ t.index[p] # tree.index[p]
         \/ \E b \in {1, 2} : /\ Part(old.files[p], b) = Part(t.files[p], b)
                             /\ Part(t.files[p], b) # Part(tree.files[p], b)
         \/ (p \in old.hidden <=> p \in t.hidden) /\ ~(p \in t.hidden <=> p \in tree.hidden)

Edit(t, newStamps) ==
  /\ answer = None /\ edits < MaxEdits /\ edits' = edits + 1
  /\ tree' = t /\ stamps' = newStamps
  /\ past' = past \union {t}
  /\ restored' = (restored \/ Restores(t))
  /\ UNCHANGED captureVars

\* The clock of the file system may be too coarse to show a write.
EditFile ==
  \E p \in Paths, seenByStat \in {0, 1} :
    \E content \in IF IsFile(tree.files[p])
                   THEN {[tree.files[p] EXCEPT ![b] = 1 - @] : b \in {1, 2}} \union {Absent}
                   ELSE {<<0, 0>>, Link} :
      /\ content # tree.files[p]
      /\ seenByStat = 1 \/ (IsFile(content) /\ IsFile(tree.files[p]))
      /\ Edit([tree EXCEPT !.files[p] = content], [stamps EXCEPT ![p] = @ + seenByStat])

Stage ==
  \E p \in Paths :
    /\ tree.files[p] # Link /\ tree.index[p] # tree.files[p]
    /\ Edit([tree EXCEPT !.index[p] = tree.files[p]], stamps)

Commit ==
  /\ \A p \in Paths : tree.index[p] # Unmerged
  /\ tree.index # HeadTree(tree)
  /\ Edit([tree EXCEPT !.trees = Append(@, tree.index), !.head = Len(tree.trees) + 1], stamps)

\* Another branch is checked out at the same commit.
Switch == Edit([tree EXCEPT !.branch = IF @ = "task" THEN "other" ELSE "task"], stamps)

\* git update-index --assume-unchanged, and back.
Hide ==
  \E p \in Tracked(tree) :
    Edit([tree EXCEPT !.hidden = IF p \in @ THEN @ \ {p} ELSE @ \union {p}], stamps)

Edits == EditFile \/ Stage \/ Commit \/ Switch \/ Hide

-----------------------------------------------------------------------------
(* What Git says of a state of the Worktree.                               *)

\* The records of git status for a head, an index and the files as it found them.
StatusOf(head, index, hidden, files) ==
  LET row(kind, p, h, i) == [kind |-> kind, path |-> p, head |-> h, index |-> i,
                             gone |-> files[p] = Absent]
      unmerged == {p \in Paths : index[p] = Unmerged}
  IN  {row("conflicted", p, Absent, Absent) : p \in unmerged}
      \union {row("staged", p, head[p], index[p]) : p \in {q \in Paths \ unmerged : index[q] # head[q]}}
      \union {row("unstaged", p, head[p], index[p]) :
                p \in {q \in Paths \ hidden : IsFile(index[q]) /\ files[q] # index[q]}}
      \union {row("untracked", p, Absent, Absent) :
                p \in {q \in Paths : index[q] = Absent /\ files[q] # Absent}}

PathsOf(status, kind) == {r.path : r \in {s \in status : s.kind = kind}}

CommittedPaths(trees, head) == {p \in Paths : trees[head][p] # trees[1][p]}

\* The files whose content is hashed: what is in the index at stage zero, what
\* is in conflict and what is untracked.
PathsToHash(status, index) ==
  {p \in Paths : IsFile(index[p])}
    \union PathsOf(status, "conflicted") \union PathsOf(status, "untracked")

\* boundChanges: the paths of the five kinds one after the other, to the limit.
Bounded(changes) ==
  LET kinds == <<"committed", "conflicted", "staged", "unstaged", "untracked">>
      used(i) == Cardinality({x \in (1..(i - 1)) \X Paths : x[2] \in changes[kinds[x[1]]]})
      take(i) == {p \in changes[kinds[i]] :
                    used(i) + Cardinality({q \in changes[kinds[i]] : q <= p}) <= MaximumChanged}
  IN  [shown |-> [k \in DOMAIN changes |-> take(CHOOSE i \in 1..5 : kinds[i] = k)],
       total |-> Cardinality(UNION {changes[k] : k \in DOMAIN changes})]

Changes(trees, head, status) ==
  [k \in {"committed", "conflicted", "staged", "unstaged", "untracked"} |->
     IF k = "committed" THEN CommittedPaths(trees, head) ELSE PathsOf(status, k)]

\* What inspect answers of one capture.
CodeState(capture) ==
  LET changes == Changes(tree.trees, capture.head, capture.status)
  IN  [branch |-> capture.branch, head |-> capture.head,
       summary |-> Bounded(changes),
       truncated |-> Bounded(changes).shown # changes,
       fingerprint |-> <<capture.branch, capture.head, capture.status, capture.index,
                         capture.hidden, capture.files, changes>>]

-----------------------------------------------------------------------------
(* The capture.                                                            *)

Fails ==
  /\ answer' = Failed
  /\ UNCHANGED <<treeVars, stage, seen, current, first>>

\* A command fails, its output is too long, the time is over or the files are
\* too large.
Failure == answer = None /\ Fails

\* verifyContext: the branch and the head are two commands, in either order ...
ReadBranch ==
  /\ stage = "context" /\ answer = None /\ seen.branch = None
  /\ seen' = [seen EXCEPT !.branch = tree.branch]
  /\ UNCHANGED <<treeVars, stage, current, first, answer>>

ReadHead ==
  /\ stage = "context" /\ answer = None /\ seen.head = None
  /\ seen' = [seen EXCEPT !.head = tree.head]
  /\ UNCHANGED <<treeVars, stage, current, first, answer>>

\* The branch and the head that git worktree list has for the Worktree.
Listed(t) == [branch |-> t.branch, head |-> t.head]

\* ... that the list of Worktrees must agree with.
ReadList ==
  /\ stage = "context" /\ answer = None /\ seen.branch # None /\ seen.head # None
  /\ IF seen.branch = "task" /\ Listed(tree) = [branch |-> "task", head |-> seen.head]
     THEN /\ stage' = "git"
          /\ seen' = [seen EXCEPT !.commands = {"status", "index", "hidden"}]
          /\ UNCHANGED <<treeVars, current, first, answer>>
     ELSE Fails

\* Three commands at once; git status reads the head and the index, then each file.
ReadStatus ==
  /\ stage = "git" /\ answer = None /\ "status" \in seen.commands
  /\ seen' = [seen EXCEPT !.commands = @ \ {"status"},
                          !.status = [head |-> HeadTree(tree), index |-> tree.index,
                                      hidden |-> tree.hidden, files |-> << >>]]
  /\ UNCHANGED <<treeVars, stage, current, first, answer>>

ReadStatusOfFile ==
  /\ stage = "git" /\ answer = None /\ "status" \notin seen.commands
  /\ Len(seen.status.files) < MaxPath
  /\ seen' = [seen EXCEPT !.status.files = Append(@, tree.files[Len(@) + 1])]
  /\ UNCHANGED <<treeVars, stage, current, first, answer>>

ReadIndex ==
  /\ stage = "git" /\ answer = None /\ "index" \in seen.commands
  /\ seen' = [seen EXCEPT !.commands = @ \ {"index"}, !.index = tree.index]
  /\ UNCHANGED <<treeVars, stage, current, first, answer>>

ReadHidden ==
  /\ stage = "git" /\ answer = None /\ "hidden" \in seen.commands
  /\ seen' = [seen EXCEPT !.commands = @ \ {"hidden"}, !.hidden = tree.hidden]
  /\ UNCHANGED <<treeVars, stage, current, first, answer>>

\* The commands are done: hidden entries are refused, and the files follow.
StartFiles ==
  /\ stage = "git" /\ answer = None
  /\ seen.commands = {} /\ Len(seen.status.files) = MaxPath
  /\ LET s == seen.status
         status == StatusOf(s.head, s.index, s.hidden, s.files)
     IN  IF seen.hidden # {} \/ Cardinality(PathsToHash(status, seen.index)) > MaximumEntries
         THEN Fails
         ELSE /\ stage' = "files"
              /\ seen' = [seen EXCEPT !.status = status,
                                      !.unread = PathsToHash(status, seen.index)]
              /\ UNCHANGED <<treeVars, current, first, answer>>

Record(content) ==
  seen' = [seen EXCEPT !.unread = @ \ {Min(seen.unread)},
                       !.files = Append(@, <<Min(seen.unread), content>>)]

\* addFilesystemEntry: the file is looked at, its blocks are read, and it must
\* then be what it was.
LookAtFile ==
  /\ stage = "files" /\ answer = None /\ seen.unread # {} /\ current = None
  /\ LET p == Min(seen.unread)
     IN  CASE tree.files[p] = Absent ->
                Record(Absent) /\ UNCHANGED <<treeVars, stage, current, first, answer>>
           [] tree.files[p] = Link -> Fails
           [] OTHER -> /\ current' = [stamp |-> stamps[p], block |-> None]
                       /\ UNCHANGED <<treeVars, stage, seen, first, answer>>

SameFile(p) == IsFile(tree.files[p]) /\ stamps[p] = current.stamp

ReadFirstBlock ==
  /\ stage = "files" /\ answer = None /\ current # None /\ current.block = None
  /\ LET p == Min(seen.unread)
     IN  IF SameFile(p)
         THEN /\ current' = [current EXCEPT !.block = tree.files[p][1]]
              /\ UNCHANGED <<treeVars, stage, seen, first, answer>>
         ELSE Fails

ReadLastBlock ==
  /\ stage = "files" /\ answer = None /\ current # None /\ current.block # None
  /\ LET p == Min(seen.unread)
     IN  IF SameFile(p)
         THEN /\ Record(<<current.block, tree.files[p][2]>>)
              /\ current' = None
              /\ UNCHANGED <<treeVars, stage, first, answer>>
         ELSE Fails

SameCapture == CodeState(first) = CodeState(seen)

\* Mutant of EndCapture: one capture is enough.
OneIsEnough ==
  /\ stage = "files" /\ answer = None /\ seen.unread = {}
  /\ answer' = CodeState(seen)
  /\ UNCHANGED <<treeVars, stage, seen, current, first>>

\* The first capture is done, and the second begins; or it is compared.
EndCapture ==
  /\ stage = "files" /\ answer = None /\ seen.unread = {}
  /\ IF first = None
     THEN /\ first' = seen /\ seen' = Nothing /\ stage' = "context"
          /\ UNCHANGED <<treeVars, current, answer>>
     ELSE IF SameCapture
          THEN /\ answer' = CodeState(seen)
               /\ UNCHANGED <<treeVars, stage, seen, current, first>>
          ELSE Fails

Next ==
  \/ Edits \/ Failure
  \/ ReadBranch \/ ReadHead \/ ReadList
  \/ ReadStatus \/ ReadStatusOfFile \/ ReadIndex \/ ReadHidden
  \/ StartFiles \/ LookAtFile \/ ReadFirstBlock \/ ReadLastBlock
  \/ EndCapture

Spec == Init /\ [][Next]_reviewVars

-----------------------------------------------------------------------------
(* Properties.                                                             *)

\* The capture of a state that is read in one moment.
CaptureOf(t) ==
  LET status == StatusOf(HeadTree(t), t.index, t.hidden, t.files)
      hashed == PathsToHash(status, t.index)
      nth(i) == CHOOSE p \in hashed : Cardinality({q \in hashed : q <= p}) = i
  IN  [branch |-> t.branch, head |-> t.head, status |-> status, index |-> t.index,
       hidden |-> t.hidden,
       files |-> [i \in 1..Cardinality(hashed) |->
                    <<nth(i), t.files[nth(i)]>>]]

Answered == answer \notin {None, Failed}

HeadStayed == \A t \in past : t.head = tree.head
HiddenStayed == \A t \in past : t.hidden = tree.hidden

\* What was read itself, twice, is what the Worktree held at one moment, on the
\* Task's branch: the head, the index and the files that were hashed.
ReadPartsWereTrue ==
  \E t \in past : /\ t.branch = "task"
                  /\ t.branch = seen.branch /\ t.head = seen.head /\ t.index = seen.index
                  /\ \A i \in DOMAIN seen.files : t.files[seen.files[i][1]] = seen.files[i][2]

\* The code that a Review captures is code that the Worktree held at one moment,
\* unless meanwhile something was changed and changed back; so are the changes
\* that are listed with it, unless meanwhile there was a commit or entries were
\* hidden; and entries that were hidden all the time are refused.
CaptureWasTrue ==
  Answered /\ ~restored =>
    /\ ReadPartsWereTrue
    /\ HeadStayed /\ HiddenStayed =>
         \E t \in past : t.hidden = {} /\ answer = CodeState(CaptureOf(t))

\* Not true: no change is left out of what is captured because Git is told not to compare
\* it: as the flags are read beside git status, an entry that is hidden between
\* the two is not refused.
HiddenEntriesAreRefused ==
  Answered /\ ~restored /\ HeadStayed => \E t \in past : answer = CodeState(CaptureOf(t))

\* Not true: the changes that are listed belong to the head that is named: as the two are
\* read apart, a file that is staged in the first capture and committed in the
\* second is in neither.
ChangesFitTheHead ==
  Answered /\ ~restored /\ HiddenStayed => \E t \in past : answer = CodeState(CaptureOf(t))

-----------------------------------------------------------------------------
(* The places of a Worktree that are read and changed as a whole.          *)

TheBranch == [of |-> "branch", path |-> 0, block |-> 0]
TheHead == [of |-> "head", path |-> 0, block |-> 0]
EntryAt(p) == [of |-> "index", path |-> p, block |-> 0]
BlockAt(p, b) == [of |-> "file", path |-> p, block |-> b]
Places ==
  {TheBranch, TheHead} \union {EntryAt(p) : p \in Paths}
    \union {BlockAt(p, b) : p \in Paths, b \in {1, 2}}

Value(t, x) ==
  CASE x.of = "branch" -> t.branch
    [] x.of = "head" -> t.head
    [] x.of = "index" -> t.index[x.path]
    [] x.of = "file" -> Part(t.files[x.path], x.block)

-----------------------------------------------------------------------------
(* The invariant.                                                          *)

\* Some state since the capture began had value v at place x.
Had(x, v) == \E t \in past : Value(t, x) = v

\* Value v was at place x.  Since there was w instead, v has not come back.
Fits(x, v, w) == Had(x, v) /\ (restored \/ v = w \/ Value(tree, x) # v)

\* The Worktree and its commits, which stay.
PastInv ==
  /\ tree \in past /\ past \subseteq Worktrees
  /\ restored \in BOOLEAN /\ stamps \in [Paths -> Nat]
  /\ \A t \in past : \A i \in DOMAIN t.trees :
       i \in DOMAIN tree.trees /\ tree.trees[i] = t.trees[i]

\* What git status finds, and the records that it prints.
RawStatus ==
  [head : [Paths -> Entries], index : [Paths -> Entries], hidden : SUBSET Paths,
   files : Seq(Contents)]
Printed(r) == StatusOf(r.head, r.index, r.hidden, r.files)

Statuses == {None} \union RawStatus \union {Printed(r) : r \in RawStatus}

Captures ==
  [branch : {"task", "other", None}, head : Nat \union {None},
   commands : SUBSET {"status", "index", "hidden"}, unread : SUBSET Paths,
   status : Statuses,
   index : {None} \union [Paths -> Entries],
   hidden : {None} \union SUBSET Paths, files : Seq(Paths \X Contents)]

HasRead(command) ==
  stage = "files" \/ (stage = "git" /\ command \notin seen.commands)
HalfRead == current # None /\ current.block # None

\* What the capture has so far.
Shape ==
  /\ stage \in {"context", "git", "files"} /\ seen \in Captures
  /\ stage # "context" => seen.branch = "task" /\ seen.head \in Nat
  /\ HasRead("index") => seen.index \in [Paths -> Entries]
  /\ HasRead("hidden") => seen.hidden \in SUBSET Paths
  /\ stage = "files" => seen.hidden = {}
  /\ stage # "files" => seen.files = << >> /\ current = None
  /\ current # None =>
       current \in [stamp : Nat, block : {0, 1, None}] /\ seen.unread # {}

\* All of it was there at some time.
SeenHad ==
  /\ seen.branch # None => Had(TheBranch, seen.branch)
  /\ seen.head # None => Had(TheHead, seen.head)
  /\ HasRead("index") => \A p \in Paths : Had(EntryAt(p), seen.index[p])
  /\ HasRead("hidden") => \E t \in past : t.hidden = seen.hidden
  /\ \A i \in DOMAIN seen.files : \A b \in {1, 2} :
       Had(BlockAt(seen.files[i][1], b), Part(seen.files[i][2], b))
  /\ HalfRead => Had(BlockAt(Min(seen.unread), 1), <<current.block, 1>>)

\* What git status found was there, each part of it at some time.
WasThere(r) ==
  /\ \E t \in past : r.head = HeadTree(t)
  /\ \E t \in past : r.hidden = t.hidden
  /\ \A p \in Paths : Had(EntryAt(p), r.index[p])
  /\ \A p \in DOMAIN r.files : \A b \in {1, 2} : Had(BlockAt(p, b), Part(r.files[p], b))

\* What git status has found in this capture.
StatusIs(r) ==
  /\ stage = "git" /\ HasRead("status") => seen.status = r /\ Len(r.files) <= MaxPath
  /\ stage = "files" => seen.status = Printed(r) /\ Len(r.files) = MaxPath
Found(r) == StatusIs(r) /\ (HasRead("status") => WasThere(r))

\* The files are hashed in order, none is left out.
Hashed == PathsToHash(seen.status, seen.index)
FilesInOrder ==
  stage = "files" =>
    /\ Hashed \subseteq Paths /\ seen.unread \subseteq Hashed
    /\ \A p \in Hashed \ seen.unread : \A q \in seen.unread : p < q
    /\ Cardinality(Hashed \ seen.unread) = Len(seen.files)
    /\ \A i \in DOMAIN seen.files :
         /\ seen.files[i][1] \in Hashed \ seen.unread
         /\ Cardinality({q \in Hashed : q <= seen.files[i][1]}) = i
    /\ \A p \in Hashed \ seen.unread : \E i \in DOMAIN seen.files : seen.files[i][1] = p

\* The first capture ended when the Worktree was m: what it had read is there,
\* or does not come back.
FirstFits(m, r) ==
  /\ first \in Captures /\ first.index \in [Paths -> Entries]
  /\ first.status = Printed(r) /\ Len(r.files) = MaxPath /\ WasThere(r)
  /\ Fits(TheBranch, first.branch, m.branch)
  /\ Fits(TheHead, first.head, m.head)
  /\ \A p \in Paths : Fits(EntryAt(p), first.index[p], m.index[p])
  /\ \A i \in DOMAIN first.files : \A b \in {1, 2} :
       Fits(BlockAt(first.files[i][1], b), Part(first.files[i][2], b),
            Part(m.files[first.files[i][1]], b))
  /\ \A p \in Paths : Fits(EntryAt(p), r.index[p], m.index[p])
  /\ \A p \in Paths : \A b \in {1, 2} :
       Fits(BlockAt(p, b), Part(r.files[p], b), Part(m.files[p], b))

\* A value that is read again as it was read first is that of m.
Again(v, first_, w) == v = first_ => restored \/ v = w

SecondAgrees(m, r1, r) ==
  /\ seen.branch # None => Again(seen.branch, first.branch, m.branch)
  /\ seen.head # None => Again(seen.head, first.head, m.head)
  /\ HasRead("index") =>
       \A p \in Paths : Again(seen.index[p], first.index[p], m.index[p])
  /\ HasRead("status") =>
       /\ \A p \in Paths : Again(r.index[p], r1.index[p], m.index[p])
       /\ \A p \in DOMAIN r.files : \A b \in {1, 2} :
            Again(Part(r.files[p], b), Part(r1.files[p], b), Part(m.files[p], b))

\* A file that is hashed again to what it was is what git status found between.
HashesAgree(m, r) ==
  \A i \in DOMAIN first.files :
    LET p == first.files[i][1]
        c == first.files[i][2]
    IN  /\ HasRead("status") /\ p \in DOMAIN r.files =>
             \A b \in {1, 2} : Fits(BlockAt(p, b), Part(c, b), Part(r.files[p], b))
        /\ \A j \in DOMAIN seen.files : seen.files[j][1] = p =>
             \A b \in {1, 2} :
               /\ Again(Part(seen.files[j][2], b), Part(c, b), Part(m.files[p], b))
               /\ Again(Part(seen.files[j][2], b), Part(c, b), Part(r.files[p], b))
        /\ HalfRead /\ Min(seen.unread) = p =>
             /\ Again(<<current.block, 1>>, Part(c, 1), Part(m.files[p], 1))
             /\ Again(<<current.block, 1>>, Part(c, 1), Part(r.files[p], 1))

Twice(r) ==
  first # None =>
    \E m \in past, r1 \in RawStatus :
      FirstFits(m, r1) /\ SecondAgrees(m, r1, r) /\ HashesAgree(m, r)

CInv ==
  answer = None =>
    /\ PastInv /\ Shape /\ SeenHad /\ FilesInOrder
    /\ \E r \in RawStatus : Found(r) /\ Twice(r)
=============================================================================
