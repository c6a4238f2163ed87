------------------------- MODULE TaskWorktrees_proof -------------------------
(***************************************************************************)
(* Theorems about TaskWorktrees, for any number of calls and of failures,  *)
(* and about the parts of DesktopGit, for every value of their constants.  *)
(*                                                                         *)
(* That of a capture is the argument of a double collect: what is read     *)
(* twice with the same result, and was not changed back in between, was so *)
(* all the time between the two readings, in particular when the first     *)
(* capture ended.                                                          *)
(***************************************************************************)
EXTENDS TaskWorktrees, DesktopGit, SequenceTheorems, FiniteSetTheorems,
        WellFoundedInduction, TLAPS

\* The invariant holds of a new store, whatever an older one left behind.
LEMMA InitIInv == Init => IInv
<1> SUFFICES ASSUME Init PROVE IInv
  OBVIOUS
<1> USE DEF Init
<1>1. files \subseteq File /\ WorkIsHeld
  BY DEF WorkIsHeld, File
<1>2. TypeOK
  BY <1>1 DEF TypeOK, Record, Tree, Place
<1>3. RecordIsHonest
  BY DEF RecordIsHonest
<1>4. OneDirection /\ Serialized /\ ReadsHold
  BY DEF OneDirection, Serialized, ReadsHold, Ensuring, Cleaning
<1> QED
  BY <1>1, <1>2, <1>3, <1>4 DEF IInv

\* A use case reads the record and Git and takes the lock.
LEMMA CallBegins ==
  ASSUME IInv, NEW c \in Calls, EnsureCall(c) \/ CleanupCall(c)
  PROVE  IInv'
<1> USE DEF IInv, Goes, Reads, Free, Place, Ensuring, Cleaning, Record, Tree, gitVars
<1>1. TypeOK'
  BY DEF TypeOK, EnsureCall, CleanupCall
<1>2. RecordIsHonest'
  BY DEF RecordIsHonest, EnsureCall, CleanupCall
<1>3. OneDirection'
  BY DEF TypeOK, OneDirection, EnsureCall, CleanupCall
<1>4. Serialized'
  BY DEF TypeOK, Serialized, EnsureCall, CleanupCall
<1>5. ReadsHold'
  BY DEF TypeOK, ReadsHold, WorkIsHeld, EnsureCall, CleanupCall
<1>6. WorkIsHeld'
  BY DEF WorkIsHeld, EnsureCall, CleanupCall
<1> QED
  BY <1>1, <1>2, <1>3, <1>4, <1>5, <1>6

\* The steps that write the record: insertReservation and transitionState.
LEMMA Checkpoint ==
  ASSUME IInv, NEW c \in Calls,
         Reserve(c) \/ RecordPresent(c) \/ MarkRemoving(c) \/ RecordRemoved(c)
  PROVE  IInv'
<1> USE DEF IInv, Goes, Place, Ensuring, Cleaning, Record, gitVars,
            Reserve, RecordPresent, MarkRemoving, RecordRemoved
<1>1. TypeOK'
  BY DEF TypeOK
<1>2. RecordIsHonest'
  BY DEF RecordIsHonest, ReadsHold
<1>3. OneDirection'
  BY DEF TypeOK, OneDirection, Serialized, ReadsHold
<1>4. Serialized'
  BY DEF TypeOK, Serialized
<1>5. ReadsHold'
  BY DEF TypeOK, ReadsHold, Serialized
<1>6. WorkIsHeld'
  BY DEF WorkIsHeld
<1> QED
  BY <1>1, <1>2, <1>3, <1>4, <1>5, <1>6

\* The steps of git.ensure and git.cleanup.
LEMMA GitStep ==
  ASSUME IInv, NEW c \in Calls,
         GitInspects(c) \/ GitBranches(c) \/ GitAdds(c) \/ GitVerifies(c)
           \/ GitInspectsClean(c) \/ GitRemoves(c)
  PROVE  IInv'
<1> USE DEF IInv, Goes, Place, Ensuring, Cleaning, Record, Tree, File, Clean,
            gitVars, GitInspects, GitBranches, GitAdds, GitVerifies, GitInspectsClean,
            GitRemoves
<1>1. TypeOK'
  <2>1. trouble' \in Nat
    BY DEF TypeOK
  <2>2. tree' \in Tree /\ files' \subseteq File /\ at' \in [Calls -> Place]
    BY DEF TypeOK
  <2>3. /\ record' = record /\ agent' = agent /\ job' = job /\ read' = read
        /\ branch' \in BOOLEAN /\ meddled' \in BOOLEAN
    BY DEF TypeOK
  <2> QED
    BY <2>1, <2>2, <2>3 DEF TypeOK
<1>2. RecordIsHonest'
  BY DEF RecordIsHonest, OneDirection, ReadsHold, WorkIsHeld
<1>3. OneDirection'
  BY DEF TypeOK, OneDirection
<1>4. Serialized'
  BY DEF TypeOK, Serialized
<1>5. ReadsHold'
  <2>1. /\ \A d \in Calls \ {c} : at[d] = "idle" /\ at'[d] = "idle"
        /\ record' = record /\ job' = job /\ read' = read
    BY DEF TypeOK, Serialized
  <2>2. CASE GitInspects(c)
    BY <2>1, <2>2 DEF TypeOK, ReadsHold, Serialized
  <2>3. CASE GitBranches(c) \/ GitVerifies(c)
    BY <2>1, <2>3 DEF TypeOK, ReadsHold, Serialized
  <2>4. CASE GitAdds(c)
    BY <2>1, <2>4 DEF TypeOK, ReadsHold, Serialized
  <2>5. CASE GitInspectsClean(c)
    BY <2>1, <2>5 DEF TypeOK, ReadsHold, Serialized
  <2>6. CASE GitRemoves(c)
    BY <2>1, <2>6 DEF TypeOK, ReadsHold, Serialized
  <2> QED
    BY <2>2, <2>3, <2>4, <2>5, <2>6
<1>6. WorkIsHeld'
  BY DEF WorkIsHeld, TypeOK, ReadsHold
<1> QED
  BY <1>1, <1>2, <1>3, <1>4, <1>5, <1>6

\* Errors and the end of the process undo nothing.
LEMMA CallEnds ==
  ASSUME IInv, (\E c \in Calls : CallFails(c) \/ CallRefused(c)) \/ Restart
  PROVE  IInv'
<1> USE DEF IInv, Goes, Place, Ensuring, Cleaning, gitVars,
            CallFails, CallRefused, Restart
<1>1. TypeOK'
  BY DEF TypeOK
<1>2. RecordIsHonest'
  BY DEF RecordIsHonest
<1>3. OneDirection'
  BY DEF TypeOK, OneDirection
<1>4. Serialized'
  BY DEF TypeOK, Serialized
<1>5. ReadsHold'
  BY DEF TypeOK, ReadsHold
<1>6. WorkIsHeld'
  BY DEF WorkIsHeld
<1> QED
  BY <1>1, <1>2, <1>3, <1>4, <1>5, <1>6

\* Agents and the user change files and directories.
LEMMA OthersAct ==
  ASSUME IInv, AgentStarts \/ AgentWrites \/ AgentCommits \/ AgentEnds
               \/ UserDeletes \/ UserPrunes
  PROVE  IInv'
<1> USE DEF IInv, Place, Ensuring, Cleaning, Free, File, Tree, gitVars, callVars,
            AgentStarts, AgentWrites, AgentCommits, AgentEnds, UserDeletes,
            UserPrunes
<1>1. TypeOK'
  <2>1. trouble' \in Nat
    BY DEF TypeOK
  <2>2. tree' \in Tree /\ files' \subseteq File
    BY DEF TypeOK
  <2>3. /\ record' = record /\ branch' = branch /\ UNCHANGED callVars
        /\ agent' \in BOOLEAN /\ meddled' \in BOOLEAN
    BY DEF TypeOK
  <2> QED
    BY <2>1, <2>2, <2>3 DEF TypeOK
<1>2. RecordIsHonest'
  BY DEF RecordIsHonest, OneDirection, ReadsHold, WorkIsHeld
<1>3. OneDirection'
  BY DEF TypeOK, OneDirection
<1>4. Serialized'
  BY DEF TypeOK, Serialized
<1>5. ReadsHold'
  BY DEF TypeOK, ReadsHold, Serialized, WorkIsHeld
<1>6. WorkIsHeld'
  BY DEF WorkIsHeld, TypeOK
<1> QED
  BY <1>1, <1>2, <1>3, <1>4, <1>5, <1>6

-----------------------------------------------------------------------------
(* The theorems.                                                           *)

\* The strengthened invariant holds in every reachable state.
THEOREM Inductive == Spec => []IInv
<1>1. ASSUME IInv, [Next]_vars
      PROVE  IInv'
  <2>1. CASE UNCHANGED vars
    BY <1>1, <2>1
       DEF vars, gitVars, callVars, IInv, TypeOK, RecordIsHonest, OneDirection,
           Serialized, ReadsHold, WorkIsHeld
  <2>2. CASE Next
    BY <1>1, <2>2, CallBegins, Checkpoint, GitStep, CallEnds, OthersAct
       DEF Next, CallStep
  <2> QED
    BY <1>1, <2>1, <2>2
<1> QED
  BY <1>1, InitIInv, PTL DEF Spec

\* What SQLite says of the Worktree agrees with Git and the file system,
\* whatever is interrupted, unless the user has removed one of them.
THEOREM RecordAlwaysHonest == Spec => []RecordIsHonest
BY Inductive, PTL DEF IInv

\* Git never works for an ensure and a cleanup of one Task at once.
THEOREM AlwaysOneDirection == Spec => []OneDirection
BY Inductive, PTL DEF IInv

\* No use case ever removes a directory, or the registration of one, with work
\* in it.
THEOREM NoWorkIsLost == Spec => NoWorkLost
<1>1. ASSUME IInv, [Next]_vars
      PROVE  [tree' # tree /\ ~UserDeletes /\ ~UserPrunes => files = {}]_vars
  <2> SUFFICES ASSUME tree' # tree, ~UserDeletes, ~UserPrunes
               PROVE  files = {}
    OBVIOUS
  <2>1. Next
    BY <1>1 DEF vars, gitVars
  <2>2. PICK c \in Calls : GitInspects(c) \/ GitAdds(c) \/ GitRemoves(c)
    BY <2>1
       DEF Next, CallStep, EnsureCall, CleanupCall, Reserve, GitBranches,
           GitVerifies, RecordPresent, MarkRemoving, GitInspectsClean,
           RecordRemoved, CallFails, CallRefused, Restart, AgentStarts,
           AgentWrites, AgentCommits, AgentEnds, gitVars
  <2>3. CASE GitInspects(c) \/ GitAdds(c)
    BY <1>1, <2>3 DEF GitInspects, GitAdds, IInv, WorkIsHeld
  <2>4. CASE GitRemoves(c)
    BY <1>1, <2>4 DEF GitRemoves, IInv, ReadsHold
  <2> QED
    BY <2>2, <2>3, <2>4
<1> QED
  BY <1>1, Inductive, PTL DEF Spec, NoWorkLost

-----------------------------------------------------------------------------
(* The parts of DesktopGit. A step is one of the part that runs, and that  *)
(* part goes on running.                                                   *)

LEMMA GitPartStays == [GitNext]_desktopVars => part' = part
BY DEF GitNext, Moves, desktopVars

-----------------------------------------------------------------------------
(* The capture of a Review's code.                                         *)

LEMMA CapturePart ==
  ASSUME part = "capture", [GitNext]_desktopVars
  PROVE  [RC!Next]_(RC!reviewVars)
BY DEF GitNext, Moves, desktopVars, RC!reviewVars, RC!treeVars, RC!captureVars

LEMMA Values ==
  ASSUME NEW t
  PROVE  /\ RC!Value(t, RC!TheBranch) = t.branch
         /\ RC!Value(t, RC!TheHead) = t.head
         /\ \A p : RC!Value(t, RC!EntryAt(p)) = t.index[p]
         /\ \A p, b : RC!Value(t, RC!BlockAt(p, b)) = RC!Part(t.files[p], b)
BY DEF RC!Value, RC!TheBranch, RC!TheHead, RC!EntryAt, RC!BlockAt

\* A content is known by its parts.
LEMMA Contented ==
  /\ \A c \in RC!Contents : RC!IsFile(c) <=> c \in RC!Pairs
  /\ \A c \in RC!Entries : RC!IsFile(c) <=> c \in RC!Pairs
  /\ \A c \in RC!Pairs : c = <<c[1], c[2]>> /\ c[1] \in {0, 1} /\ c[2] \in {0, 1}
  /\ \A c, d \in RC!Contents :
       RC!Part(c, 1) = RC!Part(d, 1) /\ RC!Part(c, 2) = RC!Part(d, 2) => c = d
<1>1. \A c \in RC!Contents : RC!IsFile(c) <=> c \in RC!Pairs
  BY DEF RC!Contents, RC!Pairs, RC!IsFile, RC!Absent, RC!Link
<1>2. \A c \in RC!Entries : RC!IsFile(c) <=> c \in RC!Pairs
  BY DEF RC!Entries, RC!Pairs, RC!IsFile, RC!Absent, RC!Unmerged
<1>3. \A c \in RC!Pairs : c = <<c[1], c[2]>> /\ c[1] \in {0, 1} /\ c[2] \in {0, 1}
  BY DEF RC!Pairs
<1>4. ASSUME NEW c \in RC!Contents, NEW d \in RC!Contents,
             RC!Part(c, 1) = RC!Part(d, 1), RC!Part(c, 2) = RC!Part(d, 2)
      PROVE  c = d
  <2>1. CASE c \in RC!Pairs /\ d \in RC!Pairs
    BY <1>1, <1>3, <1>4, <2>1 DEF RC!Part
  <2>2. CASE c \in RC!Pairs /\ d \notin RC!Pairs
    <3>1. RC!Part(c, 1) = <<c[1], 1>> /\ RC!Part(d, 1) = d
      BY <1>1, <2>2 DEF RC!Part
    <3>2. d = << >> \/ d = <<0>>
      BY <2>2 DEF RC!Contents, RC!Absent, RC!Link
    <3>3. <<c[1], 1>> # << >> /\ <<c[1], 1>> # <<0>>
      OBVIOUS
    <3> QED
      BY <1>4, <3>1, <3>2, <3>3
  <2>3. CASE c \notin RC!Pairs /\ d \in RC!Pairs
    <3>1. RC!Part(d, 1) = <<d[1], 1>> /\ RC!Part(c, 1) = c
      BY <1>1, <2>3 DEF RC!Part
    <3>2. c = << >> \/ c = <<0>>
      BY <2>3 DEF RC!Contents, RC!Absent, RC!Link
    <3> QED
      BY <1>4, <3>1, <3>2
  <2>4. CASE c \notin RC!Pairs /\ d \notin RC!Pairs
    BY <1>1, <1>4, <2>4 DEF RC!Part
  <2> QED
    BY <2>1, <2>2, <2>3, <2>4
<1> QED
  BY <1>1, <1>2, <1>3, <1>4

-----------------------------------------------------------------------------
(* What Git says.                                                          *)

\* The records of git status, and what they say of a path.
LEMMA StatusSays ==
  ASSUME NEW h, NEW i, NEW hid, NEW f
  PROVE  /\ \A x \in RC!StatusOf(h, i, hid, f) : x.path \in RC!Paths
         /\ \A p \in RC!Paths :
              i[p] = RC!Unmerged <=>
                \E x \in RC!StatusOf(h, i, hid, f) : x.kind = "conflicted" /\ x.path = p
         /\ \A p \in RC!Paths :
              i[p] = RC!Absent /\ f[p] # RC!Absent <=>
                \E x \in RC!StatusOf(h, i, hid, f) : x.kind = "untracked" /\ x.path = p
         /\ \A p \in RC!Paths : \A v :
              i[p] # RC!Unmerged /\ i[p] # h[p] /\ v = i[p] <=>
                \E x \in RC!StatusOf(h, i, hid, f) :
                  x.kind = "staged" /\ x.path = p /\ x.index = v
<1> DEFINE row(kind, p, a, b) == [kind |-> kind, path |-> p, head |-> a, index |-> b,
                                  gone |-> f[p] = RC!Absent]
           A == {row("conflicted", p, RC!Absent, RC!Absent) : p \in {p \in RC!Paths : i[p] = RC!Unmerged}}
           B == {row("staged", p, h[p], i[p]) :
                   p \in {q \in RC!Paths \ {p \in RC!Paths : i[p] = RC!Unmerged} : i[q] # h[q]}}
           C == {row("unstaged", p, h[p], i[p]) :
                   p \in {q \in RC!Paths \ hid : RC!IsFile(i[q]) /\ f[q] # i[q]}}
           D == {row("untracked", p, RC!Absent, RC!Absent) :
                   p \in {q \in RC!Paths : i[q] = RC!Absent /\ f[q] # RC!Absent}}
<1>1. RC!StatusOf(h, i, hid, f) = A \union B \union C \union D
  BY DEF RC!StatusOf
<1>2. \A x \in A : x.kind = "conflicted" /\ x.path \in RC!Paths /\ i[x.path] = RC!Unmerged
  OBVIOUS
<1>3. \A x \in B : /\ x.kind = "staged" /\ x.path \in RC!Paths /\ x.index = i[x.path]
                   /\ i[x.path] # RC!Unmerged /\ i[x.path] # h[x.path]
  OBVIOUS
<1>4. \A x \in C : x.kind = "unstaged" /\ x.path \in RC!Paths
  OBVIOUS
<1>5. \A x \in D : /\ x.kind = "untracked" /\ x.path \in RC!Paths
                   /\ i[x.path] = RC!Absent /\ f[x.path] # RC!Absent
  OBVIOUS
<1>6. \A p \in RC!Paths : i[p] = RC!Unmerged => \E x \in A : x.kind = "conflicted" /\ x.path = p
  <2> TAKE p \in RC!Paths
  <2> HAVE i[p] = RC!Unmerged
  <2>1. row("conflicted", p, RC!Absent, RC!Absent) \in A
    OBVIOUS
  <2> QED
    BY <2>1
<1>7. \A p \in RC!Paths :
        i[p] # RC!Unmerged /\ i[p] # h[p] =>
          \E x \in B : x.kind = "staged" /\ x.path = p /\ x.index = i[p]
  <2> TAKE p \in RC!Paths
  <2> HAVE i[p] # RC!Unmerged /\ i[p] # h[p]
  <2>1. row("staged", p, h[p], i[p]) \in B
    OBVIOUS
  <2> QED
    BY <2>1
<1>8. \A p \in RC!Paths :
        i[p] = RC!Absent /\ f[p] # RC!Absent => \E x \in D : x.kind = "untracked" /\ x.path = p
  <2> TAKE p \in RC!Paths
  <2> HAVE i[p] = RC!Absent /\ f[p] # RC!Absent
  <2>1. row("untracked", p, RC!Absent, RC!Absent) \in D
    OBVIOUS
  <2> QED
    BY <2>1
<1> HIDE DEF A, B, C, D
<1> QED
  BY <1>1, <1>2, <1>3, <1>4, <1>5, <1>6, <1>7, <1>8

\* The paths that are hashed are those of the Worktree.
LEMMA HashedPaths ==
  ASSUME NEW h, NEW i, NEW hid, NEW f, NEW index
  PROVE  /\ RC!PathsToHash(RC!StatusOf(h, i, hid, f), index) \subseteq RC!Paths
         /\ \A p \in RC!Paths :
              p \in RC!PathsToHash(RC!StatusOf(h, i, hid, f), index) <=>
                \/ RC!IsFile(index[p]) \/ i[p] = RC!Unmerged
                \/ i[p] = RC!Absent /\ f[p] # RC!Absent
<1>1. \A kind, p : p \in RC!PathsOf(RC!StatusOf(h, i, hid, f), kind) <=>
                     \E x \in RC!StatusOf(h, i, hid, f) : x.kind = kind /\ x.path = p
  BY DEF RC!PathsOf
<1> QED
  BY <1>1, StatusSays DEF RC!PathsToHash

-----------------------------------------------------------------------------
(* Edits.                                                                  *)

\* An edit makes another state of the Worktree, with all commits there are.
LEMMA EditMoves ==
  ASSUME RC!WellFormed, RC!PastInv, RC!Edits
  PROVE  /\ UNCHANGED RC!captureVars /\ v10 = None
         /\ v1' \in RC!Worktrees /\ v2' \in [RC!Paths -> Nat]
         /\ v3' = v3 \union {v1'}
         /\ v4' = (v4 \/ RC!Restores(v1'))
         /\ \A i \in DOMAIN v1.trees :
              i \in DOMAIN v1'.trees /\ v1'.trees[i] = v1.trees[i]
<1>1. /\ v1 \in RC!Worktrees /\ v2 \in [RC!Paths -> Nat]
      /\ v1.trees \in Seq([RC!Paths -> RC!Entries]) /\ v1.head \in DOMAIN v1.trees
      /\ v1.index \in [RC!Paths -> RC!Entries] /\ v1.files \in [RC!Paths -> RC!Contents]
      /\ v1.hidden \subseteq RC!Paths
  BY DEF RC!PastInv, RC!Worktrees, RC!TreeStates
<1>2. ASSUME NEW t, NEW s, RC!Edit(t, s)
      PROVE  /\ UNCHANGED RC!captureVars /\ v10 = None
             /\ v1' = t /\ v2' = s
             /\ v3' = v3 \union {v1'}
             /\ v4' = (v4 \/ RC!Restores(v1'))
  BY <1>2 DEF RC!Edit
<1>3. CASE RC!EditFile
  <2>1. PICK p \in RC!Paths, seenByStat \in {0, 1} :
          \E content \in IF RC!IsFile(v1.files[p])
                         THEN {[v1.files[p] EXCEPT ![b] = 1 - @] : b \in {1, 2}}
                                \union {RC!Absent}
                         ELSE {<<0, 0>>, RC!Link} :
            RC!Edit([v1 EXCEPT !.files[p] = content],
                    [v2 EXCEPT ![p] = @ + seenByStat])
    BY <1>3 DEF RC!EditFile
  <2>2. PICK content \in IF RC!IsFile(v1.files[p])
                         THEN {[v1.files[p] EXCEPT ![b] = 1 - @] : b \in {1, 2}}
                                \union {RC!Absent}
                         ELSE {<<0, 0>>, RC!Link} :
            RC!Edit([v1 EXCEPT !.files[p] = content],
                    [v2 EXCEPT ![p] = @ + seenByStat])
    BY <2>1
  <2>3. content \in RC!Contents
    <3>1. CASE RC!IsFile(v1.files[p])
      <4>1. PICK x \in {0, 1}, y \in {0, 1} : v1.files[p] = <<x, y>>
        BY <1>1, <3>1, Contented DEF RC!Pairs
      <4>2. content \in {<<1 - x, y>>, <<x, 1 - y>>, RC!Absent}
        BY <2>2, <3>1, <4>1
      <4> QED
        BY <4>2 DEF RC!Contents, RC!Pairs
    <3>2. CASE ~RC!IsFile(v1.files[p])
      BY <2>2, <3>2 DEF RC!Contents, RC!Pairs
    <3> QED
      BY <3>1, <3>2
  <2> DEFINE t == [v1 EXCEPT !.files[p] = content]
             s == [v2 EXCEPT ![p] = @ + seenByStat]
  <2>4. t \in RC!Worktrees /\ t.trees = v1.trees
    BY <1>1, <2>3 DEF RC!Worktrees, RC!TreeStates
  <2>5. s \in [RC!Paths -> Nat]
    BY <1>1
  <2>6. RC!Edit(t, s)
    BY <2>2
  <2> HIDE DEF t, s
  <2> QED
    BY <1>2, <2>4, <2>5, <2>6
<1>4. CASE RC!Stage
  <2>1. PICK p \in RC!Paths :
          /\ v1.files[p] # RC!Link
          /\ RC!Edit([v1 EXCEPT !.index[p] = v1.files[p]], v2)
    BY <1>4 DEF RC!Stage
  <2>2. v1.files[p] \in RC!Entries
    BY <1>1, <2>1 DEF RC!Contents, RC!Entries
  <2> DEFINE t == [v1 EXCEPT !.index[p] = v1.files[p]]
  <2>3. t \in RC!Worktrees /\ t.trees = v1.trees
    BY <1>1, <2>2 DEF RC!Worktrees, RC!TreeStates
  <2>4. RC!Edit(t, v2)
    BY <2>1
  <2> HIDE DEF t
  <2> QED
    BY <1>1, <1>2, <2>3, <2>4
<1>5. CASE RC!Commit
  <2> DEFINE trees == Append(v1.trees, v1.index)
             t == [v1 EXCEPT !.trees = trees, !.head = Len(v1.trees) + 1]
  <2>1. RC!Edit(t, v2)
    BY <1>5 DEF RC!Commit
  <2>2. /\ trees \in Seq([RC!Paths -> RC!Entries]) /\ Len(v1.trees) + 1 \in Nat
        /\ DOMAIN v1.trees = 1..Len(v1.trees)
        /\ DOMAIN trees = 1..(Len(v1.trees) + 1)
        /\ \A i \in 1..Len(v1.trees) : trees[i] = v1.trees[i]
    BY <1>1, AppendProperties, LenProperties
  <2> HIDE DEF trees
  <2>3. t.trees = trees /\ t.head = Len(v1.trees) + 1
    BY <1>1 DEF RC!Worktrees, RC!TreeStates
  <2>4. t \in RC!Worktrees
    <3>1. t \in RC!TreeStates
      BY <1>1, <2>2 DEF RC!Worktrees, RC!TreeStates
    <3>2. t.head \in DOMAIN t.trees
      BY <2>2, <2>3
    <3> QED
      BY <3>1, <3>2 DEF RC!Worktrees
  <2>5. \A i \in DOMAIN v1.trees : i \in DOMAIN t.trees /\ t.trees[i] = v1.trees[i]
    BY <2>2, <2>3
  <2> HIDE DEF t
  <2>6. /\ UNCHANGED RC!captureVars /\ v10 = None
        /\ v1' = t /\ v2' = v2
        /\ v3' = v3 \union {v1'}
        /\ v4' = (v4 \/ RC!Restores(v1'))
    BY <1>2, <2>1
  <2> QED
    BY <1>1, <2>4, <2>5, <2>6
<1>6. CASE RC!Switch
  <2> DEFINE t == [v1 EXCEPT !.branch = IF @ = "task" THEN "other" ELSE "task"]
  <2>1. t \in RC!Worktrees /\ t.trees = v1.trees
    BY <1>1 DEF RC!Worktrees, RC!TreeStates
  <2>2. RC!Edit(t, v2)
    BY <1>6 DEF RC!Switch
  <2> HIDE DEF t
  <2> QED
    BY <1>1, <1>2, <2>1, <2>2
<1>7. CASE RC!Hide
  <2>1. PICK p \in RC!Tracked(v1) :
          RC!Edit([v1 EXCEPT !.hidden = IF p \in @ THEN @ \ {p} ELSE @ \union {p}], v2)
    BY <1>7 DEF RC!Hide
  <2> DEFINE t == [v1 EXCEPT !.hidden = IF p \in @ THEN @ \ {p} ELSE @ \union {p}]
  <2>2. t \in RC!Worktrees /\ t.trees = v1.trees
    BY <1>1, <2>1 DEF RC!Worktrees, RC!TreeStates, RC!Tracked
  <2>3. RC!Edit(t, v2)
    BY <2>1
  <2> HIDE DEF t
  <2> QED
    BY <1>1, <1>2, <2>2, <2>3
<1> QED
  BY <1>3, <1>4, <1>5, <1>6, <1>7 DEF RC!Edits

\* What comes back to a place is noticed.
LEMMA ComesBack ==
  ASSUME NEW t, NEW old \in v3, NEW x \in RC!Places,
         RC!Value(old, x) = RC!Value(t, x), RC!Value(t, x) # RC!Value(v1, x)
  PROVE  RC!Restores(t)
<1>1. CASE x = RC!TheBranch \/ x = RC!TheHead
  BY <1>1, Values DEF RC!Restores
<1>2. CASE \E p \in RC!Paths : x = RC!EntryAt(p)
  BY <1>2, Values DEF RC!Restores
<1>3. CASE \E p \in RC!Paths, b \in {1, 2} : x = RC!BlockAt(p, b)
  BY <1>3, Values DEF RC!Restores
<1> QED
  BY <1>1, <1>2, <1>3 DEF RC!Places

\* Values that were there have been there, and do not come back unnoticed.
LEMMA EditKeeps ==
  ASSUME RC!WellFormed, RC!PastInv, RC!Edits
  PROVE  /\ \A x, v : RC!Had(x, v) => RC!Had(x, v)'
         /\ \A x \in RC!Places : \A v, w : RC!Fits(x, v, w) => RC!Fits(x, v, w)'
         /\ v4 => v4'
         /\ v3 \subseteq v3'
<1>1. v3' = v3 \union {v1'} /\ v4' = (v4 \/ RC!Restores(v1'))
  BY EditMoves
<1>2. \A x, v : RC!Had(x, v) => RC!Had(x, v)'
  BY <1>1 DEF RC!Had
<1>3. ASSUME NEW x \in RC!Places, NEW v, NEW w, RC!Fits(x, v, w)
      PROVE  RC!Fits(x, v, w)'
  <2>1. ASSUME ~v4', v # w
        PROVE  RC!Value(v1', x) # v
    <3>1. RC!Value(v1, x) # v /\ \E t \in v3 : RC!Value(t, x) = v
      BY <1>1, <1>3, <2>1 DEF RC!Fits, RC!Had
    <3> QED
      BY <1>1, <2>1, <3>1, ComesBack
  <2> QED
    BY <1>2, <1>3, <2>1 DEF RC!Fits
<1> QED
  BY <1>1, <1>2, <1>3

LEMMA EditKeepsPast ==
  ASSUME RC!WellFormed, RC!PastInv, RC!Edits
  PROVE  RC!PastInv'
BY EditMoves DEF RC!PastInv

-----------------------------------------------------------------------------
(* The steps of a capture that do not end the call.                        *)

Lists ==
  /\ v6 = "context" /\ v7.branch = "task" /\ v7.head # None
  /\ v6' = "git"
  /\ v7' = [v7 EXCEPT !.commands = {"status", "index", "hidden"}]
  /\ UNCHANGED <<RC!treeVars, v8, v9, v10>>

Prints ==
  LET s == v7.status
      status == RC!StatusOf(s.head, s.index, s.hidden, s.files)
  IN  /\ v6 = "git" /\ v7.commands = {} /\ Len(s.files) = CaptureMaxPath
      /\ v7.hidden = {}
      /\ v6' = "files"
      /\ v7' = [v7 EXCEPT !.status = status,
                          !.unread = RC!PathsToHash(status, v7.index)]
      /\ UNCHANGED <<RC!treeVars, v8, v9, v10>>

Next_ == RC!Min(v7.unread)

\* A file is recorded when it is absent, or with the block that was read before.
Hashes ==
  /\ v6 = "files" /\ v7.unread # {}
  /\ \E content \in RC!Contents :
       /\ RC!Record(content)
       /\ \/ content = RC!Absent /\ v1.files[Next_] = RC!Absent
          \/ /\ RC!HalfRead /\ v1.files[Next_] \in RC!Pairs
             /\ content = <<v8.block, v1.files[Next_][2]>>
  /\ v8' = None
  /\ UNCHANGED <<RC!treeVars, v6, v9, v10>>

Looks ==
  /\ v6 = "files" /\ v7.unread # {} /\ v8 = None
  /\ v8' = [stamp |-> v2[Next_], block |-> None]
  /\ UNCHANGED <<RC!treeVars, v6, v7, v9, v10>>

ReadsHalf ==
  /\ v6 = "files" /\ v8 # None /\ v1.files[Next_] \in RC!Pairs
  /\ v8' = [v8 EXCEPT !.block = v1.files[Next_][1]]
  /\ UNCHANGED <<RC!treeVars, v6, v7, v9, v10>>

Restarts ==
  /\ v6 = "files" /\ v9 = None /\ v7.unread = {}
  /\ v9' = v7 /\ v7' = RC!Nothing /\ v6' = "context"
  /\ UNCHANGED <<RC!treeVars, v8, v10>>

CaptureReads ==
  \/ RC!ReadBranch \/ RC!ReadHead \/ Lists
  \/ RC!ReadStatus \/ RC!ReadStatusOfFile \/ RC!ReadIndex \/ RC!ReadHidden
  \/ Prints \/ Looks \/ ReadsHalf \/ Hashes \/ Restarts

\* An element of a longer sequence is an old one or the new one.
LEMMA Appended ==
  ASSUME NEW S, NEW s \in Seq(S), NEW e, NEW n \in DOMAIN Append(s, e)
  PROVE  \/ n \in DOMAIN s /\ Append(s, e)[n] = s[n]
         \/ n = Len(s) + 1 /\ Append(s, e)[n] = e
OBVIOUS

\* The number of elements, as ReviewCapture has it.
LEMMA CardinalityIs == \A S : RC!Cardinality(S) = Cardinality(S)
BY DEF RC!Cardinality, Cardinality

\* The path that is read next is the least.
LEMMA LeastPath ==
  ASSUME NEW S \in SUBSET Nat, S # {}
  PROVE  RC!Min(S) \in S /\ \A y \in S : RC!Min(S) <= y
<1>1. PICK x \in S : \A y \in S : ~(<<y, x>> \in OpToRel(<, Nat))
  BY WFMin, NatLessThanWellFounded, Zenon
<1>2. \A y \in S : x <= y
  <2> SUFFICES ASSUME NEW y \in S PROVE x <= y
    OBVIOUS
  <2>1. ~(y < x)
    BY <1>1 DEF OpToRel
  <2> QED
    BY <2>1
<1> QED
  BY <1>2 DEF RC!Min

\* With the answer still open, a step edits, reads, or changes nothing.
LEMMA Steps ==
  ASSUME RC!WellFormed, RC!PastInv, RC!Shape, v10 = None, [RC!Next]_(RC!reviewVars), v10' = None
  PROVE  RC!Edits \/ CaptureReads \/ UNCHANGED RC!reviewVars
<1>1. CASE RC!Fails
  BY <1>1 DEF RC!Fails, RC!reviewVars, RC!captureVars
<1>2. CASE RC!ReadList
  BY <1>1, <1>2 DEF RC!ReadList, Lists, CaptureReads
<1>3. CASE RC!StartFiles
  BY <1>1, <1>3 DEF RC!StartFiles, Prints, CaptureReads
<1>4. v7.unread # {} => Next_ \in RC!Paths
  <2>1. v7.unread \subseteq RC!Paths
    BY DEF RC!Shape, RC!Captures
  <2>2. RC!Paths \subseteq Nat
    BY DEF RC!WellFormed, RC!Paths
  <2> QED
    BY <2>1, <2>2, LeastPath DEF Next_
<1>5. ASSUME v7.unread # {}
      PROVE  v1.files[Next_] \in RC!Contents
  BY <1>4, <1>5 DEF RC!PastInv, RC!Worktrees, RC!TreeStates
<1>6. CASE RC!LookAtFile
  <2>1. CASE v1.files[Next_] = RC!Absent
    <3>1. v6 = "files" /\ v7.unread # {} /\ v8 = None
      BY <1>6 DEF RC!LookAtFile
    <3>2. v1.files[Next_] # RC!Link
      BY <2>1 DEF RC!Absent, RC!Link
    <3>3. RC!Record(RC!Absent) /\ UNCHANGED <<RC!treeVars, v6, v8, v9, v10>>
      BY <1>6, <2>1, <3>2 DEF RC!LookAtFile, Next_
    <3>4. RC!Absent \in RC!Contents
      BY DEF RC!Contents
    <3> QED
      BY <2>1, <3>1, <3>3, <3>4 DEF CaptureReads, Hashes
  <2>2. CASE v1.files[Next_] # RC!Absent
    <3>1. Looks \/ RC!Fails
      <4>1. CASE v1.files[Next_] = RC!Link
        BY <1>6, <2>2, <4>1 DEF RC!LookAtFile, Next_
      <4>2. CASE v1.files[Next_] # RC!Link
        BY <1>6, <2>2, <4>2 DEF RC!LookAtFile, Next_, Looks
      <4> QED
        BY <4>1, <4>2
    <3> QED
      BY <1>1, <3>1 DEF CaptureReads
  <2> QED
    BY <2>1, <2>2
<1>7. CASE RC!ReadFirstBlock
  <2>1. CASE ~RC!SameFile(Next_)
    BY <1>1, <1>7, <2>1 DEF RC!ReadFirstBlock, Next_
  <2>2. CASE RC!SameFile(Next_)
    <3>1. v7.unread # {}
      BY <1>7 DEF RC!ReadFirstBlock, RC!Shape
    <3>2. v1.files[Next_] \in RC!Pairs
      BY <1>5, <2>2, <3>1, Contented DEF RC!SameFile
    <3>3. /\ v6 = "files" /\ v8 # None
          /\ v8' = [v8 EXCEPT !.block = v1.files[Next_][1]]
          /\ UNCHANGED <<RC!treeVars, v6, v7, v9, v10>>
      BY <1>7, <2>2 DEF RC!ReadFirstBlock, Next_
    <3> QED
      BY <3>2, <3>3 DEF CaptureReads, ReadsHalf
  <2> QED
    BY <2>1, <2>2
<1>8. CASE RC!ReadLastBlock
  <2>1. CASE ~RC!SameFile(Next_)
    BY <1>1, <1>8, <2>1 DEF RC!ReadLastBlock, Next_
  <2>2. CASE RC!SameFile(Next_)
    <3>a. v7.unread # {} /\ RC!HalfRead
      BY <1>8 DEF RC!ReadLastBlock, RC!Shape, RC!HalfRead
    <3>1. v1.files[Next_] \in RC!Pairs /\ RC!HalfRead
      BY <1>5, <2>2, <3>a, Contented DEF RC!SameFile
    <3>2. <<v8.block, v1.files[Next_][2]>> \in RC!Contents
      BY <3>1, Contented DEF RC!HalfRead, RC!Shape, RC!Contents, RC!Pairs
    <3> QED
      BY <1>8, <2>2, <3>1, <3>2 DEF RC!ReadLastBlock, Next_, CaptureReads, Hashes, RC!Shape
  <2> QED
    BY <2>1, <2>2
<1>9. CASE RC!EndCapture
  BY <1>1, <1>9 DEF RC!EndCapture, CaptureReads, Restarts, RC!reviewVars, RC!captureVars
<1> QED
  BY <1>1, <1>2, <1>3, <1>6, <1>7, <1>8, <1>9 DEF RC!Next, CaptureReads, RC!Failure

LEMMA NextIsUnread ==
  ASSUME RC!WellFormed, RC!Shape, v7.unread # {}
  PROVE  /\ Next_ \in v7.unread /\ Next_ \in RC!Paths
         /\ \A q \in v7.unread : Next_ <= q
<1>1. v7.unread \subseteq RC!Paths
  BY DEF RC!Shape, RC!Captures
<1>2. RC!Paths \subseteq Nat
  BY DEF RC!WellFormed, RC!Paths
<1> QED
  BY <1>1, <1>2, LeastPath DEF Next_

LEMMA WorktreeTypes ==
  ASSUME RC!PastInv
  PROVE  \A t \in v3 \union {v1} :
           /\ t.branch \in {"task", "other"} /\ t.head \in Nat
           /\ t.index \in [RC!Paths -> RC!Entries] /\ t.hidden \subseteq RC!Paths
           /\ t.files \in [RC!Paths -> RC!Contents]
           /\ RC!HeadTree(t) \in [RC!Paths -> RC!Entries]
<1>1. v1 \in v3 /\ v3 \subseteq RC!Worktrees
  BY DEF RC!PastInv
<1>2. ASSUME NEW t \in RC!Worktrees
      PROVE  /\ t.branch \in {"task", "other"} /\ t.head \in Nat
             /\ t.index \in [RC!Paths -> RC!Entries] /\ t.hidden \subseteq RC!Paths
             /\ t.files \in [RC!Paths -> RC!Contents]
             /\ t.trees \in Seq([RC!Paths -> RC!Entries]) /\ t.head \in DOMAIN t.trees
  BY DEF RC!Worktrees, RC!TreeStates
<1>3. ASSUME NEW t \in RC!Worktrees
      PROVE  RC!HeadTree(t) \in [RC!Paths -> RC!Entries]
  BY <1>2, ElementOfSeq DEF RC!HeadTree
<1> QED
  BY <1>1, <1>2, <1>3

\* What is read has the type of what there is.
LEMMA ReadsShape ==
  ASSUME RC!WellFormed, RC!PastInv, RC!Shape, NEW r \in RC!RawStatus, RC!Found(r), CaptureReads
  PROVE  RC!Shape'
<1> USE DEF RC!Shape
<1>1. /\ v1.branch \in {"task", "other"} /\ v1.head \in Nat
      /\ v1.index \in [RC!Paths -> RC!Entries] /\ v1.hidden \subseteq RC!Paths
      /\ v1.files \in [RC!Paths -> RC!Contents] /\ RC!HeadTree(v1) \in [RC!Paths -> RC!Entries]
  BY WorktreeTypes
<1>2. CASE RC!ReadBranch
  <2>1. v7' \in RC!Captures
    BY <1>1, <1>2 DEF RC!ReadBranch, RC!Captures
  <2> QED
    BY <1>2, <2>1 DEF RC!ReadBranch, RC!HasRead
<1>3. CASE RC!ReadHead
  <2>1. v7' \in RC!Captures
    BY <1>1, <1>3 DEF RC!ReadHead, RC!Captures
  <2> QED
    BY <1>3, <2>1 DEF RC!ReadHead, RC!HasRead
<1>4. CASE Lists
  <2>1. v7' \in RC!Captures
    BY <1>4 DEF Lists, RC!Captures
  <2>2. /\ v7'.branch = "task" /\ v7'.head \in Nat /\ v7'.files = << >>
        /\ v7'.commands = {"status", "index", "hidden"}
    BY <1>4 DEF Lists, RC!Captures
  <2> QED
    BY <1>4, <2>1, <2>2 DEF Lists, RC!HasRead
<1>5. CASE RC!ReadStatus
  <2>1. [head |-> RC!HeadTree(v1), index |-> v1.index, hidden |-> v1.hidden,
         files |-> << >>] \in RC!Statuses
    BY <1>1 DEF RC!Statuses, RC!RawStatus
  <2>2. v7' \in RC!Captures
    BY <1>5, <2>1 DEF RC!ReadStatus, RC!Captures
  <2>3. /\ v7'.branch = v7.branch /\ v7'.head = v7.head
        /\ v7'.index = v7.index /\ v7'.hidden = v7.hidden
        /\ v7'.files = v7.files /\ v7'.unread = v7.unread
        /\ v7'.commands = v7.commands \ {"status"}
    BY <1>5 DEF RC!ReadStatus, RC!Captures
  <2> QED
    BY <1>5, <2>2, <2>3 DEF RC!ReadStatus, RC!HasRead
<1>6. CASE RC!ReadStatusOfFile
  <2>1. v7.status = r /\ Len(r.files) < CaptureMaxPath
    BY <1>6 DEF RC!ReadStatusOfFile, RC!Found, RC!StatusIs, RC!HasRead
  <2>2. Len(r.files) \in Nat /\ r.files \in Seq(RC!Contents)
    BY DEF RC!RawStatus
  <2>3. v1.files[Len(r.files) + 1] \in RC!Contents
    <3>1. Len(r.files) + 1 \in RC!Paths
      <4> HIDE DEF RC!Shape
      <4> QED
        BY <2>1, <2>2 DEF RC!Paths, RC!WellFormed
    <3> QED
      BY <1>1, <3>1
  <2>4. Append(r.files, v1.files[Len(r.files) + 1]) \in Seq(RC!Contents)
    BY <2>2, <2>3
  <2>5. [r EXCEPT !.files = Append(@, v1.files[Len(@) + 1])] \in RC!Statuses
    BY <2>4 DEF RC!RawStatus, RC!Statuses
  <2>6. v7' = [v7 EXCEPT !.status = [r EXCEPT !.files = Append(@, v1.files[Len(@) + 1])]]
    BY <1>6, <2>1 DEF RC!ReadStatusOfFile
  <2>7. v7' \in RC!Captures
    BY <2>5, <2>6 DEF RC!Captures
  <2>8. /\ v7'.branch = v7.branch /\ v7'.head = v7.head
        /\ v7'.index = v7.index /\ v7'.hidden = v7.hidden
        /\ v7'.files = v7.files /\ v7'.unread = v7.unread
        /\ v7'.commands = v7.commands
    BY <2>6 DEF RC!Captures
  <2> QED
    BY <1>6, <2>7, <2>8 DEF RC!ReadStatusOfFile, RC!HasRead
<1>7. CASE RC!ReadIndex
  <2>1. v7' \in RC!Captures
    BY <1>1, <1>7 DEF RC!ReadIndex, RC!Captures
  <2>2. /\ v7'.branch = v7.branch /\ v7'.head = v7.head
        /\ v7'.index = v1.index /\ v7'.hidden = v7.hidden
        /\ v7'.files = v7.files /\ v7'.unread = v7.unread
        /\ v7'.commands = v7.commands \ {"index"}
    BY <1>7 DEF RC!ReadIndex, RC!Captures
  <2> QED
    BY <1>1, <1>7, <2>1, <2>2 DEF RC!ReadIndex, RC!HasRead
<1>8. CASE RC!ReadHidden
  <2>1. v7' \in RC!Captures
    BY <1>1, <1>8 DEF RC!ReadHidden, RC!Captures
  <2>2. /\ v7'.branch = v7.branch /\ v7'.head = v7.head
        /\ v7'.index = v7.index /\ v7'.hidden = v1.hidden
        /\ v7'.files = v7.files /\ v7'.unread = v7.unread
        /\ v7'.commands = v7.commands \ {"hidden"}
    BY <1>8 DEF RC!ReadHidden, RC!Captures
  <2> QED
    BY <1>1, <1>8, <2>1, <2>2 DEF RC!ReadHidden, RC!HasRead
<1>9. CASE Prints
  <2>1. v7.status = r /\ v7.hidden = {}
    BY <1>9 DEF Prints, RC!Found, RC!StatusIs, RC!HasRead
  <2>2. RC!Printed(r) \in RC!Statuses
    BY DEF RC!Statuses
  <2>3. RC!PathsToHash(RC!Printed(r), v7.index) \subseteq RC!Paths
    BY HashedPaths DEF RC!Printed
  <2>4. v7' = [v7 EXCEPT !.status = RC!Printed(r),
                         !.unread = RC!PathsToHash(RC!Printed(r), v7.index)]
    BY <1>9, <2>1 DEF Prints, RC!Printed
  <2>5. v7' \in RC!Captures
    BY <2>2, <2>3, <2>4 DEF RC!Captures
  <2>6. /\ v7'.branch = v7.branch /\ v7'.head = v7.head
        /\ v7'.index = v7.index /\ v7'.hidden = v7.hidden
        /\ v7'.files = v7.files
    BY <2>4 DEF RC!Captures
  <2> QED
    BY <1>9, <2>1, <2>5, <2>6 DEF Prints, RC!HasRead
<1>10. CASE Looks
  <2>1. v2[Next_] \in Nat
    BY <1>10, NextIsUnread DEF Looks, RC!PastInv
  <2> QED
    BY <1>10, <2>1 DEF Looks, RC!HasRead
<1>11. CASE ReadsHalf
  <2>1. v1.files[Next_][1] \in {0, 1}
    BY <1>11, Contented DEF ReadsHalf
  <2>2. v8' \in [stamp : Nat, block : {0, 1, None}]
    BY <1>11, <2>1 DEF ReadsHalf
  <2> QED
    BY <1>11, <2>2 DEF ReadsHalf, RC!HasRead
<1>12. CASE Hashes
  <2>1. PICK content \in RC!Contents : RC!Record(content)
    BY <1>12 DEF Hashes
  <2>2. /\ v7' = [v7 EXCEPT !.unread = @ \ {Next_},
                            !.files = Append(@, <<Next_, content>>)]
        /\ Next_ \in RC!Paths
    BY <1>12, <2>1, NextIsUnread DEF Hashes, RC!Record, Next_
  <2>3. v7.files \in Seq(RC!Paths \X RC!Contents)
    BY DEF RC!Captures
  <2>4. Append(v7.files, <<Next_, content>>) \in Seq(RC!Paths \X RC!Contents)
    BY <2>2, <2>3
  <2>5. v7' \in RC!Captures
    BY <2>2, <2>4 DEF RC!Captures
  <2>6. /\ v7'.branch = v7.branch /\ v7'.head = v7.head
        /\ v7'.index = v7.index /\ v7'.hidden = v7.hidden
    BY <2>2 DEF RC!Captures
  <2> QED
    BY <1>12, <2>5, <2>6 DEF Hashes, RC!HasRead
<1>13. CASE Restarts
  <2>1. RC!Nothing \in RC!Captures
    BY DEF RC!Nothing, RC!Captures, RC!Statuses
  <2> QED
    BY <1>13, <2>1 DEF Restarts, RC!HasRead, RC!Nothing
<1> QED
  BY <1>2, <1>3, <1>4, <1>5, <1>6, <1>7, <1>8, <1>9, <1>10, <1>11, <1>12, <1>13
     DEF CaptureReads

\* What a step that reads learns: r is what git status had found, r2 what it has.
Learns(r, r2) ==
  /\ v9' = v9
  /\ v6 = "files" => r2 = r
  /\ v7'.branch \in {v7.branch, v1.branch}
  /\ v7'.head \in {v7.head, v1.head}
  /\ RC!HasRead("index")' =>
       v7'.index = v1.index \/ (RC!HasRead("index") /\ v7'.index = v7.index)
  /\ RC!HasRead("hidden")' =>
       v7'.hidden = v1.hidden \/ (RC!HasRead("hidden") /\ v7'.hidden = v7.hidden)
  /\ RC!HasRead("status")' =>
       \/ /\ r2.head = RC!HeadTree(v1) /\ r2.index = v1.index
          /\ r2.hidden = v1.hidden /\ r2.files = << >>
       \/ /\ RC!HasRead("status")
          /\ r2.head = r.head /\ r2.index = r.index /\ r2.hidden = r.hidden
          /\ \/ r2.files = r.files
             \/ /\ Len(r.files) + 1 \in RC!Paths
                /\ r2.files = Append(r.files, v1.files[Len(r.files) + 1])
  /\ \/ v7'.files = v7.files
     \/ /\ v6 = "files" /\ Next_ \in RC!Paths
        /\ \E content \in RC!Contents :
             /\ v7'.files = Append(v7.files, <<Next_, content>>)
             /\ \/ content = RC!Absent /\ v1.files[Next_] = RC!Absent
                \/ /\ RC!HalfRead /\ v1.files[Next_] \in RC!Pairs
                   /\ content = <<v8.block, v1.files[Next_][2]>>
  /\ RC!HalfRead' =>
       /\ v6 = "files" /\ Next_' = Next_ /\ Next_ \in RC!Paths
       /\ \/ RC!HalfRead /\ v8'.block = v8.block
          \/ v1.files[Next_] \in RC!Pairs /\ v8'.block = v1.files[Next_][1]

\* Each step that reads keeps what it knows or takes it from the Worktree as it is.
LEMMA ReadsLearn ==
  ASSUME RC!WellFormed, RC!PastInv, RC!Shape, NEW r \in RC!RawStatus, RC!StatusIs(r), CaptureReads, ~Restarts
  PROVE  \E r2 \in RC!RawStatus : Learns(r, r2) /\ RC!StatusIs(r2)'
<1>1. /\ v1.branch \in {"task", "other"} /\ v1.head \in Nat
      /\ v1.index \in [RC!Paths -> RC!Entries] /\ v1.hidden \subseteq RC!Paths
      /\ v1.files \in [RC!Paths -> RC!Contents] /\ RC!HeadTree(v1) \in [RC!Paths -> RC!Entries]
  BY WorktreeTypes
<1>2. v7 \in RC!Captures /\ (v6 # "files" => v8 = None)
  BY DEF RC!Shape
<1>3. CASE RC!ReadBranch
  <2>1. /\ v7'.branch = v1.branch /\ v7'.head = v7.head
        /\ v7'.files = v7.files /\ v6 = "context" /\ v6' = v6
        /\ v8' = v8 /\ v9' = v9
    BY <1>2, <1>3 DEF RC!ReadBranch, RC!Captures
  <2> QED
    BY <1>2, <2>1 DEF Learns, RC!StatusIs, RC!HasRead, RC!HalfRead
<1>4. CASE RC!ReadHead
  <2>1. /\ v7'.branch = v7.branch /\ v7'.head = v1.head
        /\ v7'.files = v7.files /\ v6 = "context" /\ v6' = v6
        /\ v8' = v8 /\ v9' = v9
    BY <1>2, <1>4 DEF RC!ReadHead, RC!Captures
  <2> QED
    BY <1>2, <2>1 DEF Learns, RC!StatusIs, RC!HasRead, RC!HalfRead
<1>5. CASE Lists
  <2>1. /\ v7'.branch = v7.branch /\ v7'.head = v7.head
        /\ v7'.files = v7.files /\ v6 = "context" /\ v6' = "git"
        /\ v7'.commands = {"status", "index", "hidden"}
        /\ v8' = v8 /\ v9' = v9
    BY <1>2, <1>5 DEF Lists, RC!Captures
  <2> QED
    BY <1>2, <2>1 DEF Learns, RC!StatusIs, RC!HasRead, RC!HalfRead
<1>6. CASE RC!ReadStatus
  <2>a. [head |-> RC!HeadTree(v1), index |-> v1.index, hidden |-> v1.hidden,
         files |-> << >>] \in RC!RawStatus
    BY <1>1 DEF RC!RawStatus
  <2>b. PICK r2 \in RC!RawStatus :
          r2 = [head |-> RC!HeadTree(v1), index |-> v1.index, hidden |-> v1.hidden,
                files |-> << >>]
    BY <2>a
  <2>1. Len(r2.files) = 0
    BY <2>b
  <2>2. /\ v7'.branch = v7.branch /\ v7'.head = v7.head
        /\ v7'.index = v7.index /\ v7'.hidden = v7.hidden
        /\ v7'.files = v7.files /\ v7'.status = r2
        /\ v7'.commands = v7.commands \ {"status"}
        /\ v6 = "git" /\ v6' = "git" /\ v8' = v8 /\ v9' = v9
    BY <1>2, <1>6, <2>b DEF RC!ReadStatus, RC!Captures
  <2>3. /\ r2.head = RC!HeadTree(v1) /\ r2.index = v1.index
        /\ r2.hidden = v1.hidden /\ r2.files = << >>
    BY <2>b
  <2>4. Learns(r, r2)
    BY <1>2, <2>2, <2>3 DEF Learns, RC!HasRead, RC!HalfRead
  <2>5. RC!StatusIs(r2)'
    BY <2>1, <2>2 DEF RC!StatusIs, RC!HasRead, RC!WellFormed
  <2> QED
    BY <2>1, <2>4, <2>5
<1>7. CASE RC!ReadStatusOfFile
  <2>1. /\ v7.status = r /\ Len(r.files) < CaptureMaxPath
        /\ v6 = "git" /\ "status" \notin v7.commands
    BY <1>7 DEF RC!ReadStatusOfFile, RC!StatusIs, RC!HasRead
  <2>2. Len(r.files) \in Nat /\ r.files \in Seq(RC!Contents)
    BY DEF RC!RawStatus
  <2>3. Len(r.files) + 1 \in RC!Paths
    BY <2>1, <2>2 DEF RC!Paths, RC!WellFormed
  <2>4. Append(r.files, v1.files[Len(r.files) + 1]) \in Seq(RC!Contents)
    BY <1>1, <2>2, <2>3
  <2>a. [r EXCEPT !.files = Append(@, v1.files[Len(@) + 1])] \in RC!RawStatus
    BY <2>4 DEF RC!RawStatus
  <2>b. PICK r2 \in RC!RawStatus :
          r2 = [r EXCEPT !.files = Append(@, v1.files[Len(@) + 1])]
    BY <2>a
  <2>5. /\ r2.files = Append(r.files, v1.files[Len(r.files) + 1])
        /\ r2.head = r.head /\ r2.index = r.index /\ r2.hidden = r.hidden
    BY <2>b DEF RC!RawStatus
  <2>6. Len(r2.files) = Len(r.files) + 1
    BY <2>2, <2>4, <2>5
  <2>7. v7' = [v7 EXCEPT !.status = r2]
    BY <1>7, <2>1, <2>b DEF RC!ReadStatusOfFile
  <2>8. /\ v7'.branch = v7.branch /\ v7'.head = v7.head
        /\ v7'.index = v7.index /\ v7'.hidden = v7.hidden
        /\ v7'.files = v7.files /\ v7'.status = r2
        /\ v7'.commands = v7.commands
        /\ v6' = "git" /\ v8' = v8 /\ v9' = v9
    BY <1>2, <1>7, <2>1, <2>7 DEF RC!ReadStatusOfFile, RC!Captures
  <2>9. Learns(r, r2)
    BY <1>2, <2>1, <2>3, <2>5, <2>8 DEF Learns, RC!HasRead, RC!HalfRead
  <2>10. RC!StatusIs(r2)'
    BY <2>1, <2>2, <2>6, <2>8 DEF RC!StatusIs, RC!HasRead, RC!WellFormed
  <2> QED
    BY <2>5, <2>9, <2>10
<1>8. CASE RC!ReadIndex
  <2>1. /\ v7'.branch = v7.branch /\ v7'.head = v7.head
        /\ v7'.index = v1.index /\ v7'.hidden = v7.hidden
        /\ v7'.files = v7.files /\ v7'.status = v7.status
        /\ v7'.commands = v7.commands \ {"index"}
        /\ v6 = "git" /\ v6' = "git" /\ v8' = v8 /\ v9' = v9
    BY <1>2, <1>8 DEF RC!ReadIndex, RC!Captures
  <2>2. Learns(r, r)
    BY <1>2, <2>1 DEF Learns, RC!HasRead, RC!HalfRead
  <2>3. RC!StatusIs(r)'
    BY <2>1 DEF RC!StatusIs, RC!HasRead
  <2> QED
    BY <2>2, <2>3
<1>9. CASE RC!ReadHidden
  <2>1. /\ v7'.branch = v7.branch /\ v7'.head = v7.head
        /\ v7'.index = v7.index /\ v7'.hidden = v1.hidden
        /\ v7'.files = v7.files /\ v7'.status = v7.status
        /\ v7'.commands = v7.commands \ {"hidden"}
        /\ v6 = "git" /\ v6' = "git" /\ v8' = v8 /\ v9' = v9
    BY <1>2, <1>9 DEF RC!ReadHidden, RC!Captures
  <2>2. Learns(r, r)
    BY <1>2, <2>1 DEF Learns, RC!HasRead, RC!HalfRead
  <2>3. RC!StatusIs(r)'
    BY <2>1 DEF RC!StatusIs, RC!HasRead
  <2> QED
    BY <2>2, <2>3
<1>10. CASE Prints
  <2>1. /\ v6 = "git" /\ v6' = "files" /\ v7.commands = {}
        /\ v7.status = r /\ Len(r.files) = CaptureMaxPath
    BY <1>10 DEF Prints, RC!StatusIs, RC!HasRead
  <2>2. v7' = [v7 EXCEPT !.status = RC!Printed(r),
                         !.unread = RC!PathsToHash(RC!Printed(r), v7.index)]
    BY <1>10, <2>1 DEF Prints, RC!Printed
  <2>3. /\ v7'.branch = v7.branch /\ v7'.head = v7.head
        /\ v7'.index = v7.index /\ v7'.hidden = v7.hidden
        /\ v7'.files = v7.files /\ v7'.status = RC!Printed(r)
        /\ v8' = v8 /\ v9' = v9
    BY <1>2, <1>10, <2>2 DEF Prints, RC!Captures
  <2>4. Learns(r, r)
    BY <1>2, <2>1, <2>3 DEF Learns, RC!HasRead, RC!HalfRead
  <2>5. RC!StatusIs(r)'
    BY <2>1, <2>3 DEF RC!StatusIs
  <2> QED
    BY <2>4, <2>5
<1>11. CASE Looks
  <2>1. /\ v6 = "files" /\ v6' = "files" /\ v7' = v7 /\ v9' = v9
        /\ v8'.block = None
    BY <1>11 DEF Looks
  <2> QED
    BY <2>1 DEF Learns, RC!StatusIs, RC!HasRead, RC!HalfRead
<1>12. CASE ReadsHalf
  <2>1. /\ v6 = "files" /\ v6' = "files" /\ v7' = v7 /\ v9' = v9
        /\ v1.files[Next_] \in RC!Pairs /\ v7.unread # {}
    BY <1>12 DEF ReadsHalf, RC!Shape
  <2>2. v8'.block = v1.files[Next_][1]
    BY <1>12 DEF ReadsHalf, RC!Shape
  <2>3. Next_' = Next_ /\ Next_ \in RC!Paths
    BY <2>1, NextIsUnread DEF Next_
  <2> QED
    BY <2>1, <2>2, <2>3 DEF Learns, RC!StatusIs, RC!HasRead, RC!HalfRead
<1>13. CASE Hashes
  <2>1. PICK content \in RC!Contents :
          /\ RC!Record(content)
          /\ \/ content = RC!Absent /\ v1.files[Next_] = RC!Absent
             \/ /\ RC!HalfRead /\ v1.files[Next_] \in RC!Pairs
                /\ content = <<v8.block, v1.files[Next_][2]>>
    BY <1>13 DEF Hashes
  <2>2. /\ v7' = [v7 EXCEPT !.unread = @ \ {Next_},
                            !.files = Append(@, <<Next_, content>>)]
        /\ Next_ \in RC!Paths
    BY <1>13, <2>1, NextIsUnread DEF Hashes, RC!Record, Next_
  <2>3. /\ v7'.branch = v7.branch /\ v7'.head = v7.head
        /\ v7'.index = v7.index /\ v7'.hidden = v7.hidden
        /\ v7'.files = Append(v7.files, <<Next_, content>>)
        /\ v7'.status = v7.status
        /\ v6 = "files" /\ v6' = "files" /\ v9' = v9 /\ v8' = None
    BY <1>2, <1>13, <2>2 DEF Hashes, RC!Captures
  <2>4. Learns(r, r)
    BY <2>1, <2>2, <2>3 DEF Learns, RC!HasRead, RC!HalfRead
  <2>5. RC!StatusIs(r)'
    BY <2>3 DEF RC!StatusIs
  <2> QED
    BY <2>4, <2>5
<1> QED
  BY <1>3, <1>4, <1>5, <1>6, <1>7, <1>8, <1>9, <1>10, <1>11, <1>12, <1>13 DEF CaptureReads

LEMMA ReadsKeepTree ==
  ASSUME CaptureReads
  PROVE  UNCHANGED RC!treeVars /\ v10' = v10
BY DEF CaptureReads, RC!ReadBranch, RC!ReadHead, Lists, RC!ReadStatus, RC!ReadStatusOfFile, RC!ReadIndex,
       RC!ReadHidden, Prints, Looks, ReadsHalf, Hashes, Restarts

\* What is there now has been there.
LEMMA TreeHas ==
  ASSUME RC!PastInv
  PROVE  \A x : RC!Had(x, RC!Value(v1, x))
BY DEF RC!PastInv, RC!Had

\* The file that is read has the parts that are read.
LEMMA ReadParts ==
  ASSUME RC!PastInv, RC!SeenHad, RC!HalfRead => Next_ \in RC!Paths, NEW content \in RC!Contents,
         \/ content = RC!Absent /\ v1.files[Next_] = RC!Absent
         \/ /\ RC!HalfRead /\ v1.files[Next_] \in RC!Pairs
            /\ content = <<v8.block, v1.files[Next_][2]>>
  PROVE  /\ RC!Part(content, 2) = RC!Value(v1, RC!BlockAt(Next_, 2))
         /\ \/ RC!Part(content, 1) = RC!Value(v1, RC!BlockAt(Next_, 1))
            \/ RC!HalfRead /\ RC!Part(content, 1) = <<v8.block, 1>>
<1>1. CASE content = RC!Absent /\ v1.files[Next_] = RC!Absent
  BY <1>1, Values
<1>2. CASE /\ RC!HalfRead /\ v1.files[Next_] \in RC!Pairs
           /\ content = <<v8.block, v1.files[Next_][2]>>
  <2>1. RC!Part(content, 2) = <<v1.files[Next_][2], 2>>
    BY <1>2 DEF RC!Part, RC!IsFile
  <2>2. RC!Part(content, 1) = <<v8.block, 1>>
    BY <1>2 DEF RC!Part, RC!IsFile
  <2>3. RC!IsFile(v1.files[Next_])
    BY <1>2, Contented DEF RC!Contents
  <2>4. RC!Part(v1.files[Next_], 2) = <<v1.files[Next_][2], 2>>
    BY <2>3 DEF RC!Part
  <2> QED
    BY <1>2, <2>1, <2>2, <2>4, Values
<1> QED
  BY <1>1, <1>2

LEMMA HalfReadParts ==
  ASSUME NEW p, v1.files[p] \in RC!Pairs
  PROVE  <<v1.files[p][1], 1>> = RC!Value(v1, RC!BlockAt(p, 1))
<1>1. RC!IsFile(v1.files[p])
  BY Contented DEF RC!Contents
<1> QED
  BY <1>1, Values DEF RC!Part

\* So what is known was there ...
LEMMA ReadsSeenHad ==
  ASSUME RC!WellFormed, RC!PastInv, RC!Shape, RC!SeenHad, NEW r \in RC!RawStatus, RC!StatusIs(r), CaptureReads
  PROVE  RC!SeenHad'
<1>1. CASE Restarts
  BY <1>1 DEF Restarts, RC!SeenHad, RC!HasRead, RC!HalfRead, RC!Nothing, RC!Shape
<1>2. CASE ~Restarts
  <2>1. UNCHANGED <<v1, v3>>
    BY ReadsKeepTree DEF RC!treeVars
  <2>2. PICK r2 \in RC!RawStatus : Learns(r, r2)
    BY <1>2, ReadsLearn
  <2>3. \A x, v : RC!Had(x, v) => (\E t \in v3' : RC!Value(t, x) = v)
    BY <2>1 DEF RC!Had
  <2>4. /\ \E t \in v3' : RC!Value(t, RC!TheBranch) = v1.branch
        /\ \E t \in v3' : RC!Value(t, RC!TheHead) = v1.head
        /\ \A p : \E t \in v3' : RC!Value(t, RC!EntryAt(p)) = v1.index[p]
        /\ \A x : \E t \in v3' : RC!Value(t, x) = RC!Value(v1, x)
    BY <2>3, TreeHas, Values
  <2>5. v7'.branch # None => \E t \in v3' : RC!Value(t, RC!TheBranch) = v7'.branch
    <3>1. v7'.branch = v7.branch \/ v7'.branch = v1.branch
      BY <2>2 DEF Learns
    <3>2. v7.branch # None => RC!Had(RC!TheBranch, v7.branch)
      BY DEF RC!SeenHad
    <3> QED
      BY <2>3, <2>4, <3>1, <3>2
  <2>6. v7'.head # None => \E t \in v3' : RC!Value(t, RC!TheHead) = v7'.head
    <3>1. v7'.head = v7.head \/ v7'.head = v1.head
      BY <2>2 DEF Learns
    <3>2. v7.head # None => RC!Had(RC!TheHead, v7.head)
      BY DEF RC!SeenHad
    <3> QED
      BY <2>3, <2>4, <3>1, <3>2
  <2>7. RC!HasRead("index")' => \A p \in RC!Paths : RC!Had(RC!EntryAt(p), v7.index[p])'
    <3> SUFFICES ASSUME RC!HasRead("index")', NEW p \in RC!Paths
                 PROVE  \E t \in v3' : RC!Value(t, RC!EntryAt(p)) = v7'.index[p]
      BY DEF RC!Had
    <3>1. \/ v7'.index = v1.index
          \/ RC!HasRead("index") /\ v7'.index = v7.index
      BY <2>2 DEF Learns
    <3>2. RC!HasRead("index") => RC!Had(RC!EntryAt(p), v7.index[p])
      BY DEF RC!SeenHad
    <3> QED
      BY <2>3, <2>4, <3>1, <3>2
  <2>8. RC!HasRead("hidden")' => \E t \in v3' : t.hidden = v7'.hidden
    <3>1. RC!HasRead("hidden")' =>
            \/ v7'.hidden = v1.hidden
            \/ RC!HasRead("hidden") /\ v7'.hidden = v7.hidden
      BY <2>2 DEF Learns
    <3>2. RC!HasRead("hidden") => \E t \in v3 : t.hidden = v7.hidden
      BY DEF RC!SeenHad
    <3> QED
      BY <2>1, <3>1, <3>2 DEF RC!PastInv
  <2>9. ASSUME NEW i \in DOMAIN v7'.files, NEW b \in {1, 2}
        PROVE  \E t \in v3' :
                 RC!Value(t, RC!BlockAt(v7'.files[i][1], b)) = RC!Part(v7'.files[i][2], b)
    <3>1. ASSUME i \in DOMAIN v7.files, v7'.files[i] = v7.files[i]
          PROVE  \E t \in v3' :
                   RC!Value(t, RC!BlockAt(v7'.files[i][1], b)) = RC!Part(v7'.files[i][2], b)
      <4>1. RC!Had(RC!BlockAt(v7.files[i][1], b), RC!Part(v7.files[i][2], b))
        BY <3>1 DEF RC!SeenHad
      <4> QED
        BY <2>3, <3>1, <4>1
    <3>2. CASE v7'.files = v7.files
      BY <3>1, <3>2
    <3>3. CASE v7'.files # v7.files
      <4>1. PICK content \in RC!Contents :
              /\ v7'.files = Append(v7.files, <<Next_, content>>)
              /\ \/ content = RC!Absent /\ v1.files[Next_] = RC!Absent
                 \/ /\ RC!HalfRead /\ v1.files[Next_] \in RC!Pairs
                    /\ content = <<v8.block, v1.files[Next_][2]>>
        BY <2>2, <3>3 DEF Learns
      <4>2. Next_ \in RC!Paths /\ v7.files \in Seq(RC!Paths \X RC!Contents)
        BY <2>2, <3>3 DEF Learns, RC!Shape, RC!Captures
      <4>3. \/ i \in DOMAIN v7.files /\ v7'.files[i] = v7.files[i]
            \/ v7'.files[i] = <<Next_, content>>
        BY <4>1, <4>2
      <4>4. ASSUME v7'.files[i] = <<Next_, content>>
            PROVE  \E t \in v3' :
                     RC!Value(t, RC!BlockAt(v7'.files[i][1], b)) = RC!Part(v7'.files[i][2], b)
        <5>1. \/ RC!Part(content, b) = RC!Value(v1, RC!BlockAt(Next_, b))
              \/ RC!HalfRead /\ b = 1 /\ RC!Part(content, b) = <<v8.block, 1>>
          BY <4>1, <4>2, ReadParts
        <5>2. RC!HalfRead => RC!Had(RC!BlockAt(Next_, 1), <<v8.block, 1>>)
          BY DEF RC!SeenHad, Next_
        <5> QED
          BY <2>3, <2>4, <4>4, <5>1, <5>2
      <4> QED
        BY <3>1, <4>3, <4>4
    <3> QED
      BY <3>2, <3>3
  <2>10. ASSUME RC!HalfRead'
         PROVE  \E t \in v3' : RC!Value(t, RC!BlockAt(Next_', 1)) = <<v8'.block, 1>>
    <3>1. /\ Next_' = Next_
          /\ \/ RC!HalfRead /\ v8'.block = v8.block
             \/ v1.files[Next_] \in RC!Pairs /\ v8'.block = v1.files[Next_][1]
      BY <2>2, <2>10 DEF Learns
    <3>2. RC!HalfRead => RC!Had(RC!BlockAt(Next_, 1), <<v8.block, 1>>)
      BY DEF RC!SeenHad, Next_
    <3> QED
      BY <2>3, <2>4, <3>1, <3>2, HalfReadParts
  <2> QED
    BY <2>5, <2>6, <2>7, <2>8, <2>9, <2>10 DEF RC!SeenHad, RC!Had, Next_
<1> QED
  BY <1>1, <1>2

\* ... also what git status found ...
LEMMA ReadsWasThere ==
  ASSUME RC!PastInv, CaptureReads, NEW r \in RC!RawStatus, NEW r2 \in RC!RawStatus,
         RC!HasRead("status") => RC!WasThere(r), Learns(r, r2)
  PROVE  RC!HasRead("status")' => RC!WasThere(r2)'
<1> SUFFICES ASSUME RC!HasRead("status")'
             PROVE  /\ \E t \in v3' : r2.head = RC!HeadTree(t)
                    /\ \E t \in v3' : r2.hidden = t.hidden
                    /\ \A p \in RC!Paths : \E t \in v3' : RC!Value(t, RC!EntryAt(p)) = r2.index[p]
                    /\ \A p \in DOMAIN r2.files : \A b \in {1, 2} :
                         \E t \in v3' : RC!Value(t, RC!BlockAt(p, b)) = RC!Part(r2.files[p], b)
  BY DEF RC!WasThere, RC!Had
<1>1. v1 \in v3 /\ v3' = v3
  BY ReadsKeepTree DEF RC!PastInv, RC!treeVars
<1>2. /\ \A p : \E t \in v3 : RC!Value(t, RC!EntryAt(p)) = v1.index[p]
      /\ \A p, b : \E t \in v3 : RC!Value(t, RC!BlockAt(p, b)) = RC!Part(v1.files[p], b)
  BY <1>1, Values
<1>3. CASE /\ r2.head = RC!HeadTree(v1) /\ r2.index = v1.index
           /\ r2.hidden = v1.hidden /\ r2.files = << >>
  BY <1>1, <1>2, <1>3
<1>4. CASE /\ RC!HasRead("status")
           /\ r2.head = r.head /\ r2.index = r.index /\ r2.hidden = r.hidden
           /\ \/ r2.files = r.files
              \/ /\ Len(r.files) + 1 \in RC!Paths
                 /\ r2.files = Append(r.files, v1.files[Len(r.files) + 1])
  <2>1. /\ \E t \in v3 : r.head = RC!HeadTree(t)
        /\ \E t \in v3 : r.hidden = t.hidden
        /\ \A p \in RC!Paths : \E t \in v3 : RC!Value(t, RC!EntryAt(p)) = r.index[p]
        /\ \A p \in DOMAIN r.files : \A b \in {1, 2} :
             \E t \in v3 : RC!Value(t, RC!BlockAt(p, b)) = RC!Part(r.files[p], b)
    BY <1>4 DEF RC!WasThere, RC!Had
  <2>2. r.files \in Seq(RC!Contents)
    BY DEF RC!RawStatus
  <2>3. \A p \in DOMAIN r2.files :
          \/ p \in DOMAIN r.files /\ r2.files[p] = r.files[p]
          \/ r2.files[p] = v1.files[p]
    BY <1>4, <2>2
  <2>4. \A p \in DOMAIN r2.files : \A b \in {1, 2} :
          \E t \in v3 : RC!Value(t, RC!BlockAt(p, b)) = RC!Part(r2.files[p], b)
    BY <1>2, <2>1, <2>3
  <2> QED
    BY <1>1, <1>4, <2>1, <2>4
<1> QED
  BY <1>3, <1>4 DEF Learns

\* What is read now is that of m, if it is what was read first.
LEMMA FitsNow ==
  ASSUME NEW x, NEW v, NEW w, RC!Fits(x, v, w)
  PROVE  RC!Again(RC!Value(v1, x), v, w)
BY DEF RC!Fits, RC!Again

LEMMA ReadsKeepFirst ==
  ASSUME CaptureReads, ~Restarts, NEW m, NEW r1, v9' = v9, RC!FirstFits(m, r1)
  PROVE  RC!FirstFits(m, r1)'
<1>1. UNCHANGED <<v1, v3, v4>>
  BY ReadsKeepTree DEF RC!treeVars
<1> QED
  BY <1>1 DEF RC!FirstFits, RC!Fits, RC!Had, RC!WasThere

\* ... and what is read as it was read first, is what m had ...
LEMMA ReadsSecondAgrees ==
  ASSUME RC!WellFormed, RC!PastInv, RC!Shape, CaptureReads, NEW r \in RC!RawStatus, NEW r2 \in RC!RawStatus,
         Learns(r, r2), NEW m \in v3, NEW r1 \in RC!RawStatus,
         RC!FirstFits(m, r1), RC!SecondAgrees(m, r1, r)
  PROVE  RC!SecondAgrees(m, r1, r2)'
<1>1. UNCHANGED <<v1, v3, v4>> /\ v9' = v9
  BY ReadsKeepTree DEF RC!treeVars, Learns
<1>2. /\ RC!Again(v1.branch, v9.branch, m.branch)
      /\ RC!Again(v1.head, v9.head, m.head)
      /\ \A p \in RC!Paths : RC!Again(v1.index[p], v9.index[p], m.index[p])
      /\ \A p \in RC!Paths : RC!Again(v1.index[p], r1.index[p], m.index[p])
  BY FitsNow, Values DEF RC!FirstFits
<1>3. \A p \in RC!Paths : \A b \in {1, 2} :
        RC!Again(RC!Part(v1.files[p], b), RC!Part(r1.files[p], b), RC!Part(m.files[p], b))
  BY FitsNow, Values DEF RC!FirstFits
<1>4. v7'.branch # None => RC!Again(v7'.branch, v9.branch, m.branch)
  <2>1. v7.branch # None => RC!Again(v7.branch, v9.branch, m.branch)
    BY DEF RC!SecondAgrees
  <2>2. v7'.branch = v7.branch \/ v7'.branch = v1.branch
    BY DEF Learns
  <2> QED
    BY <1>2, <2>1, <2>2
<1>5. v7'.head # None => RC!Again(v7'.head, v9.head, m.head)
  <2>1. v7.head # None => RC!Again(v7.head, v9.head, m.head)
    BY DEF RC!SecondAgrees
  <2>2. v7'.head = v7.head \/ v7'.head = v1.head
    BY DEF Learns
  <2> QED
    BY <1>2, <2>1, <2>2
<1>6. RC!HasRead("index")' =>
        \A p \in RC!Paths : RC!Again(v7'.index[p], v9.index[p], m.index[p])
  <2>1. RC!HasRead("index") =>
          \A p \in RC!Paths : RC!Again(v7.index[p], v9.index[p], m.index[p])
    BY DEF RC!SecondAgrees
  <2>2. RC!HasRead("index")' =>
          v7'.index = v1.index \/ (RC!HasRead("index") /\ v7'.index = v7.index)
    BY DEF Learns
  <2> QED
    BY <1>2, <2>1, <2>2
<1>7. ASSUME RC!HasRead("status")'
      PROVE  /\ \A p \in RC!Paths : RC!Again(r2.index[p], r1.index[p], m.index[p])
             /\ \A p \in DOMAIN r2.files : \A b \in {1, 2} :
                  RC!Again(RC!Part(r2.files[p], b), RC!Part(r1.files[p], b), RC!Part(m.files[p], b))
  <2>1. CASE r2.index = v1.index /\ r2.files = << >>
    BY <1>2, <2>1
  <2>2. CASE /\ RC!HasRead("status") /\ r2.index = r.index
             /\ \/ r2.files = r.files
                \/ /\ Len(r.files) + 1 \in RC!Paths
                   /\ r2.files = Append(r.files, v1.files[Len(r.files) + 1])
    <3>1. /\ \A p \in RC!Paths : RC!Again(r.index[p], r1.index[p], m.index[p])
          /\ \A p \in DOMAIN r.files : \A b \in {1, 2} :
               RC!Again(RC!Part(r.files[p], b), RC!Part(r1.files[p], b), RC!Part(m.files[p], b))
      BY <2>2 DEF RC!SecondAgrees
    <3>2. r.files \in Seq(RC!Contents)
      BY DEF RC!RawStatus
    <3>3. \A p \in DOMAIN r2.files :
            \/ p \in DOMAIN r.files /\ r2.files[p] = r.files[p]
            \/ p \in RC!Paths /\ r2.files[p] = v1.files[p]
      <4> SUFFICES ASSUME NEW p \in DOMAIN r2.files
                   PROVE  \/ p \in DOMAIN r.files /\ r2.files[p] = r.files[p]
                          \/ p \in RC!Paths /\ r2.files[p] = v1.files[p]
        OBVIOUS
      <4>1. CASE r2.files = r.files
        BY <4>1
      <4>2. CASE /\ Len(r.files) + 1 \in RC!Paths
                 /\ r2.files = Append(r.files, v1.files[Len(r.files) + 1])
        BY <3>2, <4>2, Appended
      <4> QED
        BY <2>2, <4>1, <4>2
    <3> QED
      BY <1>3, <2>2, <3>1, <3>3
  <2> QED
    BY <1>7, <2>1, <2>2 DEF Learns
<1> QED
  BY <1>1, <1>4, <1>5, <1>6, <1>7 DEF RC!SecondAgrees, RC!Again

\* ... and so is a file that is hashed as it was hashed first.
LEMMA ReadsHashesAgree ==
  ASSUME RC!WellFormed, RC!PastInv, RC!Shape, RC!SeenHad, CaptureReads, NEW r \in RC!RawStatus, NEW r2 \in RC!RawStatus,
         RC!StatusIs(r), Learns(r, r2), NEW m \in v3, NEW r1 \in RC!RawStatus,
         RC!FirstFits(m, r1), RC!HashesAgree(m, r)
  PROVE  RC!HashesAgree(m, r2)'
<1>1. UNCHANGED <<v1, v3, v4>> /\ v9' = v9
  BY ReadsKeepTree DEF RC!treeVars, Learns
<1> SUFFICES ASSUME NEW i \in DOMAIN v9.files, NEW p, NEW c,
                    p = v9.files[i][1], c = v9.files[i][2], NEW b \in {1, 2}
             PROVE  /\ RC!HasRead("status")' /\ p \in DOMAIN r2.files =>
                         RC!Fits(RC!BlockAt(p, b), RC!Part(c, b), RC!Part(r2.files[p], b))
                    /\ \A j \in DOMAIN v7'.files : v7'.files[j][1] = p =>
                         /\ RC!Again(RC!Part(v7'.files[j][2], b), RC!Part(c, b), RC!Part(m.files[p], b))
                         /\ RC!Again(RC!Part(v7'.files[j][2], b), RC!Part(c, b), RC!Part(r2.files[p], b))
                    /\ RC!HalfRead' /\ Next_' = p /\ b = 1 =>
                         /\ RC!Again(<<v8'.block, 1>>, RC!Part(c, b), RC!Part(m.files[p], b))
                         /\ RC!Again(<<v8'.block, 1>>, RC!Part(c, b), RC!Part(r2.files[p], b))
  BY <1>1 DEF RC!HashesAgree, RC!Fits, RC!Had, RC!Again, Next_
<1>2. p \in RC!Paths /\ v9.files \in Seq(RC!Paths \X RC!Contents)
  <2>1. v9.files \in Seq(RC!Paths \X RC!Contents)
    BY DEF RC!FirstFits, RC!Captures
  <2> QED
    BY <2>1, ElementOfSeq
<1>3. RC!Fits(RC!BlockAt(p, b), RC!Part(c, b), RC!Part(m.files[p], b))
  BY DEF RC!FirstFits
<1>4. RC!Again(RC!Value(v1, RC!BlockAt(p, b)), RC!Part(c, b), RC!Part(m.files[p], b))
  BY <1>3, FitsNow
<1>5. /\ RC!HasRead("status") /\ p \in DOMAIN r.files =>
           RC!Fits(RC!BlockAt(p, b), RC!Part(c, b), RC!Part(r.files[p], b))
      /\ \A j \in DOMAIN v7.files : v7.files[j][1] = p =>
           /\ RC!Again(RC!Part(v7.files[j][2], b), RC!Part(c, b), RC!Part(m.files[p], b))
           /\ RC!Again(RC!Part(v7.files[j][2], b), RC!Part(c, b), RC!Part(r.files[p], b))
      /\ RC!HalfRead /\ Next_ = p /\ b = 1 =>
           /\ RC!Again(<<v8.block, 1>>, RC!Part(c, b), RC!Part(m.files[p], b))
           /\ RC!Again(<<v8.block, 1>>, RC!Part(c, b), RC!Part(r.files[p], b))
  BY DEF RC!HashesAgree, Next_
<1>6. v6 = "files" =>
        /\ r2 = r
        /\ RC!Fits(RC!BlockAt(p, b), RC!Part(c, b), RC!Part(r.files[p], b))
        /\ RC!Again(RC!Value(v1, RC!BlockAt(p, b)), RC!Part(c, b), RC!Part(r.files[p], b))
  <2> SUFFICES ASSUME v6 = "files"
               PROVE  /\ r2 = r
                      /\ RC!Fits(RC!BlockAt(p, b), RC!Part(c, b), RC!Part(r.files[p], b))
    BY FitsNow
  <2>1. r2 = r /\ Len(r.files) = CaptureMaxPath /\ RC!HasRead("status")
    BY DEF Learns, RC!StatusIs, RC!HasRead
  <2>2. r.files \in Seq(RC!Contents)
    BY DEF RC!RawStatus
  <2>3. p \in DOMAIN r.files
    BY <1>2, <2>1, <2>2, LenProperties DEF RC!Paths
  <2> QED
    BY <1>5, <2>1, <2>3
<1>7. RC!HasRead("status")' /\ p \in DOMAIN r2.files =>
        RC!Fits(RC!BlockAt(p, b), RC!Part(c, b), RC!Part(r2.files[p], b))
  <2> SUFFICES ASSUME RC!HasRead("status")', p \in DOMAIN r2.files
               PROVE  RC!Fits(RC!BlockAt(p, b), RC!Part(c, b), RC!Part(r2.files[p], b))
    OBVIOUS
  <2>1. r.files \in Seq(RC!Contents)
    BY DEF RC!RawStatus
  <2>2. \/ RC!HasRead("status") /\ p \in DOMAIN r.files /\ r2.files[p] = r.files[p]
        \/ r2.files[p] = v1.files[p]
    <3>1. \/ r2.files = << >>
          \/ RC!HasRead("status") /\ r2.files = r.files
          \/ RC!HasRead("status") /\ r2.files = Append(r.files, v1.files[Len(r.files) + 1])
      BY DEF Learns
    <3>2. CASE r2.files = Append(r.files, v1.files[Len(r.files) + 1]) /\ RC!HasRead("status")
      BY <2>1, <3>2, Appended
    <3>3. CASE r2.files = << >>
      BY <3>3
    <3> QED
      BY <3>1, <3>2, <3>3
  <2>3. ASSUME r2.files[p] = v1.files[p]
        PROVE  RC!Fits(RC!BlockAt(p, b), RC!Part(c, b), RC!Part(r2.files[p], b))
    <3>1. RC!Had(RC!BlockAt(p, b), RC!Part(c, b)) /\ RC!Part(r2.files[p], b) = RC!Value(v1, RC!BlockAt(p, b))
      BY <1>3, <2>3, Values DEF RC!Fits
    <3> QED
      BY <3>1 DEF RC!Fits
  <2> QED
    BY <1>5, <2>2, <2>3
<1>8. ASSUME NEW j \in DOMAIN v7'.files, v7'.files[j][1] = p
      PROVE  /\ RC!Again(RC!Part(v7'.files[j][2], b), RC!Part(c, b), RC!Part(m.files[p], b))
             /\ RC!Again(RC!Part(v7'.files[j][2], b), RC!Part(c, b), RC!Part(r2.files[p], b))
  <2>1. CASE j \in DOMAIN v7.files /\ v7'.files[j] = v7.files[j]
    <3>1. v6 = "files"
      BY <2>1 DEF RC!Shape
    <3> QED
      BY <1>5, <1>6, <1>8, <2>1, <3>1
  <2>2. CASE \E content \in RC!Contents :
               /\ v6 = "files" /\ v7'.files[j] = <<Next_, content>>
               /\ Next_ \in RC!Paths
               /\ \/ content = RC!Absent /\ v1.files[Next_] = RC!Absent
                  \/ /\ RC!HalfRead /\ v1.files[Next_] \in RC!Pairs
                     /\ content = <<v8.block, v1.files[Next_][2]>>
    <3>1. PICK content \in RC!Contents :
               /\ v6 = "files" /\ v7'.files[j] = <<Next_, content>>
               /\ Next_ \in RC!Paths
               /\ \/ content = RC!Absent /\ v1.files[Next_] = RC!Absent
                  \/ /\ RC!HalfRead /\ v1.files[Next_] \in RC!Pairs
                     /\ content = <<v8.block, v1.files[Next_][2]>>
      BY <2>2
    <3>2. v7'.files[j][1] = Next_ /\ v7'.files[j][2] = content
      <4>1. v7'.files[j] = <<Next_, content>>
        BY <3>1
      <4> QED
        BY <4>1
    <3>3. Next_ = p
      BY <1>8, <3>2
    <3>4. \/ RC!Part(content, b) = RC!Value(v1, RC!BlockAt(Next_, b))
          \/ RC!HalfRead /\ b = 1 /\ RC!Part(content, b) = <<v8.block, 1>>
      <4>1. \/ content = RC!Absent /\ v1.files[Next_] = RC!Absent
            \/ /\ RC!HalfRead /\ v1.files[Next_] \in RC!Pairs
               /\ content = <<v8.block, v1.files[Next_][2]>>
        BY <3>1
      <4>2. /\ RC!Part(content, 2) = RC!Value(v1, RC!BlockAt(Next_, 2))
            /\ \/ RC!Part(content, 1) = RC!Value(v1, RC!BlockAt(Next_, 1))
               \/ RC!HalfRead /\ RC!Part(content, 1) = <<v8.block, 1>>
        BY <3>1, <4>1, ReadParts
      <4> QED
        BY <4>2
    <3> DEFINE v == RC!Part(content, b)
               w1 == RC!Part(m.files[p], b)
               w2 == RC!Part(r.files[p], b)
    <3>5. RC!Again(v, RC!Part(c, b), w1) /\ RC!Again(v, RC!Part(c, b), w2)
      <4>1. CASE v = RC!Value(v1, RC!BlockAt(p, b))
        <5>1. /\ RC!Again(RC!Value(v1, RC!BlockAt(p, b)), RC!Part(c, b), w1)
              /\ RC!Again(RC!Value(v1, RC!BlockAt(p, b)), RC!Part(c, b), w2)
          BY <1>4, <1>6, <3>1
        <5> QED
          BY <4>1, <5>1
      <4>2. CASE RC!HalfRead /\ b = 1 /\ v = <<v8.block, 1>>
        <5>1. /\ RC!Again(<<v8.block, 1>>, RC!Part(c, b), w1)
              /\ RC!Again(<<v8.block, 1>>, RC!Part(c, b), w2)
          BY <1>5, <3>3, <4>2
        <5> QED
          BY <4>2, <5>1
      <4> QED
        BY <3>3, <3>4, <4>1, <4>2
    <3> QED
      BY <1>6, <3>1, <3>2, <3>5
  <2>3. CASE v7'.files = v7.files
    BY <2>1, <2>3
  <2>4. CASE v7'.files # v7.files
    <3>1. PICK content \in RC!Contents :
            /\ v6 = "files" /\ v7'.files = Append(v7.files, <<Next_, content>>)
            /\ Next_ \in RC!Paths
            /\ \/ content = RC!Absent /\ v1.files[Next_] = RC!Absent
               \/ /\ RC!HalfRead /\ v1.files[Next_] \in RC!Pairs
                  /\ content = <<v8.block, v1.files[Next_][2]>>
      BY <2>4 DEF Learns
    <3>2. v7.files \in Seq(RC!Paths \X RC!Contents)
      BY DEF RC!Shape, RC!Captures
    <3>3. \/ j \in DOMAIN v7.files /\ v7'.files[j] = v7.files[j]
          \/ v7'.files[j] = <<Next_, content>>
      BY <3>1, <3>2
    <3>4. CASE j \in DOMAIN v7.files /\ v7'.files[j] = v7.files[j]
      BY <2>1, <3>4
    <3>5. CASE v7'.files[j] = <<Next_, content>>
      BY <2>2, <3>1, <3>5
    <3> QED
      BY <3>3, <3>4, <3>5
  <2> QED
    BY <2>3, <2>4
<1>9. ASSUME RC!HalfRead', Next_' = p, b = 1
      PROVE  /\ RC!Again(<<v8'.block, 1>>, RC!Part(c, b), RC!Part(m.files[p], b))
             /\ RC!Again(<<v8'.block, 1>>, RC!Part(c, b), RC!Part(r2.files[p], b))
  <2>1. /\ v6 = "files" /\ Next_' = Next_
        /\ \/ RC!HalfRead /\ v8'.block = v8.block
           \/ v1.files[Next_] \in RC!Pairs /\ v8'.block = v1.files[Next_][1]
    BY <1>9 DEF Learns
  <2>2. \/ RC!HalfRead /\ v8'.block = v8.block
        \/ <<v8'.block, 1>> = RC!Value(v1, RC!BlockAt(p, b))
    BY <1>9, <2>1, HalfReadParts
  <2> QED
    BY <1>4, <1>5, <1>6, <1>9, <2>1, <2>2
<1> QED
  BY <1>7, <1>8, <1>9

\* When the first capture ends, the Worktree is m.
LEMMA RestartsTwice ==
  ASSUME RC!WellFormed, RC!PastInv, RC!Shape, RC!SeenHad, NEW r \in RC!RawStatus, RC!Found(r), Restarts
  PROVE  RC!Twice(r)'
<1>1. /\ v6 = "files" /\ v9' = v7 /\ v7' = RC!Nothing /\ v6' = "context"
      /\ v8' = v8 /\ v7.unread = {}
  BY DEF Restarts
<1>2. UNCHANGED <<v1, v3, v4>> /\ v1 \in v3
  BY DEF Restarts, RC!treeVars, RC!PastInv
<1>3. ASSUME NEW x, NEW v, RC!Had(x, v)
      PROVE  /\ \E t \in v3' : RC!Value(t, x) = v
             /\ v4' \/ v = RC!Value(v1, x) \/ RC!Value(v1', x) # v
  BY <1>2, <1>3 DEF RC!Had
<1>4. /\ v7 \in RC!Captures /\ v7.index \in [RC!Paths -> RC!Entries] /\ v8 = None
      /\ v7.branch # None /\ v7.head # None
  BY <1>1 DEF RC!Shape, RC!HasRead, RC!WellFormed
<1>5. v7.status = RC!Printed(r) /\ Len(r.files) = CaptureMaxPath /\ RC!WasThere(r)
  BY <1>1 DEF RC!Found, RC!StatusIs, RC!HasRead
<1>6. /\ RC!Had(RC!TheBranch, v7.branch) /\ RC!Had(RC!TheHead, v7.head)
      /\ \A p \in RC!Paths : RC!Had(RC!EntryAt(p), v7.index[p])
      /\ \A i \in DOMAIN v7.files : \A b \in {1, 2} :
           RC!Had(RC!BlockAt(v7.files[i][1], b), RC!Part(v7.files[i][2], b))
  BY <1>1, <1>4 DEF RC!SeenHad, RC!HasRead
<1>7. /\ \A p \in RC!Paths : RC!Had(RC!EntryAt(p), r.index[p])
      /\ \A p \in RC!Paths : \A b \in {1, 2} : RC!Had(RC!BlockAt(p, b), RC!Part(r.files[p], b))
  <2>1. DOMAIN r.files = RC!Paths
    BY <1>5, LenProperties DEF RC!RawStatus, RC!Paths
  <2> QED
    BY <1>5, <2>1 DEF RC!WasThere
<1>8. RC!WasThere(r)'
  BY <1>2, <1>5 DEF RC!WasThere, RC!Had
<1> DEFINE Fits2(x, v, w) == /\ \E t \in v3' : RC!Value(t, x) = v
                             /\ v4' \/ v = w \/ RC!Value(v1', x) # v
<1>9. PICK m \in v3' : m = v1
  BY <1>2
<1>10. \A x, v : RC!Had(x, v) => Fits2(x, v, RC!Value(m, x))
  BY <1>3, <1>9
<1>11. /\ Fits2(RC!TheBranch, v7.branch, m.branch) /\ Fits2(RC!TheHead, v7.head, m.head)
       /\ \A p \in RC!Paths : Fits2(RC!EntryAt(p), v7.index[p], m.index[p])
       /\ \A p \in RC!Paths : Fits2(RC!EntryAt(p), r.index[p], m.index[p])
  <2> HIDE DEF Fits2
  <2> QED
    BY <1>6, <1>7, <1>10, Values
<1>12. /\ \A i \in DOMAIN v7.files : \A b \in {1, 2} :
            Fits2(RC!BlockAt(v7.files[i][1], b), RC!Part(v7.files[i][2], b),
                  RC!Part(m.files[v7.files[i][1]], b))
       /\ \A p \in RC!Paths : \A b \in {1, 2} :
            Fits2(RC!BlockAt(p, b), RC!Part(r.files[p], b), RC!Part(m.files[p], b))
  <2> HIDE DEF Fits2
  <2> QED
    BY <1>6, <1>7, <1>10, Values
<1>13. RC!FirstFits(m, r)'
  BY <1>1, <1>4, <1>5, <1>8, <1>11, <1>12 DEF RC!FirstFits, RC!Fits, RC!Had
<1>14. /\ v7'.branch = None /\ v7'.head = None /\ DOMAIN v7'.files = {}
       /\ ~RC!HasRead("index")' /\ ~RC!HasRead("status")' /\ ~RC!HalfRead'
  BY <1>1, <1>4 DEF RC!Nothing, RC!HasRead, RC!HalfRead
<1>15. RC!SecondAgrees(m, r, r)' /\ RC!HashesAgree(m, r)'
  BY <1>14 DEF RC!SecondAgrees, RC!HashesAgree
<1> QED
  BY <1>13, <1>15 DEF RC!Twice

\* The least path that is left is the next: files are recorded in order.
LEMMA ReadsInOrder ==
  ASSUME RC!WellFormed, RC!PastInv, RC!Shape, RC!FilesInOrder, NEW r \in RC!RawStatus, RC!StatusIs(r), CaptureReads
  PROVE  RC!FilesInOrder'
<1>1. v7 \in RC!Captures /\ (v6 # "files" => v7.files = << >>)
  BY DEF RC!Shape
<1>2. CASE Prints
  <2>1. /\ v6 = "git" /\ v6' = "files" /\ v7.commands = {} /\ v7.status = r
    BY <1>2 DEF Prints, RC!StatusIs, RC!HasRead
  <2>2. v7' = [v7 EXCEPT !.status = RC!Printed(r),
                         !.unread = RC!PathsToHash(RC!Printed(r), v7.index)]
    BY <1>2, <2>1 DEF Prints, RC!Printed
  <2>3. v7'.files = << >> /\ RC!Hashed' = v7'.unread
    BY <1>1, <2>1, <2>2 DEF RC!Captures, RC!Hashed
  <2>4. v7'.unread \subseteq RC!Paths
    BY <1>1, <2>2, HashedPaths DEF RC!Captures, RC!Printed
  <2>5. RC!Hashed' \ v7'.unread = {} /\ RC!Cardinality({}) = 0
    BY <2>3, CardinalityIs, FS_EmptySet
  <2>6. Len(v7'.files) = 0 /\ DOMAIN v7'.files = {}
    BY <2>3
  <2>7. RC!Hashed' \subseteq RC!Paths /\ v7'.unread \subseteq RC!Hashed'
    BY <2>3, <2>4
  <2> QED
    BY <2>5, <2>6, <2>7 DEF RC!FilesInOrder
<1>3. CASE Looks \/ ReadsHalf
  <2>1. v6' = v6 /\ v7' = v7 /\ RC!Hashed' = RC!Hashed
    BY <1>3 DEF Looks, ReadsHalf, RC!Hashed
  <2> QED
    BY <2>1 DEF RC!FilesInOrder
<1>4. CASE Hashes
  <2> DEFINE done == RC!Hashed \ v7.unread
             n == Len(v7.files)
  <2>1. PICK content \in RC!Contents : RC!Record(content)
    BY <1>4 DEF Hashes
  <2>2. /\ Next_ \in v7.unread /\ Next_ \in RC!Paths
        /\ \A q \in v7.unread : Next_ <= q
    BY <1>4, NextIsUnread DEF Hashes
  <2>3. v7' = [v7 EXCEPT !.unread = @ \ {Next_},
                         !.files = Append(@, <<Next_, content>>)]
    BY <2>1 DEF RC!Record, Next_
  <2>4. /\ v7'.unread = v7.unread \ {Next_}
        /\ v7'.files = Append(v7.files, <<Next_, content>>)
        /\ RC!Hashed' = RC!Hashed
    BY <1>1, <2>3 DEF RC!Captures, RC!Hashed
  <2>5. /\ RC!Hashed \subseteq RC!Paths /\ v7.unread \subseteq RC!Hashed
        /\ \A p \in done : \A q \in v7.unread : p < q
        /\ RC!Cardinality(done) = n
        /\ \A i \in DOMAIN v7.files :
             /\ v7.files[i][1] \in done
             /\ RC!Cardinality({q \in RC!Hashed : q <= v7.files[i][1]}) = i
        /\ \A p \in done : \E i \in DOMAIN v7.files : v7.files[i][1] = p
    BY <1>4 DEF Hashes, RC!FilesInOrder
  <2>6. RC!Paths \subseteq Nat /\ IsFiniteSet(RC!Paths)
    BY FS_Interval DEF RC!WellFormed, RC!Paths
  <2>7. IsFiniteSet(done)
    <3>1. done \subseteq RC!Paths
      BY <2>5
    <3> QED
      BY <2>6, <3>1, FS_Subset
  <2>8. RC!Hashed \ v7'.unread = done \union {Next_} /\ Next_ \notin done
    BY <2>2, <2>4, <2>5
  <2>9. v7.files \in Seq(RC!Paths \X RC!Contents) /\ n \in Nat
    BY <1>1 DEF RC!Captures
  <2>10. RC!Cardinality(done \union {Next_}) = n + 1
    <3>1. RC!Cardinality(done) = n /\ Next_ \notin done
      BY <2>5, <2>8
    <3> HIDE DEF done, n
    <3> QED
      BY <2>7, <3>1, CardinalityIs, FS_AddElement
  <2>11. {q \in RC!Hashed : q <= Next_} = done \union {Next_}
    <3>1. ASSUME NEW q \in RC!Hashed
          PROVE  q <= Next_ <=> q \in done \union {Next_}
      <4>1. q \in Nat /\ Next_ \in Nat
        BY <2>2, <2>5, <2>6
      <4> QED
        BY <2>2, <2>5, <4>1
    <3> QED
      BY <2>2, <2>5, <3>1
  <2>12. /\ \A i \in DOMAIN v7.files : i \in DOMAIN v7'.files /\ v7'.files[i] = v7.files[i]
         /\ n + 1 \in DOMAIN v7'.files /\ v7'.files[n + 1] = <<Next_, content>>
         /\ \A i \in DOMAIN v7'.files : i \in DOMAIN v7.files \/ i = n + 1
         /\ Len(v7'.files) = n + 1
    BY <2>2, <2>4, <2>9
  <2>13. RC!Hashed' \ v7'.unread = done \union {Next_}
    BY <2>4, <2>8
  <2>14. \A p \in done \union {Next_} : \A q \in v7'.unread : p < q
    <3> SUFFICES ASSUME NEW p \in done \union {Next_}, NEW q \in v7'.unread
                 PROVE  p < q
      OBVIOUS
    <3>1. q \in v7.unread /\ q # Next_ /\ q \in Nat /\ Next_ \in Nat
      BY <2>2, <2>4, <2>5, <2>6
    <3> QED
      BY <2>2, <2>5, <3>1
  <2>15. \A i \in DOMAIN v7'.files :
           /\ v7'.files[i][1] \in done \union {Next_}
           /\ RC!Cardinality({q \in RC!Hashed : q <= v7'.files[i][1]}) = i
    <3> HIDE DEF done
    <3> SUFFICES ASSUME NEW i \in DOMAIN v7'.files
                 PROVE  /\ v7'.files[i][1] \in done \union {Next_}
                        /\ RC!Cardinality({q \in RC!Hashed : q <= v7'.files[i][1]}) = i
      OBVIOUS
    <3>1. CASE i \in DOMAIN v7.files
      BY <2>5, <2>12, <3>1
    <3>2. CASE i = n + 1
      <4>1. v7'.files[i][1] = Next_
        BY <2>12, <3>2
      <4> QED
        BY <2>10, <2>11, <3>2, <4>1
    <3> QED
      BY <2>12, <3>1, <3>2
  <2>16. \A p \in done \union {Next_} : \E i \in DOMAIN v7'.files : v7'.files[i][1] = p
    <3> HIDE DEF done
    <3>1. v7'.files[n + 1][1] = Next_
      BY <2>12
    <3> QED
      BY <2>5, <2>12, <3>1
  <2>17. RC!Hashed' \subseteq RC!Paths /\ v7'.unread \subseteq RC!Hashed'
    BY <2>4, <2>5
  <2> HIDE DEF done
  <2> QED
    BY <2>4, <2>10, <2>12, <2>13, <2>14, <2>15, <2>16, <2>17 DEF RC!FilesInOrder
<1>5. CASE v6' # "files"
  BY <1>5 DEF RC!FilesInOrder
<1>6. ASSUME \/ RC!ReadBranch \/ RC!ReadHead \/ Lists \/ RC!ReadStatus \/ RC!ReadStatusOfFile
             \/ RC!ReadIndex \/ RC!ReadHidden \/ Restarts
      PROVE  v6' # "files"
  BY <1>6 DEF RC!ReadBranch, RC!ReadHead, Lists, RC!ReadStatus, RC!ReadStatusOfFile, RC!ReadIndex, RC!ReadHidden,
         Restarts
<1> QED
  BY <1>2, <1>3, <1>4, <1>5, <1>6 DEF CaptureReads

-----------------------------------------------------------------------------
(* The invariant holds while the answer is open.                           *)

LEMMA CInvInit ==
  ASSUME RC!WellFormed, RC!Init
  PROVE  RC!CInv
<1> USE DEF RC!Init
<1>1. /\ v7.branch = None /\ v7.head = None /\ v7.files = << >> /\ v7.unread = {}
      /\ v7.commands = {} /\ v6 = "context" /\ v8 = None /\ v9 = None
  BY DEF RC!Nothing
<1>2. RC!PastInv
  BY DEF RC!PastInv, RC!WellFormed
<1>3. RC!Shape
  <2>1. RC!Nothing \in RC!Captures
    BY DEF RC!Nothing, RC!Captures, RC!Statuses
  <2> QED
    BY <1>1, <2>1 DEF RC!Shape, RC!HasRead
<1>4. RC!SeenHad /\ RC!FilesInOrder
  BY <1>1 DEF RC!SeenHad, RC!FilesInOrder, RC!HasRead, RC!HalfRead
<1>5. PICK r \in RC!RawStatus : TRUE
  <2>1. [head |-> RC!HeadTree(v1), index |-> v1.index, hidden |-> v1.hidden,
         files |-> << >>] \in RC!RawStatus
    BY <1>2, WorktreeTypes DEF RC!RawStatus
  <2> QED
    BY <2>1
<1>6. RC!Found(r) /\ RC!Twice(r)
  BY <1>1 DEF RC!Found, RC!StatusIs, RC!HasRead, RC!Twice
<1> QED
  BY <1>2, <1>3, <1>4, <1>5, <1>6 DEF RC!CInv

LEMMA EditsKeepCInv ==
  ASSUME RC!WellFormed, RC!CInv, v10 = None, RC!Edits
  PROVE  RC!CInv'
<1>1. RC!PastInv /\ RC!Shape /\ RC!SeenHad /\ RC!FilesInOrder
  BY DEF RC!CInv
<1>2. PICK r \in RC!RawStatus : RC!Found(r) /\ RC!Twice(r)
  BY DEF RC!CInv
<1>3. /\ UNCHANGED <<v6, v7, v8, v9, v10>>
      /\ v3 \subseteq v3' /\ (v4 => v4')
  BY <1>1, EditMoves, EditKeeps DEF RC!captureVars
<1>4. \A x, v : (\E t \in v3 : RC!Value(t, x) = v) => \E t \in v3' : RC!Value(t, x) = v
  BY <1>3
<1>5. \A x \in RC!Places : \A v, w :
        (\E t \in v3 : RC!Value(t, x) = v) /\ (v4 \/ v = w \/ RC!Value(v1, x) # v) =>
          (\E t \in v3' : RC!Value(t, x) = v) /\ (v4' \/ v = w \/ RC!Value(v1', x) # v)
  BY <1>1, EditKeeps DEF RC!Fits, RC!Had
<1>6. /\ RC!PastInv' /\ RC!Shape' /\ RC!FilesInOrder'
  BY <1>1, <1>3, EditKeepsPast DEF RC!Shape, RC!HasRead, RC!FilesInOrder, RC!Hashed
<1>7. RC!SeenHad'
  BY <1>1, <1>3, <1>4 DEF RC!SeenHad, RC!Had, RC!HasRead, RC!HalfRead
<1>8. ASSUME NEW s, RC!WasThere(s)
      PROVE  RC!WasThere(s)'
  BY <1>3, <1>4, <1>8 DEF RC!WasThere, RC!Had
<1>9. RC!Found(r)'
  BY <1>2, <1>3, <1>8 DEF RC!Found, RC!StatusIs, RC!HasRead
<1>10. RC!Twice(r)'
  <2> SUFFICES ASSUME v9 # None
               PROVE  \E m \in v3', r1 \in RC!RawStatus :
                        /\ RC!FirstFits(m, r1)'
                        /\ RC!SecondAgrees(m, r1, r)' /\ RC!HashesAgree(m, r)'
    BY <1>3 DEF RC!Twice
  <2>1. PICK m \in v3, r1 \in RC!RawStatus :
          RC!FirstFits(m, r1) /\ RC!SecondAgrees(m, r1, r) /\ RC!HashesAgree(m, r)
    BY <1>2 DEF RC!Twice
  <2> DEFINE Kept(x, v, w) ==
               (\E t \in v3 : RC!Value(t, x) = v) /\ (v4 \/ v = w \/ RC!Value(v1, x) # v)
             Keeps(x, v, w) ==
               /\ \E t \in v3' : RC!Value(t, x) = v
               /\ v4' \/ v = w \/ RC!Value(v1', x) # v
  <2>a. \A x \in RC!Places : \A v, w : Kept(x, v, w) => Keeps(x, v, w)
    BY <1>5
  <2>b. /\ RC!TheBranch \in RC!Places /\ RC!TheHead \in RC!Places
        /\ \A p \in RC!Paths : RC!EntryAt(p) \in RC!Places
        /\ \A p \in RC!Paths : \A b \in {1, 2} : RC!BlockAt(p, b) \in RC!Places
    BY DEF RC!Places
  <2>c. \A i \in DOMAIN v9.files : v9.files[i][1] \in RC!Paths
    <3>1. v9.files \in Seq(RC!Paths \X RC!Contents)
      BY <2>1 DEF RC!FirstFits, RC!Captures
    <3> QED
      BY <3>1, ElementOfSeq
  <2>2. RC!FirstFits(m, r1)'
    <3>1. /\ v9 \in RC!Captures /\ v9.index \in [RC!Paths -> RC!Entries]
          /\ v9.status = RC!Printed(r1) /\ Len(r1.files) = CaptureMaxPath /\ RC!WasThere(r1)
          /\ Kept(RC!TheBranch, v9.branch, m.branch)
          /\ Kept(RC!TheHead, v9.head, m.head)
          /\ \A p \in RC!Paths : Kept(RC!EntryAt(p), v9.index[p], m.index[p])
          /\ \A i \in DOMAIN v9.files : \A b \in {1, 2} :
               Kept(RC!BlockAt(v9.files[i][1], b), RC!Part(v9.files[i][2], b),
                    RC!Part(m.files[v9.files[i][1]], b))
          /\ \A p \in RC!Paths : Kept(RC!EntryAt(p), r1.index[p], m.index[p])
          /\ \A p \in RC!Paths : \A b \in {1, 2} :
               Kept(RC!BlockAt(p, b), RC!Part(r1.files[p], b), RC!Part(m.files[p], b))
      BY <2>1 DEF RC!FirstFits, RC!Fits, RC!Had
    <3> HIDE DEF Kept, Keeps
    <3>2. /\ Keeps(RC!TheBranch, v9.branch, m.branch)
          /\ Keeps(RC!TheHead, v9.head, m.head)
          /\ \A p \in RC!Paths : Keeps(RC!EntryAt(p), v9.index[p], m.index[p])
          /\ \A p \in RC!Paths : Keeps(RC!EntryAt(p), r1.index[p], m.index[p])
      BY <2>a, <2>b, <3>1
    <3>3. /\ \A i \in DOMAIN v9.files : \A b \in {1, 2} :
               Keeps(RC!BlockAt(v9.files[i][1], b), RC!Part(v9.files[i][2], b),
                     RC!Part(m.files[v9.files[i][1]], b))
          /\ \A p \in RC!Paths : \A b \in {1, 2} :
               Keeps(RC!BlockAt(p, b), RC!Part(r1.files[p], b), RC!Part(m.files[p], b))
      BY <2>a, <2>b, <2>c, <3>1
    <3>4. RC!WasThere(r1)'
      BY <1>8, <3>1
    <3> QED
      BY <1>3, <3>1, <3>2, <3>3, <3>4 DEF RC!FirstFits, RC!Fits, RC!Had, Keeps
  <2>3. RC!SecondAgrees(m, r1, r)'
    BY <1>3, <2>1 DEF RC!SecondAgrees, RC!HasRead, RC!Again
  <2>4. RC!HashesAgree(m, r)'
    <3> SUFFICES ASSUME NEW i \in DOMAIN v9.files, NEW p, NEW c,
                        p = v9.files[i][1], c = v9.files[i][2]
                 PROVE  /\ RC!HasRead("status") /\ p \in DOMAIN r.files =>
                             \A b \in {1, 2} : Keeps(RC!BlockAt(p, b), RC!Part(c, b), RC!Part(r.files[p], b))
                        /\ \A j \in DOMAIN v7.files : v7.files[j][1] = p =>
                             \A b \in {1, 2} :
                               /\ RC!Part(v7.files[j][2], b) = RC!Part(c, b) =>
                                    v4' \/ RC!Part(v7.files[j][2], b) = RC!Part(m.files[p], b)
                               /\ RC!Part(v7.files[j][2], b) = RC!Part(c, b) =>
                                    v4' \/ RC!Part(v7.files[j][2], b) = RC!Part(r.files[p], b)
                        /\ RC!HalfRead /\ Next_ = p =>
                             /\ <<v8.block, 1>> = RC!Part(c, 1) =>
                                  v4' \/ <<v8.block, 1>> = RC!Part(m.files[p], 1)
                             /\ <<v8.block, 1>> = RC!Part(c, 1) =>
                                  v4' \/ <<v8.block, 1>> = RC!Part(r.files[p], 1)
      BY <1>3 DEF RC!HashesAgree, RC!Fits, RC!Had, RC!Again, RC!HasRead, RC!HalfRead, Next_
    <3>1. RC!HasRead("status") /\ p \in DOMAIN r.files =>
            \A b \in {1, 2} : Kept(RC!BlockAt(p, b), RC!Part(c, b), RC!Part(r.files[p], b))
      BY <2>1 DEF RC!HashesAgree, RC!Fits, RC!Had
    <3>2. /\ \A j \in DOMAIN v7.files : v7.files[j][1] = p =>
               \A b \in {1, 2} :
                 /\ RC!Again(RC!Part(v7.files[j][2], b), RC!Part(c, b), RC!Part(m.files[p], b))
                 /\ RC!Again(RC!Part(v7.files[j][2], b), RC!Part(c, b), RC!Part(r.files[p], b))
          /\ RC!HalfRead /\ Next_ = p =>
               /\ RC!Again(<<v8.block, 1>>, RC!Part(c, 1), RC!Part(m.files[p], 1))
               /\ RC!Again(<<v8.block, 1>>, RC!Part(c, 1), RC!Part(r.files[p], 1))
      BY <2>1 DEF RC!HashesAgree, Next_
    <3> HIDE DEF Kept, Keeps
    <3> QED
      BY <1>3, <2>a, <2>b, <2>c, <3>1, <3>2 DEF RC!Again
  <2> QED
    BY <1>3, <2>2, <2>3, <2>4
<1> QED
  BY <1>6, <1>7, <1>9, <1>10, <1>2 DEF RC!CInv

LEMMA ReadsKeepCInv ==
  ASSUME RC!WellFormed, RC!CInv, v10 = None, CaptureReads
  PROVE  RC!CInv'
<1>1. RC!PastInv /\ RC!Shape /\ RC!SeenHad /\ RC!FilesInOrder
  BY DEF RC!CInv
<1>2. PICK r \in RC!RawStatus : RC!Found(r) /\ RC!Twice(r)
  BY DEF RC!CInv
<1>3. UNCHANGED <<v1, v2, v3, v4>>
  BY ReadsKeepTree DEF RC!treeVars
<1>4. RC!PastInv'
  BY <1>1, <1>3 DEF RC!PastInv
<1>5. RC!Shape' /\ RC!SeenHad' /\ RC!FilesInOrder'
  BY <1>1, <1>2, ReadsShape, ReadsSeenHad, ReadsInOrder DEF RC!Found
<1>6. CASE Restarts
  <2>1. v6' = "context"
    BY <1>6 DEF Restarts
  <2>2. RC!Found(r)'
    BY <2>1 DEF RC!Found, RC!StatusIs, RC!HasRead
  <2>3. RC!Twice(r)'
    BY <1>1, <1>2, <1>6, RestartsTwice
  <2> QED
    BY <1>2, <1>4, <1>5, <2>2, <2>3 DEF RC!CInv
<1>7. CASE ~Restarts
  <2>1. PICK r2 \in RC!RawStatus : Learns(r, r2) /\ RC!StatusIs(r2)'
    BY <1>1, <1>2, <1>7, ReadsLearn DEF RC!Found
  <2>2. RC!Found(r2)'
    <3>1. RC!HasRead("status") => RC!WasThere(r)
      BY <1>2 DEF RC!Found
    <3>2. RC!HasRead("status")' => RC!WasThere(r2)'
      BY <1>1, <2>1, <3>1, ReadsWasThere
    <3> QED
      BY <2>1, <3>2 DEF RC!Found
  <2>3. RC!Twice(r2)'
    <3> SUFFICES ASSUME v9' # None
                 PROVE  \E m \in v3', r1 \in RC!RawStatus :
                          /\ RC!FirstFits(m, r1)'
                          /\ RC!SecondAgrees(m, r1, r2)' /\ RC!HashesAgree(m, r2)'
      BY DEF RC!Twice
    <3>1. v9' = v9
      BY <2>1 DEF Learns
    <3>2. PICK m \in v3, r1 \in RC!RawStatus :
            RC!FirstFits(m, r1) /\ RC!SecondAgrees(m, r1, r) /\ RC!HashesAgree(m, r)
      BY <1>2, <3>1 DEF RC!Twice
    <3>3. RC!FirstFits(m, r1)'
      BY <1>7, <3>1, <3>2, ReadsKeepFirst
    <3>4. RC!SecondAgrees(m, r1, r2)'
      BY <1>1, <2>1, <3>2, ReadsSecondAgrees
    <3>5. RC!HashesAgree(m, r2)'
      BY <1>1, <1>2, <2>1, <3>2, ReadsHashesAgree DEF RC!Found
    <3> QED
      BY <1>3, <3>3, <3>4, <3>5
  <2> QED
    BY <1>4, <1>5, <2>2, <2>3 DEF RC!CInv
<1> QED
  BY <1>6, <1>7

-----------------------------------------------------------------------------
(* What is answered.                                                       *)

\* The code states of two captures are equal if what they read is.
LEMMA SameCodeState ==
  ASSUME NEW a, NEW b
  PROVE  RC!CodeState(a) = RC!CodeState(b) <=>
           /\ a.branch = b.branch /\ a.head = b.head /\ a.status = b.status
           /\ a.index = b.index /\ a.hidden = b.hidden /\ a.files = b.files
<1>1. ASSUME RC!CodeState(a) = RC!CodeState(b)
      PROVE  /\ a.branch = b.branch /\ a.head = b.head /\ a.status = b.status
             /\ a.index = b.index /\ a.hidden = b.hidden /\ a.files = b.files
  <2>1. \A x : RC!CodeState(x).fingerprint =
                 <<x.branch, x.head, x.status, x.index, x.hidden, x.files,
                   RC!Changes(v1.trees, x.head, x.status)>>
    BY DEF RC!CodeState
  <2> QED
    BY <1>1, <2>1
<1>2. ASSUME a.branch = b.branch, a.head = b.head, a.status = b.status,
             a.index = b.index, a.hidden = b.hidden, a.files = b.files
      PROVE  RC!CodeState(a) = RC!CodeState(b)
  BY <1>2 DEF RC!CodeState
<1> QED
  BY <1>1, <1>2

\* The records of git status say what is in the index, if the head is known.
LEMMA SameIndex ==
  ASSUME NEW h, NEW hid, NEW i1, NEW f1, NEW i2, NEW f2,
         RC!StatusOf(h, i1, hid, f1) = RC!StatusOf(h, i2, hid, f2), NEW p \in RC!Paths
  PROVE  i1[p] = i2[p]
<1> DEFINE s == RC!StatusOf(h, i1, hid, f1)
<1>1. i1[p] = RC!Unmerged <=> \E x \in s : x.kind = "conflicted" /\ x.path = p
  BY StatusSays
<1>2. i2[p] = RC!Unmerged <=> \E x \in s : x.kind = "conflicted" /\ x.path = p
  BY StatusSays
<1>3. \A v : i1[p] # RC!Unmerged /\ i1[p] # h[p] /\ v = i1[p] <=>
               \E x \in s : x.kind = "staged" /\ x.path = p /\ x.index = v
  BY StatusSays
<1>4. \A v : i2[p] # RC!Unmerged /\ i2[p] # h[p] /\ v = i2[p] <=>
               \E x \in s : x.kind = "staged" /\ x.path = p /\ x.index = v
  BY StatusSays
<1> HIDE DEF s
<1> QED
  BY <1>1, <1>2, <1>3, <1>4

\* What was read twice was there when the first capture ended.
LEMMA PartsWereThere ==
  ASSUME RC!WellFormed, RC!PastInv, RC!Shape, v6 = "files", v7.unread = {}, ~v4,
         NEW r \in RC!RawStatus, RC!StatusIs(r), NEW m \in v3, NEW r1 \in RC!RawStatus,
         RC!FirstFits(m, r1), RC!SecondAgrees(m, r1, r), RC!HashesAgree(m, r),
         RC!CodeState(v9) = RC!CodeState(v7)
  PROVE  /\ m.branch = "task" /\ m.branch = v7.branch /\ m.head = v7.head
         /\ m.index = v7.index
         /\ \A i \in DOMAIN v7.files :
              /\ m.files[v7.files[i][1]] = v7.files[i][2]
              /\ r.files[v7.files[i][1]] = v7.files[i][2]
<1>1. /\ v9.branch = v7.branch /\ v9.head = v7.head
      /\ v9.index = v7.index /\ v9.files = v7.files
  BY SameCodeState
<1>2. /\ v7.branch = "task" /\ v7.head \in Nat
      /\ v7.index \in [RC!Paths -> RC!Entries] /\ v7.files \in Seq(RC!Paths \X RC!Contents)
  BY DEF RC!Shape, RC!HasRead, RC!Captures
<1>3. v7.branch # None /\ v7.head # None /\ RC!HasRead("index") /\ RC!HasRead("status")
  BY <1>2 DEF RC!WellFormed, RC!HasRead
<1>4. m.branch = v7.branch /\ m.head = v7.head
  BY <1>1, <1>3 DEF RC!SecondAgrees, RC!Again
<1>5. \A p \in RC!Paths : v7.index[p] = m.index[p]
  BY <1>1, <1>3 DEF RC!SecondAgrees, RC!Again
<1>6. m.index \in [RC!Paths -> RC!Entries] /\ m.files \in [RC!Paths -> RC!Contents]
  BY WorktreeTypes
<1>7. m.index = v7.index
  BY <1>2, <1>5, <1>6
<1>8. ASSUME NEW i \in DOMAIN v7.files
      PROVE  /\ m.files[v7.files[i][1]] = v7.files[i][2]
             /\ r.files[v7.files[i][1]] = v7.files[i][2]
  <2> DEFINE p == v7.files[i][1]
             c == v7.files[i][2]
  <2>1. p \in RC!Paths /\ c \in RC!Contents
    BY <1>2, <1>8, ElementOfSeq
  <2>2. /\ RC!Part(c, 1) = RC!Part(m.files[p], 1) /\ RC!Part(c, 2) = RC!Part(m.files[p], 2)
        /\ RC!Part(c, 1) = RC!Part(r.files[p], 1) /\ RC!Part(c, 2) = RC!Part(r.files[p], 2)
    BY <1>1, <1>8 DEF RC!HashesAgree, RC!Again
  <2>3. Len(r.files) = CaptureMaxPath /\ r.files \in Seq(RC!Contents)
    BY DEF RC!StatusIs, RC!RawStatus
  <2>4. p \in DOMAIN r.files
    BY <2>1, <2>3, LenProperties DEF RC!Paths
  <2>5. m.files[p] \in RC!Contents /\ r.files[p] \in RC!Contents
    BY <1>6, <2>1, <2>3, <2>4, ElementOfSeq
  <2> HIDE DEF p, c
  <2>6. m.files[p] = c /\ r.files[p] = c
    BY <2>1, <2>2, <2>5, Contented
  <2> QED
    BY <2>6 DEF p, c
<1> QED
  BY <1>2, <1>4, <1>7, <1>8

\* What git status found is then the index and the files of that moment, if the head and
\* the hidden entries stayed.
LEMMA StatusWasThere ==
  ASSUME RC!WellFormed, RC!PastInv, RC!Shape, RC!SeenHad, RC!FilesInOrder,
         v6 = "files", v7.unread = {}, ~v4, RC!HeadStayed, RC!HiddenStayed,
         NEW r \in RC!RawStatus, RC!Found(r), NEW m \in v3, NEW r1 \in RC!RawStatus,
         RC!FirstFits(m, r1), RC!SecondAgrees(m, r1, r), RC!HashesAgree(m, r),
         RC!CodeState(v9) = RC!CodeState(v7)
  PROVE  m.hidden = {} /\ v7.status = RC!StatusOf(RC!HeadTree(m), m.index, {}, m.files)
<1>1. RC!HasRead("hidden") /\ RC!HasRead("status") /\ v7.hidden = {}
  BY DEF RC!HasRead, RC!Shape
<1>2. \A t \in v3 : t.hidden = {}
  <2>1. PICK t \in v3 : t.hidden = {}
    BY <1>1 DEF RC!SeenHad
  <2> QED
    BY <2>1 DEF RC!HiddenStayed
<1>3. \A t \in v3 : RC!HeadTree(t) = RC!HeadTree(m)
  <2>1. \A t \in v3 : t.head \in DOMAIN t.trees /\ t.head = v1.head
    BY DEF RC!PastInv, RC!Worktrees, RC!HeadStayed
  <2>2. \A t \in v3 : RC!HeadTree(t) = v1.trees[v1.head]
    BY <2>1 DEF RC!PastInv, RC!HeadTree
  <2> QED
    BY <2>2
<1>4. RC!WasThere(r) /\ RC!WasThere(r1)
  BY <1>1 DEF RC!Found, RC!FirstFits
<1>5. r.head = RC!HeadTree(m) /\ r1.head = RC!HeadTree(m) /\ r.hidden = {} /\ r1.hidden = {}
  BY <1>2, <1>3, <1>4 DEF RC!WasThere
<1>6. /\ v7.status = RC!StatusOf(RC!HeadTree(m), r.index, {}, r.files)
      /\ v7.status = RC!StatusOf(RC!HeadTree(m), r1.index, {}, r1.files)
  <2>1. v7.status = RC!Printed(r) /\ v9.status = RC!Printed(r1)
    BY DEF RC!Found, RC!StatusIs, RC!FirstFits
  <2>2. v9.status = v7.status
    BY SameCodeState
  <2> QED
    BY <1>5, <2>1, <2>2 DEF RC!Printed
<1>7. \A p \in RC!Paths : r.index[p] = r1.index[p]
  BY <1>6, SameIndex
<1>8. \A p \in RC!Paths : r.index[p] = m.index[p]
  BY <1>1, <1>7 DEF RC!SecondAgrees, RC!Again
<1>9. /\ m.index \in [RC!Paths -> RC!Entries] /\ m.files \in [RC!Paths -> RC!Contents]
      /\ r.index \in [RC!Paths -> RC!Entries]
  BY WorktreeTypes DEF RC!RawStatus
<1>10. r.index = m.index
  BY <1>8, <1>9
<1>11. /\ Len(r.files) = CaptureMaxPath /\ r.files \in Seq(RC!Contents)
       /\ r1.files \in Seq(RC!Contents)
  BY DEF RC!Found, RC!StatusIs, RC!RawStatus
<1>12. DOMAIN r.files = RC!Paths
  BY <1>11, LenProperties DEF RC!Paths
<1>13. /\ m.index = v7.index
       /\ \A i \in DOMAIN v7.files :
            /\ m.files[v7.files[i][1]] = v7.files[i][2]
            /\ r.files[v7.files[i][1]] = v7.files[i][2]
  BY PartsWereThere DEF RC!Found
<1>14. ASSUME NEW p \in RC!Paths
       PROVE  r.files[p] = m.files[p]
  <2>1. CASE p \in RC!Hashed
    <3>1. \E i \in DOMAIN v7.files : v7.files[i][1] = p
      BY <2>1 DEF RC!FilesInOrder
    <3> QED
      BY <1>13, <3>1
  <2>2. CASE p \notin RC!Hashed
    <3>1. /\ ~RC!IsFile(m.index[p]) /\ m.index[p] # RC!Unmerged
          /\ ~(m.index[p] = RC!Absent /\ r.files[p] # RC!Absent)
      BY <1>6, <1>10, <1>13, <2>2, HashedPaths DEF RC!Hashed
    <3>2. m.index[p] = RC!Absent
      BY <1>9, <3>1, Contented DEF RC!Entries
    <3>3. r.files[p] = RC!Absent
      BY <3>1, <3>2
    <3>4. r1.index[p] = RC!Absent
      BY <1>7, <1>10, <3>2
    <3>5. r1.files[p] = RC!Absent
      <4>1. ~\E x \in v7.status : x.kind = "untracked" /\ x.path = p
        BY <1>6, <3>3, StatusSays
      <4> QED
        BY <1>6, <3>4, <4>1, StatusSays
    <3>6. \A b \in {1, 2} : RC!Part(RC!Absent, b) = RC!Part(m.files[p], b)
      BY <1>1, <1>12, <3>3, <3>5 DEF RC!SecondAgrees, RC!Again
    <3> QED
      BY <1>9, <3>3, <3>6, Contented DEF RC!Contents
  <2> QED
    BY <2>1, <2>2
<1>15. r.files = m.files
  <2>1. r.files \in [RC!Paths -> RC!Contents]
    BY <1>11, <1>12, ElementOfSeq
  <2> QED
    BY <1>9, <1>14, <2>1
<1> QED
  BY <1>2, <1>6, <1>10, <1>15

\* The files that were hashed, in order, are those of a capture in one moment.
LEMMA FilesOfCapture ==
  ASSUME RC!WellFormed, RC!Shape, RC!FilesInOrder, v6 = "files", v7.unread = {}, NEW m,
         m.index = v7.index,
         v7.status = RC!StatusOf(RC!HeadTree(m), m.index, m.hidden, m.files),
         \A i \in DOMAIN v7.files : m.files[v7.files[i][1]] = v7.files[i][2]
  PROVE  RC!CaptureOf(m).files = v7.files
<1> DEFINE nth(i) == CHOOSE p \in RC!Hashed : RC!Cardinality({q \in RC!Hashed : q <= p}) = i
<1>1. RC!CaptureOf(m).files = [i \in 1..RC!Cardinality(RC!Hashed) |-> <<nth(i), m.files[nth(i)]>>]
  BY DEF RC!CaptureOf, RC!Hashed
<1>2. v7.files \in Seq(RC!Paths \X RC!Contents)
  BY DEF RC!Shape, RC!Captures
<1>3. /\ RC!Cardinality(RC!Hashed) = Len(v7.files)
      /\ \A i \in DOMAIN v7.files :
           /\ v7.files[i][1] \in RC!Hashed
           /\ RC!Cardinality({q \in RC!Hashed : q <= v7.files[i][1]}) = i
      /\ \A p \in RC!Hashed : \E i \in DOMAIN v7.files : v7.files[i][1] = p
  <2>1. RC!Hashed \ v7.unread = RC!Hashed
    OBVIOUS
  <2> QED
    BY <2>1 DEF RC!FilesInOrder
<1>4. DOMAIN v7.files = 1..RC!Cardinality(RC!Hashed)
  BY <1>2, <1>3, LenProperties
<1>5. ASSUME NEW i \in DOMAIN v7.files
      PROVE  nth(i) = v7.files[i][1]
  <2>1. /\ nth(i) \in RC!Hashed
        /\ RC!Cardinality({q \in RC!Hashed : q <= nth(i)}) = i
    <3>1. \E p \in RC!Hashed : RC!Cardinality({q \in RC!Hashed : q <= p}) = i
      BY <1>3, <1>5
    <3> QED
      BY <3>1
  <2> HIDE DEF nth
  <2>2. PICK j \in DOMAIN v7.files : v7.files[j][1] = nth(i)
    BY <1>3, <2>1
  <2>3. j = i
    BY <1>3, <2>1, <2>2
  <2> QED
    BY <2>2, <2>3
<1>6. \A i \in DOMAIN v7.files : v7.files[i] = <<nth(i), m.files[nth(i)]>>
  <2>1. \A i \in DOMAIN v7.files : v7.files[i] = <<v7.files[i][1], v7.files[i][2]>>
    BY <1>2, ElementOfSeq
  <2> HIDE DEF nth
  <2> QED
    BY <1>5, <2>1
<1> HIDE DEF nth
<1>7. v7.files = [i \in 1..RC!Cardinality(RC!Hashed) |-> <<nth(i), m.files[nth(i)]>>]
  <2>1. v7.files = [i \in DOMAIN v7.files |-> v7.files[i]]
    BY <1>2
  <2> QED
    BY <1>4, <1>6, <2>1
<1> QED
  BY <1>1, <1>7

\* An answer is given when the second capture says what the first said.
LEMMA AcceptIsTrue ==
  ASSUME RC!WellFormed, RC!CInv, v10 = None, RC!EndCapture, v10' \notin {None, RC!Failed}
  PROVE  RC!CaptureWasTrue'
<1>1. /\ RC!PastInv /\ RC!Shape /\ RC!SeenHad /\ RC!FilesInOrder
  BY DEF RC!CInv
<1>2. PICK r \in RC!RawStatus : RC!Found(r) /\ RC!Twice(r)
  BY DEF RC!CInv
<1>3. /\ v6 = "files" /\ v7.unread = {} /\ v9 # None
      /\ RC!CodeState(v9) = RC!CodeState(v7) /\ v10' = RC!CodeState(v7)
      /\ UNCHANGED <<v1, v3, v4, v7>>
  BY DEF RC!EndCapture, RC!Fails, RC!SameCapture, RC!treeVars
<1>4. PICK m \in v3, r1 \in RC!RawStatus :
        RC!FirstFits(m, r1) /\ RC!SecondAgrees(m, r1, r) /\ RC!HashesAgree(m, r)
  BY <1>2, <1>3 DEF RC!Twice
<1> SUFFICES ASSUME ~v4
             PROVE  /\ RC!ReadPartsWereTrue'
                    /\ RC!HeadStayed' /\ RC!HiddenStayed' =>
                         \E t \in v3' : t.hidden = {} /\ v10' = RC!CodeState(RC!CaptureOf(t))'
  BY <1>3 DEF RC!CaptureWasTrue
<1>5. /\ m.branch = "task" /\ m.branch = v7.branch /\ m.head = v7.head
      /\ m.index = v7.index
      /\ \A i \in DOMAIN v7.files : m.files[v7.files[i][1]] = v7.files[i][2]
  BY <1>1, <1>2, <1>3, <1>4, PartsWereThere DEF RC!Found
<1>6. RC!ReadPartsWereTrue'
  BY <1>3, <1>5 DEF RC!ReadPartsWereTrue
<1>7. ASSUME RC!HeadStayed', RC!HiddenStayed'
      PROVE  \E t \in v3' : t.hidden = {} /\ v10' = RC!CodeState(RC!CaptureOf(t))'
  <2>1. RC!HeadStayed /\ RC!HiddenStayed
    BY <1>3, <1>7 DEF RC!HeadStayed, RC!HiddenStayed
  <2>2. m.hidden = {} /\ v7.status = RC!StatusOf(RC!HeadTree(m), m.index, {}, m.files)
    BY <1>1, <1>2, <1>3, <1>4, <2>1, StatusWasThere
  <2>3. RC!CaptureOf(m).files = v7.files
    BY <1>1, <1>3, <1>5, <2>2, FilesOfCapture
  <2>4. /\ RC!CaptureOf(m).branch = v7.branch /\ RC!CaptureOf(m).head = v7.head
        /\ RC!CaptureOf(m).status = v7.status /\ RC!CaptureOf(m).index = v7.index
        /\ RC!CaptureOf(m).hidden = v7.hidden
    BY <1>1, <1>3, <1>5, <2>2 DEF RC!CaptureOf, RC!Shape
  <2>5. RC!CodeState(RC!CaptureOf(m)) = RC!CodeState(v7)
    <3> DEFINE x == RC!CaptureOf(m)
    <3>1. /\ x.branch = v7.branch /\ x.head = v7.head /\ x.status = v7.status
          /\ x.index = v7.index /\ x.hidden = v7.hidden /\ x.files = v7.files
      BY <2>3, <2>4
    <3> HIDE DEF x
    <3>2. RC!CodeState(x) = RC!CodeState(v7)
      BY <3>1, SameCodeState
    <3> QED
      BY <3>2 DEF x
  <2>6. RC!CodeState(RC!CaptureOf(m))' = RC!CodeState(RC!CaptureOf(m))
    BY <1>3 DEF RC!CodeState
  <2> QED
    BY <1>3, <2>2, <2>5, <2>6
<1> QED
  BY <1>6, <1>7

-----------------------------------------------------------------------------
(* The theorem.                                                            *)

\* Nothing happens to an answer.
LEMMA AnswerStays ==
  ASSUME v10 # None, [RC!Next]_(RC!reviewVars)
  PROVE  UNCHANGED RC!reviewVars
BY DEF RC!Next, RC!Edits, RC!EditFile, RC!Stage, RC!Commit, RC!Switch, RC!Hide, RC!Edit, RC!Failure, RC!ReadBranch, RC!ReadHead,
       RC!ReadList, RC!ReadStatus, RC!ReadStatusOfFile, RC!ReadIndex, RC!ReadHidden, RC!StartFiles,
       RC!LookAtFile, RC!ReadFirstBlock, RC!ReadLastBlock, RC!EndCapture

\* While the answer is open the invariant holds, and an answer ends the call.
LEMMA CaptureStep ==
  ASSUME RC!WellFormed, RC!CInv, RC!CaptureWasTrue, [RC!Next]_(RC!reviewVars)
  PROVE  RC!CInv' /\ RC!CaptureWasTrue'
<1>1. CASE v10 # None
  <2>1. UNCHANGED <<v1, v2, v3, v4, v5, v6, v7, v8, v9, v10>>
    BY <1>1, AnswerStays DEF RC!reviewVars, RC!treeVars, RC!captureVars
  <2>2. RC!CInv'
    BY <1>1, <2>1 DEF RC!CInv
  <2>3. RC!CaptureWasTrue'
    BY <2>1 DEF RC!CaptureWasTrue, RC!Answered, RC!ReadPartsWereTrue, RC!HeadStayed, RC!HiddenStayed,
                RC!CodeState
  <2> QED
    BY <2>2, <2>3
<1>2. CASE v10 = None /\ v10' = None
  <2>1. RC!PastInv /\ RC!Shape
    BY <1>2 DEF RC!CInv
  <2>2. RC!CaptureWasTrue'
    BY <1>2 DEF RC!CaptureWasTrue, RC!Answered
  <2>3. CASE RC!Edits
    BY <1>2, <2>2, <2>3, EditsKeepCInv
  <2>4. CASE CaptureReads
    BY <1>2, <2>2, <2>4, ReadsKeepCInv
  <2>5. CASE UNCHANGED RC!reviewVars
    <3>1. UNCHANGED <<v1, v2, v3, v4, v5, v6, v7, v8, v9, v10>>
      BY <2>5 DEF RC!reviewVars, RC!treeVars, RC!captureVars
    <3>2. RC!PastInv' /\ RC!Shape' /\ RC!SeenHad' /\ RC!FilesInOrder'
      <4>1. RC!PastInv /\ RC!Shape /\ RC!SeenHad /\ RC!FilesInOrder
        BY <1>2 DEF RC!CInv
      <4>2. RC!PastInv' /\ RC!Shape'
        BY <3>1, <4>1 DEF RC!PastInv, RC!Shape, RC!HasRead
      <4>3. RC!SeenHad'
        BY <3>1, <4>1 DEF RC!SeenHad, RC!HasRead, RC!HalfRead, RC!Had
      <4>4. RC!FilesInOrder'
        BY <3>1, <4>1 DEF RC!FilesInOrder, RC!Hashed
      <4> QED
        BY <4>2, <4>3, <4>4
    <3>3. PICK r \in RC!RawStatus : RC!Found(r) /\ RC!Twice(r)
      BY <1>2 DEF RC!CInv
    <3>4. RC!Found(r)'
      BY <3>1, <3>3 DEF RC!Found, RC!StatusIs, RC!HasRead, RC!WasThere, RC!Had
    <3>5. \A m, r1 : RC!FirstFits(m, r1) => RC!FirstFits(m, r1)'
      BY <3>1 DEF RC!FirstFits, RC!WasThere, RC!Fits, RC!Had
    <3>6. \A m, r1 : RC!SecondAgrees(m, r1, r) => RC!SecondAgrees(m, r1, r)'
      BY <3>1 DEF RC!SecondAgrees, RC!HasRead, RC!Again
    <3>7. \A m : RC!HashesAgree(m, r) => RC!HashesAgree(m, r)'
      BY <3>1 DEF RC!HashesAgree, RC!HasRead, RC!HalfRead, RC!Fits, RC!Had, RC!Again
    <3>8. RC!Twice(r)'
      BY <3>1, <3>3, <3>5, <3>6, <3>7 DEF RC!Twice
    <3> QED
      BY <2>2, <3>2, <3>4, <3>8 DEF RC!CInv
  <2> QED
    BY <1>2, <2>1, <2>2, <2>3, <2>4, <2>5, Steps
<1>3. CASE v10 = None /\ v10' # None
  <2>1. RC!CInv'
    BY <1>3 DEF RC!CInv
  <2>2. CASE v10' = RC!Failed
    BY <2>1, <2>2 DEF RC!CaptureWasTrue, RC!Answered
  <2>3. CASE RC!EndCapture /\ v10' # RC!Failed
    BY <1>3, <2>1, <2>3, AcceptIsTrue
  <2>4. ~RC!EndCapture => v10' = RC!Failed
    <3>1. RC!Fails => v10' = RC!Failed
      BY DEF RC!Fails
    <3>2. RC!Edits => v10' = v10
      BY DEF RC!Edits, RC!EditFile, RC!Stage, RC!Commit, RC!Switch, RC!Hide, RC!Edit, RC!captureVars
    <3>3. UNCHANGED RC!reviewVars => v10' = v10
      BY DEF RC!reviewVars, RC!captureVars
    <3>4. RC!ReadBranch \/ RC!ReadHead \/ RC!ReadStatus \/ RC!ReadStatusOfFile \/ RC!ReadIndex \/ RC!ReadHidden
            => v10' = v10
      BY DEF RC!ReadBranch, RC!ReadHead, RC!ReadStatus, RC!ReadStatusOfFile, RC!ReadIndex, RC!ReadHidden
    <3>5. RC!ReadList \/ RC!StartFiles \/ RC!ReadFirstBlock \/ RC!ReadLastBlock => v10' = v10 \/ RC!Fails
      BY DEF RC!ReadList, RC!StartFiles, RC!ReadFirstBlock, RC!ReadLastBlock
    <3>6. RC!LookAtFile => v10' = v10 \/ RC!Fails
      BY DEF RC!LookAtFile
    <3> QED
      BY <1>3, <3>1, <3>2, <3>3, <3>4, <3>5, <3>6 DEF RC!Next, RC!Failure
  <2> QED
    BY <2>1, <2>2, <2>3, <2>4
<1> QED
  BY <1>1, <1>2, <1>3

\* For any number of paths, any states of the Worktree to begin with and any number of
\* edits meanwhile, the code that is captured for a Review was in the Worktree in
\* one moment, unless something was changed and changed back; and so were the
\* changes that are listed with it, unless there was a commit or entries were
\* hidden (captureCodeStateEvidence of git-review-code-inspection).
THEOREM CapturesAreTrue == GitSpec => []CaptureWasTrue
<1> DEFINE Inv == part = "capture" => RC!CInv /\ RC!CaptureWasTrue
<1>1. GitInit => Inv
  BY CaptureWellFormed, CInvInit
     DEF GitInit, RC!Init, RC!CaptureWasTrue, RC!Answered
<1>2. Inv /\ [GitNext]_desktopVars => Inv'
  BY CaptureWellFormed, GitPartStays, CapturePart, CaptureStep
<1>3. Inv => CaptureWasTrue
  BY DEF CaptureWasTrue
<1> QED
  BY <1>1, <1>2, <1>3, PTL DEF GitSpec

-----------------------------------------------------------------------------
(* The Pull Requests: first, of what folds over reviews and what summaries *)
(* of them say.                                                            *)

\* The greatest element.
LEMMA Greatest ==
  ASSUME NEW S, NEW x \in S, S \subseteq Int, \A y \in S : y <= x
  PROVE  PR!Max(S) = x
<1>1. PR!Max(S) \in S /\ \A y \in S : PR!Max(S) >= y
  BY DEF PR!Max
<1>2. PR!Max(S) \in Int /\ x \in Int
  BY <1>1
<1> QED
  BY <1>1, <1>2

\* A set of numbers up to a bound has a greatest.
LEMMA HasGreatest ==
  ASSUME NEW n \in Nat, NEW S \in SUBSET (1..n), S # {}
  PROVE  \E x \in S : \A y \in S : y <= x
<1> DEFINE Bounds == {b \in Nat : \A y \in S : y <= b}
<1>1. n \in Bounds
  OBVIOUS
<1>2. PICK b \in Bounds : \A c \in Bounds : ~(<<c, b>> \in OpToRel(<, Nat))
  <2>1. Bounds # {} /\ Bounds \subseteq Nat
    BY <1>1
  <2> HIDE DEF Bounds
  <2> QED
    BY <2>1, WFMin, NatLessThanWellFounded, Zenon
<1>3. b \in Nat /\ \A y \in S : y <= b
  OBVIOUS
<1>4. b \in S
  <2> SUFFICES ASSUME b \notin S PROVE FALSE
    OBVIOUS
  <2>1. \A y \in S : y \in 1..n /\ y # b
    OBVIOUS
  <2>2. PICK y \in S : TRUE
    OBVIOUS
  <2>3. b - 1 \in Nat /\ \A z \in S : z <= b - 1
    BY <1>3, <2>1, <2>2
  <2>4. b - 1 \in Bounds
    BY <2>3
  <2>5. <<b - 1, b>> \in OpToRel(<, Nat)
    BY <1>3, <2>3 DEF OpToRel
  <2> QED
    BY <1>2, <2>4, <2>5
<1> QED
  BY <1>3, <1>4

\* What holds at 0 and is handed on holds everywhere.
LEMMA Counting ==
  ASSUME NEW P \in SUBSET Nat, 0 \in P, \A k \in P : k + 1 \in P
  PROVE  P = Nat
<1> DEFINE Q == Nat \ P
<1> SUFFICES ASSUME Q # {} PROVE FALSE
  OBVIOUS
<1>1. PICK m \in Q : \A k \in Q : ~(<<k, m>> \in OpToRel(<, Nat))
  <2>1. Q \subseteq Nat
    OBVIOUS
  <2> HIDE DEF Q
  <2> QED
    BY <2>1, WFMin, NatLessThanWellFounded, Zenon
<1>2. m # 0 /\ m \in Nat
  OBVIOUS
<1>3. m - 1 \in Nat /\ <<m - 1, m>> \in OpToRel(<, Nat)
  BY <1>2 DEF OpToRel
<1>4. m - 1 \in P
  BY <1>1, <1>3, Zenon
<1>5. (m - 1) + 1 \in P
  BY <1>4
<1>6. (m - 1) + 1 = m
  BY <1>2
<1>7. m \in P
  BY <1>5, <1>6, Zenon
<1> QED
  BY <1>7

\* The function that a fold of n elements is defined by, and that it exists.
IsFold(h, n, S, base, F) ==
  /\ h \in [SUBSET (1..n) -> S]
  /\ \A s \in SUBSET (1..n) :
       h[s] = IF s = {} THEN base ELSE F[<<PR!Max(s), h[s \ {PR!Max(s)}]>>]

LEMMA FoldExists ==
  ASSUME NEW n \in Nat, NEW S, NEW base \in S, NEW F \in [(1..n) \X S -> S]
  PROVE  \E h : IsFold(h, n, S, base, F)
<1> DEFINE Has(m) == \E h : IsFold(h, m, S, base, F)
           P == {m \in Nat : m <= n => Has(m)}
<1> HIDE DEF Has
<1>1. 0 \in P
  <2> DEFINE h == [s \in SUBSET (1..0) |-> base]
  <2>1. \A s \in SUBSET (1..0) : s = {}
    OBVIOUS
  <2>2. h \in [SUBSET (1..0) -> S] /\ \A s \in SUBSET (1..0) : h[s] = base
    OBVIOUS
  <2> HIDE DEF h
  <2>3. Has(0)
    BY <2>1, <2>2 DEF Has, IsFold
  <2> QED
    BY <2>3
<1>2. ASSUME NEW m \in P PROVE m + 1 \in P
  <2> SUFFICES ASSUME m + 1 <= n PROVE Has(m + 1)
    OBVIOUS
  <2>1. m \in Nat /\ Has(m)
    OBVIOUS
  <2>2. PICK g \in [SUBSET (1..m) -> S] : \A s \in SUBSET (1..m) :
             g[s] = IF s = {} THEN base ELSE F[<<PR!Max(s), g[s \ {PR!Max(s)}]>>]
    BY <2>1 DEF Has, IsFold
  <2> DEFINE h == [s \in SUBSET (1..(m + 1)) |->
                     IF m + 1 \in s THEN F[<<m + 1, g[s \ {m + 1}]>>] ELSE g[s]]
  <2>3. \A s \in SUBSET (1..(m + 1)) : s \ {m + 1} \in SUBSET (1..m)
    BY <2>1
  <2>4. \A s \in SUBSET (1..(m + 1)) : m + 1 \notin s => s \in SUBSET (1..m)
    BY <2>1
  <2>5. h \in [SUBSET (1..(m + 1)) -> S]
    <3> SUFFICES ASSUME NEW s \in SUBSET (1..(m + 1))
                 PROVE  (IF m + 1 \in s THEN F[<<m + 1, g[s \ {m + 1}]>>] ELSE g[s]) \in S
      OBVIOUS
    <3>1. CASE m + 1 \in s
      <4>1. g[s \ {m + 1}] \in S /\ m + 1 \in 1..n
        BY <2>1, <2>3
      <4> QED
        BY <3>1, <4>1
    <3>2. CASE m + 1 \notin s
      BY <2>4, <3>2
    <3> QED
      BY <3>1, <3>2
  <2>6. ASSUME NEW s \in SUBSET (1..(m + 1))
        PROVE  h[s] = IF s = {} THEN base ELSE F[<<PR!Max(s), h[s \ {PR!Max(s)}]>>]
    <3>1. CASE m + 1 \in s
      <4>1. PR!Max(s) = m + 1
        <5>1. s \subseteq Int /\ \A y \in s : y <= m + 1
          BY <2>1
        <5> QED
          BY <3>1, <5>1, Greatest
      <4>2. h[s \ {m + 1}] = g[s \ {m + 1}]
        BY <2>3
      <4> QED
        BY <3>1, <4>1, <4>2
    <3>2. CASE m + 1 \notin s /\ s # {}
      <4>1. s \in SUBSET (1..m)
        BY <2>4, <3>2
      <4>2. PR!Max(s) \in s
        <5>1. PICK x \in s : \A y \in s : y <= x
          BY <2>1, <4>1, <3>2, HasGreatest
        <5>2. s \subseteq Int
          OBVIOUS
        <5> QED
          BY <5>1, <5>2, Greatest
      <4>3. h[s \ {PR!Max(s)}] = g[s \ {PR!Max(s)}] /\ h[s] = g[s]
        BY <3>2, <4>1
      <4> QED
        BY <2>2, <3>2, <4>1, <4>3
    <3>3. CASE s = {}
      <4>1. s \in SUBSET (1..m) /\ h[s] = g[s]
        BY <3>3
      <4> QED
        BY <2>2, <3>3, <4>1
    <3> QED
      BY <3>1, <3>2, <3>3
  <2> HIDE DEF h
  <2> QED
    BY <2>5, <2>6 DEF Has, IsFold
<1>3. P = Nat
  <2>1. P \subseteq Nat
    OBVIOUS
  <2> HIDE DEF P
  <2> QED
    BY <1>1, <1>2, <2>1, Counting
<1>4. Has(n)
  BY <1>3
<1> QED
  BY <1>4 DEF Has

-----------------------------------------------------------------------------
(* The summary of reviews.                                                 *)

\* One review: what latestByReviewer does with it.
ReadsReview(latest, r, who) ==
  CASE r.who # who \/ r.state = "PENDING" -> latest
    [] r.who = who /\ r.state = "DISMISSED" -> None
    [] r.who = who /\ r.state = "COMMENTED" /\ latest # None -> latest
    [] OTHER -> r.state

ReviewFold(reviews, who) ==
  CHOOSE iter : iter = [s \in SUBSET DOMAIN reviews |->
    IF s = {} THEN None ELSE ReadsReview(iter[s \ {PR!Max(s)}], reviews[PR!Max(s)], who)]

LEMMA LatestIsFold ==
  ASSUME NEW reviews, NEW who
  PROVE  PR!LatestOf(reviews, who) = ReviewFold(reviews, who)[DOMAIN reviews]
BY Zenon DEF PR!LatestOf, ReviewFold, ReadsReview, PR!FoldLeft, PR!MapThenFoldSet

\* Reviews read one after the other.
Readings == {None, "APPROVED", "CHANGES_REQUESTED", "COMMENTED"}

LEMMA ReadsOne ==
  ASSUME NEW latest \in Readings, NEW r \in PR!Reviews, NEW who
  PROVE  ReadsReview(latest, r, who) \in Readings
BY DEF ReadsReview, Readings, PR!Reviews, PR!ReviewStates, PR!Decisive

LEMMA FoldIsReading ==
  ASSUME PR!WellFormed, NEW reviews \in ReviewLists, NEW who
  PROVE  \E t : /\ t[0] = None
                /\ \A k \in DOMAIN reviews : t[k] = ReadsReview(t[k - 1], reviews[k], who)
                /\ PR!LatestOf(reviews, who) = t[Len(reviews)]
<1> DEFINE n == Len(reviews)
           D == DOMAIN reviews
           F == [p \in (1..n) \X Readings |-> ReadsReview(p[2], reviews[p[1]], who)]
           f == ReviewFold(reviews, who)
<1>1. reviews \in Seq(PR!Reviews) /\ D = 1..n /\ n \in Nat
  BY DEF PR!WellFormed
<1>2. \A k \in 1..n : reviews[k] \in PR!Reviews
  BY <1>1
<1>3. F \in [(1..n) \X Readings -> Readings]
  BY <1>2, ReadsOne
<1>4. None \in Readings
  BY DEF Readings
<1> HIDE DEF F
<1>a. PICK h : IsFold(h, n, Readings, None, F)
  BY <1>1, <1>3, <1>4, FoldExists
<1>5. /\ h \in [SUBSET (1..n) -> Readings]
      /\ \A s \in SUBSET (1..n) :
           h[s] = IF s = {} THEN None ELSE F[<<PR!Max(s), h[s \ {PR!Max(s)}]>>]
  BY <1>a DEF IsFold
<1>6. ASSUME NEW s \in SUBSET (1..n), s # {}
      PROVE  F[<<PR!Max(s), h[s \ {PR!Max(s)}]>>] = ReadsReview(h[s \ {PR!Max(s)}], reviews[PR!Max(s)], who)
  <2>1. PICK x \in s : \A y \in s : y <= x
    BY <1>1, <1>6, HasGreatest
  <2>2. PR!Max(s) \in 1..n
    <3>1. s \subseteq Int
      OBVIOUS
    <3>2. PR!Max(s) = x
      BY <2>1, <3>1, Greatest
    <3> QED
      BY <3>2
  <2>3. h[s \ {PR!Max(s)}] \in Readings
    BY <1>5
  <2> QED
    BY <2>2, <2>3 DEF F
<1>7. h = [s \in SUBSET D |->
             IF s = {} THEN None ELSE ReadsReview(h[s \ {PR!Max(s)}], reviews[PR!Max(s)], who)]
  BY <1>1, <1>5, <1>6
<1>8. f = [s \in SUBSET D |->
             IF s = {} THEN None ELSE ReadsReview(f[s \ {PR!Max(s)}], reviews[PR!Max(s)], who)]
  BY <1>7, Zenon DEF ReviewFold
<1>9. f[{}] = None /\ \A s \in SUBSET D : s # {} => f[s] = ReadsReview(f[s \ {PR!Max(s)}], reviews[PR!Max(s)], who)
  BY <1>8
<1> DEFINE t == [k \in 0..n |-> f[1..k]]
<1>10. t[0] = None
  <2>1. 1..0 = {} /\ 0 \in 0..n
    BY <1>1
  <2> QED
    BY <1>9, <2>1
<1>11. ASSUME NEW k \in D PROVE t[k] = ReadsReview(t[k - 1], reviews[k], who)
  <2>1. 1..k \in SUBSET D /\ 1..k # {} /\ k \in 0..n /\ k - 1 \in 0..n
    BY <1>1
  <2>2. PR!Max(1..k) = k
    <3>1. k \in 1..k /\ 1..k \subseteq Int /\ \A y \in 1..k : y <= k
      BY <1>1
    <3> QED
      BY <3>1, Greatest
  <2>3. (1..k) \ {k} = 1..(k - 1)
    BY <1>1
  <2> HIDE DEF f
  <2> QED
    BY <1>9, <2>1, <2>2, <2>3
<1>12. PR!LatestOf(reviews, who) = t[n]
  <2>1. n \in 0..n
    BY <1>1
  <2> QED
    BY <1>1, <2>1, LatestIsFold
<1> HIDE DEF t
<1> QED
  BY <1>10, <1>11, <1>12

\* The last decision of a reviewer among the first k reviews.
Decided(reviews, who, state, k) ==
  \E j \in 1..k : /\ reviews[j].who = who /\ reviews[j].state = state
                  /\ \A m \in (j + 1)..k : reviews[m].who = who => reviews[m].state \notin PR!Decisive

\* What latestByReviewer holds is the reviewer's standing decision, if it is
\* anything but a comment.
LEMMA LatestIsDecision ==
  ASSUME PR!WellFormed, NEW reviews \in ReviewLists, NEW who,
         NEW state \in {"APPROVED", "CHANGES_REQUESTED"}
  PROVE  PR!LatestOf(reviews, who) = state <=> Decided(reviews, who, state, Len(reviews))
<1>1. PICK t : /\ t[0] = None
               /\ \A k \in DOMAIN reviews : t[k] = ReadsReview(t[k - 1], reviews[k], who)
               /\ PR!LatestOf(reviews, who) = t[Len(reviews)]
  BY FoldIsReading
<1>2. /\ reviews \in Seq(PR!Reviews) /\ DOMAIN reviews = 1..Len(reviews) /\ Len(reviews) \in Nat
      /\ None \notin PR!ReviewStates
  BY DEF PR!WellFormed
<1> DEFINE P == {k \in Nat : k <= Len(reviews) => (t[k] = state <=> Decided(reviews, who, state, k))}
<1>3. 0 \in P
  BY <1>1, <1>2 DEF Decided, PR!ReviewStates, PR!Decisive
<1>4. ASSUME NEW k \in P PROVE k + 1 \in P
  <2> SUFFICES ASSUME k + 1 <= Len(reviews)
               PROVE  t[k + 1] = state <=> Decided(reviews, who, state, k + 1)
    OBVIOUS
  <2> DEFINE r == reviews[k + 1]
  <2>1. /\ k \in Nat /\ k + 1 \in DOMAIN reviews /\ (k + 1) - 1 = k
        /\ t[k] = state <=> Decided(reviews, who, state, k)
    BY <1>2
  <2>2. t[k + 1] = ReadsReview(t[k], r, who)
    BY <1>1, <2>1
  <2>3. r \in PR!Reviews
    BY <1>2, <2>1
  <2>4. CASE r.who # who \/ r.state \notin PR!Decisive
    <3>1. Decided(reviews, who, state, k + 1) <=> Decided(reviews, who, state, k)
      <4>1. 1..(k + 1) = (1..k) \cup {k + 1}
        BY <2>1
      <4>2. \A j \in 1..k : (j + 1)..(k + 1) = ((j + 1)..k) \cup {k + 1}
        BY <2>1
      <4>3. state \in PR!Decisive
        BY DEF PR!Decisive
      <4> QED
        BY <2>4, <4>1, <4>2, <4>3 DEF Decided
    <3>2. t[k + 1] = state <=> t[k] = state
      BY <1>2, <2>2, <2>3, <2>4 DEF ReadsReview, PR!Reviews, PR!ReviewStates, PR!Decisive
    <3> QED
      BY <2>1, <3>1, <3>2
  <2>5. CASE r.who = who /\ r.state \in PR!Decisive
    <3>1. Decided(reviews, who, state, k + 1) <=> r.state = state
      <4>1. k + 1 \in 1..(k + 1) /\ (k + 2)..(k + 1) = {} /\ (k + 1) + 1 = k + 2
        BY <2>1
      <4>2. r.state = state => Decided(reviews, who, state, k + 1)
        BY <2>5, <4>1 DEF Decided
      <4>3. \A j \in 1..(k + 1) : j = k + 1 \/ k + 1 \in (j + 1)..(k + 1)
        BY <2>1
      <4>4. Decided(reviews, who, state, k + 1) => r.state = state
        BY <2>5, <4>3 DEF Decided
      <4> QED
        BY <4>2, <4>4
    <3>2. t[k + 1] = state <=> r.state = state
      BY <1>2, <2>2, <2>3, <2>5 DEF ReadsReview, PR!Reviews, PR!ReviewStates, PR!Decisive
    <3> QED
      BY <3>1, <3>2
  <2> QED
    BY <2>4, <2>5
<1>5. P = Nat
  <2>1. P \subseteq Nat
    OBVIOUS
  <2> HIDE DEF P
  <2> QED
    BY <1>3, <1>4, <2>1, Counting
<1>6. t[Len(reviews)] = state <=> Decided(reviews, who, state, Len(reviews))
  BY <1>2, <1>5
<1> QED
  BY <1>1, <1>6

\* A summary says of the reviews what their standing decisions are.
LEMMA SummaryOfReviews ==
  ASSUME PR!WellFormed, NEW reviews \in ReviewLists
  PROVE  LET standing(state) ==
               \E k \in DOMAIN reviews : reviews[k].state = state /\ PR!Stands(reviews, k)
         IN /\ PR!ReviewState(reviews) = "CHANGES_REQUESTED" <=> standing("CHANGES_REQUESTED")
            /\ PR!ReviewState(reviews) = "APPROVED"
                 <=> standing("APPROVED") /\ ~ standing("CHANGES_REQUESTED")
<1> DEFINE standing(state) ==
             \E k \in DOMAIN reviews : reviews[k].state = state /\ PR!Stands(reviews, k)
           states == {PR!LatestOf(reviews, r.who) : r \in PR!ToSet(reviews)}
<1>1. reviews \in Seq(PR!Reviews) /\ DOMAIN reviews = 1..Len(reviews) /\ Len(reviews) \in Nat
  BY DEF PR!WellFormed
<1>2. ASSUME NEW state \in {"APPROVED", "CHANGES_REQUESTED"}
      PROVE  state \in states <=> standing(state)
  <2>1. ASSUME state \in states PROVE standing(state)
    <3>1. PICK i \in DOMAIN reviews : PR!LatestOf(reviews, reviews[i].who) = state
      BY <2>1 DEF PR!ToSet
    <3>2. Decided(reviews, reviews[i].who, state, Len(reviews))
      BY <3>1, LatestIsDecision
    <3> QED
      BY <1>1, <3>2 DEF Decided, PR!Stands
  <2>2. ASSUME standing(state) PROVE state \in states
    <3>1. PICK k \in DOMAIN reviews : reviews[k].state = state /\ PR!Stands(reviews, k)
      BY <2>2
    <3>2. Decided(reviews, reviews[k].who, state, Len(reviews))
      BY <1>1, <3>1 DEF Decided, PR!Stands
    <3>3. PR!LatestOf(reviews, reviews[k].who) = state
      BY <3>2, LatestIsDecision
    <3> QED
      BY <3>1, <3>3 DEF PR!ToSet
  <2> QED
    BY <2>1, <2>2
<1>3. /\ "CHANGES_REQUESTED" \in states <=> standing("CHANGES_REQUESTED")
      /\ "APPROVED" \in states <=> standing("APPROVED")
  BY <1>2
<1> HIDE DEF standing
<1>4. /\ PR!ReviewState(reviews) = "CHANGES_REQUESTED" <=> "CHANGES_REQUESTED" \in states
      /\ PR!ReviewState(reviews) = "APPROVED"
           <=> "APPROVED" \in states /\ "CHANGES_REQUESTED" \notin states
  <2>1. PR!ReviewState(reviews) =
          CASE "CHANGES_REQUESTED" \in states -> "CHANGES_REQUESTED"
            [] "CHANGES_REQUESTED" \notin states /\ "APPROVED" \in states -> "APPROVED"
            [] states \in {{"COMMENTED"}, {"COMMENTED", None}} -> "COMMENTED"
            [] OTHER -> "NONE"
    BY Zenon DEF PR!ReviewState
  <2> HIDE DEF states
  <2>a. /\ "CHANGES_REQUESTED" \in states => states \notin {{"COMMENTED"}, {"COMMENTED", None}}
        /\ "APPROVED" \in states => states \notin {{"COMMENTED"}, {"COMMENTED", None}}
    BY DEF PR!WellFormed, PR!ReviewStates, PR!Decisive
  <2>2. CASE "CHANGES_REQUESTED" \in states
    <3>1. PR!ReviewState(reviews) = "CHANGES_REQUESTED"
      BY <2>1, <2>2, <2>a
    <3> QED
      BY <2>2, <3>1
  <2>3. CASE "CHANGES_REQUESTED" \notin states /\ "APPROVED" \in states
    <3>1. PR!ReviewState(reviews) = "APPROVED"
      BY <2>1, <2>3, <2>a
    <3> QED
      BY <2>3, <3>1
  <2>4. CASE "CHANGES_REQUESTED" \notin states /\ "APPROVED" \notin states
    <3>1. PR!ReviewState(reviews) \in {"COMMENTED", "NONE"}
      BY <2>1, <2>4
    <3> QED
      BY <2>4, <3>1
  <2> QED
    BY <2>2, <2>3, <2>4
<1>5. /\ PR!ReviewState(reviews) = "CHANGES_REQUESTED" <=> standing("CHANGES_REQUESTED")
      /\ PR!ReviewState(reviews) = "APPROVED"
           <=> standing("APPROVED") /\ ~ standing("CHANGES_REQUESTED")
  BY <1>3, <1>4
<1> QED
  BY <1>5 DEF standing

\* All checks of a summary that reports success have succeeded.
LEMMA SummaryOfChecks ==
  ASSUME PR!WellFormed, NEW checks \in CheckLists, PR!CheckState(checks) = "SUCCESS"
  PROVE  PR!ToSet(checks) = {"success"}
<1>1. checks \in Seq({"success", "failure", "pending"})
  BY DEF PR!WellFormed
<1>2. PR!ToSet(checks) \subseteq {"success", "failure", "pending"}
  BY <1>1 DEF PR!ToSet
<1>3. checks # << >> /\ "failure" \notin PR!ToSet(checks) /\ "pending" \notin PR!ToSet(checks)
  BY DEF PR!CheckState
<1>4. checks[1] \in PR!ToSet(checks)
  BY <1>1, <1>3 DEF PR!ToSet
<1> QED
  BY <1>2, <1>3, <1>4

\* The places of an operation.
LEMMA ThePlaces ==
  /\ PR!Places("push") = {"inspect", "push", "verify"}
  /\ PR!Places("create") = {"inspect", "again", "ref", "list", "post", "record"}
  /\ PR!Places("refresh") = {"find", "get", "details", "record"}
BY DEF PR!Places

LEMMA OperationFields ==
  ASSUME NEW op \in PR!Operations
  PROVE  /\ op.what \in {"push", "create", "refresh"} /\ op.number \in Nat \cup {None}
         /\ op.mine \in BOOLEAN
         /\ op.at \in {"inspect", "push", "verify", "again", "ref", "list", "post", "record",
                       "find", "get", "details"}
         /\ op.branch \in Commits \cup {None} /\ op.again \in Commits \cup {None}
         /\ op.synced \in Nat /\ op.pull \in PR!Snapshots \cup {None}
         /\ op.raw \in [reviews : ReviewLists, checks : CheckLists] \cup {None}
BY ThePlaces DEF PR!Operations

\* The summaries of reviews and of checks are among those that a row may have.
LEMMA SummariesFit ==
  /\ \A reviews : PR!ReviewState(reviews) \in {"APPROVED", "CHANGES_REQUESTED", "COMMENTED", "NONE"}
  /\ \A checks : PR!CheckState(checks) \in {"FAILURE", "NONE", "PENDING", "SUCCESS"}
<1>1. ASSUME NEW reviews
      PROVE  PR!ReviewState(reviews) \in {"APPROVED", "CHANGES_REQUESTED", "COMMENTED", "NONE"}
  <2> DEFINE states == {PR!LatestOf(reviews, r.who) : r \in PR!ToSet(reviews)}
  <2>1. PR!ReviewState(reviews) =
          CASE "CHANGES_REQUESTED" \in states -> "CHANGES_REQUESTED"
            [] "CHANGES_REQUESTED" \notin states /\ "APPROVED" \in states -> "APPROVED"
            [] states \in {{"COMMENTED"}, {"COMMENTED", None}} -> "COMMENTED"
            [] OTHER -> "NONE"
    BY Zenon DEF PR!ReviewState
  <2> HIDE DEF states
  <2> QED
    BY <2>1
<1>2. ASSUME NEW checks
      PROVE  PR!CheckState(checks) \in {"FAILURE", "NONE", "PENDING", "SUCCESS"}
  BY DEF PR!CheckState
<1> QED
  BY <1>1, <1>2

\* What GitHub is asked to show is a snapshot, of a Pull Request that it has.
LEMMA SnapshotFits ==
  ASSUME v5 \in Seq(PR!Pulls), NEW n \in DOMAIN v5, NEW t \in Nat
  PROVE  PR!Snapshot(n, t) \in PR!Snapshots
<1>1. v5[n] \in PR!Pulls /\ n \in Nat
  OBVIOUS
<1> QED
  BY <1>1 DEF PR!Snapshot, PR!Snapshots, PR!Pulls, PR!Statuses

\* Of the candidates one is chosen.
LEMMA SuitableIsOne ==
  ASSUME v5 \in Seq(PR!Pulls), NEW among \in SUBSET DOMAIN v5, among # {}
  PROVE  PR!Suitable(among) \in among
<1> DEFINE of(status) == {n \in among : v5[n].status = status}
           newest(s) == CHOOSE n \in s : \A m \in s : m <= n
<1>1. DOMAIN v5 = 1..Len(v5) /\ Len(v5) \in Nat
  OBVIOUS
<1>2. ASSUME NEW s \in SUBSET among, s # {} PROVE newest(s) \in s
  <2>1. s \in SUBSET (1..Len(v5))
    BY <1>1
  <2>2. PICK x \in s : \A y \in s : y <= x
    BY <1>1, <1>2, <2>1, HasGreatest
  <2> QED
    BY <2>2
<1>3. \A n \in among : v5[n].status \in {"OPEN", "CLOSED", "MERGED"}
  <2>1. \A n \in among : v5[n] \in PR!Pulls
    OBVIOUS
  <2> QED
    BY <2>1 DEF PR!Pulls, PR!Statuses
<1>4. /\ of("OPEN") \subseteq among /\ of("CLOSED") \subseteq among /\ of("MERGED") \subseteq among
      /\ of("OPEN") = {} /\ of("MERGED") = {} => of("CLOSED") # {}
  BY <1>3
<1>5. PR!Suitable(among) = CASE of("OPEN") # {} -> newest(of("OPEN"))
                          [] of("OPEN") = {} /\ of("MERGED") # {} -> newest(of("MERGED"))
                          [] OTHER -> newest(of("CLOSED"))
  BY Zenon DEF PR!Suitable
<1> HIDE DEF of, newest
<1> QED
  BY <1>2, <1>4, <1>5

\* The last row that was synchronised, where there is one at most.
LEMMA LastSyncedIs ==
  ASSUME NEW table \in SUBSET PR!Snapshots, \A r, s \in table : r = s
  PROVE  /\ PR!LastSynced(table) \in Nat \cup {None}
         /\ PR!LastSynced(table) = None <=> table = {}
<1>1. CASE table = {}
  BY <1>1 DEF PR!LastSynced
<1>2. CASE table # {}
  <2>1. PICK r \in table : TRUE
    BY <1>2
  <2>2. table = {r}
    BY <2>1
  <2>3. PR!LastSynced(table) = r.number
    BY <2>2 DEF PR!LastSynced
  <2>4. r.number \in Nat
    BY DEF PR!Snapshots
  <2> QED
    BY <1>2, <2>3, <2>4, NoneIsNoNumber
<1> QED
  BY <1>1, <1>2

\* Without its first operation the queue is the rest.
LEMMA WithoutFirst ==
  ASSUME NEW S, NEW s \in Seq(S), 1 \in DOMAIN s
  PROVE  /\ PR!RemoveAt(s, 1) \in Seq(S)
         /\ Len(PR!RemoveAt(s, 1)) = Len(s) - 1
         /\ \A i \in DOMAIN PR!RemoveAt(s, 1) :
              i + 1 \in DOMAIN s /\ PR!RemoveAt(s, 1)[i] = s[i + 1]
<1>1. Len(s) \in Nat /\ Len(s) >= 1 /\ DOMAIN s = 1..Len(s)
  OBVIOUS
<1>2. SubSeq(s, 1, 0) = << >>
  BY <1>1
<1>3. /\ SubSeq(s, 2, Len(s)) \in Seq(S)
      /\ Len(SubSeq(s, 2, Len(s))) = Len(s) - 1
      /\ \A i \in 1..(Len(s) - 1) : SubSeq(s, 2, Len(s))[i] = s[i + 1]
  BY <1>1
<1>4. PR!RemoveAt(s, 1) = SubSeq(s, 2, Len(s))
  <2>1. PR!RemoveAt(s, 1) = SubSeq(s, 1, 0) \o SubSeq(s, 2, Len(s))
    BY DEF PR!RemoveAt
  <2> QED
    BY <1>2, <1>3, <2>1
<1>5. DOMAIN PR!RemoveAt(s, 1) = 1..(Len(s) - 1)
  <2>1. DOMAIN SubSeq(s, 2, Len(s)) = 1..Len(SubSeq(s, 2, Len(s)))
    BY <1>3
  <2> QED
    BY <1>3, <1>4, <2>1
<1>6. \A i \in 1..(Len(s) - 1) : i + 1 \in DOMAIN s /\ PR!RemoveAt(s, 1)[i] = s[i + 1]
  BY <1>1, <1>3, <1>4
<1>7. PR!RemoveAt(s, 1) \in Seq(S) /\ Len(PR!RemoveAt(s, 1)) = Len(s) - 1
  BY <1>3, <1>4
<1> QED
  BY <1>5, <1>6, <1>7

\* GitHub's Pull Requests grow newer, and a merge is the last word.
Grow(ps, qs) ==
  /\ DOMAIN ps \subseteq DOMAIN qs
  /\ \A n \in DOMAIN ps : /\ ps[n].ver <= qs[n].ver
                          /\ ps[n].status = "MERGED" => qs[n].status = "MERGED"

LEMMA PullFields ==
  ASSUME NEW ps \in Seq(PR!Pulls), NEW n \in DOMAIN ps
  PROVE  /\ ps[n] \in PR!Pulls /\ ps[n].base \in {"main", "dev"} /\ ps[n].sha \in Commits \cup {None}
         /\ ps[n].status \in {"OPEN", "CLOSED", "MERGED"} /\ ps[n].ver \in Nat
<1>1. ps[n] \in PR!Pulls
  OBVIOUS
<1> QED
  BY <1>1 DEF PR!Pulls, PR!Statuses

LEMMA GrowsNot == ASSUME v5 \in Seq(PR!Pulls) PROVE Grow(v5, v5)
BY PullFields DEF Grow

\* A Pull Request whose commit moves, and one that is changed, is one.
MovedTo(p, c) == [p EXCEPT !.sha = c, !.ver = @ + 1]
ChangedTo(p, s, b, c) == [p EXCEPT !.status = s, !.base = b, !.ver = @ + 1, !.sha = c]

LEMMA ChangedIsPull ==
  ASSUME NEW p \in PR!Pulls, NEW s \in PR!Statuses, NEW b \in {"main", "dev"},
         NEW c \in Commits \cup {None}
  PROVE  /\ MovedTo(p, c) \in PR!Pulls /\ MovedTo(p, c).ver = p.ver + 1
         /\ MovedTo(p, c).status = p.status
         /\ ChangedTo(p, s, b, c) \in PR!Pulls /\ ChangedTo(p, s, b, c).ver = p.ver + 1
         /\ p.ver \in Nat
<1>1. p.ver \in Nat /\ p.ver + 1 \in Nat /\ p.status \in PR!Statuses /\ p.base \in {"main", "dev"}
  BY DEF PR!Pulls
<1>2. DOMAIN p = {"base", "sha", "status", "ver"}
  BY DEF PR!Pulls
<1>3. [p EXCEPT !.sha = c, !.ver = @ + 1]
        = [base |-> p.base, sha |-> c, status |-> p.status, ver |-> p.ver + 1]
  <2> DEFINE q == [p EXCEPT !.sha = c, !.ver = @ + 1]
  <2>1. q["base"] = p.base /\ q["sha"] = c /\ q["status"] = p.status /\ q["ver"] = p.ver + 1
    BY <1>2
  <2>2. q = [x \in {"base", "sha", "status", "ver"} |-> q[x]]
    BY <1>2
  <2> HIDE DEF q
  <2>3. q = [base |-> q["base"], sha |-> q["sha"], status |-> q["status"], ver |-> q["ver"]]
    BY <2>2
  <2> QED
    BY <2>1, <2>3 DEF q
<1>4. [p EXCEPT !.status = s, !.base = b, !.ver = @ + 1, !.sha = c]
        = [base |-> b, sha |-> c, status |-> s, ver |-> p.ver + 1]
  <2> DEFINE q == [p EXCEPT !.status = s, !.base = b, !.ver = @ + 1, !.sha = c]
  <2>1. q["base"] = b /\ q["sha"] = c /\ q["status"] = s /\ q["ver"] = p.ver + 1
    BY <1>2
  <2>2. q = [x \in {"base", "sha", "status", "ver"} |-> q[x]]
    BY <1>2
  <2> HIDE DEF q
  <2>3. q = [base |-> q["base"], sha |-> q["sha"], status |-> q["status"], ver |-> q["ver"]]
    BY <2>2
  <2> QED
    BY <2>1, <2>3 DEF q
<1> QED
  BY <1>1, <1>3, <1>4 DEF PR!Pulls, MovedTo, ChangedTo

LEMMA MovedFits ==
  ASSUME v5 \in Seq(PR!Pulls), NEW c \in Commits \cup {None}
  PROVE  PR!Moved(c) \in Seq(PR!Pulls) /\ Len(PR!Moved(c)) = Len(v5) /\ Grow(v5, PR!Moved(c))
<1>1. DOMAIN v5 = 1..Len(v5) /\ Len(v5) \in Nat
  OBVIOUS
<1>2. ASSUME NEW n \in DOMAIN v5
      PROVE  /\ PR!Moved(c)[n] \in PR!Pulls /\ v5[n].ver <= PR!Moved(c)[n].ver
             /\ v5[n].status = "MERGED" => PR!Moved(c)[n].status = "MERGED"
  <2> DEFINE p == v5[n]
  <2>a. p \in PR!Pulls
    OBVIOUS
  <2>1. CASE v5[n].status = "OPEN"
    <3>1. PR!Moved(c)[n] = [p EXCEPT !.sha = c, !.ver = @ + 1]
      BY <2>1 DEF PR!Moved
    <3>3. v5[n] = p
      OBVIOUS
    <3> HIDE DEF p
    <3> DEFINE q == MovedTo(p, c)
    <3>2. q \in PR!Pulls /\ p.ver <= q.ver /\ p.status = q.status
      <4>1. "OPEN" \in PR!Statuses /\ "main" \in {"main", "dev"}
        BY DEF PR!Statuses
      <4>2. q \in PR!Pulls /\ q.ver = p.ver + 1 /\ q.status = p.status /\ p.ver \in Nat
        BY <2>a, <4>1, ChangedIsPull
      <4> QED
        BY <4>2
    <3>4. PR!Moved(c)[n] = q
      BY <3>1 DEF MovedTo
    <3> HIDE DEF q
    <3> QED
      BY <3>2, <3>3, <3>4
  <2>2. CASE v5[n].status # "OPEN"
    <3>1. PR!Moved(c)[n] = v5[n]
      BY <2>2 DEF PR!Moved
    <3> QED
      BY <3>1, <2>a DEF PR!Pulls
  <2> QED
    BY <2>1, <2>2
<1>3. DOMAIN PR!Moved(c) = DOMAIN v5 /\ PR!Moved(c) = [n \in 1..Len(v5) |-> PR!Moved(c)[n]]
  BY <1>1 DEF PR!Moved
<1>4. PR!Moved(c) \in Seq(PR!Pulls) /\ Len(PR!Moved(c)) = Len(v5)
  BY <1>1, <1>2, <1>3
<1> QED
  BY <1>2, <1>3, <1>4 DEF Grow

LEMMA OutsideStep ==
  ASSUME PR!WellFormed, PR!TypeOK,
         \/ PR!WorktreeChanges \/ PR!Fetches \/ PR!SignsInOrOut
         \/ \E c \in Commits : PR!SomebodyPushes(c)
         \/ \E n \in DOMAIN v5, status \in PR!Statuses, base \in {"main", "dev"} :
              PR!PullChanges(n, status, base)
         \/ \E t \in 0..MaxClock : PR!ClockIsSet(t)
  PROVE  PR!TypeOK' /\ Grow(v5, v5') /\ UNCHANGED <<PR!stored, v11, PR!window>>
<1>1. UNCHANGED <<PR!stored, v11, PR!window>>
  <2>1. /\ PR!WorktreeChanges => PR!Change
        /\ PR!Fetches => PR!Change
        /\ PR!SignsInOrOut => PR!Change
    BY Zenon DEF PR!WorktreeChanges, PR!Fetches, PR!SignsInOrOut
  <2>2. \A c : PR!SomebodyPushes(c) => PR!Change
    BY Zenon DEF PR!SomebodyPushes
  <2>3. \A n, status, base : PR!PullChanges(n, status, base) => PR!Change
    BY Zenon DEF PR!PullChanges
  <2>4. \A t : PR!ClockIsSet(t) => PR!Change
    BY Zenon DEF PR!ClockIsSet
  <2>5. PR!Change
    BY <2>1, <2>2, <2>3, <2>4, Zenon
  <2> QED
    BY <2>5, Zenon DEF PR!Change
<1>2. UNCHANGED <<v9, v10, v11, v13, v14>>
  BY <1>1 DEF PR!stored, PR!window
<1>3. /\ v1 \in Commits /\ v3 \in Commits \cup {None} /\ v4 \in Commits \cup {None}
      /\ v5 \in Seq(PR!Pulls) /\ Len(v5) <= MaxPulls /\ v7 \in Nat
  BY DEF PR!TypeOK
<1> DEFINE Fine == /\ v1' \in Commits /\ v3' \in Commits \cup {None}
                   /\ v4' \in Commits \cup {None} /\ v5' \in Seq(PR!Pulls)
                   /\ Len(v5') <= MaxPulls /\ v7' \in Nat /\ Grow(v5, v5')
<1>a. Grow(v5, v5)
  BY <1>3, GrowsNot
<1>4. /\ PR!WorktreeChanges => Fine
      /\ PR!Fetches => Fine
      /\ PR!SignsInOrOut => Fine
  BY <1>3, <1>a DEF PR!WorktreeChanges, PR!Fetches, PR!SignsInOrOut
<1>5. ASSUME NEW c \in Commits, PR!SomebodyPushes(c) PROVE Fine
  BY <1>3, <1>5, MovedFits DEF PR!SomebodyPushes
<1>6. ASSUME NEW n \in DOMAIN v5, NEW status \in PR!Statuses, NEW base \in {"main", "dev"},
             PR!PullChanges(n, status, base)
      PROVE  Fine
  <2>1. /\ v5' = [v5 EXCEPT ![n].status = status, ![n].base = base, ![n].ver = @ + 1,
                            ![n].sha = IF v5[n].status = "CLOSED" THEN v4 ELSE @]
        /\ v5[n].status # "MERGED" /\ UNCHANGED <<v1, v3, v4, v7>>
    BY <1>6, Zenon DEF PR!PullChanges
  <2> DEFINE old == v5[n]
             p == [old EXCEPT !.status = status, !.base = base, !.ver = @ + 1,
                              !.sha = IF old.status = "CLOSED" THEN v4 ELSE @]
  <2>3. v5' = [v5 EXCEPT ![n] = p]
    BY <1>3, <2>1
  <2>a. old \in PR!Pulls
    BY <1>3
  <2> HIDE DEF old
  <2>2. p \in PR!Pulls /\ p.ver = old.ver + 1 /\ old.ver \in Nat
    <3> DEFINE c == IF old.status = "CLOSED" THEN v4 ELSE old.sha
    <3>1. c \in Commits \cup {None}
      BY <1>3, <2>a DEF PR!Pulls
    <3>2. p = ChangedTo(old, status, base, c)
      BY DEF ChangedTo
    <3> HIDE DEF c, p
    <3> QED
      BY <2>a, <3>1, <3>2, ChangedIsPull
  <2> HIDE DEF p
  <2>4. v5' \in Seq(PR!Pulls) /\ Len(v5') = Len(v5) /\ DOMAIN v5' = DOMAIN v5
    BY <1>3, <2>2, <2>3
  <2>5. ASSUME NEW m \in DOMAIN v5
        PROVE  /\ v5[m].ver <= v5'[m].ver
               /\ v5[m].status = "MERGED" => v5'[m].status = "MERGED"
    <3>1. CASE m = n
      <4>1. v5'[m] = p /\ v5[m] = old
        BY <1>3, <2>3, <3>1 DEF old
      <4> QED
        BY <2>1, <2>2, <4>1 DEF old
    <3>2. CASE m # n
      <4>1. v5'[m] = v5[m] /\ v5[m] \in PR!Pulls
        BY <1>3, <2>3, <3>2
      <4> QED
        BY <4>1 DEF PR!Pulls
    <3> QED
      BY <3>1, <3>2
  <2> QED
    BY <1>3, <2>1, <2>4, <2>5 DEF Grow
<1>7. ASSUME NEW t \in 0..MaxClock, PR!ClockIsSet(t) PROVE Fine
  <2>1. t \in Nat /\ v7' = t /\ UNCHANGED <<v1, v3, v4, v5>>
    BY <1>7 DEF PR!WellFormed, PR!ClockIsSet
  <2> QED
    BY <1>3, <1>a, <2>1
<1> HIDE DEF Fine
<1>9. Fine
  BY <1>4, <1>5, <1>6, <1>7
<1>10. PR!TypeOK'
  BY <1>2, <1>9 DEF PR!TypeOK, Fine
<1> QED
  BY <1>1, <1>9, <1>10 DEF Fine

-----------------------------------------------------------------------------
(* What operations and the window rest on, of any Pull Requests, rows,     *)
(* histories and operations.                                               *)

Fits(ps, rs, hs, op) ==
  /\ op.at \in PR!Places(op.what)
  /\ op.at \in {"details", "record"} =>
       /\ op.pull \in PR!Snapshots
       /\ op.pull.number \in DOMAIN ps /\ op.pull.seen <= ps[op.pull.number].ver
       /\ op.pull.status = "MERGED" => ps[op.pull.number].status = "MERGED"
       /\ \A k \in DOMAIN hs[op.pull.number] :
            /\ hs[op.pull.number][k].seen <= op.pull.seen
            /\ hs[op.pull.number][k].status = "MERGED" => op.pull.status = "MERGED"
  /\ op.what = "create" /\ op.at = "record" => op.pull.base = "main"
  /\ op.what = "refresh" /\ op.at # "find" => \E r \in rs : r.number = op.number
  /\ op.what = "refresh" /\ op.at \in {"details", "record"} => op.pull.number = op.number
  /\ op.what = "refresh" /\ op.at = "record" =>
       /\ op.raw \in [reviews : ReviewLists, checks : CheckLists]
       /\ op.pull.review = PR!ReviewState(op.raw.reviews)
       /\ op.pull.checks = PR!CheckState(op.raw.checks)

LEMMA UnderWayFits ==
  /\ \A op : PR!UnderWay(op) <=> Fits(v5, v9, v10, op)
  /\ PR!OperationsFit <=> \A i \in DOMAIN v11 :
       Fits(v5, v9, v10, v11[i]) /\ (i > 1 => v11[i].at \in {"inspect", "find"})
<1>1. ASSUME NEW op PROVE PR!UnderWay(op) <=> Fits(v5, v9, v10, op)
  BY Zenon DEF PR!UnderWay, PR!WasTrue, PR!IsLater, Fits
<1> QED
  BY <1>1 DEF PR!OperationsFit

LEMMA FitsStill ==
  ASSUME NEW ps \in Seq(PR!Pulls), NEW qs \in Seq(PR!Pulls), Grow(ps, qs),
         NEW rs, NEW hs, NEW op, Fits(ps, rs, hs, op)
  PROVE  Fits(qs, rs, hs, op)
<1>1. ASSUME op.at \in {"details", "record"}
      PROVE  /\ op.pull.number \in DOMAIN qs /\ op.pull.seen <= qs[op.pull.number].ver
             /\ op.pull.status = "MERGED" => qs[op.pull.number].status = "MERGED"
  <2> DEFINE n == op.pull.number
  <2>1. /\ n \in DOMAIN ps /\ op.pull.seen <= ps[n].ver
        /\ op.pull.status = "MERGED" => ps[n].status = "MERGED"
        /\ op.pull \in PR!Snapshots
    BY <1>1 DEF Fits
  <2>2. op.pull.seen \in Nat
    BY <2>1 DEF PR!Snapshots
  <2>3. n \in DOMAIN qs /\ ps[n].ver <= qs[n].ver
        /\ (ps[n].status = "MERGED" => qs[n].status = "MERGED")
    BY <2>1 DEF Grow
  <2>4. ps[n].ver \in Nat /\ qs[n].ver \in Nat
    BY <2>1, <2>3, PullFields
  <2> HIDE DEF n
  <2> QED
    BY <2>1, <2>2, <2>3, <2>4 DEF n
<1> QED
  BY <1>1, Zenon DEF Fits

Ordered(os, rs, is, sh) ==
  LET asks(what) == \E i \in DOMAIN os : os[i].what = what
      mayCreate == \/ asks("create")
                   \/ sh # None /\ sh.create
                   \/ is # None /\ is.table = {}
  IN /\ \A i, j \in DOMAIN os :
          os[i].what = "refresh" /\ os[j].what = "create" => j < i
     /\ asks("refresh") => /\ rs # {}
                           /\ is # None => is.table # {}
                           /\ sh # None => ~ sh.create
     /\ mayCreate => \A r \in rs : r.base = "main"
     /\ is # None /\ is.table # {} => rs # {}
     /\ sh # None /\ sh.number # None => rs # {}
     /\ sh # None /\ sh.create => sh.number = None
     /\ sh = None \/ is = None

LEMMA CreatesAreOrdered == PR!CreatesComeFirst <=> Ordered(v11, v9, v13, v14)
BY Zenon DEF PR!CreatesComeFirst, Ordered

\* Operations that follow others: the first of them may have ended.
Follow(qs, os) ==
  \E d \in {0, 1} : \A i \in DOMAIN qs : /\ i \in Nat /\ i + d \in DOMAIN os
                                         /\ qs[i].what = os[i + d].what

LEMMA OrderStays ==
  ASSUME NEW os, NEW qs, Follow(qs, os), NEW rs, NEW is, NEW sh, Ordered(os, rs, is, sh)
  PROVE  Ordered(qs, rs, is, sh)
<1> DEFINE asks(s, what) == \E i \in DOMAIN s : s[i].what = what
<1>1. PICK d \in {0, 1} : \A i \in DOMAIN qs : /\ i \in Nat /\ i + d \in DOMAIN os
                                               /\ qs[i].what = os[i + d].what
  BY DEF Follow
<1>2. ASSUME NEW what, asks(qs, what) PROVE asks(os, what)
  BY <1>1, <1>2
<1>3. ASSUME NEW i \in DOMAIN qs, NEW j \in DOMAIN qs,
             qs[i].what = "refresh", qs[j].what = "create"
      PROVE  j < i
  <2>1. /\ os[i + d].what = "refresh" /\ os[j + d].what = "create"
        /\ i + d \in DOMAIN os /\ j + d \in DOMAIN os /\ i \in Nat /\ j \in Nat
    BY <1>1, <1>3
  <2>2. j + d < i + d
    BY <2>1 DEF Ordered
  <2> QED
    BY <2>1, <2>2
<1>4. asks(qs, "create") => asks(os, "create")
  BY <1>2
<1>5. asks(qs, "refresh") => asks(os, "refresh")
  BY <1>2
<1> QED
  BY <1>3, <1>4, <1>5 DEF Ordered

-----------------------------------------------------------------------------
(* The steps outside and of the window.                                    *)

LEMMA StoreStays ==
  ASSUME PR!StoreIsTrue, v5 \in Seq(PR!Pulls), v5' \in Seq(PR!Pulls),
         v10 \in [1..MaxPulls -> Seq(PR!Snapshots)], Grow(v5, v5'),
         UNCHANGED <<v9, v10>>
  PROVE  PR!StoreIsTrue'
<1>1. ASSUME NEW n \in DOMAIN v10, NEW k \in DOMAIN v10[n]
      PROVE  /\ n \in DOMAIN v5' /\ v10[n][k].seen <= v5'[n].ver
             /\ v10[n][k].status = "MERGED" => v5'[n].status = "MERGED"
  <2>1. /\ n \in DOMAIN v5 /\ v10[n][k].seen <= v5[n].ver
        /\ v10[n][k].status = "MERGED" => v5[n].status = "MERGED"
    BY DEF PR!StoreIsTrue, PR!WasTrue
  <2>2. v10[n][k] \in PR!Snapshots
    OBVIOUS
  <2>3. v10[n][k].seen \in Nat
    BY <2>2 DEF PR!Snapshots
  <2>4. /\ n \in DOMAIN v5' /\ v5[n].ver <= v5'[n].ver
        /\ v5[n].status = "MERGED" => v5'[n].status = "MERGED"
    BY <2>1 DEF Grow
  <2>5. v5[n].ver \in Nat /\ v5'[n].ver \in Nat
    BY <2>1, <2>4, PullFields
  <2> QED
    BY <2>1, <2>3, <2>4, <2>5
<1>2. \A r \in v9 : r.number \in DOMAIN v5'
  BY DEF PR!StoreIsTrue, Grow
<1> QED
  BY <1>1, <1>2 DEF PR!StoreIsTrue, PR!WasTrue

LEMMA OutsideKeeps ==
  ASSUME PR!IInv, PR!TypeOK', Grow(v5, v5'), UNCHANGED <<PR!stored, v11, PR!window>>
  PROVE  PR!IInv'
<1>1. UNCHANGED <<v9, v10, v11, v13, v14>>
  BY DEF PR!stored, PR!window
<1>2. v5 \in Seq(PR!Pulls) /\ v5' \in Seq(PR!Pulls) /\ v10 \in [1..MaxPulls -> Seq(PR!Snapshots)]
      /\ v9 \subseteq PR!Snapshots
  BY DEF PR!IInv, PR!TypeOK
<1>3. PR!OneRow' /\ PR!HistoryIsTold' /\ PR!CreatesComeFirst'
  BY <1>1, Zenon DEF PR!IInv, PR!OneRow, PR!HistoryIsTold, PR!CreatesComeFirst
<1>4. PR!OperationsFit'
  <2>1. \A i \in DOMAIN v11 :
          Fits(v5, v9, v10, v11[i]) /\ (i > 1 => v11[i].at \in {"inspect", "find"})
    BY UnderWayFits DEF PR!IInv
  <2>2. \A i \in DOMAIN v11 : Fits(v5', v9, v10, v11[i])
    BY <1>2, <2>1, FitsStill
  <2>3. \A i \in DOMAIN v11' :
          Fits(v5', v9', v10', v11'[i]) /\ (i > 1 => v11'[i].at \in {"inspect", "find"})
    BY <1>1, <2>1, <2>2
  <2> QED
    BY <2>3, Zenon DEF PR!OperationsFit, PR!UnderWay, Fits, PR!WasTrue, PR!IsLater
<1>5. PR!StoreIsTrue'
  BY <1>1, <1>2, StoreStays DEF PR!IInv
<1> QED
  BY <1>3, <1>4, <1>5 DEF PR!IInv

LEMMA WindowKeeps ==
  ASSUME PR!IInv, UNCHANGED <<PR!outside, v3, PR!stored>>,
         v11' \in Seq(PR!Operations),
         v13' = None \/ v13' \in [table : SUBSET PR!Snapshots],
         v13' # None => \A r, s \in v13'.table : r = s,
         v14' = None \/ v14' \in [push : BOOLEAN, create : BOOLEAN,
                                  number : Nat \cup {None}],
         \A i \in DOMAIN v11' : /\ Fits(v5, v9, v10, v11'[i])
                                /\ i > 1 => v11'[i].at \in {"inspect", "find"},
         Ordered(v11', v9, v13', v14')
  PROVE  PR!IInv'
<1>1. UNCHANGED <<v1, v3, v4, v5, v7, v9, v10>>
  BY DEF PR!outside, PR!stored
<1>2. PR!TypeOK'
  BY <1>1, Zenon DEF PR!IInv, PR!TypeOK
<1>3. PR!OneRow' /\ PR!HistoryIsTold' /\ PR!StoreIsTrue'
  <2>1. PR!OneRow'
    BY <1>1, Zenon DEF PR!IInv, PR!OneRow
  <2>2. PR!HistoryIsTold'
    BY <1>1, Zenon DEF PR!IInv, PR!HistoryIsTold
  <2>3. PR!StoreIsTrue'
    <3>1. PR!StoreIsTrue
      BY DEF PR!IInv
    <3> QED
      BY <1>1, <3>1 DEF PR!StoreIsTrue, PR!WasTrue
  <2> QED
    BY <2>1, <2>2, <2>3
<1>4. PR!OperationsFit'
  BY <1>1, Zenon DEF PR!OperationsFit, PR!UnderWay, Fits, PR!WasTrue, PR!IsLater
<1>5. PR!CreatesComeFirst'
  BY <1>1, Zenon DEF PR!CreatesComeFirst, Ordered
<1> QED
  BY <1>2, <1>3, <1>4, <1>5 DEF PR!IInv

LEMMA InspectKeeps == ASSUME PR!IInv, PR!Inspect PROVE PR!IInv'
<1>1. /\ v13 = None /\ v14 = None /\ v13' = [table |-> v9]
      /\ UNCHANGED <<PR!outside, v3, PR!stored, v11, v14>>
  BY DEF PR!Inspect
<1>2. /\ v9 \subseteq PR!Snapshots /\ v11 \in Seq(PR!Operations) /\ \A r, s \in v9 : r = s
  BY DEF PR!IInv, PR!TypeOK, PR!OneRow
<1>3. \A i \in DOMAIN v11 : /\ Fits(v5, v9, v10, v11[i])
                            /\ i > 1 => v11[i].at \in {"inspect", "find"}
  BY UnderWayFits DEF PR!IInv
<1>4. v13'.table = v9 /\ v13' \in [table : SUBSET PR!Snapshots]
  BY <1>1, <1>2
<1>5. Ordered(v11', v9, v13', v14')
  <2>1. Ordered(v11, v9, v13, v14)
    BY CreatesAreOrdered DEF PR!IInv
  <2> QED
    BY <1>1, <1>4, <2>1 DEF Ordered
<1> QED
  BY <1>1, <1>2, <1>3, <1>4, <1>5, WindowKeeps

LEMMA ShowKeeps == ASSUME PR!IInv, PR!Show PROVE PR!IInv'
<1> DEFINE number == PR!LastSynced(v13.table)
           new == [push |-> PR!Ready /\ v3 # v1,
                   create |-> PR!Ready /\ v6 /\ v3 = v1 /\ number = None,
                   number |-> number]
<1>1. /\ v13 # None /\ v13' = None /\ v14' = new
      /\ UNCHANGED <<PR!outside, v3, PR!stored, v11>>
  BY DEF PR!Show
<1>2. /\ v13.table \in SUBSET PR!Snapshots /\ v11 \in Seq(PR!Operations)
      /\ \A r, s \in v13.table : r = s
  BY <1>1 DEF PR!IInv, PR!TypeOK, PR!OneRow
<1>3. number \in Nat \cup {None} /\ (number = None <=> v13.table = {})
  BY <1>2, LastSyncedIs
<1> HIDE DEF number
<1>4. /\ new \in [push : BOOLEAN, create : BOOLEAN, number : Nat \cup {None}]
      /\ new.number = number
      /\ new.create => number = None
  BY <1>3
<1> HIDE DEF new
<1>5. \A i \in DOMAIN v11 : /\ Fits(v5, v9, v10, v11[i])
                            /\ i > 1 => v11[i].at \in {"inspect", "find"}
  BY UnderWayFits DEF PR!IInv
<1>6. Ordered(v11', v9, v13', v14')
  <2>1. Ordered(v11, v9, v13, v14)
    BY CreatesAreOrdered DEF PR!IInv
  <2> DEFINE asks(what) == \E i \in DOMAIN v11 : v11[i].what = what
  <2>2. new.create => v13.table = {}
    BY <1>3, <1>4
  <2>3. number # None => v9 # {}
    BY <1>1, <1>3, <2>1 DEF Ordered
  <2>4. asks("create") \/ new.create => \A r \in v9 : r.base = "main"
    BY <1>1, <2>1, <2>2 DEF Ordered
  <2>5. asks("refresh") => v9 # {} /\ ~ new.create
    BY <1>1, <2>1, <2>2 DEF Ordered
  <2>6. \A i, j \in DOMAIN v11 :
          v11[i].what = "refresh" /\ v11[j].what = "create" => j < i
    BY <2>1, Zenon DEF Ordered
  <2>7. Ordered(v11, v9, None, new)
    BY <1>4, <2>3, <2>4, <2>5, <2>6 DEF Ordered
  <2> QED
    BY <1>1, <2>7
<1> QED
  BY <1>1, <1>2, <1>4, <1>5, <1>6, WindowKeeps

LEMMA ReloadKeeps == ASSUME PR!IInv, PR!Reload PROVE PR!IInv'
<1>1. /\ v14' = None /\ v13' = None /\ UNCHANGED <<PR!outside, v3, PR!stored>>
      /\ v11' = v11 \/ v11' = [i \in DOMAIN v11 |-> [v11[i] EXCEPT !.mine = FALSE]]
  BY DEF PR!Reload
<1>2. v11 \in Seq(PR!Operations) /\ DOMAIN v11 = 1..Len(v11) /\ Len(v11) \in Nat
  BY DEF PR!IInv, PR!TypeOK
<1>3. \A i \in DOMAIN v11 : /\ Fits(v5, v9, v10, v11[i])
                            /\ i > 1 => v11[i].at \in {"inspect", "find"}
  BY UnderWayFits DEF PR!IInv
<1>4. ASSUME NEW i \in DOMAIN v11
      PROVE  /\ i \in DOMAIN v11' /\ v11'[i] \in PR!Operations /\ v11'[i].what = v11[i].what
             /\ v11'[i].at = v11[i].at
             /\ Fits(v5, v9, v10, v11'[i])
  <2>1. v11[i] \in PR!Operations
    BY <1>2
  <2>2. CASE v11' = v11
    BY <1>3, <2>1, <2>2
  <2>3. CASE v11' = [j \in DOMAIN v11 |-> [v11[j] EXCEPT !.mine = FALSE]]
    <3> DEFINE old == v11[i]
               op == [old EXCEPT !.mine = FALSE]
    <3>1. i \in DOMAIN v11' /\ v11'[i] = op /\ v11[i] = old
      BY <2>3
    <3>2. old \in PR!Operations /\ Fits(v5, v9, v10, old)
      BY <1>3, <2>1
    <3> HIDE DEF old
    <3>3. /\ op.what = old.what /\ op.number = old.number /\ op.at = old.at
          /\ op.branch = old.branch /\ op.again = old.again /\ op.synced = old.synced
          /\ op.pull = old.pull /\ op.raw = old.raw
      BY <3>2 DEF PR!Operations
    <3>4. op \in PR!Operations
      BY <3>2 DEF PR!Operations
    <3> HIDE DEF op
    <3>5. Fits(v5, v9, v10, op)
      BY <3>2, <3>3 DEF Fits
    <3> QED
      BY <3>1, <3>3, <3>4, <3>5
  <2> QED
    BY <1>1, <2>2, <2>3
<1>5. DOMAIN v11' = DOMAIN v11 /\ v11' \in Seq(PR!Operations)
  <2>1. CASE v11' = v11
    BY <1>2, <2>1
  <2>2. CASE v11' = [j \in DOMAIN v11 |-> [v11[j] EXCEPT !.mine = FALSE]]
    <3>1. DOMAIN v11' = DOMAIN v11 /\ v11' = [j \in 1..Len(v11) |-> v11'[j]]
      BY <1>2, <2>2
    <3> QED
      BY <1>2, <1>4, <3>1
  <2> QED
    BY <1>1, <2>1, <2>2
<1>6. Ordered(v11', v9, v13', v14')
  <2>1. Ordered(v11, v9, v13, v14)
    BY CreatesAreOrdered DEF PR!IInv
  <2>2. Follow(v11', v11)
    BY <1>2, <1>4, <1>5 DEF Follow
  <2>3. Ordered(v11', v9, v13, v14)
    BY <2>1, <2>2, OrderStays
  <2> QED
    BY <1>1, <2>3 DEF Ordered
<1>7. \A i \in DOMAIN v11' : /\ Fits(v5, v9, v10, v11'[i])
                             /\ i > 1 => v11'[i].at \in {"inspect", "find"}
  BY <1>3, <1>4, <1>5
<1> QED
  BY <1>1, <1>5, <1>6, <1>7, WindowKeeps

LEMMA AskKeeps ==
  ASSUME PR!IInv, NEW what \in {"push", "create", "refresh"}, PR!Ask(what) PROVE PR!IInv'
<1> DEFINE op == [what |-> what, number |-> v14.number, mine |-> TRUE,
                  at |-> IF what = "refresh" THEN "find" ELSE "inspect",
                  branch |-> None, again |-> None, synced |-> 0,
                  pull |-> None, raw |-> None]
<1>1. /\ v14 # None /\ PR!Offers(what) /\ v11' = Append(v11, op)
      /\ UNCHANGED <<PR!outside, v3, PR!stored, v13, v14>>
  BY DEF PR!Ask
<1>2. /\ v11 \in Seq(PR!Operations) /\ DOMAIN v11 = 1..Len(v11) /\ Len(v11) \in Nat
      /\ v14 \in [push : BOOLEAN, create : BOOLEAN, number : Nat \cup {None}]
  BY <1>1 DEF PR!IInv, PR!TypeOK
<1>3. \A i \in DOMAIN v11 : /\ Fits(v5, v9, v10, v11[i])
                            /\ i > 1 => v11[i].at \in {"inspect", "find"}
  BY UnderWayFits DEF PR!IInv
<1>4. Ordered(v11, v9, v13, v14)
  BY CreatesAreOrdered DEF PR!IInv
<1>5. v13 = None
  BY <1>1, <1>4 DEF Ordered
<1>6. /\ what = "create" => v14.create
      /\ what = "refresh" => v14.number # None
  BY <1>1 DEF PR!Offers
<1>a. op.what = what /\ op.at \in {"inspect", "find"} /\ op.at \in PR!Places(what)
      /\ (what = "refresh" => op.at = "find")
  BY ThePlaces
<1>b. op \in PR!Operations
  BY <1>2, <1>a, ThePlaces DEF PR!Operations
<1> HIDE DEF op
<1>7. Fits(v5, v9, v10, op)
  BY <1>a DEF Fits
<1>8. /\ v11' \in Seq(PR!Operations) /\ DOMAIN v11' = 1..(Len(v11) + 1)
      /\ \A i \in DOMAIN v11 : v11'[i] = v11[i]
      /\ v11'[Len(v11) + 1] = op
  BY <1>1, <1>2, <1>b
<1>9. ASSUME NEW i \in DOMAIN v11'
      PROVE  /\ Fits(v5, v9, v10, v11'[i])
             /\ i > 1 => v11'[i].at \in {"inspect", "find"}
  <2>1. i \in DOMAIN v11 \/ i = Len(v11) + 1
    BY <1>2, <1>8
  <2> QED
    BY <1>3, <1>7, <1>8, <1>a, <2>1
<1>10. Ordered(v11', v9, v13, v14)
  <2> DEFINE asks(s, w) == \E i \in DOMAIN s : s[i].what = w
  <2>1. \A w : asks(v11', w) => asks(v11, w) \/ w = what
    BY <1>2, <1>8, <1>a
  <2>2. asks(v11', "create") => asks(v11, "create") \/ v14.create
    BY <1>6, <2>1
  <2>3. asks(v11', "refresh") => asks(v11, "refresh") \/ v14.number # None
    BY <1>6, <2>1
  <2>4. asks(v11, "refresh") => v9 # {} /\ ~ v14.create
    BY <1>1, <1>4 DEF Ordered
  <2>5. v14.number # None => v9 # {} /\ ~ v14.create
    BY <1>1, <1>4 DEF Ordered
  <2>6. asks(v11, "create") \/ v14.create => \A r \in v9 : r.base = "main"
    BY <1>1, <1>4 DEF Ordered
  <2>7. ASSUME NEW i \in DOMAIN v11', NEW j \in DOMAIN v11',
               v11'[i].what = "refresh", v11'[j].what = "create"
        PROVE  j < i
    <3>1. CASE i \in DOMAIN v11 /\ j \in DOMAIN v11
      BY <1>4, <1>8, <2>7, <3>1 DEF Ordered
    <3>2. CASE i \in DOMAIN v11 /\ j \notin DOMAIN v11
      <4>1. what = "create" /\ asks(v11, "refresh")
        BY <1>2, <1>8, <1>a, <2>7, <3>2
      <4> QED
        BY <1>6, <2>4, <4>1
    <3>3. CASE i \notin DOMAIN v11
      <4>1. i = Len(v11) + 1 /\ what = "refresh"
        BY <1>2, <1>8, <1>a, <2>7, <3>3
      <4>2. j # Len(v11) + 1
        BY <1>8, <1>a, <2>7, <4>1
      <4> QED
        BY <1>2, <1>8, <4>1, <4>2
    <3> QED
      BY <3>1, <3>2, <3>3
  <2>8. /\ v14 # None /\ v14.number # None => v9 # {}
        /\ v14 # None /\ v14.create => v14.number = None
    BY <1>4 DEF Ordered
  <2> QED
    BY <1>1, <1>5, <2>2, <2>3, <2>4, <2>5, <2>6, <2>7, <2>8 DEF Ordered
<1> QED
  BY <1>1, <1>2, <1>5, <1>8, <1>9, <1>10, WindowKeeps

-----------------------------------------------------------------------------
(* The steps of the first operation, but for the last one.                 *)

\* Git and GitHub as a step of an operation leaves them.
WorldFits ==
  /\ v1' \in Commits /\ v3' \in Commits \cup {None} /\ v4' \in Commits \cup {None}
  /\ v5' \in Seq(PR!Pulls) /\ Len(v5') <= MaxPulls /\ v7' \in Nat
  /\ Grow(v5, v5')

LEMMA SameWorldFits == ASSUME PR!IInv, UNCHANGED <<PR!outside, v3>> PROVE WorldFits
<1>1. UNCHANGED <<v1, v3, v4, v5, v7>>
  BY DEF PR!outside
<1>2. /\ v1 \in Commits /\ v3 \in Commits \cup {None} /\ v4 \in Commits \cup {None}
      /\ v5 \in Seq(PR!Pulls) /\ Len(v5) <= MaxPulls /\ v7 \in Nat
  BY DEF PR!IInv, PR!TypeOK
<1> QED
  BY <1>1, <1>2, GrowsNot DEF WorldFits

LEMMA QueueKeeps ==
  ASSUME PR!IInv, WorldFits, UNCHANGED <<PR!stored, PR!window>>,
         v11' \in Seq(PR!Operations), Follow(v11', v11),
         \A i \in DOMAIN v11' : /\ Fits(v5', v9, v10, v11'[i])
                                /\ i > 1 => v11'[i].at \in {"inspect", "find"}
  PROVE  PR!IInv'
<1>1. UNCHANGED <<v9, v10, v13, v14>>
  BY DEF PR!stored, PR!window
<1>2. PR!TypeOK'
  <2>1. /\ v9 \subseteq PR!Snapshots /\ v10 \in [1..MaxPulls -> Seq(PR!Snapshots)]
        /\ v13 = None \/ v13 \in [table : SUBSET PR!Snapshots]
        /\ v14 = None \/ v14 \in [push : BOOLEAN, create : BOOLEAN,
                                  number : Nat \cup {None}]
    BY DEF PR!IInv, PR!TypeOK
  <2> QED
    BY <1>1, <2>1 DEF PR!TypeOK, WorldFits
<1>3. PR!OneRow' /\ PR!HistoryIsTold'
  BY <1>1, Zenon DEF PR!IInv, PR!OneRow, PR!HistoryIsTold
<1>4. PR!StoreIsTrue'
  <2>1. /\ v5 \in Seq(PR!Pulls) /\ v5' \in Seq(PR!Pulls)
        /\ v10 \in [1..MaxPulls -> Seq(PR!Snapshots)]
    BY DEF PR!IInv, PR!TypeOK, WorldFits
  <2> QED
    BY <1>1, <2>1, StoreStays DEF PR!IInv, WorldFits
<1>5. PR!OperationsFit'
  BY <1>1, Zenon DEF PR!OperationsFit, PR!UnderWay, Fits, PR!WasTrue, PR!IsLater
<1>6. PR!CreatesComeFirst'
  <2>1. Ordered(v11', v9, v13, v14)
    BY CreatesAreOrdered, OrderStays DEF PR!IInv
  <2> QED
    BY <1>1, <2>1, Zenon DEF PR!CreatesComeFirst, Ordered
<1> QED
  BY <1>2, <1>3, <1>4, <1>5, <1>6 DEF PR!IInv

\* The first operation ends.
LEMMA EndKeeps ==
  ASSUME PR!IInv, WorldFits, NEW i, i \in DOMAIN v11, PR!HasTurn(i), PR!Ends(i)
  PROVE  PR!IInv'
<1>1. i = 1 /\ 1 \in DOMAIN v11 /\ v11' = PR!RemoveAt(v11, 1) /\ UNCHANGED <<PR!stored, PR!window>>
  BY DEF PR!HasTurn, PR!Ends
<1>2. /\ v11 \in Seq(PR!Operations) /\ v5 \in Seq(PR!Pulls) /\ v5' \in Seq(PR!Pulls)
      /\ Grow(v5, v5')
  BY DEF PR!IInv, PR!TypeOK, WorldFits
<1>3. /\ v11' \in Seq(PR!Operations)
      /\ \A j \in DOMAIN v11' : j + 1 \in DOMAIN v11 /\ v11'[j] = v11[j + 1]
      /\ \A j \in DOMAIN v11' : j \in Nat /\ j >= 1
  <2>1. /\ PR!RemoveAt(v11, 1) \in Seq(PR!Operations)
        /\ \A j \in DOMAIN PR!RemoveAt(v11, 1) :
             j + 1 \in DOMAIN v11 /\ PR!RemoveAt(v11, 1)[j] = v11[j + 1]
    BY <1>1, <1>2, WithoutFirst
  <2> QED
    BY <1>1, <2>1
<1>4. \A j \in DOMAIN v11 : /\ Fits(v5, v9, v10, v11[j])
                            /\ j > 1 => v11[j].at \in {"inspect", "find"}
  BY UnderWayFits DEF PR!IInv
<1>5. Follow(v11', v11)
  BY <1>3 DEF Follow
<1>6. \A j \in DOMAIN v11' : Fits(v5', v9, v10, v11'[j])
  BY <1>2, <1>3, <1>4, FitsStill
<1>7. \A j \in DOMAIN v11' : v11'[j].at \in {"inspect", "find"}
  BY <1>3, <1>4
<1> QED
  BY <1>1, <1>3, <1>5, <1>6, <1>7, QueueKeeps

\* The first operation goes on.
LEMMA GoKeeps ==
  ASSUME PR!IInv, WorldFits, NEW i, i \in DOMAIN v11, PR!HasTurn(i),
         NEW op \in PR!Operations, op.what = v11[i].what, Fits(v5', v9, v10, op),
         PR!Goes(i, op)
  PROVE  PR!IInv'
<1>1. /\ i = 1 /\ 1 \in DOMAIN v11 /\ v11' = [v11 EXCEPT ![1] = op]
      /\ UNCHANGED <<PR!stored, PR!window>>
  BY DEF PR!HasTurn, PR!Goes
<1>2. /\ v11 \in Seq(PR!Operations) /\ v5 \in Seq(PR!Pulls) /\ v5' \in Seq(PR!Pulls)
      /\ Grow(v5, v5')
  BY DEF PR!IInv, PR!TypeOK, WorldFits
<1>3. /\ v11' \in Seq(PR!Operations) /\ DOMAIN v11' = DOMAIN v11 /\ v11'[1] = op
      /\ \A j \in DOMAIN v11 : j # 1 => v11'[j] = v11[j]
      /\ \A j \in DOMAIN v11 : j \in Nat /\ j >= 1
  BY <1>1, <1>2
<1>4. \A j \in DOMAIN v11 : /\ Fits(v5, v9, v10, v11[j])
                            /\ j > 1 => v11[j].at \in {"inspect", "find"}
  BY UnderWayFits DEF PR!IInv
<1>5. Follow(v11', v11)
  BY <1>1, <1>3 DEF Follow
<1>6. ASSUME NEW j \in DOMAIN v11' PROVE Fits(v5', v9, v10, v11'[j])
  <2>1. CASE j = 1
    BY <1>3, <2>1
  <2>2. CASE j # 1
    <3>1. v11'[j] = v11[j] /\ Fits(v5, v9, v10, v11[j])
      BY <1>3, <1>4, <2>2
    <3> QED
      BY <1>2, <3>1, FitsStill
  <2> QED
    BY <2>1, <2>2
<1>7. \A j \in DOMAIN v11' : j > 1 => v11'[j].at \in {"inspect", "find"}
  BY <1>3, <1>4
<1> QED
  BY <1>1, <1>3, <1>5, <1>6, <1>7, QueueKeeps

\* The operation that has the turn.
LEMMA TheFirst ==
  ASSUME PR!IInv, NEW i, i \in DOMAIN v11
  PROVE  /\ v11[i] \in PR!Operations /\ Fits(v5, v9, v10, v11[i])
         /\ v1 \in Commits /\ v4 \in Commits \cup {None} /\ v7 \in Nat
         /\ v5 \in Seq(PR!Pulls) /\ Len(v5) <= MaxPulls
<1>1. v11 \in Seq(PR!Operations)
  BY DEF PR!IInv, PR!TypeOK
<1>2. v11[i] \in PR!Operations
  BY <1>1
<1>3. Fits(v5, v9, v10, v11[i])
  BY UnderWayFits DEF PR!IInv
<1> QED
  BY <1>2, <1>3 DEF PR!IInv, PR!TypeOK

\* What is shown now is later than what is stored.
LEMMA NowIsLater ==
  ASSUME PR!WellFormed, PR!IInv, NEW n \in DOMAIN v5, NEW t \in Nat
  PROVE  /\ PR!Snapshot(n, t) \in PR!Snapshots
         /\ PR!Snapshot(n, t).number = n /\ PR!Snapshot(n, t).base = v5[n].base
         /\ PR!Snapshot(n, t).seen = v5[n].ver /\ v5[n].ver <= v5[n].ver
         /\ PR!Snapshot(n, t).status = v5[n].status
         /\ n \in DOMAIN v10
         /\ \A k \in DOMAIN v10[n] :
              /\ v10[n][k].seen <= v5[n].ver
              /\ v10[n][k].status = "MERGED" => v5[n].status = "MERGED"
<1>1. /\ v5 \in Seq(PR!Pulls) /\ Len(v5) <= MaxPulls
      /\ v10 \in [1..MaxPulls -> Seq(PR!Snapshots)]
  BY DEF PR!IInv, PR!TypeOK
<1>2. n \in 1..Len(v5) /\ n \in DOMAIN v10 /\ n \in Nat
  BY <1>1 DEF PR!WellFormed
<1>3. PR!Snapshot(n, t) \in PR!Snapshots
  BY <1>1, SnapshotFits
<1>4. \A k \in DOMAIN v10[n] :
        /\ v10[n][k].seen <= v5[n].ver
        /\ v10[n][k].status = "MERGED" => v5[n].status = "MERGED"
  BY <1>2 DEF PR!IInv, PR!StoreIsTrue, PR!WasTrue
<1>5. v5[n].ver \in Nat
  BY <1>1, PullFields
<1>6. /\ PR!Snapshot(n, t).number = n /\ PR!Snapshot(n, t).base = v5[n].base
      /\ PR!Snapshot(n, t).seen = v5[n].ver /\ PR!Snapshot(n, t).status = v5[n].status
  BY DEF PR!Snapshot
<1> QED
  BY <1>2, <1>3, <1>4, <1>5, <1>6

LEMMA EndingSteps ==
  ASSUME PR!IInv, NEW i,
         \/ PR!GitFails(i) \/ PR!GhFails(i) \/ PR!AnswerIsRefused(i) \/ PR!PushVerifies(i) \/ PR!FindsNone(i)
  PROVE  PR!IInv'
<1>1. i \in DOMAIN v11 /\ PR!HasTurn(i) /\ PR!Ends(i) /\ UNCHANGED <<PR!outside, v3>>
  BY DEF PR!GitFails, PR!GhFails, PR!AnswerIsRefused, PR!PushVerifies, PR!FindsNone, PR!At
<1> QED
  BY <1>1, SameWorldFits, EndKeeps

LEMMA PushInspectsKeeps == ASSUME PR!IInv, NEW i, PR!PushInspects(i) PROVE PR!IInv'
<1> DEFINE old == v11[i]
           op == [old EXCEPT !.at = "push", !.branch = v1]
<1>1. /\ i \in DOMAIN v11 /\ PR!HasTurn(i) /\ old.what = "push"
      /\ PR!Goes(i, op) \/ PR!Ends(i)
      /\ UNCHANGED <<PR!outside, v3>>
  BY DEF PR!PushInspects, PR!At
<1>2. old \in PR!Operations /\ v1 \in Commits /\ old.what = v11[i].what
  BY <1>1, TheFirst
<1> HIDE DEF old
<1>3. op \in PR!Operations
  BY <1>2, ThePlaces DEF PR!Operations
<1>4. op.what = old.what /\ op.at = "push"
  BY <1>2 DEF PR!Operations
<1> HIDE DEF op
<1>5. Fits(v5', v9, v10, op)
  BY <1>1, <1>4, ThePlaces DEF Fits
<1> QED
  BY <1>1, <1>2, <1>3, <1>4, <1>5, SameWorldFits, GoKeeps, EndKeeps

LEMMA PushesKeeps == ASSUME PR!IInv, NEW i, PR!Pushes(i) PROVE PR!IInv'
<1> DEFINE old == v11[i]
           op == [old EXCEPT !.at = "verify"]
<1>1. /\ i \in DOMAIN v11 /\ PR!HasTurn(i) /\ old.what = "push"
      /\ v4' = old.branch /\ v5' = PR!Moved(old.branch)
      /\ \/ v3' = old.branch /\ PR!Goes(i, op)
         \/ UNCHANGED v3 /\ PR!Ends(i)
      /\ UNCHANGED <<v1, v7>>
  BY DEF PR!Pushes, PR!At
<1>2. old \in PR!Operations /\ old.what = v11[i].what
  BY <1>1, TheFirst
<1> HIDE DEF old
<1>3. old.branch \in Commits \cup {None}
  BY <1>2 DEF PR!Operations
<1>4. WorldFits
  <2>1. /\ v1 \in Commits /\ v3 \in Commits \cup {None}
        /\ v5 \in Seq(PR!Pulls) /\ Len(v5) <= MaxPulls /\ v7 \in Nat
    BY DEF PR!IInv, PR!TypeOK
  <2>2. PR!Moved(old.branch) \in Seq(PR!Pulls) /\ Len(PR!Moved(old.branch)) = Len(v5)
        /\ Grow(v5, PR!Moved(old.branch))
    BY <1>3, <2>1, MovedFits
  <2>3. v3' \in Commits \cup {None}
    BY <1>1, <1>3, <2>1
  <2>4. v5' \in Seq(PR!Pulls) /\ Len(v5') <= MaxPulls /\ Grow(v5, v5')
    BY <1>1, <2>1, <2>2
  <2> QED
    BY <1>1, <1>3, <2>1, <2>3, <2>4 DEF WorldFits
<1>5. op \in PR!Operations
  BY <1>2, ThePlaces DEF PR!Operations
<1>6. op.what = old.what /\ op.at = "verify"
  BY <1>2 DEF PR!Operations
<1> HIDE DEF op
<1>7. Fits(v5', v9, v10, op)
  BY <1>1, <1>6, ThePlaces DEF Fits
<1> QED
  BY <1>1, <1>2, <1>4, <1>5, <1>6, <1>7, GoKeeps, EndKeeps

LEMMA CreateInspectsKeeps ==
  ASSUME PR!IInv, NEW i, PR!CreateInspects(i) \/ PR!InspectsAgain(i) \/ PR!ReadsRef(i) PROVE PR!IInv'
<1> DEFINE old == v11[i]
           first == [old EXCEPT !.at = "again", !.branch = v1]
           second == [old EXCEPT !.at = "ref", !.again = v1]
           third == [old EXCEPT !.at = "list", !.synced = v7]
<1>1. /\ i \in DOMAIN v11 /\ PR!HasTurn(i) /\ old.what = "create"
      /\ PR!Goes(i, first) \/ PR!Goes(i, second) \/ PR!Goes(i, third)
      /\ UNCHANGED <<PR!outside, v3>>
  BY DEF PR!CreateInspects, PR!InspectsAgain, PR!ReadsRef, PR!At
<1>2. old \in PR!Operations /\ v1 \in Commits /\ v7 \in Nat /\ old.what = v11[i].what
  BY <1>1, TheFirst
<1> HIDE DEF old
<1>3. first \in PR!Operations /\ second \in PR!Operations /\ third \in PR!Operations
  <2>1. first \in PR!Operations
    BY <1>2, ThePlaces DEF PR!Operations
  <2>2. second \in PR!Operations
    BY <1>2, ThePlaces DEF PR!Operations
  <2>3. third \in PR!Operations
    BY <1>2, ThePlaces DEF PR!Operations
  <2> QED
    BY <2>1, <2>2, <2>3
<1>4. \A op \in {first, second, third} : op.what = old.what /\ op.at \in {"again", "ref", "list"}
  BY <1>2 DEF PR!Operations
<1> HIDE DEF first, second, third
<1>5. \A op \in {first, second, third} : Fits(v5', v9, v10, op)
  BY <1>1, <1>4, ThePlaces DEF Fits
<1>6. PICK op \in {first, second, third} : PR!Goes(i, op)
  BY <1>1
<1> QED
  BY <1>1, <1>2, <1>3, <1>4, <1>5, <1>6, SameWorldFits, GoKeeps

LEMMA ListsKeeps == ASSUME PR!WellFormed, PR!IInv, NEW i, PR!Lists(i) PROVE PR!IInv'
<1> DEFINE old == v11[i]
           found == PR!Candidates(old.again)
           pull == PR!Snapshot(PR!Suitable(found), old.synced)
           post == [old EXCEPT !.at = "post"]
           op == [old EXCEPT !.at = "record", !.pull = pull]
<1>1. /\ i \in DOMAIN v11 /\ PR!HasTurn(i) /\ old.what = "create"
      /\ IF found = {} THEN PR!Goes(i, post) ELSE PR!Goes(i, op)
      /\ UNCHANGED <<PR!outside, v3>>
  BY DEF PR!Lists, PR!At
<1>2. /\ old \in PR!Operations /\ old.what = v11[i].what /\ v5 \in Seq(PR!Pulls)
      /\ UNCHANGED v5
  BY <1>1, TheFirst DEF PR!outside
<1>3. found \subseteq DOMAIN v5 /\ \A n \in found : v5[n].base = "main"
  BY DEF PR!Candidates
<1> HIDE DEF old
<1>4. old.synced \in Nat
  BY <1>2 DEF PR!Operations
<1>5. CASE found = {}
  <2>1. post \in PR!Operations
    BY <1>2, ThePlaces DEF PR!Operations
  <2>2. post.what = old.what /\ post.at = "post"
    BY <1>2 DEF PR!Operations
  <2> HIDE DEF post
  <2>3. Fits(v5', v9, v10, post)
    BY <1>1, <2>2, ThePlaces DEF Fits
  <2> QED
    BY <1>1, <1>2, <1>5, <2>1, <2>2, <2>3, SameWorldFits, GoKeeps
<1>6. CASE found # {}
  <2> DEFINE n == PR!Suitable(found)
  <2>1. n \in DOMAIN v5 /\ v5[n].base = "main"
    BY <1>2, <1>3, <1>6, SuitableIsOne
  <2>2. pull = PR!Snapshot(n, old.synced)
    OBVIOUS
  <2> HIDE DEF n, pull, found
  <2>3. /\ pull \in PR!Snapshots /\ pull.number = n /\ pull.base = "main"
        /\ pull.seen = v5[n].ver /\ v5[n].ver <= v5[n].ver
        /\ pull.status = v5[n].status
        /\ \A k \in DOMAIN v10[n] :
             /\ v10[n][k].seen <= v5[n].ver
             /\ v10[n][k].status = "MERGED" => v5[n].status = "MERGED"
    BY <1>4, <2>1, <2>2, NowIsLater
  <2>4. op \in PR!Operations
    BY <1>2, <2>3, ThePlaces DEF PR!Operations
  <2>5. op.what = old.what /\ op.at = "record" /\ op.pull = pull
    BY <1>2 DEF PR!Operations
  <2> HIDE DEF op
  <2>6. Fits(v5, v9, v10, op)
    BY <1>1, <2>1, <2>3, <2>5, ThePlaces DEF Fits
  <2> QED
    BY <1>1, <1>2, <1>6, <2>4, <2>5, <2>6, SameWorldFits, GoKeeps
<1> QED
  BY <1>5, <1>6

LEMMA PostsKeeps == ASSUME PR!WellFormed, PR!IInv, NEW i, PR!Posts(i) PROVE PR!IInv'
<1> DEFINE old == v11[i]
           made == [base |-> "main", sha |-> v4, status |-> "OPEN", ver |-> 1]
           n == Len(v5) + 1
           pull == [number |-> n, base |-> "main", sha |-> v4, status |-> "OPEN",
                    seen |-> 1, synced |-> old.synced,
                    review |-> "UNKNOWN", checks |-> "UNKNOWN"]
           op == [old EXCEPT !.at = "record", !.pull = pull]
<1>1. /\ i \in DOMAIN v11 /\ PR!HasTurn(i) /\ old.what = "create"
      /\ Len(v5) < MaxPulls /\ v5' = Append(v5, made)
      /\ PR!Ends(i) \/ PR!Goes(i, op)
      /\ UNCHANGED <<v1, v3, v4, v7>>
  BY DEF PR!Posts, PR!At
<1>2. /\ old \in PR!Operations /\ old.what = v11[i].what
      /\ v4 \in Commits \cup {None} /\ v5 \in Seq(PR!Pulls) /\ Len(v5) \in Nat
  BY <1>1, TheFirst
<1> HIDE DEF old
<1>3. /\ old.synced \in Nat /\ n \in Nat /\ "main" \in {"main", "dev"} /\ "OPEN" \in PR!Statuses
      /\ 1 \in Nat
  BY <1>2 DEF PR!Operations, PR!Statuses
<1>4. made \in PR!Pulls /\ made.ver = 1 /\ made.status = "OPEN"
  BY <1>2, <1>3 DEF PR!Pulls
<1> HIDE DEF made
<1>5. /\ v5' \in Seq(PR!Pulls) /\ Len(v5') = n /\ v5'[n] = made /\ n \in DOMAIN v5'
      /\ DOMAIN v5 \subseteq DOMAIN v5' /\ \A m \in DOMAIN v5 : v5'[m] = v5[m]
      /\ n \notin DOMAIN v5
  BY <1>1, <1>2, <1>4
<1>6. WorldFits
  <2>1. /\ v1 \in Commits /\ v3 \in Commits \cup {None}
        /\ Len(v5) <= MaxPulls /\ v7 \in Nat
    BY DEF PR!IInv, PR!TypeOK
  <2>2. n <= MaxPulls
    BY <1>1, <1>2 DEF PR!WellFormed
  <2>3. Grow(v5, v5')
    <3>1. \A m \in DOMAIN v5 : v5[m].ver \in Nat
      BY <1>2, PullFields
    <3> QED
      BY <1>5, <3>1 DEF Grow
  <2> QED
    BY <1>1, <1>2, <1>5, <2>1, <2>2, <2>3 DEF WorldFits
<1>7. /\ pull \in PR!Snapshots /\ pull.number = n /\ pull.base = "main" /\ pull.seen = 1
      /\ pull.status = "OPEN"
  BY <1>2, <1>3 DEF PR!Snapshots
<1>8. DOMAIN v10[n] = {}
  <2>1. v10 \in [1..MaxPulls -> Seq(PR!Snapshots)] /\ n \in 1..MaxPulls
    BY <1>1, <1>2 DEF PR!IInv, PR!TypeOK, PR!WellFormed
  <2>2. \A k \in DOMAIN v10[n] : n \in DOMAIN v5
    BY <2>1 DEF PR!IInv, PR!StoreIsTrue, PR!WasTrue
  <2> QED
    BY <1>5, <2>2
<1> HIDE DEF pull, n
<1>9. op \in PR!Operations
  BY <1>2, <1>7, ThePlaces DEF PR!Operations
<1>10. op.what = old.what /\ op.at = "record" /\ op.pull = pull
  BY <1>2 DEF PR!Operations
<1> HIDE DEF op
<1>11. Fits(v5', v9, v10, op)
  <2>1. \A k \in DOMAIN v10[op.pull.number] : FALSE
    BY <1>7, <1>8, <1>10
  <2>2. /\ op.pull.number \in DOMAIN v5' /\ op.pull.seen <= v5'[op.pull.number].ver
        /\ op.pull.status = "OPEN"
    BY <1>3, <1>4, <1>5, <1>7, <1>10
  <2> QED
    BY <1>1, <1>7, <1>10, <2>1, <2>2, ThePlaces DEF Fits
<1> QED
  BY <1>1, <1>2, <1>6, <1>9, <1>10, <1>11, GoKeeps, EndKeeps

LEMMA FindsKeeps == ASSUME PR!IInv, NEW i, PR!Finds(i) PROVE PR!IInv'
<1> DEFINE old == v11[i]
           op == [old EXCEPT !.at = "get", !.synced = v7]
<1>1. /\ i \in DOMAIN v11 /\ PR!HasTurn(i) /\ old.what = "refresh" /\ PR!Goes(i, op)
      /\ \E r \in v9 : r.number = old.number
      /\ UNCHANGED <<PR!outside, v3>>
  BY DEF PR!Finds, PR!At
<1>2. old \in PR!Operations /\ v7 \in Nat /\ old.what = v11[i].what
  BY <1>1, TheFirst
<1> HIDE DEF old
<1>3. op \in PR!Operations
  BY <1>2, ThePlaces DEF PR!Operations
<1>4. op.what = old.what /\ op.at = "get" /\ op.number = old.number
  BY <1>2 DEF PR!Operations
<1> HIDE DEF op
<1>5. Fits(v5', v9, v10, op)
  BY <1>1, <1>4, ThePlaces DEF Fits
<1> QED
  BY <1>1, <1>2, <1>3, <1>4, <1>5, SameWorldFits, GoKeeps

LEMMA GetsKeeps == ASSUME PR!WellFormed, PR!IInv, NEW i, PR!Gets(i) PROVE PR!IInv'
<1> DEFINE old == v11[i]
           pull == PR!Snapshot(old.number, old.synced)
           op == [old EXCEPT !.at = "details", !.pull = pull]
<1>1. /\ i \in DOMAIN v11 /\ PR!HasTurn(i) /\ old.what = "refresh" /\ old.at = "get"
      /\ PR!Goes(i, op) /\ UNCHANGED <<PR!outside, v3>> /\ UNCHANGED v5
  BY DEF PR!Gets, PR!At, PR!outside
<1>2. old \in PR!Operations /\ Fits(v5, v9, v10, old) /\ old.what = v11[i].what
  BY <1>1, TheFirst
<1> HIDE DEF old
<1>3. PICK r \in v9 : r.number = old.number
  BY <1>1, <1>2 DEF Fits
<1> DEFINE n == old.number
<1>4. n \in DOMAIN v5 /\ old.synced \in Nat
  BY <1>2, <1>3 DEF PR!IInv, PR!StoreIsTrue, PR!Operations
<1>5. pull = PR!Snapshot(n, old.synced)
  OBVIOUS
<1> HIDE DEF pull
<1>6. /\ pull \in PR!Snapshots /\ pull.number = n
      /\ pull.seen = v5[n].ver /\ v5[n].ver <= v5[n].ver
      /\ pull.status = v5[n].status
      /\ \A k \in DOMAIN v10[n] :
           /\ v10[n][k].seen <= v5[n].ver
           /\ v10[n][k].status = "MERGED" => v5[n].status = "MERGED"
  BY <1>4, <1>5, NowIsLater
<1>7. op \in PR!Operations
  BY <1>2, <1>6, ThePlaces DEF PR!Operations
<1>8. op.what = old.what /\ op.at = "details" /\ op.pull = pull /\ op.number = n
  BY <1>2 DEF PR!Operations
<1> HIDE DEF op
<1>9. Fits(v5, v9, v10, op)
  <2>1. n = old.number
    OBVIOUS
  <2> HIDE DEF n
  <2> QED
    BY <1>1, <1>3, <1>4, <1>6, <1>8, <2>1, ThePlaces DEF Fits
<1> QED
  BY <1>1, <1>2, <1>7, <1>8, <1>9, SameWorldFits, GoKeeps

LEMMA ReadsDetailsKeeps == ASSUME PR!WellFormed, PR!IInv, NEW i, PR!ReadsDetails(i) PROVE PR!IInv'
<1> DEFINE old == v11[i]
<1>1. /\ i \in DOMAIN v11 /\ PR!HasTurn(i) /\ old.what = "refresh" /\ old.at = "details"
      /\ UNCHANGED <<PR!outside, v3>> /\ UNCHANGED v5
  BY DEF PR!ReadsDetails, PR!At, PR!outside
<1>2. PICK reviews \in ReviewLists, checks \in CheckLists :
        PR!Goes(i, [old EXCEPT !.at = "record",
                               !.raw = [reviews |-> reviews, checks |-> checks],
                               !.pull = [@ EXCEPT !.review = PR!ReviewState(reviews),
                                                  !.checks = PR!CheckState(checks)]])
  BY DEF PR!ReadsDetails
<1> DEFINE was == old.pull
           pull == [was EXCEPT !.review = PR!ReviewState(reviews),
                               !.checks = PR!CheckState(checks)]
           raw == [reviews |-> reviews, checks |-> checks]
           op == [old EXCEPT !.at = "record", !.raw = raw, !.pull = pull]
<1>3. old \in PR!Operations /\ Fits(v5, v9, v10, old) /\ old.what = v11[i].what
  BY <1>1, TheFirst
<1>4. PR!Goes(i, op)
  BY <1>2
<1> HIDE DEF old
<1>5. /\ was \in PR!Snapshots /\ was.number \in DOMAIN v5 /\ was.seen <= v5[was.number].ver
      /\ was.status = "MERGED" => v5[was.number].status = "MERGED"
      /\ \A k \in DOMAIN v10[was.number] :
           /\ v10[was.number][k].seen <= was.seen
           /\ v10[was.number][k].status = "MERGED" => was.status = "MERGED"
      /\ was.number = old.number
  BY <1>1, <1>3 DEF Fits
<1>6. \E r \in v9 : r.number = old.number
  BY <1>1, <1>3 DEF Fits
<1>7. old.pull = was
  OBVIOUS
<1> HIDE DEF was
<1> DEFINE rs == PR!ReviewState(reviews)
           cs == PR!CheckState(checks)
<1>8. /\ rs \in {"APPROVED", "CHANGES_REQUESTED", "COMMENTED", "NONE"}
      /\ cs \in {"FAILURE", "NONE", "PENDING", "SUCCESS"}
  BY SummariesFit
<1>a. pull = [was EXCEPT !.review = rs, !.checks = cs]
  OBVIOUS
<1>b. rs = PR!ReviewState(reviews) /\ cs = PR!CheckState(checks)
  OBVIOUS
<1> HIDE DEF rs, cs, pull
<1>9. /\ pull \in PR!Snapshots /\ pull.number = was.number /\ pull.seen = was.seen
      /\ pull.status = was.status /\ pull.review = rs /\ pull.checks = cs
  BY <1>5, <1>8, <1>a DEF PR!Snapshots
<1>10. /\ raw \in [reviews : ReviewLists, checks : CheckLists]
       /\ raw.reviews = reviews /\ raw.checks = checks
  OBVIOUS
<1> HIDE DEF raw
<1>11. op \in PR!Operations
  BY <1>3, <1>9, <1>10, ThePlaces DEF PR!Operations
<1>12. /\ op.what = old.what /\ op.at = "record" /\ op.pull = pull /\ op.raw = raw
       /\ op.number = old.number
  BY <1>3 DEF PR!Operations
<1> HIDE DEF op
<1>13. Fits(v5, v9, v10, op)
  BY <1>1, <1>5, <1>6, <1>9, <1>10, <1>12, <1>b, ThePlaces DEF Fits
<1> QED
  BY <1>1, <1>3, <1>4, <1>11, <1>12, <1>13, SameWorldFits, GoKeeps

-----------------------------------------------------------------------------
(* What is recorded.                                                       *)

\* The rows that a snapshot replaces are all that there are.
LEMMA OneRowIsReplaced ==
  ASSUME PR!OneRow, NEW p, \/ \A r \in v9 : r.base = p.base
                           \/ \E r \in v9 : r.number = p.number
  PROVE  PR!RowOf(p) = v9
<1> DEFINE same == {r \in v9 : r.number = p.number}
<1>1. \A r, s \in v9 : r = s
  BY DEF PR!OneRow
<1>2. CASE same # {}
  <2>1. same = v9
    BY <1>1, <1>2
  <2> QED
    BY <1>2, <2>1 DEF PR!RowOf
<1>3. CASE same = {}
  <2>1. {r \in v9 : r.base = p.base} = v9
    BY <1>3
  <2> QED
    BY <1>3, <2>1 DEF PR!RowOf
<1> QED
  BY <1>2, <1>3

LEMMA RecordsKeeps ==
  ASSUME PR!WellFormed, PR!IInv, NEW i, PR!Records(i)
  PROVE  PR!IInv' /\ PR!NeverGoesBack
<1> DEFINE op == v11[i]
           p == op.pull
           n == p.number
<1>1. /\ i = 1 /\ i \in DOMAIN v11 /\ PR!HasTurn(i) /\ op.at = "record" /\ v11' = PR!RemoveAt(v11, 1)
      /\ UNCHANGED <<PR!outside, v3, PR!window>>
      /\ \/ PR!Takes(p, op.branch) /\ v9' = (v9 \ PR!RowOf(p)) \cup {p}
            /\ v10' = [v10 EXCEPT ![n] = Append(@, p)]
         \/ UNCHANGED PR!stored
  BY DEF PR!Records, PR!HasTurn
<1>2. /\ op \in PR!Operations /\ Fits(v5, v9, v10, op)
      /\ v5 \in Seq(PR!Pulls) /\ Len(v5) <= MaxPulls
  BY <1>1, TheFirst
<1>3. /\ v11 \in Seq(PR!Operations) /\ v9 \subseteq PR!Snapshots
      /\ v10 \in [1..MaxPulls -> Seq(PR!Snapshots)]
      /\ PR!OneRow /\ \A r, s \in v9 : r = s
  BY DEF PR!IInv, PR!TypeOK, PR!OneRow
<1>4. UNCHANGED <<v1, v3, v4, v5, v7, v13, v14>>
  BY <1>1 DEF PR!outside, PR!window
<1>5. CASE UNCHANGED PR!stored
  <2>1. PR!IInv'
    BY <1>1, <1>5, SameWorldFits, EndKeeps DEF PR!Ends
  <2>2. \A r \in v9 : r.seen <= r.seen
    BY <1>3 DEF PR!Snapshots
  <2>3. PR!NeverGoesBack
    BY <1>3, <1>5, <2>2 DEF PR!NeverGoesBack, PR!stored
  <2> QED
    BY <2>1, <2>3
<1>6. CASE /\ PR!Takes(p, op.branch) /\ v9' = (v9 \ PR!RowOf(p)) \cup {p}
           /\ v10' = [v10 EXCEPT ![n] = Append(@, p)]
  <2>1. /\ p \in PR!Snapshots /\ n \in DOMAIN v5 /\ p.seen <= v5[n].ver
        /\ p.status = "MERGED" => v5[n].status = "MERGED"
        /\ \A k \in DOMAIN v10[n] :
             /\ v10[n][k].seen <= p.seen
             /\ v10[n][k].status = "MERGED" => p.status = "MERGED"
    BY <1>1, <1>2 DEF Fits
  <2>2. /\ op.what \in {"create", "refresh"}
        /\ op.what = "create" => p.base = "main"
        /\ op.what = "refresh" => n = op.number /\ \E r \in v9 : r.number = op.number
    <3>1. op.what \in {"push", "create", "refresh"} /\ op.at \in PR!Places(op.what)
      BY <1>2, OperationFields DEF Fits
    <3>2. op.what # "push"
      BY <1>1, <3>1, ThePlaces
    <3> QED
      BY <1>1, <1>2, <3>1, <3>2 DEF Fits
  <2> HIDE DEF n, p, op
  <2>3. Ordered(v11, v9, v13, v14)
    BY CreatesAreOrdered DEF PR!IInv
  <2>4. op = v11[1] /\ 1 \in DOMAIN v11
    BY <1>1 DEF op
  <2>5. v9' = {p}
    <3>1. op.what = "create" => \A r \in v9 : r.base = p.base
      BY <2>2, <2>3, <2>4 DEF Ordered
    <3>2. op.what = "refresh" => \E r \in v9 : r.number = p.number
      BY <2>2 DEF n
    <3>3. PR!RowOf(p) = v9
      BY <1>3, <2>2, <3>1, <3>2, OneRowIsReplaced
    <3> QED
      BY <1>6, <3>3
  <2>6. \A r \in v9 : p.synced >= r.synced
    <3>1. PR!RowOf(p) = v9
      <4>1. op.what = "create" => \A r \in v9 : r.base = p.base
        BY <2>2, <2>3, <2>4 DEF Ordered
      <4>2. op.what = "refresh" => \E r \in v9 : r.number = p.number
        BY <2>2 DEF n
      <4> QED
        BY <1>3, <2>2, <4>1, <4>2, OneRowIsReplaced
    <3> QED
      BY <1>6, <3>1 DEF PR!Takes, PR!IsNewer
  <2>7. /\ n \in DOMAIN v10 /\ p.number = n /\ p.synced \in Nat /\ p.seen \in Nat
        /\ \A m \in DOMAIN v10 : v10[m] \in Seq(PR!Snapshots)
    <3>1. n \in 1..Len(v5) /\ Len(v5) \in Nat /\ MaxPulls \in Nat
      BY <1>2, <2>1 DEF PR!WellFormed
    <3>2. n \in DOMAIN v10 /\ \A m \in DOMAIN v10 : v10[m] \in Seq(PR!Snapshots)
      BY <1>2, <1>3, <3>1
    <3>3. p.synced \in Nat /\ p.seen \in Nat
      BY <2>1 DEF PR!Snapshots
    <3> QED
      BY <3>2, <3>3 DEF n
  <2> DEFINE old == v10[n]
             new == Append(old, p)
  <2>8. /\ old \in Seq(PR!Snapshots) /\ new \in Seq(PR!Snapshots) /\ Len(old) \in Nat
        /\ Len(new) = Len(old) + 1
        /\ new[Len(new)] = p /\ \A k \in 1..Len(old) : new[k] = old[k]
        /\ DOMAIN old = 1..Len(old) /\ DOMAIN new = 1..(Len(old) + 1)
    BY <2>1, <2>7
  <2>9. /\ v10' = [v10 EXCEPT ![n] = new]
        /\ DOMAIN v10' = DOMAIN v10 /\ v10'[n] = new
        /\ \A m \in DOMAIN v10 : m # n => v10'[m] = v10[m]
    BY <1>3, <1>6, <2>7
  <2>10. \A m \in DOMAIN v10 : \A k \in DOMAIN v10[m] :
           /\ m \in DOMAIN v5 /\ v10[m][k].seen <= v5[m].ver
           /\ v10[m][k].status = "MERGED" => v5[m].status = "MERGED"
           /\ \E r \in v9 : v10[m][k].synced <= r.synced
    BY DEF PR!IInv, PR!StoreIsTrue, PR!WasTrue
  <2>11. \A m \in DOMAIN v10 : \A k \in DOMAIN v10[m] : v10[m][k].synced <= p.synced
    <3> SUFFICES ASSUME NEW m \in DOMAIN v10, NEW k \in DOMAIN v10[m]
                 PROVE  v10[m][k].synced <= p.synced
      OBVIOUS
    <3>1. PICK r \in v9 : v10[m][k].synced <= r.synced
      BY <2>10
    <3>2. v10[m][k] \in PR!Snapshots /\ r \in PR!Snapshots
      BY <1>3, <2>7
    <3>3. v10[m][k].synced \in Nat /\ r.synced \in Nat
      BY <3>2 DEF PR!Snapshots
    <3> QED
      BY <2>6, <2>7, <3>1, <3>3
  <2> HIDE DEF new
  <2>12. PR!TypeOK'
    <3>1. v10' \in [1..MaxPulls -> Seq(PR!Snapshots)]
      BY <1>3, <2>8, <2>9
    <3>2. v11' \in Seq(PR!Operations)
      BY <1>1, <1>3, WithoutFirst
    <3>3. v9' \subseteq PR!Snapshots
      BY <2>1, <2>5
    <3> QED
      BY <1>4, <3>1, <3>2, <3>3, Zenon DEF PR!IInv, PR!TypeOK
  <2>13. PR!OneRow'
    BY <1>4, <2>5 DEF PR!IInv, PR!OneRow
  <2>14. \A r \in v9' : /\ r.number = n /\ v10'[r.number] # << >>
                        /\ PR!Last(v10'[r.number]) = r
    <3>1. new # << >> /\ PR!Last(new) = p
      BY <2>8 DEF PR!Last
    <3> QED
      BY <2>5, <2>7, <2>9, <3>1
  <2>15. PR!StoreIsTrue'
    <3>1. ASSUME NEW m \in DOMAIN v10', NEW k \in DOMAIN v10'[m]
          PROVE  /\ m \in DOMAIN v5 /\ v10'[m][k].seen <= v5[m].ver
                 /\ v10'[m][k].status = "MERGED" => v5[m].status = "MERGED"
                 /\ v10'[m][k].synced <= p.synced
      <4>1. CASE m = n /\ k = Len(old) + 1
        <5>1. v10'[m][k] = p
          BY <2>8, <2>9, <4>1
        <5> QED
          BY <2>1, <2>7, <4>1, <5>1
      <4>2. CASE ~ (m = n /\ k = Len(old) + 1)
        <5>1. m \in DOMAIN v10 /\ k \in DOMAIN v10[m] /\ v10'[m][k] = v10[m][k]
          BY <2>8, <2>9, <3>1, <4>2
        <5> QED
          BY <2>10, <2>11, <5>1
      <4> QED
        BY <4>1, <4>2
    <3>2. \A r \in v9' : r.number \in DOMAIN v5 /\ v10'[r.number] # << >>
                         /\ PR!Last(v10'[r.number]) = r
      BY <2>1, <2>14
    <3> QED
      BY <1>4, <2>5, <3>1, <3>2 DEF PR!StoreIsTrue, PR!WasTrue
  <2>16. PR!HistoryIsTold'
    <3>1. ASSUME NEW m \in DOMAIN v10', NEW k \in 1..(Len(v10'[m]) - 1)
          PROVE  /\ v10'[m][k].synced <= v10'[m][k + 1].synced
                 /\ v10'[m][k].seen <= v10'[m][k + 1].seen
                 /\ v10'[m][k].status = "MERGED" => v10'[m][k + 1].status = "MERGED"
      <4>1. \A h \in DOMAIN v10 : \A j \in 1..(Len(v10[h]) - 1) :
              /\ v10[h][j].synced <= v10[h][j + 1].synced
              /\ v10[h][j].seen <= v10[h][j + 1].seen
              /\ v10[h][j].status = "MERGED" => v10[h][j + 1].status = "MERGED"
        BY DEF PR!IInv, PR!HistoryIsTold
      <4>2. CASE m # n
        BY <2>9, <4>1, <4>2
      <4>3. CASE m = n /\ k < Len(old)
        <5>1. k \in 1..(Len(old) - 1) /\ k \in 1..Len(old) /\ k + 1 \in 1..Len(old)
          BY <2>8, <4>3
        <5>2. v10'[m][k] = old[k] /\ v10'[m][k + 1] = old[k + 1]
          BY <2>8, <2>9, <4>3, <5>1
        <5> QED
          BY <2>7, <4>1, <4>3, <5>1, <5>2
      <4>4. CASE m = n /\ k >= Len(old)
        <5>1. k = Len(old) /\ k \in DOMAIN old
          BY <2>8, <2>9, <4>4
        <5>2. v10'[m][k] = old[k] /\ v10'[m][k + 1] = p
          BY <2>8, <2>9, <4>4, <5>1
        <5> QED
          BY <2>1, <2>7, <2>11, <5>1, <5>2
      <4> QED
        <5>1. k \in Nat /\ Len(old) \in Nat
          BY <2>8
        <5> QED
          BY <4>2, <4>3, <4>4, <5>1
    <3> QED
      BY <2>14, <3>1 DEF PR!HistoryIsTold
  <2>17. /\ \A j \in DOMAIN v11' : /\ j + 1 \in DOMAIN v11 /\ v11'[j] = v11[j + 1]
                                   /\ j \in Nat /\ j >= 1 /\ j + 1 > 1
    <3>1. /\ PR!RemoveAt(v11, 1) \in Seq(PR!Operations)
          /\ \A j \in DOMAIN PR!RemoveAt(v11, 1) :
               j + 1 \in DOMAIN v11 /\ PR!RemoveAt(v11, 1)[j] = v11[j + 1]
      BY <1>3, <2>4, WithoutFirst
    <3> QED
      BY <1>1, <3>1
  <2>18. PR!OperationsFit'
    <3>1. \A j \in DOMAIN v11 :
            Fits(v5, v9, v10, v11[j]) /\ (j > 1 => v11[j].at \in {"inspect", "find"})
      BY UnderWayFits DEF PR!IInv
    <3>2. ASSUME NEW j \in DOMAIN v11'
          PROVE  /\ Fits(v5, v9', v10', v11'[j])
                 /\ v11'[j].at \in {"inspect", "find"}
      <4> DEFINE o == v11[j + 1]
      <4>1. v11'[j] = o /\ o.at \in {"inspect", "find"} /\ o.at \in PR!Places(o.what)
            /\ o \in PR!Operations
        BY <1>3, <2>17, <3>1 DEF Fits
      <4> HIDE DEF o
      <4>2. o.what = "refresh" => o.at = "find"
        BY <4>1, ThePlaces
      <4>3. Fits(v5, v9', v10', o)
        BY <4>1, <4>2 DEF Fits
      <4> QED
        BY <4>1, <4>3
    <3> QED
      BY <1>4, <3>2, Zenon DEF PR!OperationsFit, PR!UnderWay, Fits, PR!WasTrue, PR!IsLater
  <2>19. PR!CreatesComeFirst'
    <3>1. Follow(v11', v11)
      BY <2>17 DEF Follow
    <3>2. Ordered(v11', v9, v13, v14)
      BY <2>3, <3>1, OrderStays
    <3> DEFINE mayCreate == \/ \E j \in DOMAIN v11' : v11'[j].what = "create"
                            \/ v14 # None /\ v14.create
                            \/ v13 # None /\ v13.table = {}
    <3>3. ASSUME mayCreate PROVE op.what = "create"
      <4>1. CASE op.what = "refresh"
        <5>1. /\ v13 # None => v13.table # {}
              /\ v14 # None => ~ v14.create
          BY <2>3, <2>4, <4>1 DEF Ordered
        <5>2. PICK j \in DOMAIN v11' : v11'[j].what = "create"
          BY <3>3, <5>1
        <5>3. j + 1 < 1
          BY <2>3, <2>4, <2>17, <4>1, <5>2 DEF Ordered
        <5> QED
          BY <2>17, <5>3
      <4> QED
        BY <2>2, <4>1
    <3>4. mayCreate => \A r \in v9' : r.base = "main"
      BY <2>2, <2>5, <3>3
    <3>5. v9' # {}
      BY <2>5
    <3>6. Ordered(v11', v9', v13, v14)
      BY <3>2, <3>4, <3>5 DEF Ordered
    <3> QED
      BY <1>4, <3>6, Zenon DEF PR!CreatesComeFirst, Ordered
  <2>20. PR!NeverGoesBack
    <3> SUFFICES ASSUME NEW r \in v9, NEW s \in v9', r.number = s.number
                 PROVE  r.seen <= s.seen
      BY DEF PR!NeverGoesBack
    <3>1. s = p /\ r.number = n
      BY <2>5, <2>7
    <3>2. v10[n] # << >> /\ PR!Last(v10[n]) = r
      BY <3>1 DEF PR!IInv, PR!StoreIsTrue
    <3>3. Len(old) \in DOMAIN old /\ r = old[Len(old)]
      BY <2>8, <3>2 DEF PR!Last
    <3> QED
      BY <2>1, <3>1, <3>3
  <2> QED
    BY <2>12, <2>13, <2>15, <2>16, <2>18, <2>19, <2>20 DEF PR!IInv
<1> QED
  BY <1>1, <1>5, <1>6

-----------------------------------------------------------------------------
(* The invariant, and the three properties of every step.                  *)

LEMMA PullsStartSound == ASSUME PR!WellFormed, PR!Init PROVE PR!IInv
<1>1. PR!TypeOK
  <2>1. v5 = << >> /\ Len(v5) = 0 /\ v5 \in Seq(PR!Pulls) /\ v11 \in Seq(PR!Operations)
    BY DEF PR!Init
  <2>2. v10 \in [1..MaxPulls -> Seq(PR!Snapshots)]
    BY DEF PR!Init
  <2> QED
    BY <2>1, <2>2 DEF PR!Init, PR!TypeOK, PR!WellFormed
<1>2. PR!OneRow /\ PR!StoreIsTrue /\ PR!HistoryIsTold
  <2>1. v9 = {} /\ v13 = None /\ \A n \in DOMAIN v10 : v10[n] = << >>
    BY DEF PR!Init
  <2>2. \A n \in DOMAIN v10 : DOMAIN v10[n] = {} /\ 1..(Len(v10[n]) - 1) = {}
    BY <2>1
  <2> QED
    BY <2>1, <2>2 DEF PR!OneRow, PR!StoreIsTrue, PR!HistoryIsTold
<1>3. PR!OperationsFit /\ PR!CreatesComeFirst
  <2>1. DOMAIN v11 = {} /\ v13 = None /\ v14 = None
    BY DEF PR!Init
  <2> QED
    BY <2>1 DEF PR!OperationsFit, PR!CreatesComeFirst
<1> QED
  BY <1>1, <1>2, <1>3 DEF PR!IInv

LEMMA RowsStay == ASSUME PR!IInv, UNCHANGED v9 PROVE PR!NeverGoesBack
<1>1. \A r, s \in v9 : r = s /\ r.seen <= r.seen
  <2>1. \A r \in v9 : r.seen \in Nat
    BY DEF PR!IInv, PR!TypeOK, PR!Snapshots
  <2> QED
    BY <2>1 DEF PR!IInv, PR!OneRow
<1> QED
  BY <1>1 DEF PR!NeverGoesBack

LEMMA PullStepsKeep ==
  ASSUME PR!WellFormed, PR!IInv, [PR!Next]_(PR!pullVars)
  PROVE  PR!IInv' /\ PR!NeverGoesBack
<1>1. CASE \/ PR!WorktreeChanges \/ PR!Fetches \/ PR!SignsInOrOut
           \/ \E c \in Commits : PR!SomebodyPushes(c)
           \/ \E n \in DOMAIN v5, status \in PR!Statuses, base \in {"main", "dev"} :
                PR!PullChanges(n, status, base)
           \/ \E t \in 0..MaxClock : PR!ClockIsSet(t)
  <2>1. PR!TypeOK' /\ Grow(v5, v5') /\ UNCHANGED <<PR!stored, v11, PR!window>>
    BY <1>1, OutsideStep DEF PR!IInv
  <2>2. UNCHANGED v9
    BY <2>1 DEF PR!stored
  <2> QED
    BY <2>1, <2>2, OutsideKeeps, RowsStay
<1>2. CASE PR!Inspect \/ PR!Show \/ PR!Reload \/ \E what \in {"push", "create", "refresh"} : PR!Ask(what)
  <2>1. UNCHANGED v9
    BY <1>2 DEF PR!Inspect, PR!Show, PR!Reload, PR!Ask, PR!stored
  <2> QED
    BY <1>2, <2>1, InspectKeeps, ShowKeeps, ReloadKeeps, AskKeeps, RowsStay
<1>3. ASSUME NEW i \in 1..MaxAskedOfGitHub,
             \/ PR!GitFails(i) \/ PR!GhFails(i) \/ PR!AnswerIsRefused(i) \/ PR!PushInspects(i)
             \/ PR!Pushes(i) \/ PR!PushVerifies(i) \/ PR!CreateInspects(i) \/ PR!InspectsAgain(i)
             \/ PR!ReadsRef(i) \/ PR!Lists(i) \/ PR!Posts(i) \/ PR!Finds(i) \/ PR!FindsNone(i)
             \/ PR!Gets(i) \/ PR!ReadsDetails(i)
      PROVE  PR!IInv' /\ PR!NeverGoesBack
  <2>1. PR!IInv'
    BY <1>3, EndingSteps, PushInspectsKeeps, PushesKeeps, CreateInspectsKeeps, ListsKeeps,
       PostsKeeps, FindsKeeps, GetsKeeps, ReadsDetailsKeeps
  <2>2. UNCHANGED PR!stored
    BY <1>3 DEF PR!GitFails, PR!GhFails, PR!AnswerIsRefused, PR!PushInspects, PR!Pushes, PR!PushVerifies,
      PR!CreateInspects, PR!InspectsAgain, PR!ReadsRef, PR!Lists, PR!Posts, PR!Finds, PR!FindsNone, PR!Gets,
      PR!ReadsDetails, PR!Ends, PR!Goes
  <2> QED
    BY <2>1, <2>2, RowsStay DEF PR!stored
<1>4. ASSUME NEW i \in 1..MaxAskedOfGitHub, PR!Records(i) PROVE PR!IInv' /\ PR!NeverGoesBack
  BY <1>4, RecordsKeeps
<1>5. CASE UNCHANGED PR!pullVars
  <2>1. UNCHANGED <<PR!outside, v3, PR!stored, v11, PR!window>>
    BY <1>5 DEF PR!pullVars
  <2>2. WorldFits /\ Grow(v5, v5') /\ UNCHANGED v9
    BY <2>1, SameWorldFits DEF WorldFits, PR!stored
  <2>3. PR!TypeOK'
    BY <2>1 DEF PR!IInv, PR!TypeOK, PR!outside, PR!stored, PR!window
  <2> QED
    BY <2>1, <2>2, <2>3, OutsideKeeps, RowsStay
<1> QED
  BY <1>1, <1>2, <1>3, <1>4, <1>5 DEF PR!Next

\* A refresh that is about to be recorded has summaries of what it has read.
LEMMA SummariesAreFair == ASSUME PR!WellFormed, PR!IInv PROVE PR!SummaryIsFair
<1> SUFFICES ASSUME NEW i \in DOMAIN v11, v11[i].what = "refresh", v11[i].at = "record"
             PROVE  LET reviews == v11[i].raw.reviews
                        standing(state) ==
                          \E k \in DOMAIN reviews : reviews[k].state = state /\ PR!Stands(reviews, k)
                    IN /\ v11[i].pull.review = "CHANGES_REQUESTED" <=> standing("CHANGES_REQUESTED")
                       /\ v11[i].pull.review = "APPROVED"
                            <=> standing("APPROVED") /\ ~ standing("CHANGES_REQUESTED")
                       /\ v11[i].pull.checks = "SUCCESS"
                            => PR!ToSet(v11[i].raw.checks) = {"success"}
  BY Zenon DEF PR!SummaryIsFair
<1> DEFINE raw == v11[i].raw
<1>1. /\ raw \in [reviews : ReviewLists, checks : CheckLists]
      /\ v11[i].pull.review = PR!ReviewState(raw.reviews)
      /\ v11[i].pull.checks = PR!CheckState(raw.checks)
  BY UnderWayFits DEF PR!IInv, Fits
<1>2. raw.reviews \in ReviewLists /\ raw.checks \in CheckLists
  BY <1>1
<1> DEFINE reviews == raw.reviews
           standing(state) ==
             \E k \in DOMAIN reviews : reviews[k].state = state /\ PR!Stands(reviews, k)
<1>3. /\ PR!ReviewState(reviews) = "CHANGES_REQUESTED" <=> standing("CHANGES_REQUESTED")
      /\ PR!ReviewState(reviews) = "APPROVED"
           <=> standing("APPROVED") /\ ~ standing("CHANGES_REQUESTED")
  BY <1>2, SummaryOfReviews
<1>4. PR!CheckState(raw.checks) = "SUCCESS" => PR!ToSet(raw.checks) = {"success"}
  BY <1>2, SummaryOfChecks
<1> HIDE DEF standing
<1>5. /\ v11[i].pull.review = "CHANGES_REQUESTED" <=> standing("CHANGES_REQUESTED")
      /\ v11[i].pull.review = "APPROVED"
           <=> standing("APPROVED") /\ ~ standing("CHANGES_REQUESTED")
      /\ v11[i].pull.checks = "SUCCESS" => PR!ToSet(v11[i].raw.checks) = {"success"}
  BY <1>1, <1>3, <1>4
<1> QED
  BY <1>5 DEF standing

LEMMA PullsPart ==
  ASSUME part = "pulls", [GitNext]_desktopVars
  PROVE  [PR!Next]_(PR!pullVars)
BY DEF GitNext, Moves, desktopVars, PR!pullVars, PR!outside, PR!stored, PR!window

\* For any commits, any answers of GitHub and any number of requests: what is stored
\* of a Pull Request is never replaced by what GitHub said of it at an earlier
\* moment, whoever pushes, merges and retargets meanwhile and however the clock is
\* set; every row ends its history, in which a merge is the last word; and a
\* summary of reviews is that of the standing decisions (TaskPullRequestService,
\* the GitHub adapter's summarizeReviews, the store's record).
THEOREM PullRequestsAlwaysSound == GitSpec => PullRequestsSound
<1> DEFINE Inv == part = "pulls" => PR!IInv
           Sound == part = "pulls" => PR!PullRequestStepIsSound
           Fair == part = "pulls" => PR!HistoryIsTold /\ PR!SummaryIsFair
<1>1. GitInit => Inv
  BY PullsWellFormed, PullsStartSound DEF GitInit
<1>2. Inv /\ [GitNext]_desktopVars => Inv' /\ (part = "pulls" => PR!NeverGoesBack)
  BY PullsWellFormed, GitPartStays, PullsPart, PullStepsKeep
<1>3. Inv => Fair
  BY PullsWellFormed, SummariesAreFair DEF PR!IInv
<1>4. (part = "pulls" => PR!NeverGoesBack) /\ Fair' /\ [GitNext]_desktopVars => Sound
  BY GitPartStays DEF PR!PullRequestStepIsSound
<1> QED
  BY <1>1, <1>2, <1>3, <1>4, PTL DEF GitSpec, PullRequestsSound

-----------------------------------------------------------------------------
(* What is asked of a repository: first, what Git writes of a merge and    *)
(* what is read of it.                                                     *)

\* One line: what the parser does with it.
ReadsLine(listed, line) ==
  CASE line.tag = "merge conflict" ->
         IF \E i \in DOMAIN listed : listed[i].file = line.file THEN listed
         ELSE Append(listed, [file |-> line.file, hunks |-> 0])
    [] line.tag = "text" /\ listed # << >> ->
         [listed EXCEPT ![Len(listed)].hunks = @ + 1]
    [] OTHER -> listed

LineFold(lines) ==
  CHOOSE iter : iter = [s \in SUBSET DOMAIN lines |->
    IF s = {} THEN << >> ELSE ReadsLine(iter[s \ {PR!Max(s)}], lines[PR!Max(s)])]

LEMMA ParsedIsFold ==
  ASSUME NEW lines
  PROVE  GI!Parsed(lines) = LineFold(lines)[DOMAIN lines]
BY Zenon DEF GI!Parsed, LineFold, ReadsLine, GI!FoldLeft, GI!MapThenFoldSet, GI!Max, PR!Max

MergeLines == [tag : {"text", "auto-merging", "merge conflict", "other conflict"},
               file : ConflictFiles \union {None}]
FoundFiles == Seq([file : ConflictFiles \union {None}, hunks : Nat])

\* What a line adds to the names, and that each stays there once.
Names(listed) == {listed[i].file : i \in DOMAIN listed}
Once(listed) == \A i, j \in DOMAIN listed : listed[i].file = listed[j].file => i = j

LEMMA ReadsALine ==
  ASSUME NEW listed \in FoundFiles, Once(listed), NEW line \in MergeLines
  PROVE  /\ ReadsLine(listed, line) \in FoundFiles
         /\ Once(ReadsLine(listed, line))
         /\ Names(ReadsLine(listed, line)) =
              Names(listed) \cup (IF line.tag = "merge conflict" THEN {line.file} ELSE {})
<1> DEFINE item == [file |-> line.file, hunks |-> 0]
           F == [file : ConflictFiles \union {None}, hunks : Nat]
<1>0. listed \in Seq(F) /\ Len(listed) \in Nat /\ DOMAIN listed = 1..Len(listed)
  BY DEF FoundFiles
<1>1. CASE line.tag = "merge conflict" /\ \E i \in DOMAIN listed : listed[i].file = line.file
  <2>1. ReadsLine(listed, line) = listed
    BY <1>1 DEF ReadsLine
  <2> QED
    BY <1>1, <2>1 DEF Names
<1>2. CASE line.tag = "merge conflict" /\ ~\E i \in DOMAIN listed : listed[i].file = line.file
  <2>1. ReadsLine(listed, line) = Append(listed, item)
    BY <1>2 DEF ReadsLine
  <2>2. item \in F
    BY DEF MergeLines
  <2> DEFINE more == Append(listed, item)
  <2>3. /\ more \in Seq(F) /\ Len(more) = Len(listed) + 1 /\ DOMAIN more = 1..(Len(listed) + 1)
        /\ \A i \in 1..Len(listed) : more[i] = listed[i]
        /\ more[Len(listed) + 1] = item
    BY <1>0, <2>2, AppendProperties
  <2>4. 1..(Len(listed) + 1) = (1..Len(listed)) \cup {Len(listed) + 1}
    BY <1>0
  <2> HIDE DEF more, item, F
  <2>a. item.file = line.file
    BY DEF item
  <2>b. DOMAIN more = 1..(Len(listed) + 1) /\ DOMAIN listed = 1..Len(listed)
    BY <1>0, <2>3
  <2>c. /\ \A k \in 1..Len(listed) : more[k].file = listed[k].file
        /\ more[Len(listed) + 1].file = line.file
    BY <2>3, <2>a
  <2>5. Names(more) = Names(listed) \cup {line.file}
    BY <2>4, <2>b, <2>c DEF Names
  <2>6. Once(more)
    <3> SUFFICES ASSUME NEW i \in DOMAIN more, NEW j \in DOMAIN more, more[i].file = more[j].file
                 PROVE  i = j
      BY DEF Once
    <3>1. CASE i \in 1..Len(listed) /\ j \in 1..Len(listed)
      BY <2>b, <2>c, <3>1 DEF Once
    <3>2. CASE i = Len(listed) + 1 /\ j \in 1..Len(listed)
      BY <1>2, <2>b, <2>c, <3>2
    <3>3. CASE j = Len(listed) + 1 /\ i \in 1..Len(listed)
      BY <1>2, <2>b, <2>c, <3>3
    <3> QED
      BY <2>b, <2>4, <3>1, <3>2, <3>3
  <2>7. more = ReadsLine(listed, line)
    BY <2>1 DEF more
  <2> QED
    BY <1>2, <2>3, <2>5, <2>6, <2>7 DEF FoundFiles, F
<1>3. CASE line.tag = "text" /\ listed # << >>
  <2> DEFINE n == Len(listed)
             more == [listed EXCEPT ![n].hunks = @ + 1]
  <2>0. n \in DOMAIN listed
    BY <1>0, <1>3
  <2>1. ReadsLine(listed, line) = more
    BY <1>3 DEF ReadsLine
  <2>2. /\ DOMAIN more = DOMAIN listed
        /\ \A i \in DOMAIN listed : more[i].file = listed[i].file
    BY <1>0
  <2>3. more \in FoundFiles
    <3>1. listed[n] \in F
      <4> HIDE DEF F
      <4> QED
        BY <1>0, <2>0, ElementOfSeq, Zenon
    <3>2. [listed[n] EXCEPT !.hunks = @ + 1] \in F
      BY <3>1
    <3>3. more = [listed EXCEPT ![n] = [listed[n] EXCEPT !.hunks = @ + 1]]
      BY <2>0
    <3> QED
      BY <1>0, <2>0, <3>2, <3>3, ExceptSeq DEF FoundFiles
  <2> HIDE DEF more
  <2>4. Names(more) = Names(listed)
    BY <2>2 DEF Names
  <2>5. Once(more)
    BY <2>2 DEF Once
  <2> QED
    BY <1>3, <2>1, <2>3, <2>4, <2>5
<1>4. CASE line.tag # "merge conflict" /\ ~(line.tag = "text" /\ listed # << >>)
  <2>1. ReadsLine(listed, line) = listed
    BY <1>4 DEF ReadsLine
  <2> QED
    BY <1>4, <2>1 DEF Names
<1> QED
  BY <1>1, <1>2, <1>3, <1>4

\* Lines read one after the other.
LEMMA ParsedInOrder ==
  ASSUME NEW lines \in Seq(MergeLines)
  PROVE  \E t : /\ t[0] = << >>
                /\ \A k \in DOMAIN lines : t[k] = ReadsLine(t[k - 1], lines[k])
                /\ GI!Parsed(lines) = t[Len(lines)]
<1> DEFINE n == Len(lines)
           D == DOMAIN lines
           G == {listed \in FoundFiles : Once(listed)}
           F == [p \in (1..n) \X G |-> ReadsLine(p[2], lines[p[1]])]
           f == LineFold(lines)
<1>1. D = 1..n /\ n \in Nat
  OBVIOUS
<1>2. \A k \in 1..n : lines[k] \in MergeLines
  BY <1>1
<1>3. F \in [(1..n) \X G -> G]
  BY <1>2, ReadsALine
<1>4. << >> \in G
  BY DEF FoundFiles, Once
<1> HIDE DEF F, G
<1>a. PICK h : IsFold(h, n, G, << >>, F)
  BY <1>1, <1>3, <1>4, FoldExists
<1>5. /\ h \in [SUBSET (1..n) -> G]
      /\ \A s \in SUBSET (1..n) :
           h[s] = IF s = {} THEN << >> ELSE F[<<PR!Max(s), h[s \ {PR!Max(s)}]>>]
  BY <1>a DEF IsFold
<1>6. ASSUME NEW s \in SUBSET (1..n), s # {}
      PROVE  F[<<PR!Max(s), h[s \ {PR!Max(s)}]>>] = ReadsLine(h[s \ {PR!Max(s)}], lines[PR!Max(s)])
  <2>1. PICK x \in s : \A y \in s : y <= x
    BY <1>1, <1>6, HasGreatest
  <2>2. PR!Max(s) \in 1..n
    <3>1. s \subseteq Int
      OBVIOUS
    <3>2. PR!Max(s) = x
      BY <2>1, <3>1, Greatest
    <3> QED
      BY <3>2
  <2>3. h[s \ {PR!Max(s)}] \in G
    BY <1>5
  <2> QED
    BY <2>2, <2>3 DEF F
<1>7. h = [s \in SUBSET D |->
             IF s = {} THEN << >> ELSE ReadsLine(h[s \ {PR!Max(s)}], lines[PR!Max(s)])]
  BY <1>1, <1>5, <1>6
<1>8. f = [s \in SUBSET D |->
             IF s = {} THEN << >> ELSE ReadsLine(f[s \ {PR!Max(s)}], lines[PR!Max(s)])]
  BY <1>7, Zenon DEF LineFold
<1>9. f[{}] = << >> /\ \A s \in SUBSET D : s # {} => f[s] = ReadsLine(f[s \ {PR!Max(s)}], lines[PR!Max(s)])
  BY <1>8
<1> DEFINE t == [k \in 0..n |-> f[1..k]]
<1>10. t[0] = << >>
  <2>1. 1..0 = {} /\ 0 \in 0..n
    BY <1>1
  <2> QED
    BY <1>9, <2>1
<1>11. ASSUME NEW k \in D PROVE t[k] = ReadsLine(t[k - 1], lines[k])
  <2>1. 1..k \in SUBSET D /\ 1..k # {} /\ k \in 0..n /\ k - 1 \in 0..n
    BY <1>1
  <2>2. PR!Max(1..k) = k
    <3>1. k \in 1..k /\ 1..k \subseteq Int /\ \A y \in 1..k : y <= k
      BY <1>1
    <3> QED
      BY <3>1, Greatest
  <2>3. (1..k) \ {k} = 1..(k - 1)
    BY <1>1
  <2> HIDE DEF f
  <2> QED
    BY <1>9, <2>1, <2>2, <2>3
<1>12. GI!Parsed(lines) = t[n]
  <2>1. n \in 0..n
    BY <1>1
  <2> QED
    BY <1>1, <2>1, ParsedIsFold
<1> HIDE DEF t
<1> QED
  BY <1>10, <1>11, <1>12

\* The files that the first k lines say are in conflict.
Marked(lines, k) == {j \in 1..k : lines[j].tag = "merge conflict"}
KnownNames(lines, k) == {lines[i].file : i \in Marked(lines, k)}

\* The parser finds the files of the lines it knows, each once.
LEMMA ParsedNames ==
  ASSUME NEW lines \in Seq(MergeLines)
  PROVE  /\ GI!Parsed(lines) \in FoundFiles /\ Once(GI!Parsed(lines))
         /\ Names(GI!Parsed(lines)) = KnownNames(lines, Len(lines))
<1>1. PICK t : /\ t[0] = << >>
               /\ \A k \in DOMAIN lines : t[k] = ReadsLine(t[k - 1], lines[k])
               /\ GI!Parsed(lines) = t[Len(lines)]
  BY ParsedInOrder
<1> DEFINE n == Len(lines)
           Good(k) == t[k] \in FoundFiles /\ Once(t[k]) /\ Names(t[k]) = KnownNames(lines, k)
           P == {k \in Nat : k <= n => Good(k)}
<1>2. n \in Nat /\ DOMAIN lines = 1..n
  OBVIOUS
<1>3. 0 \in P
  <2>1. Names(<< >>) = {} /\ Once(<< >>) /\ << >> \in FoundFiles
    BY DEF Names, Once, FoundFiles
  <2>2. 1..0 = {}
    OBVIOUS
  <2>3. KnownNames(lines, 0) = {}
    BY <2>2 DEF KnownNames, Marked
  <2>4. Good(0)
    BY <1>1, <2>1, <2>3, Zenon
  <2> QED
    BY <2>4
<1>4. ASSUME NEW k \in P PROVE k + 1 \in P
  <2> SUFFICES ASSUME k + 1 <= n PROVE Good(k + 1)
    OBVIOUS
  <2>1. k \in Nat /\ k + 1 \in DOMAIN lines /\ (k + 1) - 1 = k /\ Good(k)
    BY <1>2
  <2>2. t[k + 1] = ReadsLine(t[k], lines[k + 1]) /\ lines[k + 1] \in MergeLines
    BY <1>1, <1>2, <2>1
  <2>3. KnownNames(lines, k + 1) = KnownNames(lines, k) \cup
          (IF lines[k + 1].tag = "merge conflict" THEN {lines[k + 1].file} ELSE {})
    <3>1. 1..(k + 1) = (1..k) \cup {k + 1}
      BY <2>1
    <3>2. Marked(lines, k + 1) = Marked(lines, k) \cup
            (IF lines[k + 1].tag = "merge conflict" THEN {k + 1} ELSE {})
      BY <3>1 DEF Marked
    <3> QED
      BY <3>2 DEF KnownNames
  <2> QED
    BY <2>1, <2>2, <2>3, ReadsALine
<1>5. P = Nat
  <2>1. P \subseteq Nat
    OBVIOUS
  <2> HIDE DEF P
  <2> QED
    BY <1>3, <1>4, <2>1, Counting
<1>6. Good(n)
  BY <1>2, <1>5
<1> QED
  BY <1>1, <1>2, <1>6


\* Steps taken one after the other.
AreSteps(t, n, S, base, F) ==
  t \in [0..n -> S] /\ t[0] = base /\ \A k \in 1..n : t[k] = F[<<k, t[k - 1]>>]

LEMMA StepsExist ==
  ASSUME NEW n \in Nat, NEW S, NEW base \in S, NEW F \in [(1..n) \X S -> S]
  PROVE  \E t : AreSteps(t, n, S, base, F)
<1>1. PICK h : IsFold(h, n, S, base, F)
  BY FoldExists
<1>2. /\ h \in [SUBSET (1..n) -> S]
      /\ \A s \in SUBSET (1..n) :
           h[s] = IF s = {} THEN base ELSE F[<<PR!Max(s), h[s \ {PR!Max(s)}]>>]
  BY <1>1 DEF IsFold
<1> DEFINE t == [k \in 0..n |-> h[1..k]]
<1>3. \A k \in 0..n : 1..k \in SUBSET (1..n)
  OBVIOUS
<1>4. t \in [0..n -> S]
  BY <1>2, <1>3
<1>5. t[0] = base
  <2>1. 1..0 = {} /\ 0 \in 0..n
    OBVIOUS
  <2> QED
    BY <1>2, <2>1
<1>6. ASSUME NEW k \in 1..n PROVE t[k] = F[<<k, t[k - 1]>>]
  <2>1. 1..k \in SUBSET (1..n) /\ 1..k # {} /\ k \in 0..n /\ k - 1 \in 0..n
    OBVIOUS
  <2>2. PR!Max(1..k) = k
    <3>1. k \in 1..k /\ 1..k \subseteq Int /\ \A y \in 1..k : y <= k
      OBVIOUS
    <3> QED
      BY <3>1, Greatest
  <2>3. (1..k) \ {k} = 1..(k - 1)
    OBVIOUS
  <2> QED
    BY <1>2, <2>1, <2>2, <2>3
<1> QED
  BY <1>4, <1>5, <1>6 DEF AreSteps

LEMMA BothParts ==
  ASSUME NEW S, NEW s \in Seq(S), NEW u \in Seq(S)
  PROVE  GI!ToSet(s \o u) = GI!ToSet(s) \cup GI!ToSet(u)
<1>1. /\ s \o u \in Seq(S) /\ Len(s \o u) = Len(s) + Len(u)
      /\ \A i \in 1..(Len(s) + Len(u)) :
           (s \o u)[i] = IF i <= Len(s) THEN s[i] ELSE u[i - Len(s)]
      /\ Len(s) \in Nat /\ Len(u) \in Nat
  BY ConcatProperties
<1>2. DOMAIN (s \o u) = 1..(Len(s) + Len(u)) /\ DOMAIN s = 1..Len(s) /\ DOMAIN u = 1..Len(u)
  BY <1>1
<1>3. GI!ToSet(s \o u) \subseteq GI!ToSet(s) \cup GI!ToSet(u)
  <2> SUFFICES ASSUME NEW i \in 1..(Len(s) + Len(u))
               PROVE  (s \o u)[i] \in GI!ToSet(s) \cup GI!ToSet(u)
    BY <1>2 DEF GI!ToSet
  <2>1. CASE i <= Len(s)
    BY <1>1, <1>2, <2>1 DEF GI!ToSet
  <2>2. CASE ~(i <= Len(s))
    <3>1. i - Len(s) \in 1..Len(u)
      BY <1>1, <2>2
    <3> QED
      BY <1>1, <1>2, <2>2, <3>1 DEF GI!ToSet
  <2> QED
    BY <2>1, <2>2
<1>4. GI!ToSet(s) \subseteq GI!ToSet(s \o u)
  <2> SUFFICES ASSUME NEW i \in 1..Len(s) PROVE s[i] \in GI!ToSet(s \o u)
    BY <1>2 DEF GI!ToSet
  <2>1. i \in 1..(Len(s) + Len(u)) /\ (s \o u)[i] = s[i]
    BY <1>1
  <2> QED
    BY <1>2, <2>1 DEF GI!ToSet
<1>5. GI!ToSet(u) \subseteq GI!ToSet(s \o u)
  <2> SUFFICES ASSUME NEW i \in 1..Len(u) PROVE u[i] \in GI!ToSet(s \o u)
    BY <1>2 DEF GI!ToSet
  <2> DEFINE j == i + Len(s)
  <2>1. j \in 1..(Len(s) + Len(u)) /\ ~(j <= Len(s)) /\ j - Len(s) = i
    BY <1>1
  <2>2. (s \o u)[j] = u[i]
    BY <1>1, <2>1
  <2> HIDE DEF j
  <2> QED
    BY <1>2, <2>1, <2>2 DEF GI!ToSet
<1> QED
  BY <1>3, <1>4, <1>5

\* Sequences one behind the other.
LEMMA Flattened ==
  ASSUME NEW S, NEW seqs \in Seq(Seq(S))
  PROVE  /\ GI!FlattenSeq(seqs) \in Seq(S)
         /\ GI!ToSet(GI!FlattenSeq(seqs)) = UNION {GI!ToSet(seqs[i]) : i \in DOMAIN seqs}
<1> DEFINE n == Len(seqs)
           F == [p \in (1..n) \X Seq(S) |-> p[2] \o seqs[p[1]]]
           flatten == CHOOSE g : g = [i \in 1..n |->
                        IF i = 1 THEN seqs[i] ELSE g[i - 1] \o seqs[i]]
           first(k) == UNION {GI!ToSet(seqs[i]) : i \in 1..k}
<1>1. n \in Nat /\ DOMAIN seqs = 1..n /\ \A i \in 1..n : seqs[i] \in Seq(S)
  OBVIOUS
<1>2. CASE n = 0
  <2>1. GI!FlattenSeq(seqs) = seqs /\ seqs = << >> /\ DOMAIN seqs = {}
    BY <1>2 DEF GI!FlattenSeq
  <2> QED
    BY <2>1 DEF GI!ToSet
<1>3. CASE n # 0
  <2>1. F \in [(1..n) \X Seq(S) -> Seq(S)]
    BY <1>1
  <2>a. << >> \in Seq(S)
    OBVIOUS
  <2> DEFINE T == Seq(S)
  <2> HIDE DEF F, T
  <2>b. PICK t : AreSteps(t, n, T, << >>, F)
    <3>1. n \in Nat /\ << >> \in T /\ F \in [(1..n) \X T -> T]
      BY <1>1, <2>1, <2>a DEF T
    <3> HIDE DEF n
    <3> QED
      BY <3>1, StepsExist
  <2>2. /\ t \in [0..n -> T] /\ t[0] = << >>
        /\ \A k \in 1..n : t[k] = F[<<k, t[k - 1]>>]
    BY <2>b DEF AreSteps
  <2>3. ASSUME NEW k \in 1..n PROVE k - 1 \in 0..n /\ t[k] = t[k - 1] \o seqs[k]
    <3>1. k - 1 \in 0..n
      BY <1>1
    <3>2. t[k - 1] \in T
      BY <2>2, <3>1
    <3>3. <<k, t[k - 1]>> \in (1..n) \X Seq(S)
      BY <3>2 DEF T
    <3>4. F[<<k, t[k - 1]>>] = t[k - 1] \o seqs[k]
      BY <3>3 DEF F
    <3> QED
      BY <2>2, <3>1, <3>4
  <2> DEFINE g == [i \in 1..n |-> t[i]]
  <2>4. g = [i \in 1..n |-> IF i = 1 THEN seqs[i] ELSE g[i - 1] \o seqs[i]]
    <3> SUFFICES ASSUME NEW i \in 1..n
                 PROVE  t[i] = IF i = 1 THEN seqs[i] ELSE g[i - 1] \o seqs[i]
      OBVIOUS
    <3>1. CASE i = 1
      <4>1. t[1] = << >> \o seqs[1]
        <5>1. t[i] = t[i - 1] \o seqs[i]
          BY <2>3, Zenon
        <5>2. i - 1 = 0
          BY <3>1
        <5> QED
          BY <2>2, <3>1, <5>1, <5>2, Zenon
      <4> QED
        BY <1>1, <3>1, <4>1
    <3>2. CASE i # 1
      <4>1. i - 1 \in 1..n
        BY <1>1, <3>2
      <4> QED
        BY <2>3, <3>2, <4>1
    <3> QED
      BY <3>1, <3>2
  <2>5. flatten = [i \in 1..n |-> IF i = 1 THEN seqs[i] ELSE flatten[i - 1] \o seqs[i]]
    <3> HIDE DEF g
    <3> QED
      BY <2>4, Zenon
  <2>6. GI!FlattenSeq(seqs) = flatten[n]
    BY <1>3, Zenon DEF GI!FlattenSeq
  <2>7. \A i \in 1..n : flatten[i] = IF i = 1 THEN seqs[i] ELSE flatten[i - 1] \o seqs[i]
    BY <2>5, Zenon
  <2> HIDE DEF flatten
  <2> DEFINE Good(k) == flatten[k] \in Seq(S) /\ GI!ToSet(flatten[k]) = first(k)
             P == {k \in Nat : k + 1 <= n => Good(k + 1)}
  <2>8. 0 \in P
    <3>1. flatten[1] = seqs[1] /\ 1 \in 1..n
      BY <1>1, <1>3, <2>7
    <3>2. first(1) = GI!ToSet(seqs[1])
      <4>1. 1..1 = {1}
        OBVIOUS
      <4> QED
        BY <4>1
    <3> HIDE DEF first
    <3> QED
      BY <1>1, <3>1, <3>2
  <2>9. ASSUME NEW k \in P PROVE k + 1 \in P
    <3> HIDE DEF first
    <3> SUFFICES ASSUME (k + 1) + 1 <= n PROVE Good((k + 1) + 1)
      OBVIOUS
    <3> DEFINE j == k + 1
    <3>1. k \in Nat /\ Good(j) /\ j \in Nat /\ j + 1 \in 1..n /\ j + 1 # 1 /\ (j + 1) - 1 = j
      OBVIOUS
    <3> HIDE DEF j
    <3>2. flatten[j + 1] = flatten[j] \o seqs[j + 1]
      BY <2>7, <3>1
    <3>3. GI!ToSet(flatten[j + 1]) = GI!ToSet(flatten[j]) \cup GI!ToSet(seqs[j + 1])
      BY <1>1, <3>1, <3>2, BothParts
    <3>4. first(j + 1) = first(j) \cup GI!ToSet(seqs[j + 1])
      <4>1. 1..(j + 1) = (1..j) \cup {j + 1}
        BY <3>1
      <4> QED
        BY <4>1 DEF first
    <3>5. Good(j + 1)
      BY <1>1, <3>1, <3>2, <3>3, <3>4
    <3> QED
      BY <3>5 DEF j
  <2>10. P = Nat
    <3>1. P \subseteq Nat
      OBVIOUS
    <3> HIDE DEF P
    <3> QED
      BY <2>8, <2>9, <3>1, Counting
  <2>11. Good(n)
    <3> HIDE DEF first, n
    <3>1. n - 1 \in Nat /\ (n - 1) + 1 = n /\ n <= n
      BY <1>1, <1>3
    <3> HIDE DEF Good
    <3>2. n - 1 \in P
      BY <2>10, <3>1, Zenon
    <3> QED
      BY <3>1, <3>2
  <2> QED
    BY <1>1, <2>6, <2>11
<1> QED
  BY <1>2, <1>3


\* As many files as names.
LEMMA CountOfNames ==
  ASSUME NEW listed \in FoundFiles, Once(listed)
  PROVE  Cardinality(Names(listed)) = Len(listed)
<1> DEFINE n == Len(listed)
           named == [i \in 1..n |-> listed[i].file]
<1>1. n \in Nat /\ DOMAIN listed = 1..n
  BY DEF FoundFiles
<1>2. named \in Bijection(1..n, Names(listed))
  BY <1>1 DEF Once, Names, Bijection, Injection, Surjection, IsInjective
<1> HIDE DEF named, n
<1>3. IsFiniteSet(1..n) /\ Cardinality(1..n) = IF 1 > n THEN 0 ELSE n - 1 + 1
  <2>1. 1 \in Int /\ n \in Int
    BY <1>1
  <2> QED
    BY <2>1, FS_Interval
<1>4. ExistsBijection(1..n, Names(listed))
  BY <1>2 DEF ExistsBijection
<1>5. Cardinality(Names(listed)) = Cardinality(1..n)
  BY <1>3, <1>4, FS_Bijection, Zenon
<1>6. Cardinality(Names(listed)) = n
  BY <1>1, <1>3, <1>5
<1> QED
  BY <1>6 DEF n

\* What Git writes of a file.
PieceOf(content, removed, f) ==
  CASE f \in content -> <<GI!Line("auto-merging", f), GI!Line("merge conflict", f)>>
    [] f \in removed -> <<GI!Line("other conflict", f)>>
    [] OTHER -> << >>

LEMMA PieceHas ==
  ASSUME NEW content \in SUBSET ConflictFiles, NEW removed, content \cap removed = {}, NEW f \in ConflictFiles
  PROVE  /\ PieceOf(content, removed, f) \in Seq(MergeLines)
         /\ \A l \in MergeLines : l.tag = "merge conflict" =>
              (l \in GI!ToSet(PieceOf(content, removed, f))
                 <=> f \in content /\ l = GI!Line("merge conflict", f))
<1> DEFINE a == GI!Line("auto-merging", f)
           b == GI!Line("merge conflict", f)
           c == GI!Line("other conflict", f)
<1>1. a \in MergeLines /\ b \in MergeLines /\ c \in MergeLines
  BY DEF GI!Line, MergeLines
<1>2. a.tag # "merge conflict" /\ c.tag # "merge conflict"
  BY DEF GI!Line
<1> HIDE DEF a, b, c
<1>3. CASE f \in content
  <2>1. PieceOf(content, removed, f) = <<a, b>>
    BY <1>3, Zenon DEF PieceOf, a, b
  <2>2. <<a, b>> \in Seq(MergeLines) /\ GI!ToSet(<<a, b>>) = {a, b}
    BY <1>1 DEF GI!ToSet
  <2>3. \A l \in MergeLines : l.tag = "merge conflict" => l # a
    BY <1>2
  <2> QED
    BY <1>3, <2>1, <2>2, <2>3, Zenon DEF b
<1>4. CASE f \notin content /\ f \in removed
  <2>1. PieceOf(content, removed, f) = <<c>>
    BY <1>4, Zenon DEF PieceOf, c
  <2>2. <<c>> \in Seq(MergeLines) /\ GI!ToSet(<<c>>) = {c}
    BY <1>1 DEF GI!ToSet
  <2>3. \A l \in MergeLines : l.tag = "merge conflict" => l # c
    BY <1>2
  <2> QED
    BY <1>4, <2>1, <2>2, <2>3, Zenon
<1>5. CASE f \notin content /\ f \notin removed
  <2>1. PieceOf(content, removed, f) = << >>
    BY <1>5, Zenon DEF PieceOf
  <2>2. << >> \in Seq(MergeLines) /\ GI!ToSet(<< >>) = {}
    BY DEF GI!ToSet
  <2> QED
    BY <1>5, <2>1, <2>2, Zenon
<1> QED
  BY <1>3, <1>4, <1>5

\* What Git writes says that just the files with conflicting changes are in
\* conflict.
LEMMA MergeIsParsed ==
  ASSUME GI!WellFormed, NEW content \in SUBSET ConflictFiles, NEW removed, content \cap removed = {},
         NEW r, r.content = content, r.removed = removed
  PROVE  LET listed == GI!Parsed(GI!MergeOutput(r))
         IN  /\ Names(listed) = content
             /\ Cardinality(Names(listed)) = Len(listed)
             /\ listed = << >> <=> content = {}
<1> DEFINE pieces == [i \in DOMAIN ConflictOrder |-> PieceOf(content, removed, ConflictOrder[i])]
           lines == GI!MergeOutput(r)
           first == <<GI!Line("text", None)>>
<1>1. ConflictOrder \in Seq(ConflictFiles) /\ ConflictFiles \subseteq GI!ToSet(ConflictOrder)
  BY DEF GI!WellFormed
<1>2. \A f \in ConflictFiles : PieceOf(content, removed, f) \in Seq(MergeLines)
  BY PieceHas
<1>3. pieces \in Seq(Seq(MergeLines)) /\ DOMAIN pieces = DOMAIN ConflictOrder
  <2> DEFINE T == Seq(MergeLines)
             n == Len(ConflictOrder)
  <2>1. DOMAIN ConflictOrder = 1..n /\ n \in Nat /\ \A i \in 1..n : ConflictOrder[i] \in ConflictFiles
    BY <1>1
  <2>2. pieces \in [1..n -> T]
    BY <1>2, <2>1
  <2> HIDE DEF T, pieces, n
  <2>3. pieces \in Seq(T)
    BY <2>1, <2>2, SeqDef
  <2> QED
    BY <2>1, <2>2, <2>3 DEF T
<1>4. lines = first \o GI!FlattenSeq(pieces)
  BY Zenon DEF GI!MergeOutput, PieceOf
<1>5. /\ first \in Seq(MergeLines) /\ GI!ToSet(first) = {GI!Line("text", None)}
      /\ GI!Line("text", None).tag # "merge conflict"
  BY DEF MergeLines, GI!Line, GI!ToSet
<1>a. pieces = [i \in DOMAIN ConflictOrder |-> PieceOf(content, removed, ConflictOrder[i])]
  OBVIOUS
<1> HIDE DEF first, lines, pieces
<1>6. lines \in Seq(MergeLines) /\ GI!ToSet(lines) = {GI!Line("text", None)} \cup GI!ToSet(GI!FlattenSeq(pieces))
  <2>1. GI!FlattenSeq(pieces) \in Seq(MergeLines)
    BY <1>3, Flattened
  <2>2. first \o GI!FlattenSeq(pieces) \in Seq(MergeLines)
    BY <1>5, <2>1, ConcatProperties
  <2>3. GI!ToSet(first \o GI!FlattenSeq(pieces)) = GI!ToSet(first) \cup GI!ToSet(GI!FlattenSeq(pieces))
    <3>1. first \in Seq(MergeLines)
      BY <1>5
    <3> QED
      BY <2>1, <3>1, BothParts
  <2> QED
    BY <1>4, <1>5, <2>2, <2>3, Zenon
<1>7. GI!ToSet(GI!FlattenSeq(pieces)) = UNION {GI!ToSet(PieceOf(content, removed, f)) : f \in ConflictFiles}
  <2>1. GI!ToSet(GI!FlattenSeq(pieces)) = UNION {GI!ToSet(pieces[i]) : i \in DOMAIN ConflictOrder}
    BY <1>3, Flattened
  <2>2. \A i \in DOMAIN ConflictOrder : /\ pieces[i] = PieceOf(content, removed, ConflictOrder[i])
                                        /\ ConflictOrder[i] \in ConflictFiles
    BY <1>1, <1>a
  <2>3. \A f \in ConflictFiles : \E i \in DOMAIN ConflictOrder : f = ConflictOrder[i]
    BY <1>1 DEF GI!ToSet
  <2> QED
    BY <2>1, <2>2, <2>3
<1>8. \A l \in MergeLines : l.tag = "merge conflict" =>
        (l \in GI!ToSet(lines) <=> \E f \in content : l = GI!Line("merge conflict", f))
  <2> SUFFICES ASSUME NEW l \in MergeLines, l.tag = "merge conflict"
               PROVE  l \in GI!ToSet(lines) <=> \E f \in content : l = GI!Line("merge conflict", f)
    OBVIOUS
  <2>1. l # GI!Line("text", None)
    BY <1>5
  <2>2. l \in GI!ToSet(lines) <=> \E f \in ConflictFiles : l \in GI!ToSet(PieceOf(content, removed, f))
    BY <1>6, <1>7, <2>1, Zenon
  <2>3. \A f \in ConflictFiles : l \in GI!ToSet(PieceOf(content, removed, f))
                                   <=> f \in content /\ l = GI!Line("merge conflict", f)
    BY PieceHas
  <2> QED
    BY <2>2, <2>3
<1>9. KnownNames(lines, Len(lines)) = content
  <2>1. DOMAIN lines = 1..Len(lines) /\ \A i \in 1..Len(lines) : lines[i] \in MergeLines
    BY <1>6
  <2>2. \A f \in content : /\ GI!Line("merge conflict", f) \in MergeLines
                           /\ GI!Line("merge conflict", f).tag = "merge conflict"
                           /\ GI!Line("merge conflict", f).file = f
    BY DEF GI!Line, MergeLines
  <2>3. ASSUME NEW i \in Marked(lines, Len(lines)) PROVE lines[i].file \in content
    <3>1. i \in 1..Len(lines) /\ lines[i].tag = "merge conflict"
      BY DEF Marked
    <3>2. lines[i] \in GI!ToSet(lines)
      BY <2>1, <3>1 DEF GI!ToSet
    <3>3. PICK f \in content : lines[i] = GI!Line("merge conflict", f)
      BY <1>8, <2>1, <3>1, <3>2
    <3> QED
      BY <2>2, <3>3
  <2>4. ASSUME NEW f \in content PROVE f \in KnownNames(lines, Len(lines))
    <3>1. GI!Line("merge conflict", f) \in GI!ToSet(lines)
      BY <1>8, <2>2
    <3>2. PICK i \in 1..Len(lines) : lines[i] = GI!Line("merge conflict", f)
      BY <2>1, <3>1 DEF GI!ToSet
    <3>3. i \in Marked(lines, Len(lines)) /\ lines[i].file = f
      BY <2>2, <3>2 DEF Marked
    <3> QED
      BY <3>3 DEF KnownNames
  <2> QED
    BY <2>3, <2>4 DEF KnownNames
<1> DEFINE listed == GI!Parsed(lines)
<1>10. listed \in FoundFiles /\ Once(listed) /\ Names(listed) = content
  BY <1>6, <1>9, ParsedNames
<1>11. Cardinality(Names(listed)) = Len(listed)
  <2> HIDE DEF listed
  <2> QED
    BY <1>10, CountOfNames
<1>12. listed = << >> <=> content = {}
  <2> HIDE DEF listed
  <2>1. DOMAIN listed = 1..Len(listed) /\ Len(listed) \in Nat /\ (Len(listed) = 0 => listed = << >>)
    BY <1>10 DEF FoundFiles
  <2>2. listed = << >> => content = {}
    BY <1>10 DEF Names
  <2>3. ASSUME listed # << >> PROVE content # {}
    <3>1. 1 \in DOMAIN listed
      BY <2>1, <2>3
    <3> QED
      BY <1>10, <3>1 DEF Names
  <2> QED
    BY <2>2, <2>3
<1> QED
  BY <1>10, <1>11, <1>12 DEF lines

\* Of nothing nothing is found.
LEMMA NothingParsed == GI!Parsed(<< >>) = << >>
<1>1. << >> \in Seq(MergeLines) /\ Len(<< >>) = 0
  OBVIOUS
<1>2. PICK t : t[0] = << >> /\ GI!Parsed(<< >>) = t[Len(<< >>)]
  BY <1>1, ParsedInOrder
<1> QED
  BY <1>1, <1>2

-----------------------------------------------------------------------------
(* The questions.                                                          *)

LEMMA CountsAlike == \A S : GI!Cardinality(S) = Cardinality(S)
BY DEF GI!Cardinality, Cardinality

\* What ProbesAreTrue asks of an answer.
AnswerFits(kind, says, during, disturbed) ==
  /\ kind = "probe" =>
       LET names == Names(says.files)
           once == \E r \in during : r.commit > 0 /\ (r.branch # "detached" \/ disturbed)
       IN  /\ says.is = "conflicts" =>
                /\ once
                /\ \E r \in during : names = r.content
                /\ GI!Cardinality(names) = Len(says.files)
           /\ says.is = "clean" => once /\ (disturbed \/ \E r \in during : r.content = {})
           /\ says.is = "unavailable" =>
                /\ says.reason = "NOT_HEAD_ATTACHED" =>
                     disturbed \/ \E r \in during : r.branch = "detached" \/ r.commit = 0
                /\ says.reason = "NO_BASE_REF" =>
                     disturbed \/ \E r \in during : "main" \notin r.refs
  /\ says.is = "repository" =>
       /\ (\A r, s \in during : r.branch = s.branch /\ r.commit = s.commit) =>
            \E r \in during : /\ GI!HeadOf(r.branch, r.commit) = says.head
                              /\ r.branch = says.branch /\ r.commit = says.commit
       /\ says.base \in GI!Refs => \E r \in during : says.base \in r.refs
       /\ says.base # "origin/HEAD" => \E r \in during : "origin/HEAD" \notin r.refs
       /\ ~says.dirty => \E r \in during : r.status = {}

LEMMA FittingAnswer ==
  ASSUME AnswerFits(v9.kind, v9.says, v9.past, v9.troubled)
  PROVE  GI!ProbesAreTrue
BY Zenon DEF AnswerFits, GI!ProbesAreTrue, GI!ProbeWasTrue, GI!InspectionWasTrue, GI!Says, Names

LEMMA FittingIsTrue ==
  ASSUME NEW kind, NEW says, NEW during, NEW disturbed,
         v9' = [kind |-> kind, says |-> says, past |-> during, troubled |-> disturbed],
         AnswerFits(kind, says, during, disturbed)
  PROVE  GI!ProbesAreTrue'
<1>1. /\ v9'.kind = kind /\ v9'.says = says /\ v9'.past = during
      /\ v9'.troubled = disturbed
  OBVIOUS
<1>2. AnswerFits(v9'.kind, v9'.says, v9'.past, v9'.troubled)
  BY <1>1, Zenon
<1>3. AnswerFits(v9.kind, v9.says, v9.past, v9.troubled)'
  BY <1>2, Zenon DEF AnswerFits, GI!HeadOf, Names
<1> QED
  BY <1>3, FittingAnswer, PTL

\* An answer that stays is as true as it was.
LEMMA SameAnswer ==
  ASSUME GI!ProbesAreTrue, v9' = v9
  PROVE  GI!ProbesAreTrue'
<1>1. GI!ProbeWasTrue'
  BY Zenon DEF GI!ProbesAreTrue, GI!ProbeWasTrue, GI!Says
<1>2. GI!InspectionWasTrue'
  BY Zenon DEF GI!ProbesAreTrue, GI!InspectionWasTrue, GI!Says
<1> QED
  BY <1>1, <1>2, Zenon DEF GI!ProbesAreTrue

CacheType == [git : {"found", "missing", None}, version : GI!Versions \union {None}]

\* A search finds something or nothing.
LEMMA FindsIsCache ==
  ASSUME v3 \in CacheType
  PROVE  /\ GI!Finds \in CacheType
         /\ \A v \in GI!Versions : [GI!Finds EXCEPT !.version = v] \in CacheType
BY DEF GI!Finds, CacheType

\* A question that is answered is over.
LEMMA QuestionEnds ==
  ASSUME GI!WellFormed, GI!IInv, v5 \in GI!Calls, NEW says, GI!Answers(says),
         AnswerFits(v5.kind, says, v7, v8'),
         v3' \in CacheType, v8' \in BOOLEAN
  PROVE  GI!IInv'
<1>1. /\ v9' = [kind |-> v5.kind, says |-> says, past |-> v7, troubled |-> v8']
      /\ v5' = None /\ v6' = << >> /\ v1' = v1 /\ v2' = v2
  BY DEF GI!Answers, GI!outside
<1>2. GI!ProbesAreTrue'
  BY <1>1, FittingIsTrue
<1>3. GI!TypeOK'
  BY <1>1 DEF GI!IInv, GI!TypeOK, CacheType
<1>4. /\ [kind |-> "probe", stage |-> "head name"] \in GI!Calls
      /\ [kind |-> "probe", stage |-> "base"] \in GI!Calls
      /\ [kind |-> "probe", stage |-> "merge"] \in GI!Calls
  BY DEF GI!Calls
<1>5. GI!ProbeReadTrue'
  BY <1>1, <1>4, Zenon DEF GI!ProbeReadTrue, GI!At, GI!WellFormed
<1>6. GI!InspectionReadTrue'
  BY <1>1, Zenon DEF GI!InspectionReadTrue
<1> QED
  BY <1>1, <1>2, <1>3, <1>5, <1>6 DEF GI!IInv

Stages == {"root", "head commit", "head name", "base", "merge", "version", "branch",
           "commit", "main", "master", "remote", "status"}

\* A question goes on.
LEMMA QuestionGoesOn ==
  ASSUME GI!WellFormed, GI!IInv, v5 \in GI!Calls, NEW stage \in Stages \ {"root"}, NEW says,
         GI!Goes(stage, says),
         v3' \in CacheType, v8' \in BOOLEAN, GI!ProbeReadTrue', GI!InspectionReadTrue'
  PROVE  GI!IInv'
<1>1. /\ v5' = [v5 EXCEPT !.stage = stage] /\ v9' = v9 /\ v7' = v7
      /\ v1' = v1 /\ v2' = v2
  BY DEF GI!Goes, GI!outside
<1>2. GI!ProbesAreTrue'
  BY <1>1, SameAnswer DEF GI!IInv
<1>3. v5' \in GI!Calls /\ v5'.stage = stage
  BY <1>1 DEF GI!Calls, Stages
<1>4. GI!TypeOK'
  BY <1>1, <1>3 DEF GI!IInv, GI!TypeOK, CacheType
<1>5. v5 # None /\ v5' # None
  BY <1>3 DEF GI!WellFormed
<1> QED
  BY <1>1, <1>2, <1>3, <1>4, <1>5 DEF GI!IInv

\* What InspectionReadTrue says of the commands that have ended.
HasRead(stage, heard, during) ==
  LET n == GI!Ended(stage)
  IN  /\ stage \in {"root", "version", "branch", "commit", "main", "master",
                    "remote", "status"}
      /\ Len(heard) = n /\ heard = [i \in 1..n |-> heard[i]]
      /\ \A i \in 3..n : \E r \in during : heard[i] = GI!Reading(r)[i]
      /\ n >= 3 => heard[3] \in GI!Branches \union {"detached"}

LEMMA ReadIsTrue ==
  ASSUME HasRead(v5.stage, v6, v7)
  PROVE  GI!InspectionReadTrue
BY Zenon DEF HasRead, GI!InspectionReadTrue

\* One more command of an inspection has ended.
LEMMA InspectionReads ==
  ASSUME GI!WellFormed, GI!IInv, NEW stage, GI!At("inspect", stage), v5 \in GI!Calls, NEW next, NEW says,
         GI!Goes(next, says),
         <<stage, next>> \in {<<"root", "version">>, <<"version", "branch">>, <<"branch", "commit">>,
                              <<"commit", "main">>, <<"main", "master">>, <<"master", "remote">>,
                              <<"remote", "status">>},
         stage \notin {"root", "version"} => says = GI!Reading(v1)[GI!Ended(stage) + 1],
         stage = "branch" => says \in GI!Branches \union {"detached"}
  PROVE  GI!InspectionReadTrue' /\ GI!ProbeReadTrue'
<1> DEFINE n == GI!Ended(stage)
<1>1. /\ n \in 0..6 /\ GI!Ended(next) = n + 1
      /\ n >= 2 => stage \notin {"root", "version"}
      /\ n = 2 => stage = "branch"
  BY DEF GI!Ended
<1>2. v5.kind = "inspect" /\ v5.stage = stage /\ v5 = [kind |-> "inspect", stage |-> stage]
  BY DEF GI!At
<1>3. /\ v5' = [kind |-> "inspect", stage |-> next] /\ v7' = v7 /\ v6' = Append(v6, says)
      /\ v1 \in v7 /\ v1' = v1
  <2>1. v5 # None
    BY DEF GI!WellFormed
  <2> QED
    BY <1>2, <2>1 DEF GI!Goes, GI!IInv, GI!outside
<1>4. /\ Len(v6) = n /\ v6 = [i \in 1..n |-> v6[i]]
      /\ \A i \in 3..n : \E r \in v7 : v6[i] = GI!Reading(r)[i]
      /\ n >= 3 => v6[3] \in GI!Branches \union {"detached"}
  <2>1. v5 # None
    BY DEF GI!WellFormed
  <2> QED
    BY <1>2, <2>1, Zenon DEF GI!IInv, GI!InspectionReadTrue
<1> DEFINE more == Append(v6, says)
<1> HIDE DEF n
<1>5. /\ Len(more) = n + 1 /\ more = [i \in 1..(n + 1) |-> more[i]]
      /\ more[n + 1] = says /\ \A i \in 1..n : more[i] = v6[i]
  BY <1>1, <1>4
<1> HIDE DEF more
<1>6. \A i \in 3..(n + 1) : \E r \in v7 : more[i] = GI!Reading(r)[i]
  <2> SUFFICES ASSUME NEW i \in 3..(n + 1) PROVE \E r \in v7 : more[i] = GI!Reading(r)[i]
    OBVIOUS
  <2>1. CASE i \in 3..n
    <3>1. i \in 1..n
      BY <1>1, <2>1
    <3> QED
      BY <1>4, <1>5, <2>1, <3>1, Zenon
  <2>2. CASE i = n + 1
    <3>1. n >= 2
      BY <1>1, <2>2
    <3>2. more[i] = GI!Reading(v1)[i]
      BY <1>1, <1>5, <2>2, <3>1 DEF n
    <3> QED
      BY <1>3, <3>2, Zenon
  <2> QED
    BY <1>1, <2>1, <2>2
<1>7. n + 1 >= 3 => more[3] \in GI!Branches \union {"detached"}
  <2>1. CASE n = 2
    BY <1>1, <1>5, <2>1
  <2>2. CASE n >= 3
    <3>1. more[3] = v6[3]
      BY <1>1, <1>5, <2>2
    <3> QED
      BY <1>4, <2>2, <3>1, Zenon
  <2> QED
    BY <1>1, <2>1, <2>2
<1>8. /\ v5'.stage = next /\ v6' = more
      /\ next \in {"root", "version", "branch", "commit", "main", "master", "remote", "status"}
  BY <1>3 DEF more
<1>9. GI!InspectionReadTrue'
  <2>1. HasRead(next, more, v7)
    BY <1>1, <1>5, <1>6, <1>7, <1>8, Zenon DEF HasRead
  <2>2. HasRead(v5'.stage, v6', v7')
    BY <1>3, <1>8, <2>1, Zenon
  <2>3. HasRead(v5.stage, v6, v7)'
    BY <2>2, Zenon DEF HasRead, GI!Ended, GI!Reading
  <2> QED
    BY <2>3, ReadIsTrue, PTL
<1>10. GI!ProbeReadTrue'
  BY <1>3 DEF GI!ProbeReadTrue, GI!At
<1> QED
  BY <1>9, <1>10

\* A question of the other kind reads nothing of an inspection.
LEMMA ProbeReads ==
  ASSUME GI!WellFormed, NEW stage, GI!At("probe", stage), v5 \in GI!Calls, NEW next, NEW says,
         GI!Goes(next, says)
  PROVE  /\ GI!InspectionReadTrue'
         /\ v5' = [kind |-> "probe", stage |-> next] /\ v7' = v7 /\ v1' = v1
<1>1. v5' = [kind |-> "probe", stage |-> next] /\ v7' = v7 /\ v1' = v1
  BY DEF GI!At, GI!Goes, GI!outside
<1>2. v5'.kind = "probe"
  BY <1>1
<1> QED
  BY <1>1, <1>2, Zenon DEF GI!InspectionReadTrue

LEMMA ProbesStartTrue ==
  ASSUME GI!WellFormed, GI!Init
  PROVE  GI!IInv
<1>1. GI!TypeOK
  <2>1. /\ v1.dir = TRUE /\ v1.branch = "task" /\ v1.commit \in {0, 1}
        /\ v1.refs \in {{}, {"origin/HEAD", "main"}} /\ v1.content = {}
        /\ v1.removed = {} /\ v1.status = {}
    BY DEF GI!Init, GI!Repositories
  <2>a. v1 = [dir |-> v1.dir, branch |-> v1.branch, commit |-> v1.commit,
              refs |-> v1.refs, content |-> v1.content, removed |-> v1.removed,
              status |-> v1.status]
    BY DEF GI!Init, GI!Repositories
  <2>2. /\ {} \in SUBSET GI!Refs /\ {"origin/HEAD", "main"} \in SUBSET GI!Refs
        /\ "task" \in GI!Branches
    BY DEF GI!Refs, GI!Branches
  <2>3. v1 \in [dir : BOOLEAN, branch : GI!Branches \union {"detached"}, commit : Nat,
                refs : SUBSET GI!Refs, content : SUBSET ConflictFiles, removed : SUBSET ConflictFiles,
                status : SUBSET GI!Records]
    <3>a. v1.refs \in SUBSET GI!Refs
      BY <2>1, <2>2, Zenon
    <3>b. v1.commit \in Nat
      BY <2>1
    <3>c. v1.content \in SUBSET ConflictFiles /\ v1.removed \in SUBSET ConflictFiles
      BY <2>1, Zenon
    <3>d. v1.dir \in BOOLEAN /\ v1.branch \in GI!Branches \union {"detached"}
      BY <2>1, <2>2
    <3>e. v1.status \in SUBSET GI!Records
      BY <2>1, Zenon
    <3> DEFINE S == [dir : BOOLEAN, branch : GI!Branches \union {"detached"}, commit : Nat,
                     refs : SUBSET GI!Refs, content : SUBSET ConflictFiles, removed : SUBSET ConflictFiles,
                     status : SUBSET GI!Records]
    <3>2. [dir |-> v1.dir, branch |-> v1.branch, commit |-> v1.commit,
           refs |-> v1.refs, content |-> v1.content, removed |-> v1.removed,
           status |-> v1.status] \in S
      BY <3>a, <3>b, <3>c, <3>d, <3>e
    <3> HIDE DEF S
    <3>3. v1 \in S
      BY <2>a, <3>2, Zenon
    <3> QED
      BY <3>3 DEF S
  <2>4. v3 \in [git : {"found", "missing", None}, version : GI!Versions \union {None}]
    BY DEF GI!Init
  <2> QED
    BY <2>1, <2>3, <2>4 DEF GI!TypeOK, GI!Init
<1>2. GI!ProbesAreTrue
  BY Zenon DEF GI!Init, GI!ProbesAreTrue, GI!ProbeWasTrue, GI!InspectionWasTrue, GI!Says
<1>3. /\ [kind |-> "probe", stage |-> "head name"] \in GI!Calls
      /\ [kind |-> "probe", stage |-> "base"] \in GI!Calls
      /\ [kind |-> "probe", stage |-> "merge"] \in GI!Calls
  BY DEF GI!Calls
<1>4. v5 = None
  BY DEF GI!Init
<1>5. GI!ProbeReadTrue
  BY <1>3, <1>4, Zenon DEF GI!ProbeReadTrue, GI!At, GI!WellFormed
<1>6. GI!InspectionReadTrue
  BY <1>4, Zenon DEF GI!InspectionReadTrue
<1> QED
  BY <1>1, <1>2, <1>4, <1>5, <1>6 DEF GI!IInv, GI!Init

LEMMA SameCall ==
  ASSUME GI!WellFormed, GI!IInv, v5' = v5, v6' = v6, v7 \subseteq v7', v8' = v8,
         v1.commit > 0 => v1'.commit > 0
  PROVE  GI!ProbeReadTrue' /\ GI!InspectionReadTrue'
<1>1. GI!ProbeReadTrue'
  BY Zenon DEF GI!IInv, GI!ProbeReadTrue, GI!At
<1>2. GI!InspectionReadTrue'
  <2>1. CASE ~(v5 # None /\ v5.kind = "inspect")
    BY <2>1, Zenon DEF GI!InspectionReadTrue
  <2>2. CASE v5 # None /\ v5.kind = "inspect"
    <3>1. HasRead(v5.stage, v6, v7)
      BY <2>2, Zenon DEF GI!IInv, GI!InspectionReadTrue, HasRead
    <3>2. HasRead(v5.stage, v6, v7')
      BY <3>1, Zenon DEF HasRead
    <3>3. HasRead(v5'.stage, v6', v7')
      BY <3>2, Zenon
    <3>4. HasRead(v5.stage, v6, v7)'
      BY <3>3, Zenon DEF HasRead, GI!Ended, GI!Reading
    <3> QED
      BY <3>4, ReadIsTrue, PTL
  <2> QED
    BY <2>1, <2>2
<1> QED
  BY <1>1, <1>2

\* The repository is changed.
LEMMA ChangedKeeps ==
  ASSUME GI!WellFormed, GI!IInv, NEW r, GI!Changed(r),
         r \in [dir : BOOLEAN, branch : GI!Branches \union {"detached"}, commit : Nat,
                refs : SUBSET GI!Refs, content : SUBSET ConflictFiles, removed : SUBSET ConflictFiles,
                status : SUBSET GI!Records],
         r.content \intersect r.removed = {},
         v1.commit > 0 => r.commit > 0
  PROVE  GI!IInv'
<1>1. /\ v1' = r /\ v7' = v7 \union {r} /\ v2' = v2 /\ v3' = v3
      /\ v5' = v5 /\ v6' = v6 /\ v8' = v8 /\ v9' = v9
  BY DEF GI!Changed
<1>2. GI!TypeOK'
  BY <1>1 DEF GI!IInv, GI!TypeOK
<1>3. GI!ProbesAreTrue'
  BY <1>1, SameAnswer DEF GI!IInv
<1>4. GI!InspectionReadTrue' /\ GI!ProbeReadTrue'
  <2>1. v7 \subseteq v7'
    BY <1>1
  <2> QED
    BY <1>1, <2>1, SameCall
<1> QED
  BY <1>1, <1>2, <1>3, <1>4 DEF GI!IInv


Repos == [dir : BOOLEAN, branch : GI!Branches \union {"detached"}, commit : Nat,
          refs : SUBSET GI!Refs, content : SUBSET ConflictFiles, removed : SUBSET ConflictFiles,
          status : SUBSET GI!Records]

LEMMA RepoIsOne ==
  ASSUME GI!IInv
  PROVE  /\ v1 \in Repos /\ v1.content \intersect v1.removed = {}
         /\ v1.branch \in GI!Branches \union {"detached"} /\ v1.commit \in Nat
         /\ v1.refs \in SUBSET GI!Refs /\ v1.content \in SUBSET ConflictFiles
         /\ v1.removed \in SUBSET ConflictFiles /\ v1.status \in SUBSET GI!Records
<1>1. v1 \in Repos /\ v1.content \intersect v1.removed = {}
  BY DEF GI!IInv, GI!TypeOK, Repos
<1> QED
  BY <1>1 DEF Repos

\* A repository of which only the rest may have been changed.
IsRepo(r, content, removed, commit) ==
  r \in Repos /\ r.content = content /\ r.removed = removed /\ r.commit = commit

\* One field of a repository is another.
LEMMA ChangedRepo ==
  ASSUME GI!IInv
  PROVE  /\ \A c \in SUBSET ConflictFiles, d \in SUBSET ConflictFiles :
              IsRepo([v1 EXCEPT !.commit = @ + 1, !.content = c, !.removed = d],
                     c, d, v1.commit + 1)
         /\ \A b \in GI!Branches \union {"detached"} :
              IsRepo([v1 EXCEPT !.branch = b], v1.content, v1.removed, v1.commit)
         /\ \A s \in SUBSET GI!Refs :
              IsRepo([v1 EXCEPT !.refs = s], v1.content, v1.removed, v1.commit)
         /\ \A s \in SUBSET GI!Records :
              IsRepo([v1 EXCEPT !.status = s], v1.content, v1.removed, v1.commit)
         /\ IsRepo([v1 EXCEPT !.dir = FALSE], v1.content, v1.removed, v1.commit)
<1>1. v1 \in Repos /\ v1.commit \in Nat
  BY RepoIsOne
<1>2. ASSUME NEW c \in SUBSET ConflictFiles, NEW d \in SUBSET ConflictFiles
      PROVE  IsRepo([v1 EXCEPT !.commit = @ + 1, !.content = c, !.removed = d],
                    c, d, v1.commit + 1)
  <2> DEFINE r == [v1 EXCEPT !.commit = @ + 1]
             q == [r EXCEPT !.content = c]
  <2>1. r \in Repos /\ r.commit = v1.commit + 1
    BY <1>1 DEF Repos
  <2> HIDE DEF r
  <2>2. q \in Repos /\ q.commit = r.commit /\ q.content = c
    BY <2>1 DEF Repos
  <2> HIDE DEF q
  <2>3. IsRepo([q EXCEPT !.removed = d], c, d, v1.commit + 1)
    BY <2>1, <2>2 DEF Repos, IsRepo
  <2> QED
    BY <2>3 DEF q, r
<1>3. ASSUME NEW b \in GI!Branches \union {"detached"}
      PROVE  IsRepo([v1 EXCEPT !.branch = b], v1.content, v1.removed, v1.commit)
  BY <1>1 DEF Repos, IsRepo
<1>4. ASSUME NEW s \in SUBSET GI!Refs
      PROVE  IsRepo([v1 EXCEPT !.refs = s], v1.content, v1.removed, v1.commit)
  BY <1>1 DEF Repos, IsRepo
<1>5. ASSUME NEW s \in SUBSET GI!Records
      PROVE  IsRepo([v1 EXCEPT !.status = s], v1.content, v1.removed, v1.commit)
  BY <1>1 DEF Repos, IsRepo
<1>6. IsRepo([v1 EXCEPT !.dir = FALSE], v1.content, v1.removed, v1.commit)
  BY <1>1 DEF Repos, IsRepo
<1> QED
  BY <1>2, <1>3, <1>4, <1>5, <1>6

LEMMA OthersKeep ==
  ASSUME GI!WellFormed, GI!IInv, GI!Others
  PROVE  GI!IInv'
<1>a. v1.content \intersect v1.removed = {} /\ v1.commit \in Nat
  BY RepoIsOne
<1>1. ASSUME GI!CommitChanges PROVE GI!IInv'
  <2>0. PICK c \in SUBSET ConflictFiles : \E d \in {{}, ConflictFiles \ c} :
          GI!Changed([v1 EXCEPT !.commit = @ + 1, !.content = c, !.removed = d])
    BY <1>1 DEF GI!CommitChanges
  <2>1. PICK d \in {{}, ConflictFiles \ c} :
          GI!Changed([v1 EXCEPT !.commit = @ + 1, !.content = c, !.removed = d])
    BY <2>0
  <2> DEFINE r == [v1 EXCEPT !.commit = @ + 1, !.content = c, !.removed = d]
  <2>2. d \in SUBSET ConflictFiles /\ c \intersect d = {}
    OBVIOUS
  <2>3. IsRepo(r, c, d, v1.commit + 1)
    BY <2>2, ChangedRepo
  <2> HIDE DEF r
  <2>4. v1.commit > 0 => r.commit > 0
    BY <1>a, <2>3 DEF IsRepo
  <2> QED
    BY <2>1, <2>2, <2>3, <2>4, ChangedKeeps DEF r, IsRepo, Repos
<1>2. ASSUME GI!CheckOut PROVE GI!IInv'
  <2>1. PICK b \in GI!Branches \union {"detached"} : GI!Changed([v1 EXCEPT !.branch = b])
    BY <1>2 DEF GI!CheckOut
  <2> DEFINE r == [v1 EXCEPT !.branch = b]
  <2>2. IsRepo(r, v1.content, v1.removed, v1.commit)
    BY ChangedRepo
  <2> QED
    BY <1>a, <2>1, <2>2, ChangedKeeps DEF IsRepo, Repos
<1>3. ASSUME GI!ChangeRef PROVE GI!IInv'
  <2>1. PICK ref \in GI!Refs :
          GI!Changed([v1 EXCEPT !.refs = IF ref \in @ THEN @ \ {ref} ELSE @ \union {ref}])
    BY <1>3 DEF GI!ChangeRef
  <2> DEFINE s == IF ref \in v1.refs THEN v1.refs \ {ref} ELSE v1.refs \union {ref}
             r == [v1 EXCEPT !.refs = s]
  <2>a. GI!Changed(r)
    BY <2>1
  <2>b. s \in SUBSET GI!Refs
    BY RepoIsOne
  <2> HIDE DEF s
  <2>2. IsRepo(r, v1.content, v1.removed, v1.commit)
    BY <2>b, ChangedRepo
  <2> QED
    BY <1>a, <2>a, <2>2, ChangedKeeps DEF IsRepo, Repos
<1>4. ASSUME GI!EditFiles PROVE GI!IInv'
  <2> DEFINE f == Head(ConflictOrder)
             g == GI!Last(ConflictOrder)
  <2>0. f \in ConflictFiles /\ g \in ConflictFiles
    <3>1. ConflictOrder \in Seq(ConflictFiles) /\ ConflictOrder # << >>
      BY DEF GI!WellFormed
    <3> QED
      BY <3>1 DEF GI!Last
  <2>1. PICK s \in {{}, {GI!Ordinary(f, TRUE, TRUE)}, {GI!Ordinary(f, FALSE, TRUE), GI!Record("?", g)},
                    {GI!Record("u", f)}} : GI!Changed([v1 EXCEPT !.status = s])
    BY <1>4, Zenon DEF GI!EditFiles
  <2> DEFINE r == [v1 EXCEPT !.status = s]
  <2>b. s \in SUBSET GI!Records
    <3>1. /\ GI!Ordinary(f, TRUE, TRUE) \in GI!Records /\ GI!Ordinary(f, FALSE, TRUE) \in GI!Records
          /\ GI!Record("?", g) \in GI!Records /\ GI!Record("u", f) \in GI!Records
      BY <2>0 DEF GI!Ordinary, GI!Record, GI!Records
    <3> HIDE DEF f, g
    <3> QED
      BY <3>1
  <2>2. IsRepo(r, v1.content, v1.removed, v1.commit)
    BY <2>b, ChangedRepo
  <2> QED
    BY <1>a, <2>1, <2>2, ChangedKeeps DEF IsRepo, Repos
<1>5. ASSUME GI!RemoveDirectory PROVE GI!IInv'
  <2> DEFINE r == [v1 EXCEPT !.dir = FALSE]
  <2>1. GI!Changed(r)
    BY <1>5 DEF GI!RemoveDirectory
  <2>2. IsRepo(r, v1.content, v1.removed, v1.commit)
    BY ChangedRepo
  <2> QED
    BY <1>a, <2>1, <2>2, ChangedKeeps DEF IsRepo, Repos
<1>6. ASSUME GI!ChangeOutside PROVE GI!IInv'
  <2>1. /\ v1' = v1 /\ v7' = v7 /\ v3' = v3 /\ v5' = v5 /\ v6' = v6
        /\ v8' = v8 /\ v9' = v9
        /\ v2' \in {"none", "old", "new"}
    BY <1>6 DEF GI!ChangeOutside, GI!IInv, GI!TypeOK
  <2>2. GI!TypeOK'
    BY <2>1 DEF GI!IInv, GI!TypeOK
  <2>3. GI!ProbesAreTrue'
    BY <2>1, SameAnswer DEF GI!IInv
  <2>4. GI!InspectionReadTrue' /\ GI!ProbeReadTrue'
    BY <2>1, SameCall
  <2> QED
    BY <2>1, <2>2, <2>3, <2>4 DEF GI!IInv
<1> QED
  BY <1>1, <1>2, <1>3, <1>4, <1>5, <1>6 DEF GI!Others

LEMMA ErrorFits ==
  ASSUME NEW kind, NEW says, says.is \in {"error", "not-working-tree"}, NEW during, NEW disturbed
  PROVE  AnswerFits(kind, says, during, disturbed)
BY DEF AnswerFits

LEMMA UnavailableFits ==
  ASSUME NEW kind, NEW reason, NEW during, NEW disturbed,
         reason = "NOT_HEAD_ATTACHED" =>
           disturbed \/ \E r \in during : r.branch = "detached" \/ r.commit = 0,
         reason = "NO_BASE_REF" => disturbed \/ \E r \in during : "main" \notin r.refs
  PROVE  AnswerFits(kind, GI!Unavailable(reason), during, disturbed)
<1>1. GI!Unavailable(reason).is = "unavailable" /\ GI!Unavailable(reason).reason = reason
  BY DEF GI!Unavailable
<1> HIDE DEF GI!Unavailable
<1> QED
  BY <1>1, Zenon DEF AnswerFits

LEMMA CallIs ==
  ASSUME GI!WellFormed, GI!IInv, v5 # None
  PROVE  v5 \in GI!Calls /\ v1 \in v7
BY DEF GI!IInv, GI!TypeOK

LEMMA CallAt ==
  ASSUME GI!WellFormed, GI!IInv, NEW kind \in {"probe", "inspect"}, NEW stage \in Stages, GI!At(kind, stage)
  PROVE  /\ v5 \in GI!Calls /\ v5 # None /\ v5.kind = kind /\ v5.stage = stage
         /\ v1 \in v7 /\ v3 \in CacheType /\ v8 \in BOOLEAN
<1>1. v5 \in GI!Calls
  BY DEF GI!At, GI!Calls, Stages
<1>2. v5 # None
  BY <1>1 DEF GI!WellFormed
<1> QED
  BY <1>1, <1>2 DEF GI!At, GI!IInv, GI!TypeOK, CacheType

LEMMA ThrowKeeps ==
  ASSUME GI!WellFormed, GI!IInv, v5 \in GI!Calls, NEW reason, GI!Answers(GI!Throws(reason)),
         v3' \in CacheType, v8' \in BOOLEAN
  PROVE  GI!IInv'
<1> DEFINE says == GI!Throws(reason)
<1>1. says.is \in {"error", "not-working-tree"}
  BY DEF GI!Throws
<1>2. GI!Answers(says)
  OBVIOUS
<1> HIDE DEF says
<1>3. AnswerFits(v5.kind, says, v7, v8')
  BY <1>1, ErrorFits
<1> QED
  BY <1>2, <1>3, QuestionEnds

LEMMA QuestionKeeps ==
  ASSUME GI!WellFormed, GI!IInv, GI!Ask
  PROVE  GI!IInv'
<1>1. /\ v5 = None /\ v8' = FALSE /\ v6 = << >> /\ v6' = << >>
      /\ v1' = v1 /\ v2' = v2 /\ v3' = v3
  BY DEF GI!Ask, GI!outside, GI!IInv
<1>2. PICK kind \in {"probe", "inspect"} :
       IF kind = "probe" /\ v4 # "worktree"
       THEN /\ v9' = [kind |-> kind, past |-> {v1}, troubled |-> FALSE,
                      says |-> GI!Unavailable(IF v4 = "none" THEN "TASK_NOT_FOUND"
                                              ELSE "WORKTREE_NOT_READY")]
            /\ UNCHANGED <<v5, v7>>
       ELSE /\ v5' = [kind |-> kind, stage |-> "root"]
            /\ v7' = {v1} /\ v9' = None
  BY Zenon DEF GI!Ask
<1>3. CASE kind = "probe" /\ v4 # "worktree"
  <2> DEFINE reason == IF v4 = "none" THEN "TASK_NOT_FOUND" ELSE "WORKTREE_NOT_READY"
  <2>1. /\ v9' = [kind |-> kind, says |-> GI!Unavailable(reason), past |-> {v1}, troubled |-> FALSE]
        /\ v5' = v5 /\ v7' = v7
    BY <1>2, <1>3
  <2>2. reason \notin {"NOT_HEAD_ATTACHED", "NO_BASE_REF"}
    OBVIOUS
  <2> HIDE DEF reason
  <2>3. AnswerFits(kind, GI!Unavailable(reason), {v1}, FALSE)
    BY <2>2, UnavailableFits
  <2>4. GI!ProbesAreTrue'
    BY <2>1, <2>3, FittingIsTrue
  <2>5. GI!TypeOK'
    BY <1>1, <2>1 DEF GI!IInv, GI!TypeOK
  <2>6. v5' = None
    BY <1>1, <2>1
  <2>7. /\ [kind |-> "probe", stage |-> "head name"] \in GI!Calls
        /\ [kind |-> "probe", stage |-> "base"] \in GI!Calls
        /\ [kind |-> "probe", stage |-> "merge"] \in GI!Calls
    BY DEF GI!Calls
  <2>8. GI!ProbeReadTrue'
    BY <2>6, <2>7, Zenon DEF GI!ProbeReadTrue, GI!At, GI!WellFormed
  <2>9. GI!InspectionReadTrue'
    BY <2>6, Zenon DEF GI!InspectionReadTrue
  <2> QED
    BY <1>1, <2>4, <2>5, <2>6, <2>8, <2>9 DEF GI!IInv
<1>4. CASE ~(kind = "probe" /\ v4 # "worktree")
  <2>1. /\ v5' = [kind |-> kind, stage |-> "root"] /\ v7' = {v1} /\ v9' = None
    BY <1>2, <1>4
  <2>2. v5' \in GI!Calls /\ v5'.stage = "root"
    BY <2>1 DEF GI!Calls
  <2>3. GI!ProbesAreTrue'
    BY <2>1, Zenon DEF GI!ProbesAreTrue, GI!ProbeWasTrue, GI!InspectionWasTrue, GI!Says
  <2>4. GI!TypeOK'
    BY <1>1, <2>2 DEF GI!IInv, GI!TypeOK
  <2>5. GI!ProbeReadTrue'
    <3>1. ~GI!At("probe", "head name")' /\ ~GI!At("probe", "base")' /\ ~GI!At("probe", "merge")'
      BY <2>1 DEF GI!At
    <3> QED
      BY <3>1, Zenon DEF GI!ProbeReadTrue
  <2>6. HasRead("root", << >>, {v1})
    BY DEF HasRead, GI!Ended
  <2>7. HasRead(v5'.stage, v6', v7')
    BY <1>1, <2>1, <2>2, <2>6, Zenon
  <2>8. HasRead(v5.stage, v6, v7)'
    BY <2>7, Zenon DEF HasRead, GI!Ended, GI!Reading
  <2>9. GI!InspectionReadTrue'
    BY <2>8, ReadIsTrue, PTL
  <2>10. v5' # None
    BY <2>2 DEF GI!WellFormed
  <2> QED
    BY <1>1, <2>1, <2>3, <2>4, <2>5, <2>9, <2>10 DEF GI!IInv
<1> QED
  BY <1>3, <1>4

LEMMA FindRootKeeps ==
  ASSUME GI!WellFormed, GI!IInv, GI!FindRoot
  PROVE  GI!IInv'
<1>1. v5 # None /\ v5.stage = "root"
  BY DEF GI!FindRoot
<1>2. v5 \in GI!Calls /\ v1 \in v7 /\ v3 \in CacheType /\ v8 \in BOOLEAN /\ v6 = << >>
  BY <1>1, CallIs DEF GI!IInv, GI!TypeOK, CacheType
<1>3. GI!Finds \in CacheType
  BY <1>2, FindsIsCache
<1>4. CASE ~v1.dir
  <2>1. v3' = v3 /\ v8' = v8 /\ GI!Answers(GI!Throws("PATH_NOT_FOUND"))
    BY <1>4 DEF GI!FindRoot
  <2> QED
    BY <1>2, <2>1, ThrowKeeps
<1>5. CASE v1.dir
  <2>1. /\ v3' = GI!Finds
        /\ \/ GI!NotAvailable(GI!Answers(GI!Throws("GIT_NOT_AVAILABLE")))
           \/ GI!CommandFails(GI!Answers(GI!Throws("GIT_INSPECTION_FAILED")))
           \/ GI!CommandFails(GI!Answers(GI!NotWorkingTree))
           \/ GI!CommandEnds(GI!Goes(IF v5.kind = "probe" THEN "head commit" ELSE "version", "root"))
    BY <1>5, Zenon DEF GI!FindRoot
  <2>2. v3' \in CacheType
    BY <1>3, <2>1
  <2>3. GI!NotWorkingTree.is \in {"error", "not-working-tree"}
    BY DEF GI!NotWorkingTree, GI!Throws
  <2>4. CASE GI!NotAvailable(GI!Answers(GI!Throws("GIT_NOT_AVAILABLE")))
    <3>1. v8' = TRUE /\ GI!Answers(GI!Throws("GIT_NOT_AVAILABLE"))
      BY <2>4 DEF GI!NotAvailable
    <3> QED
      BY <1>2, <2>2, <3>1, ThrowKeeps
  <2>5. CASE GI!CommandFails(GI!Answers(GI!Throws("GIT_INSPECTION_FAILED")))
    <3>1. v8' = TRUE /\ GI!Answers(GI!Throws("GIT_INSPECTION_FAILED"))
      BY <2>5 DEF GI!CommandFails
    <3> QED
      BY <1>2, <2>2, <3>1, ThrowKeeps
  <2>6. CASE GI!CommandFails(GI!Answers(GI!NotWorkingTree))
    <3>1. v8' = TRUE /\ GI!Answers(GI!NotWorkingTree)
      BY <2>6 DEF GI!CommandFails
    <3> QED
      <4> HIDE DEF GI!NotWorkingTree
      <4>1. AnswerFits(v5.kind, GI!NotWorkingTree, v7, v8')
        BY <2>3, ErrorFits
      <4> QED
        BY <1>2, <2>2, <3>1, <4>1, QuestionEnds
  <2>7. CASE GI!CommandEnds(GI!Goes(IF v5.kind = "probe" THEN "head commit" ELSE "version", "root"))
    <3>1. /\ v8' = v8
          /\ GI!Goes(IF v5.kind = "probe" THEN "head commit" ELSE "version", "root")
      BY <2>7 DEF GI!CommandEnds
    <3>2. v5 = [kind |-> v5.kind, stage |-> "root"] /\ v5.kind \in {"probe", "inspect"}
      BY <1>1, <1>2 DEF GI!Calls
    <3>3. CASE v5.kind = "probe"
      <4>1. GI!Goes("head commit", "root")
        BY <3>1, <3>3
      <4>2. GI!At("probe", "root")
        BY <3>2, <3>3 DEF GI!At
      <4>3. GI!InspectionReadTrue' /\ v5' = [kind |-> "probe", stage |-> "head commit"]
        BY <1>2, <4>1, <4>2, ProbeReads
      <4>4. GI!ProbeReadTrue'
        BY <4>3 DEF GI!ProbeReadTrue, GI!At
      <4>5. "head commit" \in Stages \ {"root"} /\ v8' \in BOOLEAN
        BY <1>2, <3>1 DEF Stages
      <4> QED
        BY <1>2, <2>2, <4>1, <4>3, <4>4, <4>5, QuestionGoesOn
    <3>4. CASE v5.kind = "inspect"
      <4>1. GI!Goes("version", "root")
        BY <3>1, <3>4
      <4>2. GI!At("inspect", "root")
        BY <3>2, <3>4 DEF GI!At
      <4>3. GI!InspectionReadTrue' /\ GI!ProbeReadTrue'
        BY <1>2, <4>1, <4>2, InspectionReads
      <4>5. "version" \in Stages \ {"root"} /\ v8' \in BOOLEAN
        BY <1>2, <3>1 DEF Stages
      <4> QED
        BY <1>2, <2>2, <4>1, <4>3, <4>5, QuestionGoesOn
    <3> QED
      BY <3>2, <3>3, <3>4
  <2> QED
    BY <2>1, <2>4, <2>5, <2>6, <2>7
<1> QED
  BY <1>4, <1>5

\* A probe goes on.
LEMMA ProbeGoes ==
  ASSUME GI!WellFormed, GI!IInv, NEW stage \in Stages, GI!At("probe", stage), NEW next \in Stages \ {"root"},
         NEW says, GI!Goes(next, says), v3' = GI!Finds, v8' \in BOOLEAN,
         next = "head name" => v1.commit > 0,
         next \in {"base", "merge"} =>
           \E r \in v7 : r.commit > 0 /\ (r.branch # "detached" \/ v8')
  PROVE  GI!IInv'
<1>1. v5 \in GI!Calls /\ v3 \in CacheType
  BY CallAt
<1>2. v3' \in CacheType
  BY <1>1, FindsIsCache
<1>3. /\ GI!InspectionReadTrue' /\ v5' = [kind |-> "probe", stage |-> next] /\ v7' = v7
      /\ v1' = v1
  BY <1>1, ProbeReads
<1>4. v5'.stage = next
  BY <1>3
<1>5. GI!ProbeReadTrue'
  <2>1. GI!At("probe", "head name")' => v1'.commit > 0
    BY <1>3, <1>4 DEF GI!At
  <2>2. GI!At("probe", "base")' \/ GI!At("probe", "merge")' => next \in {"base", "merge"}
    BY <1>3, <1>4 DEF GI!At
  <2>3. GI!At("probe", "base")' \/ GI!At("probe", "merge")' =>
             \E r \in v7' : r.commit > 0 /\ (r.branch # "detached" \/ v8')
    BY <1>3, <2>2, Zenon
  <2> QED
    BY <2>1, <2>3, Zenon DEF GI!ProbeReadTrue
<1> QED
  BY <1>1, <1>2, <1>3, <1>5, QuestionGoesOn

\* A probe ends.
LEMMA ProbeEnds ==
  ASSUME GI!WellFormed, GI!IInv, NEW stage \in Stages, GI!At("probe", stage), NEW says, GI!Answers(says),
         v3' = GI!Finds, v8' \in BOOLEAN, AnswerFits("probe", says, v7, v8')
  PROVE  GI!IInv'
<1>1. v5 \in GI!Calls /\ v3 \in CacheType /\ v5.kind = "probe"
  BY CallAt
<1>2. v3' \in CacheType
  BY <1>1, FindsIsCache
<1> QED
  BY <1>1, <1>2, QuestionEnds

LEMMA HeadCommitKeeps ==
  ASSUME GI!WellFormed, GI!IInv, GI!ReadHeadCommit
  PROVE  GI!IInv'
<1> DEFINE says == GI!Unavailable("NOT_HEAD_ATTACHED")
<1>1. GI!At("probe", "head commit") /\ v3' = GI!Finds /\ "head commit" \in Stages
      /\ "head name" \in Stages \ {"root"}
  BY DEF GI!ReadHeadCommit, Stages
<1>2. v1 \in v7 /\ v8 \in BOOLEAN /\ v1.commit \in Nat
  BY <1>1, CallAt, RepoIsOne
<1>3. CASE GI!Answers(says) /\ (v8' = TRUE \/ (v1.commit = 0 /\ v8' = v8))
  <2>1. AnswerFits("probe", says, v7, v8')
    BY <1>2, <1>3, UnavailableFits
  <2> HIDE DEF says
  <2> QED
    BY <1>1, <1>2, <1>3, <2>1, ProbeEnds
<1>4. CASE GI!Goes("head name", v1.commit) /\ v1.commit # 0 /\ v8' = v8
  <2>a. v1.commit # 0 /\ v1.commit \in Nat
    BY <1>2, <1>4, Zenon
  <2>1. v1.commit > 0
    BY <2>a
  <2> QED
    BY <1>1, <1>2, <1>4, <2>1, ProbeGoes
<1> QED
  BY <1>3, <1>4, Zenon DEF GI!ReadHeadCommit, GI!NotAvailable, GI!CommandFails, GI!CommandEnds

LEMMA HeadNameKeeps ==
  ASSUME GI!WellFormed, GI!IInv, GI!ReadHeadName
  PROVE  GI!IInv'
<1> DEFINE says == GI!Unavailable("NOT_HEAD_ATTACHED")
<1>1. GI!At("probe", "head name") /\ v3' = GI!Finds /\ "head name" \in Stages
      /\ "base" \in Stages \ {"root"}
  BY DEF GI!ReadHeadName, Stages
<1>2. v1 \in v7 /\ v8 \in BOOLEAN /\ v1.commit > 0
  BY <1>1, CallAt DEF GI!IInv, GI!ProbeReadTrue
<1>3. CASE GI!Answers(says) /\ v1.branch = "detached" /\ v8' = v8
  <2>1. AnswerFits("probe", says, v7, v8')
    BY <1>2, <1>3, UnavailableFits
  <2> HIDE DEF says
  <2> QED
    BY <1>1, <1>2, <1>3, <2>1, ProbeEnds
<1>4. CASE /\ \E name : GI!Goes("base", name)
           /\ (v8' = TRUE \/ (v1.branch # "detached" /\ v8' = v8))
  <2>1. \E r \in v7 : r.commit > 0 /\ (r.branch # "detached" \/ v8')
    BY <1>2, <1>4
  <2> QED
    BY <1>1, <1>2, <1>4, <2>1, ProbeGoes
<1> QED
  BY <1>3, <1>4, Zenon DEF GI!ReadHeadName, GI!NotAvailable, GI!CommandFails, GI!CommandEnds, GI!HeadIsAttached

LEMMA BaseKeeps ==
  ASSUME GI!WellFormed, GI!IInv, GI!ReadBase
  PROVE  GI!IInv'
<1> DEFINE says == GI!Unavailable("NO_BASE_REF")
<1>1. GI!At("probe", "base") /\ v3' = GI!Finds /\ "base" \in Stages
      /\ "merge" \in Stages \ {"root"}
  BY DEF GI!ReadBase, Stages
<1>2. /\ v1 \in v7 /\ v8 \in BOOLEAN
      /\ \E r \in v7 : r.commit > 0 /\ (r.branch # "detached" \/ v8)
  BY <1>1, CallAt DEF GI!IInv, GI!ProbeReadTrue
<1>3. CASE GI!Answers(says) /\ (v8' = TRUE \/ ("main" \notin v1.refs /\ v8' = v8))
  <2>1. AnswerFits("probe", says, v7, v8')
    BY <1>2, <1>3, UnavailableFits
  <2> HIDE DEF says
  <2> QED
    BY <1>1, <1>2, <1>3, <2>1, ProbeEnds
<1>4. CASE GI!Goes("merge", "main") /\ v8' = v8
  BY <1>1, <1>2, <1>4, ProbeGoes
<1> QED
  BY <1>3, <1>4, Zenon DEF GI!ReadBase, GI!NotAvailable, GI!CommandFails, GI!CommandEnds

LEMMA MergeKeeps ==
  ASSUME GI!WellFormed, GI!IInv, GI!MergeTree
  PROVE  GI!IInv'
<1>1. GI!At("probe", "merge") /\ v3' = GI!Finds /\ "merge" \in Stages
  BY DEF GI!MergeTree, Stages
<1>2. /\ v1 \in v7 /\ v8 \in BOOLEAN
      /\ \E r \in v7 : r.commit > 0 /\ (r.branch # "detached" \/ v8)
  BY <1>1, CallAt DEF GI!IInv, GI!ProbeReadTrue
<1>3. CASE GI!Answers(GI!Unavailable("GIT_INSPECTION_FAILED")) /\ v8' = TRUE
  <2>1. AnswerFits("probe", GI!Unavailable("GIT_INSPECTION_FAILED"), v7, v8')
    BY UnavailableFits
  <2> QED
    BY <1>1, <1>3, <2>1, ProbeEnds
<1>4. CASE GI!Answers(GI!Throws("GIT_CLI_ERROR")) /\ v8' = TRUE
  <2>1. v5 \in GI!Calls /\ v3 \in CacheType
    BY <1>1, CallAt
  <2>2. v3' \in CacheType
    BY <1>1, <2>1, FindsIsCache
  <2> QED
    BY <1>4, <2>1, <2>2, ThrowKeeps
<1>5. CASE GI!Answers(GI!Probed(<< >>)) /\ v8' = TRUE
  <2> DEFINE says == GI!Probed(<< >>)
  <2>1. says = [is |-> "clean", files |-> << >>]
    BY NothingParsed DEF GI!Probed
  <2>2. says.is = "clean"
    BY <2>1
  <2> HIDE DEF says
  <2>3. AnswerFits("probe", says, v7, v8')
    BY <1>2, <1>5, <2>2, Zenon DEF AnswerFits
  <2> QED
    BY <1>1, <1>5, <2>3, ProbeEnds DEF says
<1>6. CASE GI!Answers(GI!Probed(GI!MergeOutput(v1))) /\ v8' = v8
  <2> DEFINE listed == GI!Parsed(GI!MergeOutput(v1))
             says == GI!Probed(GI!MergeOutput(v1))
  <2>1. says = [is |-> IF listed = << >> THEN "clean" ELSE "conflicts", files |-> listed]
    BY Zenon DEF GI!Probed
  <2>2. /\ Names(listed) = v1.content /\ Cardinality(Names(listed)) = Len(listed)
        /\ listed = << >> <=> v1.content = {}
    BY RepoIsOne, MergeIsParsed
  <2> HIDE DEF listed, says
  <2>3. /\ says.files = listed /\ says.is \in {"clean", "conflicts"}
        /\ says.is = "clean" <=> v1.content = {}
    BY <2>1, <2>2
  <2>4. AnswerFits("probe", says, v7, v8')
    <3>1. \E r \in v7 : r.commit > 0 /\ (r.branch # "detached" \/ v8')
      BY <1>2, <1>6
    <3>2. says.is = "clean" => \E r \in v7 : r.content = {}
      BY <1>2, <2>3
    <3>3. \E r \in v7 : Names(says.files) = r.content
      BY <1>2, <2>2, <2>3
    <3>4. GI!Cardinality(Names(says.files)) = Len(says.files)
      BY <2>2, <2>3, CountsAlike
    <3>5. says.is \notin {"unavailable", "repository"}
      BY <2>3
    <3> QED
      BY <3>1, <3>2, <3>3, <3>4, <3>5, Zenon DEF AnswerFits
  <2> QED
    BY <1>1, <1>2, <1>6, <2>4, ProbeEnds DEF says
<1> QED
  BY <1>3, <1>4, <1>5, <1>6 DEF GI!MergeTree, GI!NotAvailable, GI!CommandFails, GI!CommandEnds

\* An inspection that is broken off.
LEMMA BreaksKeep ==
  ASSUME GI!WellFormed, GI!IInv, v5 \in GI!Calls, GI!Breaks, v3' \in CacheType
  PROVE  GI!IInv'
<1>1. CASE GI!CommandFails(GI!Answers(GI!Throws("GIT_INSPECTION_FAILED")))
  <2>1. v8' = TRUE /\ GI!Answers(GI!Throws("GIT_INSPECTION_FAILED"))
    BY <1>1 DEF GI!CommandFails
  <2> QED
    BY <2>1, ThrowKeeps
<1>2. CASE GI!NotAvailable(GI!Answers(GI!Throws("GIT_NOT_AVAILABLE")))
  <2>1. v8' = TRUE /\ GI!Answers(GI!Throws("GIT_NOT_AVAILABLE"))
    BY <1>2 DEF GI!NotAvailable
  <2> QED
    BY <2>1, ThrowKeeps
<1> QED
  BY <1>1, <1>2 DEF GI!Breaks

LEMMA VersionKeeps ==
  ASSUME GI!WellFormed, GI!IInv, GI!InspectVersion
  PROVE  GI!IInv'
<1>1. GI!At("inspect", "version") /\ "version" \in Stages /\ "branch" \in Stages \ {"root"}
  BY DEF GI!InspectVersion, Stages
<1>2. v5 \in GI!Calls /\ v1 \in v7 /\ v3 \in CacheType /\ v8 \in BOOLEAN
  BY <1>1, CallAt
<1>3. PICK answered \in GI!Versions : GI!Version(answered) /\ (v8' = v8 \/ v8' = TRUE)
  <2>1. CASE v3.version # None /\ UNCHANGED v8 /\ GI!Version(v3.version)
    <3>1. v3.version \in GI!Versions
      BY <1>2, <2>1 DEF CacheType
    <3> QED
      BY <2>1, <3>1, Zenon
  <2>2. CASE GI!NotAvailable(GI!Version("none"))
    <3>1. "none" \in GI!Versions
      BY DEF GI!Versions
    <3> QED
      BY <2>2, <3>1, Zenon DEF GI!NotAvailable
  <2>3. CASE GI!CommandFails(GI!Version("failed"))
    <3>1. "failed" \in GI!Versions
      BY DEF GI!Versions
    <3> QED
      BY <2>3, <3>1, Zenon DEF GI!CommandFails
  <2>4. CASE GI!CommandEnds(GI!Version(v2))
    <3>1. v2 \in GI!Versions
      BY DEF GI!IInv, GI!TypeOK, GI!Versions
    <3> QED
      BY <2>4, <3>1, Zenon DEF GI!CommandEnds
  <2> QED
    BY <2>1, <2>2, <2>3, <2>4, Zenon DEF GI!InspectVersion
<1>4. v3' \in CacheType
  <2>1. v3' = [GI!Finds EXCEPT !.version = answered]
    BY <1>3 DEF GI!Version
  <2> QED
    BY <1>2, <2>1, FindsIsCache
<1>5. v8' \in BOOLEAN
  BY <1>2, <1>3
<1>6. CASE answered = "new"
  <2>1. GI!Goes("branch", answered)
    BY <1>3, <1>6 DEF GI!Version
  <2>2. GI!InspectionReadTrue' /\ GI!ProbeReadTrue'
    BY <1>1, <1>2, <2>1, InspectionReads
  <2> QED
    BY <1>1, <1>2, <1>4, <1>5, <2>1, <2>2, QuestionGoesOn
<1>7. CASE answered # "new"
  <2>1. answered \in {"old", "none", "failed"}
    BY <1>7 DEF GI!Versions
  <2>2. PICK reason : GI!Answers(GI!Throws(reason))
    BY <1>3, <2>1 DEF GI!Version
  <2> QED
    BY <1>2, <1>4, <1>5, <2>2, ThrowKeeps
<1> QED
  BY <1>6, <1>7

\* The commands between the version and the status.
LEMMA InspectionStepKeeps ==
  ASSUME GI!WellFormed, GI!IInv, NEW stage, NEW next, NEW says, GI!InspectStep(stage, next, says),
         <<stage, next>> \in {<<"branch", "commit">>, <<"commit", "main">>, <<"main", "master">>,
                              <<"master", "remote">>, <<"remote", "status">>},
         says = GI!Reading(v1)[GI!Ended(stage) + 1]
  PROVE  GI!IInv'
<1>1. GI!At("inspect", stage) /\ stage \in Stages /\ next \in Stages \ {"root"} /\ v3' = GI!Finds
  BY DEF GI!InspectStep, Stages
<1>2. v5 \in GI!Calls /\ v1 \in v7 /\ v3 \in CacheType /\ v8 \in BOOLEAN
  BY <1>1, CallAt
<1>3. v3' \in CacheType
  BY <1>1, <1>2, FindsIsCache
<1>4. CASE GI!Breaks
  BY <1>2, <1>3, <1>4, BreaksKeep
<1>5. CASE GI!CommandEnds(GI!Goes(next, says))
  <2>1. GI!Goes(next, says) /\ v8' = v8
    BY <1>5 DEF GI!CommandEnds
  <2>2. stage = "branch" => says \in GI!Branches \union {"detached"}
    <3>1. GI!Reading(v1)[3] = v1.branch
      BY DEF GI!Reading
    <3>2. GI!Ended("branch") + 1 = 3
      BY DEF GI!Ended
    <3> QED
      BY <3>1, <3>2, RepoIsOne
  <2>3. <<stage, next>> \in {<<"root", "version">>, <<"version", "branch">>, <<"branch", "commit">>,
                              <<"commit", "main">>, <<"main", "master">>, <<"master", "remote">>,
                              <<"remote", "status">>}
    OBVIOUS
  <2>4. GI!InspectionReadTrue' /\ GI!ProbeReadTrue'
    BY <1>1, <1>2, <2>1, <2>2, <2>3, InspectionReads
  <2> QED
    BY <1>1, <1>2, <1>3, <2>1, <2>4, QuestionGoesOn
<1> QED
  BY <1>4, <1>5 DEF GI!InspectStep

LEMMA InspectionStepsKeep ==
  ASSUME GI!WellFormed, GI!IInv,
         GI!InspectBranch \/ GI!InspectCommit \/ GI!InspectMain \/ GI!InspectMaster \/ GI!InspectRemote
  PROVE  GI!IInv'
<1>1. ASSUME GI!InspectBranch PROVE GI!IInv'
  <2>1. v1.branch = GI!Reading(v1)[GI!Ended("branch") + 1]
    BY DEF GI!Reading, GI!Ended
  <2> QED
    BY <1>1, <2>1, InspectionStepKeeps DEF GI!InspectBranch
<1>2. ASSUME GI!InspectCommit PROVE GI!IInv'
  <2>1. v1.commit = GI!Reading(v1)[GI!Ended("commit") + 1]
    BY DEF GI!Reading, GI!Ended
  <2> QED
    BY <1>2, <2>1, InspectionStepKeeps DEF GI!InspectCommit
<1>3. ASSUME GI!InspectMain PROVE GI!IInv'
  <2>1. ("main" \in v1.refs) = GI!Reading(v1)[GI!Ended("main") + 1]
    BY DEF GI!Reading, GI!Ended
  <2> QED
    BY <1>3, <2>1, InspectionStepKeeps DEF GI!InspectMain
<1>4. ASSUME GI!InspectMaster PROVE GI!IInv'
  <2>1. ("master" \in v1.refs) = GI!Reading(v1)[GI!Ended("master") + 1]
    BY DEF GI!Reading, GI!Ended
  <2> QED
    BY <1>4, <2>1, InspectionStepKeeps DEF GI!InspectMaster
<1>5. ASSUME GI!InspectRemote PROVE GI!IInv'
  <2>1. ("origin/HEAD" \in v1.refs) = GI!Reading(v1)[GI!Ended("remote") + 1]
    BY DEF GI!Reading, GI!Ended
  <2> QED
    BY <1>5, <2>1, InspectionStepKeeps DEF GI!InspectRemote
<1> QED
  BY <1>1, <1>2, <1>3, <1>4, <1>5

\* A status that is clean has no records.
LEMMA CleanIsEmpty ==
  ASSUME NEW records \in SUBSET GI!Records,
         LET status == GI!ParsedStatus(records) IN ~ \E k \in DOMAIN status : status[k] # {}
  PROVE  records = {}
<1> SUFFICES ASSUME NEW q \in records PROVE FALSE
  OBVIOUS
<1> DEFINE status == GI!ParsedStatus(records)
<1>1. q.kind \in {"1", "u", "?"} /\ (q.kind = "1" => q.index \/ q.worktree)
  BY DEF GI!Records
<1>2. /\ q.kind = "1" /\ q.index => q.file \in status.staged
      /\ q.kind = "1" /\ q.worktree => q.file \in status.unstaged
      /\ q.kind = "u" => q.file \in status.conflicted
      /\ q.kind = "?" => q.file \in status.untracked
  BY DEF GI!ParsedStatus
<1>3. DOMAIN status = {"staged", "unstaged", "conflicted", "untracked"}
  BY DEF GI!ParsedStatus
<1> HIDE DEF status
<1>4. \A k \in DOMAIN status : status[k] = {}
  BY DEF status
<1>5. status.staged = {} /\ status.unstaged = {} /\ status.conflicted = {} /\ status.untracked = {}
  BY <1>3, <1>4
<1> QED
  BY <1>1, <1>2, <1>5

LEMMA WhetherIn ==
  ASSUME NEW ref, NEW refs, NEW b, b = (ref \in refs)
  PROVE  b \in BOOLEAN /\ (b <=> ref \in refs)
<1>1. b \in BOOLEAN
  BY SMT
<1>2. b <=> ref \in refs
  BY Zenon
<1> QED
  BY <1>1, <1>2

\* What is read of a ref is whether it was there.
LEMMA RefWasRead ==
  ASSUME NEW ref, NEW b, \E r \in v7 : b = (ref \in r.refs)
  PROVE  /\ b \in BOOLEAN
         /\ b => \E r \in v7 : ref \in r.refs
         /\ ~b => \E r \in v7 : ref \notin r.refs
<1>1. PICK r \in v7 : b = (ref \in r.refs)
  OBVIOUS
<1>2. b \in BOOLEAN /\ (b <=> ref \in r.refs)
  BY <1>1, WhetherIn
<1> QED
  BY <1>2, Zenon

LEMMA StatusKeeps ==
  ASSUME GI!WellFormed, GI!IInv, GI!InspectStatus
  PROVE  GI!IInv'
<1>1. GI!At("inspect", "status") /\ v3' = GI!Finds /\ "status" \in Stages
  BY DEF GI!InspectStatus, Stages
<1>2. /\ v5 \in GI!Calls /\ v1 \in v7 /\ v3 \in CacheType /\ v8 \in BOOLEAN
      /\ v5.kind = "inspect" /\ v5.stage = "status" /\ v5 # None
  BY <1>1, CallAt
<1>3. v3' \in CacheType
  BY <1>1, <1>2, FindsIsCache
<1>4. CASE GI!Breaks
  BY <1>2, <1>3, <1>4, BreaksKeep
<1>5. CASE GI!CommandEnds(GI!Answers(GI!Throws("GIT_INSPECTION_FAILED")))
  <2>1. v8' = v8 /\ GI!Answers(GI!Throws("GIT_INSPECTION_FAILED"))
    BY <1>5 DEF GI!CommandEnds
  <2> QED
    BY <1>2, <1>3, <2>1, ThrowKeeps
<1>6. CASE GI!CommandEnds(GI!Answers(GI!Inspected(v1.status)))
  <2>1. v8' = v8 /\ GI!Answers(GI!Inspected(v1.status))
    BY <1>6 DEF GI!CommandEnds
  <2>2. /\ \A i \in 3..7 : \E r \in v7 : v6[i] = GI!Reading(r)[i]
        /\ v6[3] \in GI!Branches \union {"detached"}
    <3>1. GI!Ended("status") = 7
      BY DEF GI!Ended
    <3> QED
      BY <1>2, <3>1 DEF GI!IInv, GI!InspectionReadTrue
  <2>3. /\ \E r \in v7 : v6[3] = r.branch
        /\ \E r \in v7 : v6[4] = r.commit
        /\ \E r \in v7 : v6[5] = ("main" \in r.refs)
        /\ \E r \in v7 : v6[6] = ("master" \in r.refs)
        /\ \E r \in v7 : v6[7] = ("origin/HEAD" \in r.refs)
    <3>1. 3 \in 3..7 /\ 4 \in 3..7 /\ 5 \in 3..7 /\ 6 \in 3..7 /\ 7 \in 3..7
      OBVIOUS
    <3>2. \A r : /\ GI!Reading(r)[3] = r.branch /\ GI!Reading(r)[4] = r.commit
                 /\ GI!Reading(r)[5] = ("main" \in r.refs)
                 /\ GI!Reading(r)[6] = ("master" \in r.refs)
                 /\ GI!Reading(r)[7] = ("origin/HEAD" \in r.refs)
      BY DEF GI!Reading
    <3>3. \E r \in v7 : v6[3] = r.branch
      BY <2>2, <3>1, <3>2, SMT
    <3>4. \E r \in v7 : v6[4] = r.commit
      BY <2>2, <3>1, <3>2, SMT
    <3>5. \E r \in v7 : v6[5] = ("main" \in r.refs)
      BY <2>2, <3>1, <3>2, SMT
    <3>6. \E r \in v7 : v6[6] = ("master" \in r.refs)
      BY <2>2, <3>1, <3>2, SMT
    <3>7. \E r \in v7 : v6[7] = ("origin/HEAD" \in r.refs)
      BY <2>2, <3>1, <3>2, SMT
    <3> QED
      BY <3>3, <3>4, <3>5, <3>6, <3>7, Zenon
  <2> DEFINE head == GI!HeadOf(v6[3], v6[4])
             status == GI!ParsedStatus(v1.status)
             dirty == \E k \in DOMAIN status : status[k] # {}
             base == GI!BaseBranch(head, v6[3], v6[5], v6[6], v6[7])
             says == [is |-> "repository", head |-> head, branch |-> v6[3], commit |-> v6[4],
                      base |-> base, status |-> status, dirty |-> dirty]
  <2>4. GI!Answers(says)
    BY <2>1, Zenon DEF GI!Inspected
  <2>5. ~dirty => v1.status = {}
    BY CleanIsEmpty, RepoIsOne
  <2>6. /\ base \in GI!Refs => \E r \in v7 : base \in r.refs
        /\ base # "origin/HEAD" => \E r \in v7 : "origin/HEAD" \notin r.refs
    <3> DEFINE main == v6[5]
               master == v6[6]
               remote == v6[7]
    <3>a. main \in BOOLEAN /\ master \in BOOLEAN /\ remote \in BOOLEAN
      BY <2>3, RefWasRead
    <3>b. /\ main => \E r \in v7 : "main" \in r.refs
          /\ master => \E r \in v7 : "master" \in r.refs
          /\ remote => \E r \in v7 : "origin/HEAD" \in r.refs
          /\ ~remote => \E r \in v7 : "origin/HEAD" \notin r.refs
      BY <2>3, RefWasRead
    <3> HIDE DEF main, master, remote
    <3>1. CASE remote
      <4>1. base = "origin/HEAD"
        BY <3>1 DEF GI!BaseBranch, main, master, remote
      <4> QED
        BY <3>1, <3>b, <4>1
    <3>2. CASE ~remote /\ main
      <4>1. base = "main"
        BY <3>2 DEF GI!BaseBranch, main, master, remote
      <4> QED
        BY <3>2, <3>b, <4>1
    <3>3. CASE ~remote /\ ~main /\ master
      <4>1. base = "master"
        BY <3>3 DEF GI!BaseBranch, main, master, remote
      <4> QED
        BY <3>3, <3>b, <4>1
    <3>4. CASE ~remote /\ ~main /\ ~master
      <4>1. base = IF head = "attached" THEN v6[3] ELSE "none"
        BY <3>4 DEF GI!BaseBranch, main, master, remote
      <4>2. head = "attached" => v6[3] # "detached"
        BY DEF GI!HeadOf
      <4> HIDE DEF head
      <4>3. base \in {"task", "other", "none"}
        BY <2>2, <4>1, <4>2 DEF GI!Branches
      <4>4. base \notin GI!Refs
        BY <4>3 DEF GI!Refs
      <4> QED
        BY <3>4, <3>b, <4>4
    <3> QED
      BY <3>a, <3>1, <3>2, <3>3, <3>4
  <2>7. (\A r, s \in v7 : r.branch = s.branch /\ r.commit = s.commit) =>
          \E r \in v7 : /\ GI!HeadOf(r.branch, r.commit) = head
                        /\ r.branch = v6[3] /\ r.commit = v6[4]
    <3> SUFFICES ASSUME \A r, s \in v7 : r.branch = s.branch /\ r.commit = s.commit
                 PROVE  \E r \in v7 : /\ GI!HeadOf(r.branch, r.commit) = head
                                      /\ r.branch = v6[3] /\ r.commit = v6[4]
      OBVIOUS
    <3>1. PICK r \in v7 : r.branch = v6[3] /\ r.commit = v6[4]
      BY <2>3, Zenon
    <3> QED
      BY <3>1, Zenon
  <2> HIDE DEF head, status, dirty, base
  <2>8. /\ says.is = "repository" /\ says.head = head /\ says.branch = v6[3]
        /\ says.commit = v6[4] /\ says.base = base /\ says.dirty = dirty
    OBVIOUS
  <2> HIDE DEF says
  <2>9. AnswerFits("inspect", says, v7, v8')
    <3>1. ~says.dirty => \E r \in v7 : r.status = {}
      BY <1>2, <2>5, <2>8, Zenon
    <3> QED
      BY <2>6, <2>7, <2>8, <3>1, Zenon DEF AnswerFits
  <2> QED
    BY <1>2, <1>3, <2>1, <2>4, <2>9, QuestionEnds
<1> QED
  BY <1>4, <1>5, <1>6, Zenon DEF GI!InspectStatus, GI!CommandEnds

LEMMA ProbeStepsKeep ==
  ASSUME GI!WellFormed, GI!IInv, [GI!Next]_(GI!probeVars)
  PROVE  GI!IInv'
<1>1. CASE UNCHANGED GI!probeVars
  <2>1. /\ v1' = v1 /\ v7' = v7 /\ v3' = v3 /\ v5' = v5 /\ v6' = v6
        /\ v8' = v8 /\ v9' = v9 /\ v2' = v2
    BY <1>1 DEF GI!probeVars, GI!outside
  <2>2. GI!TypeOK'
    BY <2>1 DEF GI!IInv, GI!TypeOK
  <2>3. GI!ProbesAreTrue'
    BY <2>1, SameAnswer DEF GI!IInv
  <2>4. GI!InspectionReadTrue' /\ GI!ProbeReadTrue'
    BY <2>1, SameCall
  <2> QED
    BY <2>1, <2>2, <2>3, <2>4 DEF GI!IInv
<1> QED
  BY <1>1, OthersKeep, QuestionKeeps, FindRootKeeps, HeadCommitKeeps, HeadNameKeeps, BaseKeeps,
     MergeKeeps, VersionKeeps, InspectionStepsKeep, StatusKeeps DEF GI!Next

LEMMA ProbesPart ==
  ASSUME part = "probes", [GitNext]_desktopVars
  PROVE  [GI!Next]_(GI!probeVars)
BY DEF GitNext, Moves, desktopVars, GI!probeVars, GI!outside

\* For any files, any commits and any number of changes that others make between
\* two commands of Git: the files in conflict that a merge probe answers with are
\* all that there were at some moment of the probe, each once, the head was
\* attached then, and what is missed was missing or a command had failed; and the
\* head, the base and the clean status of an inspection were those of the
\* repository (checkTaskMergeConflicts, inspect).
THEOREM ProbesAlwaysTrue == GitSpec => []ProbesAreTrue
<1> DEFINE Inv == part = "probes" => GI!IInv
<1>1. GitInit => Inv
  BY ProbesWellFormed, ProbesStartTrue DEF GitInit
<1>2. Inv /\ [GitNext]_desktopVars => Inv'
  BY ProbesWellFormed, GitPartStays, ProbesPart, ProbeStepsKeep
<1>3. Inv => ProbesAreTrue
  BY DEF GI!IInv, ProbesAreTrue
<1> QED
  BY <1>1, <1>2, <1>3, PTL DEF GitSpec
=============================================================================
