---------------------------- MODULE PullRequests ----------------------------
(***************************************************************************)
(* The Pull Request of one Task: its branch is pushed, a Pull Request is   *)
(* made or found for it, and what GitHub says of it is read and kept.      *)
(* Between any two answers of git and of GitHub the agent commits, other   *)
(* people push, merge, close and retarget, the clock is set, and the       *)
(* window is opened anew and asks again.  An inspection of the branch is   *)
(* taken at one moment.                                                    *)
(***************************************************************************)
EXTENDS Naturals, Sequences, FiniteSets, SequencesExt

CONSTANTS
  Commits, Ancestors,   \* the commits, and for each those it descends from
  Base,                 \* the commit that the Task's Worktree was made from
  ReviewLists, CheckLists,   \* what GitHub may answer of reviews and checks
  MaxAsked, MaxChanges, MaxClock, MaxPulls,   \* bounds
  None

VARIABLES
  head, dirty,   \* the Worktree; dirty: has changes, or is not on its branch
  tracking,      \* the remote-tracking branch that the Worktree knows
  remote, pulls, \* the branch and the Pull Requests on GitHub
  usable,        \* gh is installed and signed in
  clock, changes,
  rows, history, \* task_pull_requests and its synchronisation history
  ops,           \* the operations in flight, in their order of arrival
  asked,
  inspecting,    \* the rows read for an inspection that is on its way
  shown          \* what the window shows of the branch

outside == <<head, dirty, remote, pulls, usable, clock, changes>>
stored == <<rows, history>>
window == <<asked, inspecting, shown>>
pullVars == <<outside, tracking, stored, ops, window>>

Statuses == {"OPEN", "CLOSED", "MERGED"}

-----------------------------------------------------------------------------
(* GitHub and the Worktree.                                                *)

Init ==
  /\ head = Base /\ dirty = FALSE /\ tracking = None /\ remote = None
  /\ pulls = << >> /\ usable = TRUE /\ clock = 0 /\ changes = 0
  /\ rows = {} /\ history = [n \in 1..MaxPulls |-> << >>]
  /\ ops = << >> /\ asked = 0 /\ inspecting = None /\ shown = None

Change ==
  /\ changes < MaxChanges /\ changes' = changes + 1
  /\ UNCHANGED <<stored, ops, window>>

\* The agent edits, commits, amends and resets.
WorktreeChanges ==
  /\ Change
  /\ \E c \in Commits, d \in BOOLEAN : head' = c /\ dirty' = d
  /\ UNCHANGED <<tracking, remote, pulls, usable, clock>>

\* An open Pull Request follows its branch.
Moved(c) ==
  [n \in DOMAIN pulls |->
     IF pulls[n].status = "OPEN" THEN [pulls[n] EXCEPT !.sha = c, !.ver = @ + 1]
     ELSE pulls[n]]

Fetches ==
  /\ Change /\ tracking' = remote
  /\ UNCHANGED <<head, dirty, remote, pulls, usable, clock>>

SomebodyPushes(c) ==
  /\ Change /\ remote' = c /\ pulls' = Moved(c)
  /\ UNCHANGED <<head, dirty, tracking, usable, clock>>

\* One that is opened again is of the branch as it is then.
PullChanges(n, status, base) ==
  /\ Change
  /\ pulls[n].status # "MERGED"
  /\ \/ status # pulls[n].status /\ base = pulls[n].base
     \/ status = pulls[n].status /\ status = "OPEN" /\ base # pulls[n].base
  /\ status = "MERGED" => pulls[n].status = "OPEN"
  /\ status = "OPEN" => \A m \in DOMAIN pulls \ {n} :
                          ~ (pulls[m].status = "OPEN" /\ pulls[m].base = base)
  /\ pulls' = [pulls EXCEPT ![n].status = status, ![n].base = base, ![n].ver = @ + 1,
                            ![n].sha = IF pulls[n].status = "CLOSED" THEN remote ELSE @]
  /\ UNCHANGED <<head, dirty, tracking, remote, usable, clock>>

ClockIsSet(t) ==
  /\ Change /\ clock' = t
  /\ UNCHANGED <<head, dirty, tracking, remote, pulls, usable>>

SignsInOrOut ==
  /\ Change /\ usable' = ~ usable
  /\ UNCHANGED <<head, dirty, tracking, remote, pulls, clock>>

-----------------------------------------------------------------------------
(* The window.                                                             *)

\* inspectReadyBranch: a clean Worktree on its branch, which descends from its
\* base and is ahead of it.
Ready == ~ dirty /\ Base \in Ancestors[head] /\ head # Base

\* createState: of the rows, the last that was synchronised is shown.
LastSynced(table) ==
  IF table = {} THEN None
  ELSE (CHOOSE r \in table : \A s \in table \ {r} :
          \/ s.synced < r.synced
          \/ s.synced = r.synced /\ s.number < r.number).number

Inspect ==
  /\ inspecting = None /\ shown = None
  /\ inspecting' = [table |-> rows]
  /\ UNCHANGED <<outside, tracking, stored, ops, asked, shown>>

Show ==
  /\ inspecting # None /\ inspecting' = None
  /\ LET number == LastSynced(inspecting.table)
     IN shown' = [push |-> Ready /\ tracking # head,
                  create |-> Ready /\ usable /\ tracking = head /\ number = None,
                  number |-> number]
  /\ UNCHANGED <<outside, tracking, stored, ops, asked>>

\* An action has succeeded, another Task is selected and this one again, or the
\* window is opened anew and knows of no action that runs.
Reload ==
  /\ shown' = None /\ inspecting' = None
  /\ \/ <<inspecting, shown>> # <<None, None>> /\ UNCHANGED ops
     \/ ops' = [i \in DOMAIN ops |-> [ops[i] EXCEPT !.mine = FALSE]]
  /\ UNCHANGED <<outside, tracking, stored, asked>>

Offers(what) ==
  CASE what = "push" -> shown.push
    [] what = "create" -> shown.create
    [] what = "refresh" -> shown.number # None

\* executeSelectedAction: one action at a time.  What was shown when it began
\* is still shown, and offers the same, when it fails.
ActionRuns == \E i \in DOMAIN ops : ops[i].mine

Ask(what) ==
  /\ shown # None /\ Offers(what) /\ ~ ActionRuns
  /\ asked < MaxAsked /\ asked' = asked + 1
  /\ ops' = Append(ops, [what |-> what, number |-> shown.number, mine |-> TRUE,
                         at |-> IF what = "refresh" THEN "find" ELSE "inspect",
                         branch |-> None, again |-> None, synced |-> 0,
                         pull |-> None, raw |-> None])
  /\ UNCHANGED <<outside, tracking, stored, inspecting, shown>>

-----------------------------------------------------------------------------
(* The operations.  serializeTaskWorkflow: only the first one runs.        *)

HasTurn(i) == i = 1

At(i, what, at) ==
  i \in DOMAIN ops /\ HasTurn(i) /\ ops[i].what = what /\ ops[i].at = at

Ends(i) == ops' = RemoveAt(ops, i) /\ UNCHANGED <<stored, window>>
Goes(i, op) == ops' = [ops EXCEPT ![i] = op] /\ UNCHANGED <<stored, window>>

\* The branch is not inspectable, git fails, or the push could not be verified.
GitFails(i) ==
  /\ i \in DOMAIN ops /\ HasTurn(i)
  /\ ops[i].at \in {"inspect", "again", "push", "verify"}
  /\ Ends(i) /\ UNCHANGED <<outside, tracking>>

AsksGitHub == {"ref", "list", "post", "get", "details"}

\* gh cannot be run, fails, or does not answer in time.
GhFails(i) ==
  /\ i \in DOMAIN ops /\ HasTurn(i) /\ ops[i].at \in AsksGitHub
  /\ Ends(i) /\ UNCHANGED <<outside, tracking>>

\* The answer is not what its reader expects, or has too many pages.
AnswerIsRefused(i) ==
  /\ i \in DOMAIN ops /\ HasTurn(i) /\ ops[i].at \in AsksGitHub
  /\ Ends(i) /\ UNCHANGED <<outside, tracking>>

PushInspects(i) ==
  /\ At(i, "push", "inspect")
  /\ IF Ready /\ tracking # head
     THEN Goes(i, [ops[i] EXCEPT !.at = "push", !.branch = head])
     ELSE Ends(i)
  /\ UNCHANGED <<outside, tracking>>

\* git push of the commit that was inspected, without force.  When the process
\* is stopped after GitHub took the commit, nothing here tells.
Pushes(i) ==
  /\ At(i, "push", "push")
  /\ remote = None \/ remote \in Ancestors[ops[i].branch]
  /\ remote' = ops[i].branch /\ pulls' = Moved(ops[i].branch)
  /\ \/ tracking' = ops[i].branch /\ Goes(i, [ops[i] EXCEPT !.at = "verify"])
     \/ UNCHANGED tracking /\ Ends(i)
  /\ UNCHANGED <<head, dirty, usable, clock, changes>>

PushVerifies(i) ==
  /\ At(i, "push", "verify")
  /\ Ends(i) /\ UNCHANGED <<outside, tracking>>

\* createTaskPullRequest inspects, and createOrRefresh inspects once more.
Publishable == Ready /\ usable /\ tracking = head

CreateInspects(i) ==
  /\ At(i, "create", "inspect") /\ Publishable
  /\ Goes(i, [ops[i] EXCEPT !.at = "again", !.branch = head])
  /\ UNCHANGED <<outside, tracking>>

InspectsAgain(i) ==
  /\ At(i, "create", "again") /\ Publishable
  /\ Goes(i, [ops[i] EXCEPT !.at = "ref", !.again = head])
  /\ UNCHANGED <<outside, tracking>>

\* The branch on GitHub is where the Worktree's branch is.
ReadsRef(i) ==
  /\ At(i, "create", "ref") /\ remote = ops[i].again
  /\ Goes(i, [ops[i] EXCEPT !.at = "list", !.synced = clock])
  /\ UNCHANGED <<outside, tracking>>

Snapshot(n, synced) ==
  [number |-> n, base |-> pulls[n].base, sha |-> pulls[n].sha,
   status |-> pulls[n].status, seen |-> pulls[n].ver, synced |-> synced,
   review |-> "UNKNOWN", checks |-> "UNKNOWN"]

\* Those of the very commit; GitHub lists the newest first.
Candidates(c) == {n \in DOMAIN pulls : pulls[n].base = "main" /\ pulls[n].sha = c}

\* selectSuitablePullRequest.
Suitable(among) ==
  LET of(status) == {n \in among : pulls[n].status = status}
      newest(s) == CHOOSE n \in s : \A m \in s : m <= n
  IN CASE of("OPEN") # {} -> newest(of("OPEN"))
       [] of("OPEN") = {} /\ of("MERGED") # {} -> newest(of("MERGED"))
       [] OTHER -> newest(of("CLOSED"))

Lists(i) ==
  /\ At(i, "create", "list")
  /\ LET found == Candidates(ops[i].again)
     IN IF found = {} THEN Goes(i, [ops[i] EXCEPT !.at = "post"])
        ELSE Goes(i, [ops[i] EXCEPT !.at = "record",
                                    !.pull = Snapshot(Suitable(found), ops[i].synced)])
  /\ UNCHANGED <<outside, tracking>>

\* GitHub makes the Pull Request, of the branch as it is now; the answer may be
\* lost, and is refused when it is of another commit.
Posts(i) ==
  /\ At(i, "create", "post")
  /\ remote # None /\ Len(pulls) < MaxPulls
  /\ \A n \in DOMAIN pulls : ~ (pulls[n].status = "OPEN" /\ pulls[n].base = "main")
  /\ LET made == [base |-> "main", sha |-> remote, status |-> "OPEN", ver |-> 1]
     IN /\ pulls' = Append(pulls, made)
        /\ \/ Ends(i)
           \/ /\ remote = ops[i].again
              /\ Goes(i, [ops[i] EXCEPT !.at = "record",
                            !.pull = [number |-> Len(pulls) + 1, base |-> "main",
                                      sha |-> remote, status |-> "OPEN", seen |-> 1,
                                      synced |-> ops[i].synced,
                                      review |-> "UNKNOWN", checks |-> "UNKNOWN"]])
  /\ UNCHANGED <<head, dirty, tracking, remote, usable, clock, changes>>

\* refreshTaskPullRequest: the row is found and the time is taken before GitHub
\* is asked.
Finds(i) ==
  /\ At(i, "refresh", "find") /\ usable
  /\ \E r \in rows : r.number = ops[i].number
  /\ Goes(i, [ops[i] EXCEPT !.at = "get", !.synced = clock])
  /\ UNCHANGED <<outside, tracking>>

\* The row is of another Pull Request by now, or gh cannot be used.
FindsNone(i) ==
  /\ At(i, "refresh", "find")
  /\ ~ usable \/ \A r \in rows : r.number # ops[i].number
  /\ Ends(i) /\ UNCHANGED <<outside, tracking>>

Gets(i) ==
  /\ At(i, "refresh", "get")
  /\ Goes(i, [ops[i] EXCEPT !.at = "details",
                            !.pull = Snapshot(ops[i].number, ops[i].synced)])
  /\ UNCHANGED <<outside, tracking>>

-----------------------------------------------------------------------------
(* Reviews and checks.                                                     *)

Decisive == {"APPROVED", "CHANGES_REQUESTED", "DISMISSED"}

\* Mutant: a comment replaces a decision.
LastOf(reviews, who) ==
  FoldLeft(LAMBDA latest, r : IF r.who = who THEN r.state ELSE latest, None, reviews)

\* latestByReviewer: a comment does not replace a decision, a dismissal removes
\* it, and what is pending is left out.
LatestOf(reviews, who) ==
  FoldLeft(LAMBDA latest, r :
            CASE r.who # who \/ r.state = "PENDING" -> latest
              [] r.who = who /\ r.state = "DISMISSED" -> None
              [] r.who = who /\ r.state = "COMMENTED" /\ latest # None -> latest
              [] OTHER -> r.state,
          None, reviews)

\* summarizeReviews.
ReviewState(reviews) ==
  LET states == {LatestOf(reviews, r.who) : r \in ToSet(reviews)}
  IN CASE "CHANGES_REQUESTED" \in states -> "CHANGES_REQUESTED"
       [] "CHANGES_REQUESTED" \notin states /\ "APPROVED" \in states -> "APPROVED"
       [] states \in {{"COMMENTED"}, {"COMMENTED", None}} -> "COMMENTED"
       [] OTHER -> "NONE"

\* summarizeChecks, of the conclusions of all check runs and statuses.
CheckState(checks) ==
  CASE checks = << >> -> "NONE"
    [] "failure" \in ToSet(checks) -> "FAILURE"
    [] "failure" \notin ToSet(checks) /\ "pending" \in ToSet(checks) -> "PENDING"
    [] OTHER -> "SUCCESS"

ReadsDetails(i) ==
  /\ At(i, "refresh", "details")
  /\ \E reviews \in ReviewLists, checks \in CheckLists :
       Goes(i, [ops[i] EXCEPT !.at = "record",
                              !.raw = [reviews |-> reviews, checks |-> checks],
                              !.pull = [@ EXCEPT !.review = ReviewState(reviews),
                                                 !.checks = CheckState(checks)]])
  /\ UNCHANGED <<outside, tracking>>

-----------------------------------------------------------------------------
(* The store.                                                              *)

\* The row of this Pull Request, or else the row of its branches.
RowOf(p) ==
  LET same == {r \in rows : r.number = p.number}
  IN IF same # {} THEN same ELSE {r \in rows : r.base = p.base}

\* isNewerPullRequestSnapshot.
IsNewer(p, row) == p.synced >= row.synced

\* sameTaskPullRequest.
IsSame(p, row) == row = p

\* assertMatchingMetadata: what is made or found is of the commit that was
\* inspected first.
Matches(p, branch) == branch # None => p.sha = branch

\* assertTaskPullRequestMetadata.
IsRow(p) ==
  /\ p.number > 0 /\ p.status \in Statuses
  /\ p.review \in {"APPROVED", "CHANGES_REQUESTED", "COMMENTED", "NONE", "UNKNOWN"}
  /\ p.checks \in {"FAILURE", "NONE", "PENDING", "SUCCESS", "UNKNOWN"}

\* The primary key of the table.
KeyIsFree(p) == ~ \E r \in rows \ RowOf(p) : r.base = p.base

\* record leaves a snapshot out that is not newer.
Takes(p, branch) ==
  /\ Matches(p, branch) /\ IsRow(p) /\ KeyIsFree(p)
  /\ \A row \in RowOf(p) : ~ IsSame(p, row) /\ IsNewer(p, row)

Records(i) ==
  /\ i \in DOMAIN ops /\ HasTurn(i) /\ ops[i].at = "record"
  /\ ops' = RemoveAt(ops, i)
  /\ LET p == ops[i].pull
     IN IF Takes(p, ops[i].branch)
        THEN /\ rows' = (rows \ RowOf(p)) \cup {p}
             /\ history' = [history EXCEPT ![p.number] = Append(@, p)]
        ELSE UNCHANGED stored
  /\ UNCHANGED <<outside, tracking, window>>

Next ==
  \/ WorktreeChanges \/ Fetches \/ SignsInOrOut
  \/ \E c \in Commits : SomebodyPushes(c)
  \/ \E n \in DOMAIN pulls, status \in Statuses, base \in {"main", "dev"} :
       PullChanges(n, status, base)
  \/ \E t \in 0..MaxClock : ClockIsSet(t)
  \/ Inspect \/ Show \/ Reload
  \/ \E what \in {"push", "create", "refresh"} : Ask(what)
  \/ \E i \in 1..MaxAsked :
       \/ GitFails(i) \/ GhFails(i) \/ AnswerIsRefused(i) \/ PushInspects(i) \/ Pushes(i) \/ PushVerifies(i)
       \/ CreateInspects(i) \/ InspectsAgain(i) \/ ReadsRef(i) \/ Lists(i) \/ Posts(i)
       \/ Finds(i) \/ FindsNone(i) \/ Gets(i) \/ ReadsDetails(i) \/ Records(i)

Spec == Init /\ [][Next]_pullVars

-----------------------------------------------------------------------------
(* Properties.                                                             *)

ReviewStates == Decisive \cup {"COMMENTED", "PENDING"}
Reviews == [who : STRING, state : ReviewStates]

\* What the constants must be.
WellFormed ==
  /\ MaxPulls \in Nat /\ MaxClock \in Nat
  /\ Base \in Commits
  /\ ReviewLists \subseteq Seq(Reviews)
  /\ CheckLists \subseteq Seq({"success", "failure", "pending"})
  /\ None \notin ReviewStates

Pulls == [base : {"main", "dev"}, sha : Commits \cup {None}, status : Statuses,
          ver : Nat]

Snapshots ==
  [number : Nat, base : {"main", "dev"}, sha : Commits \cup {None},
   status : Statuses, seen : Nat, synced : Nat,
   review : {"APPROVED", "CHANGES_REQUESTED", "COMMENTED", "NONE", "UNKNOWN"},
   checks : {"FAILURE", "NONE", "PENDING", "SUCCESS", "UNKNOWN"}]

Places(what) ==
  CASE what = "push" -> {"inspect", "push", "verify"}
    [] what = "create" -> {"inspect", "again", "ref", "list", "post", "record"}
    [] what = "refresh" -> {"find", "get", "details", "record"}

Operations ==
  [what : {"push", "create", "refresh"}, number : Nat \cup {None}, mine : BOOLEAN,
   at : Places("push") \cup Places("create") \cup Places("refresh"),
   branch : Commits \cup {None}, again : Commits \cup {None}, synced : Nat,
   pull : Snapshots \cup {None},
   raw : [reviews : ReviewLists, checks : CheckLists] \cup {None}]

TypeOK ==
  /\ head \in Commits /\ {tracking, remote} \subseteq Commits \cup {None}
  /\ pulls \in Seq(Pulls) /\ Len(pulls) <= MaxPulls
  /\ clock \in Nat
  /\ rows \subseteq Snapshots /\ history \in [1..MaxPulls -> Seq(Snapshots)]
  /\ ops \in Seq(Operations)
  /\ inspecting = None \/ inspecting \in [table : SUBSET Snapshots]
  /\ shown = None \/ shown \in [push : BOOLEAN, create : BOOLEAN,
                                number : Nat \cup {None}]

\* The Task has one row at most, although its key would allow one for each base.
OneRow ==
  /\ \A r, s \in rows : r = s
  /\ inspecting # None => \A r, s \in inspecting.table : r = s

\* What was once true of GitHub's Pull Request n, and is outdated at most.
WasTrue(n, snapshot) ==
  /\ n \in DOMAIN pulls /\ snapshot.seen <= pulls[n].ver
  /\ snapshot.status = "MERGED" => pulls[n].status = "MERGED"

\* A row ends the history of its Pull Request, and no history is newer than the
\* row that is there.
StoreIsTrue ==
  /\ \A r \in rows : /\ r.number \in DOMAIN pulls
                      /\ history[r.number] # << >> /\ Last(history[r.number]) = r
  /\ \A n \in DOMAIN history : \A k \in DOMAIN history[n] :
       /\ WasTrue(n, history[n][k])
       /\ \E r \in rows : history[n][k].synced <= r.synced

\* What is read now is later than what is stored of the same Pull Request.
IsLater(pull) ==
  \A k \in DOMAIN history[pull.number] :
    LET stored_ == history[pull.number][k]
    IN /\ stored_.seen <= pull.seen
       /\ stored_.status = "MERGED" => pull.status = "MERGED"

\* An operation that waits has not begun; one that is under way has read what it
\* is going to record.
UnderWay(op) ==
  /\ op.at \in Places(op.what)
  /\ op.at \in {"details", "record"} =>
       op.pull \in Snapshots /\ WasTrue(op.pull.number, op.pull) /\ IsLater(op.pull)
  /\ op.what = "create" /\ op.at = "record" => op.pull.base = "main"
  /\ op.what = "refresh" /\ op.at # "find" => \E r \in rows : r.number = op.number
  /\ op.what = "refresh" /\ op.at \in {"details", "record"} => op.pull.number = op.number
  /\ op.what = "refresh" /\ op.at = "record" =>
       /\ op.raw \in [reviews : ReviewLists, checks : CheckLists]
       /\ op.pull.review = ReviewState(op.raw.reviews)
       /\ op.pull.checks = CheckState(op.raw.checks)

OperationsFit ==
  \A i \in DOMAIN ops : UnderWay(ops[i]) /\ (i > 1 => ops[i].at \in {"inspect", "find"})

\* A Pull Request is asked for while the window knows of none, and its refresh
\* once it knows of one: the first row is of the base branch that every creation
\* finds, and is retargeted by a refresh only, after which none is created.
CreatesComeFirst ==
  LET asks(what) == \E i \in DOMAIN ops : ops[i].what = what
      mayCreate == \/ asks("create")
                   \/ shown # None /\ shown.create
                   \/ inspecting # None /\ inspecting.table = {}
  IN /\ \A i, j \in DOMAIN ops :
          ops[i].what = "refresh" /\ ops[j].what = "create" => j < i
     /\ asks("refresh") => /\ rows # {}
                           /\ inspecting # None => inspecting.table # {}
                           /\ shown # None => ~ shown.create
     /\ mayCreate => \A r \in rows : r.base = "main"
     /\ inspecting # None /\ inspecting.table # {} => rows # {}
     /\ shown # None /\ shown.number # None => rows # {}
     /\ shown # None /\ shown.create => shown.number = None
     /\ shown = None \/ inspecting = None

\* What is stored of a Pull Request is never replaced by what GitHub said of it
\* at an earlier moment, whatever the clock and the order of the answers.
NeverGoesBack ==
  \A r \in rows, s \in rows' : r.number = s.number => r.seen <= s.seen

\* Every row is the last entry of its history, each entry was true of GitHub
\* later than the entry before it, and a merge is the last word.
HistoryIsTold ==
  /\ \A r \in rows : history[r.number] # << >> /\ Last(history[r.number]) = r
  /\ \A n \in DOMAIN history : \A i \in 1..(Len(history[n]) - 1) :
       /\ history[n][i].synced <= history[n][i + 1].synced
       /\ history[n][i].seen <= history[n][i + 1].seen
       /\ history[n][i].status = "MERGED" => history[n][i + 1].status = "MERGED"

\* A summary of reviews: changes are requested exactly while a reviewer's last
\* decision requests them, and it is approved only by a standing approval.
Stands(reviews, k) ==
  \A j \in (k + 1)..Len(reviews) :
    reviews[j].who = reviews[k].who => reviews[j].state \notin Decisive

SummaryIsFair ==
  \A i \in DOMAIN ops : ops[i].what = "refresh" /\ ops[i].at = "record" =>
    LET reviews == ops[i].raw.reviews
        standing(state) ==
          \E k \in DOMAIN reviews : reviews[k].state = state /\ Stands(reviews, k)
    IN /\ ops[i].pull.review = "CHANGES_REQUESTED" <=> standing("CHANGES_REQUESTED")
       /\ ops[i].pull.review = "APPROVED"
            <=> standing("APPROVED") /\ ~ standing("CHANGES_REQUESTED")
       /\ ops[i].pull.checks = "SUCCESS"
            => ToSet(ops[i].raw.checks) = {"success"}

\* What the proof of the properties rests on.
IInv ==
  /\ TypeOK /\ OneRow /\ StoreIsTrue /\ HistoryIsTold /\ OperationsFit
  /\ CreatesComeFirst

\* The three of them, for every step.
PullRequestStepIsSound == NeverGoesBack /\ HistoryIsTold' /\ SummaryIsFair'

PullRequestsSound == [][PullRequestStepIsSound]_pullVars
=============================================================================
