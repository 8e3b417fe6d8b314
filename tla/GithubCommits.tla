---------------------------- MODULE GithubCommits ----------------------------
(***************************************************************************)
(* How the GitHub secret scan comes to read every commit of a default      *)
(* branch (github_secrets.py).  The cursor of a repository is a watermark  *)
(* (the date and the sha of the last commit read), the failures of the     *)
(* commits that would not load, and the push the last complete pass saw.   *)
(* A sync lists the commits since the watermark, reads them oldest first   *)
(* under a budget, and moves the watermark over those read in a row.       *)
(*                                                                         *)
(* Commits are numbered by date; a merge brings in commits that are older  *)
(* than others already there.  The other branches, the files of the tree   *)
(* (GithubTree) and push events are not in this module.                    *)
(***************************************************************************)
EXTENDS Naturals, FiniteSets, FiniteSetsExt

CONSTANTS
    NCommits,    \* bound: commits ever on the branch
    Date,        \* Date[c]: when commit c was written, equal for some
    Huge,        \* commits with more files than one sync's budget
    Tries,       \* _COMMIT_TRIES
    Budget,      \* _COMMITS_PER_SYNC
    ListMax,     \* _COMMIT_PAGES of 100 commits
    MaxFaults    \* bound: syncs cut short by the clock or a rate limit, or lost

Commits == 1 .. NCommits

DateAssumption ==
    /\ NCommits \in Nat /\ MaxFaults \in Nat /\ Tries \in Nat \ {0} /\ ListMax \in Nat \ {0}
    /\ Date \in [Commits -> Nat \ {0}] /\ Huge \subseteq Commits
    /\ \A c, d \in Commits : c < d => Date[c] <= Date[d]

\* Commits of one second in larger number than the budget are read over and over.
BudgetAssumption ==
    /\ Budget \in Nat \ {0}
    /\ \A c \in Commits : Cardinality({d \in Commits : Date[d] = Date[c]}) <= Budget

VARIABLES
    landed,     \* the commits on the branch
    cursor,     \* the repository's saved state
    sync,       \* the sync in progress
    handled,    \* history: commits read, or given up on and reported
    missed,     \* history: commits that came in behind a watermark, or beyond the listing
    faults      \* history: what MaxFaults counts

commitVars == <<landed, cursor, sync, handled, missed, faults>>

Dates == {Date[c] : c \in Commits} \cup {0}
Idle  == [at |-> "idle", pushed |-> {}, list |-> {}, tried |-> {}, got |-> {},
          fails |-> [c \in Commits |-> 0], cut |-> FALSE]

TypeOK ==
    /\ landed \subseteq Commits
    /\ cursor.since \in Dates /\ cursor.last \in 0 .. NCommits
    /\ cursor.fails \in [Commits -> 0 .. Tries - 1] /\ cursor.pushed \subseteq landed
    /\ sync.at \in {"idle", "list", "read"} /\ sync.cut \in BOOLEAN
    /\ sync.pushed \subseteq landed /\ sync.got \subseteq landed
    /\ sync.list \subseteq landed /\ sync.tried \subseteq sync.list
    /\ sync.fails \in [Commits -> 0 .. Tries - 1]
    /\ {handled, missed} \subseteq SUBSET landed
    /\ faults \in 0 .. MaxFaults

Init ==
    /\ landed = {}
    /\ cursor = [since |-> 0, last |-> 0, fails |-> [c \in Commits |-> 0], pushed |-> {}]
    /\ sync = Idle
    /\ handled = {} /\ missed = {} /\ faults = 0

\* A push or a merge brings commits in; some may be too old to be listed again.
Land(new) ==
    /\ new # {} /\ new \cap landed = {}
    /\ landed' = landed \cup new
    /\ missed' = missed \cup
           {c \in new : \/ Date[c] < cursor.since
                        \/ \E d \in sync.list : Date[c] < Date[d]}
    /\ UNCHANGED <<cursor, sync, handled, faults>>

\* A repository nothing was pushed to since its last complete pass is left alone.
StartSync ==
    /\ sync = Idle /\ cursor.pushed # landed
    /\ sync' = [Idle EXCEPT !.at = "list", !.pushed = landed, !.fails = cursor.fails]
    /\ UNCHANGED <<landed, cursor, handled, missed, faults>>

\* Oldest first; GitHub lists commits of one date newest first.
Before(c, d) == Date[c] < Date[d] \/ (Date[c] = Date[d] /\ c > d)

List ==
    LET since == {c \in landed : Date[c] >= cursor.since}
        shown == {c \in since : Cardinality({d \in since : d > c}) < ListMax}
    IN  /\ sync.at = "list"
        /\ sync' = [sync EXCEPT !.at = "read",
                        !.list = shown \ {cursor.last}]
        /\ missed' = missed \cup (since \ shown)
        /\ UNCHANGED <<landed, cursor, handled, faults>>

More == sync.at = "read" /\ ~sync.cut /\ sync.tried # sync.list
Affordable == Cardinality(sync.tried) < Budget

\* The commit that is next on the list.
Due(c) ==
    /\ More
    /\ c \in sync.list \ sync.tried
    /\ \A d \in (sync.list \ sync.tried) \ {c} : Before(c, d)

Got(c) ==
    /\ sync' = [sync EXCEPT !.tried = @ \cup {c}, !.got = @ \cup {c}, !.fails[c] = 0]
    /\ handled' = handled \cup {c}

ReadCommit(c) ==
    /\ Due(c) /\ Affordable /\ c \notin Huge
    /\ Got(c)
    /\ UNCHANGED <<landed, cursor, missed, faults>>

\* Mutant of FailCommit: a commit that will not load is tried for ever.
FailCommitForever(c) ==
    /\ Due(c) /\ Affordable
    /\ sync' = [sync EXCEPT !.tried = @ \cup {c}, !.fails[c] = Min({@ + 1, Tries - 1})]
    /\ UNCHANGED <<landed, cursor, handled, missed, faults>>

\* Mutant of FailCommit: it is given up on one failure too late.
FailCommitTooLate(c) ==
    /\ Due(c) /\ Affordable
    /\ IF sync.fails[c] < Tries
       THEN /\ sync' = [sync EXCEPT !.tried = @ \cup {c}, !.fails[c] = @ + 1]
            /\ UNCHANGED handled
       ELSE Got(c)
    /\ UNCHANGED <<landed, cursor, missed, faults>>

\* A commit that does not load is left for the next sync, or given up on.
FailCommit(c) ==
    /\ Due(c) /\ Affordable
    /\ IF sync.fails[c] + 1 < Tries
       THEN /\ sync' = [sync EXCEPT !.tried = @ \cup {c}, !.fails[c] = @ + 1]
            /\ UNCHANGED handled
       ELSE Got(c)
    /\ UNCHANGED <<landed, cursor, missed, faults>>

\* The budget of commits is spent, or that of files in the middle of a commit.
OutOfBudget ==
    /\ More /\ (~Affordable \/ \E c \in Huge : Due(c))
    /\ sync' = [sync EXCEPT !.cut = TRUE]
    /\ UNCHANGED <<landed, cursor, handled, missed, faults>>

\* A rate limit, or the time of the sync is over.
Stop ==
    /\ More /\ faults < MaxFaults
    /\ sync' = [sync EXCEPT !.cut = TRUE]
    /\ faults' = faults + 1
    /\ UNCHANGED <<landed, cursor, handled, missed>>

\* Mutant of InARow: all that were read, whatever is before them.
AllGot == sync.got

\* The commits at the head of the list that were read.
InARow == {c \in sync.list : \A d \in sync.list : d = c \/ Before(d, c) => d \in sync.got}

\* The failures of a complete listing are those of the commits still listed.
Owed ==
    [c \in Commits |-> IF sync.cut \/ c \in sync.list THEN sync.fails[c] ELSE 0]

\* The watermark goes to the last of the commits read in a row.
Passed(date, sha) ==
    \/ InARow = {} /\ date = cursor.since /\ sha = cursor.last
    \/ sha \in InARow /\ date = Date[sha] /\ \A d \in InARow : d = sha \/ Before(d, sha)

\* The end of scan(): the watermark, the failures and, if all is done, the push.
Finish ==
    /\ sync.at = "read" /\ ~More
    /\ \E date \in Dates, sha \in 0 .. NCommits :
          /\ Passed(date, sha)
          /\ cursor' = [since |-> date, last |-> sha, fails |-> Owed,
                        pushed |-> IF ~sync.cut /\ \A c \in Commits : Owed[c] = 0
                                   THEN sync.pushed ELSE cursor.pushed]
    /\ sync' = Idle
    /\ UNCHANGED <<landed, handled, missed, faults>>

\* The listing fails, the process dies, or the claim was lost: nothing is saved.
Lose ==
    /\ sync # Idle /\ faults < MaxFaults
    /\ sync' = Idle
    /\ faults' = faults + 1
    /\ UNCHANGED <<landed, cursor, handled, missed>>

SyncStep ==
    \/ StartSync \/ List \/ OutOfBudget \/ Finish
    \/ \E c \in Commits : ReadCommit(c) \/ FailCommit(c)

Next ==
    \/ \E new \in SUBSET Commits : Land(new)
    \/ SyncStep \/ Stop \/ Lose

\* The schedule syncs the connector again and again (ConnectorSync).
Spec == Init /\ [][Next]_commitVars /\ WF_commitVars(SyncStep)

-----------------------------------------------------------------------------
(***************************************************************************)
(* The watermark "only ever moves forward, and only past commits that were *)
(* actually read" (github_secrets.py _commits), through failures, retries, *)
(* cut and lost syncs; and a repository counts as done only when nothing   *)
(* on it is unread.  Left out are the commits a listing never shows: those *)
(* that a merge brings in behind the watermark, and those beyond its end.  *)
(***************************************************************************)
CommitsRead ==
    /\ \A c \in landed : Date[c] < cursor.since => c \in handled \cup missed
    /\ cursor.pushed = landed => landed \subseteq handled \cup missed

\* Every commit before the first Huge one is read, or was given up on.
AllRead ==
    \A c \in landed :
        (\A h \in Huge : Date[c] < Date[h]) => c \in handled \cup missed

(***************************************************************************)
(* Whatever lands is read in the end: "one broken commit cannot hold back  *)
(* everything after it forever" (_scan_commits).  Pushes are bounded, so   *)
(* that this is []<>.  One commit can hold back the rest: a Huge one,      *)
(* whose files one sync cannot pay for, and AllRead speaks of the commits  *)
(* before it.                                                              *)
(***************************************************************************)
CatchesUp == []<>AllRead

=============================================================================
