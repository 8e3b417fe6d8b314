----------------------------- MODULE GithubTree -----------------------------
(***************************************************************************)
(* The first pass of the GitHub secret scan over the files of a default    *)
(* branch (github_secrets.py _tree).  It may take several syncs: each      *)
(* lists the files of the present head in path order and goes on at the    *)
(* saved cursor, an index into that list, in batches that are fetched at   *)
(* once.  Files that come in after the first listing are left to the scan  *)
(* of the commits (GithubCommits).                                         *)
(***************************************************************************)
EXTENDS Naturals, FiniteSets

CONSTANTS
    NPaths,      \* bound: paths
    Batch,       \* _WORKERS
    Budget,      \* _BLOBS_PER_SYNC
    MaxEdits,    \* bound: files added and removed
    MaxFaults    \* bound: syncs lost

TreeAssumption ==
    /\ NPaths \in Nat /\ MaxEdits \in Nat /\ MaxFaults \in Nat
    /\ Batch \in Nat \ {0} /\ Budget \in Nat \ {0}

Paths == 1 .. NPaths

VARIABLES
    tree,      \* the files at the head of the branch
    done,      \* tree_done
    cursor,    \* tree_cursor
    pass,      \* the sync in progress: its list, how far it is, the files it may fetch
    old,       \* history: the files there since the first listing
    removed,   \* history: files removed since the first listing
    seen,      \* history: files scanned, or skipped as unreadable
    edits, faults   \* history: what the bounds count

treeVars == <<tree, done, cursor, pass, old, removed, seen, edits, faults>>

Idle == [on |-> FALSE, list |-> {}, i |-> 0, left |-> 0]

TypeOK ==
    /\ tree \subseteq Paths /\ old \subseteq Paths /\ seen \subseteq Paths
    /\ done \in BOOLEAN /\ cursor \in 0 .. NPaths
    /\ pass \in [on : BOOLEAN, list : SUBSET Paths, i : 0 .. NPaths, left : 0 .. Budget]
    /\ removed \in 0 .. MaxEdits /\ edits \in 0 .. MaxEdits /\ faults \in 0 .. MaxFaults

Init ==
    /\ tree \in {1 .. n : n \in Paths}
    /\ done = FALSE /\ cursor = 0 /\ pass = Idle
    /\ old = tree /\ removed = 0 /\ seen = {}
    /\ edits = 0 /\ faults = 0

AddFile(p) ==
    /\ p \notin tree /\ edits < MaxEdits
    /\ tree' = tree \cup {p}
    /\ edits' = edits + 1
    /\ UNCHANGED <<done, cursor, pass, old, removed, seen, faults>>

RemoveFile(p) ==
    /\ p \in tree /\ edits < MaxEdits
    /\ tree' = tree \ {p} /\ old' = old \ {p}
    /\ removed' = removed + 1
    /\ edits' = edits + 1
    /\ UNCHANGED <<done, cursor, pass, seen, faults>>

\* A sync lists the files, until a pass has come to the end.
StartPass ==
    /\ ~pass.on /\ ~done
    /\ pass' = [on |-> TRUE, list |-> tree, i |-> cursor, left |-> Budget]
    /\ UNCHANGED <<tree, done, cursor, old, removed, seen, edits, faults>>

Least(a, b) == IF a < b THEN a ELSE b

\* The next batch ends before the budget and the list do.
BatchEnd == Least(Least(pass.i + Batch, pass.i + pass.left), Cardinality(pass.list))

\* The place of a file in a list, which is in the order of the paths.
Place(p, list) == Cardinality({q \in list : q <= p})

\* The files from the present place to place n.
Fetched(n) == {p \in pass.list : pass.i < Place(p, pass.list) /\ Place(p, pass.list) <= n}

FetchBatch ==
    /\ pass.on /\ BatchEnd > pass.i
    /\ seen' = seen \cup Fetched(BatchEnd)
    /\ pass' = [pass EXCEPT !.i = BatchEnd, !.left = @ - (BatchEnd - pass.i)]
    /\ UNCHANGED <<tree, done, cursor, old, removed, edits, faults>>

\* Mutant of RateLimit: the cursor is that of the loop, past the whole batch.
RateLimitPastBatch(n) ==
    /\ pass.on /\ n \in pass.i .. BatchEnd - 1
    /\ seen' = seen \cup Fetched(n)
    /\ cursor' = BatchEnd
    /\ pass' = Idle
    /\ UNCHANGED <<tree, done, old, removed, edits, faults>>

\* GitHub refuses the file after index n: it and the rest of the batch come again.
RateLimit(n) ==
    /\ pass.on /\ n \in pass.i .. BatchEnd - 1
    /\ seen' = seen \cup Fetched(n)
    /\ cursor' = n
    /\ pass' = Idle
    /\ UNCHANGED <<tree, done, old, removed, edits, faults>>

\* The budget or the time of the sync is over.
CutPass ==
    /\ pass.on /\ pass.i < Cardinality(pass.list)
    /\ cursor' = pass.i
    /\ pass' = Idle
    /\ UNCHANGED <<tree, done, old, removed, seen, edits, faults>>

CompletePass ==
    /\ pass.on /\ pass.i >= Cardinality(pass.list)
    /\ done' = TRUE /\ cursor' = 0
    /\ pass' = Idle
    /\ UNCHANGED <<tree, old, removed, seen, edits, faults>>

\* The process dies or the claim was lost: the cursor stays.
LosePass ==
    /\ pass.on /\ faults < MaxFaults
    /\ faults' = faults + 1
    /\ pass' = Idle
    /\ UNCHANGED <<tree, done, cursor, old, removed, seen, edits>>

Next ==
    \/ \E p \in Paths : AddFile(p) \/ RemoveFile(p)
    \/ StartPass \/ FetchBatch \/ CutPass \/ CompletePass \/ LosePass
    \/ \E n \in 0 .. NPaths : RateLimit(n)

Spec == Init /\ [][Next]_treeVars

-----------------------------------------------------------------------------
(***************************************************************************)
(* A tree that counts as done has had every file that was there from the   *)
(* first listing on read, except that each file removed while the pass was *)
(* under way may cost one other: the list is one shorter and the index in  *)
(* the cursor then points past a file nobody read (github_secrets.py       *)
(* _tree).                                                                 *)
(***************************************************************************)
FilesScanned == done => Cardinality(old \ seen) <= removed

=============================================================================
