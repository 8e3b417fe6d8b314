----------------------------- MODULE FindingFold -----------------------------
(***************************************************************************)
(* How repeats of one event fold into one finding (service.run_analysis),  *)
(* while people review that finding and retention deletes it.              *)
(*                                                                         *)
(* An event class is its fingerprint; this module follows one.  On         *)
(* PostgreSQL an analysis takes an advisory lock on the fingerprint, looks *)
(* for the newest finding with it, and either bumps that one or inserts    *)
(* another; the lock goes with the transaction.  A review (the console's   *)
(* status endpoints) and an answer (the person the finding belongs to)     *)
(* take no lock.  Every one of them loads the row, changes its copy and    *)
(* commits, and the commit writes only the columns that differ from what   *)
(* was loaded.                                                             *)
(***************************************************************************)
EXTENDS Integers, Sequences, FiniteSets, FiniteSetsExt

CONSTANTS
    Analyzers,     \* requests and scans that report an event
    Reviewers,     \* people at the console
    Nobody,        \* the advisory lock is free
    NoRow,         \* no finding (a deleted one, or none was found)
    MaxActs,       \* bound: events reported
    MaxReviews,    \* bound: reviews and answers
    MaxPurges,     \* bound: findings deleted by retention
    MaxDeaths      \* bound: analyses lost to a process that died

ASSUME BoundsAssumption ==
    /\ MaxActs \in Nat /\ MaxReviews \in Nat
    /\ MaxPurges \in Nat /\ MaxDeaths \in Nat

ASSUME ActorsAssumption ==
    /\ IsFiniteSet(Analyzers)
    /\ Analyzers \cap Reviewers = {}
    /\ Nobody \notin Analyzers

Actors == Analyzers \cup Reviewers

Statuses == {"open", "triaged", "dismissed"}

\* review is what the four review columns record: a triage, a dismissal with
\* its reason, or nothing.
Rows == [id : Nat, status : Statuses,
         review : {"none", "triaged", "dismissed"}, seen : Nat]

ASSUME NoRowAssumption == NoRow \notin Rows

VARIABLES
    findings,      \* findings[n]: the finding with id n, or NoRow once deleted
    lock,          \* who holds the fingerprint's advisory lock
    pc,            \* idle, wait, lookup, write, sinks; a reviewer: idle, write
    copy,          \* copy[a]: the row a has loaded
    serious,       \* serious[a]: a live act at high or critical
    arrived,       \* history: events reported
    recorded,      \* history: events whose analysis committed
    purgedSeen,    \* history: events counted by findings deleted since
    dismissals,    \* history: commits that dismissed a finding
    alerts,        \* history: alerts handed to the sinks
    reviews, purges, deaths   \* history: what the bounds count

storeVars   == <<findings, lock>>
historyVars == <<arrived, recorded, purgedSeen, dismissals, alerts, reviews,
                 purges, deaths>>
vars        == <<storeVars, pc, copy, serious, historyVars>>

Stored == {n \in 1 .. Len(findings) : findings[n] # NoRow}

TypeOK ==
    /\ findings \in Seq(Rows \cup {NoRow})
    /\ \A n \in Stored : findings[n].id = n
    /\ lock     \in Analyzers \cup {Nobody}
    /\ pc       \in [Actors -> {"idle", "wait", "lookup", "write", "sinks"}]
    /\ copy     \in [Actors -> Rows \cup {NoRow}]
    /\ serious  \in [Analyzers -> BOOLEAN]
    /\ arrived \in Nat /\ recorded \in Nat /\ purgedSeen \in Nat
    /\ dismissals \in Nat /\ alerts \in Nat
    /\ reviews \in Nat /\ purges \in Nat /\ deaths \in Nat

Init ==
    /\ findings = <<>>
    /\ lock     = Nobody
    /\ pc       = [a \in Actors |-> "idle"]
    /\ copy     = [a \in Actors |-> NoRow]
    /\ serious  = [a \in Analyzers |-> FALSE]
    /\ arrived = 0 /\ recorded = 0 /\ purgedSeen = 0 /\ dismissals = 0
    /\ alerts = 0 /\ reviews = 0 /\ purges = 0 /\ deaths = 0

----------------------------------------------------------------------------
(* An analysis                                                             *)

\* The event is scored, and worth recording.
Arrive(a, s) ==
    /\ pc[a] = "idle"
    /\ arrived < MaxActs
    /\ arrived' = arrived + 1
    /\ pc' = [pc EXCEPT ![a] = "wait"]
    /\ serious' = [serious EXCEPT ![a] = s]
    /\ UNCHANGED <<storeVars, copy, recorded, purgedSeen, dismissals, alerts,
                   reviews, purges, deaths>>

\* Mutant of LockFingerprint: nothing is locked (what SQLite gets).
LockNothing(a) ==
    /\ pc[a] = "wait"
    /\ pc' = [pc EXCEPT ![a] = "lookup"]
    /\ UNCHANGED <<storeVars, copy, serious, historyVars>>

\* _lock_fingerprint: pg_advisory_xact_lock, which waits its turn.
LockFingerprint(a) ==
    /\ pc[a] = "wait"
    /\ lock = Nobody
    /\ lock' = a
    /\ pc' = [pc EXCEPT ![a] = "lookup"]
    /\ UNCHANGED <<findings, copy, serious, historyVars>>

\* Mutant of Newest: a dismissed finding is not folded into.
NewestUndismissed ==
    LET live == {n \in Stored : findings[n].status # "dismissed"}
    IN  IF live = {} THEN NoRow ELSE findings[Max(live)]

\* _fold_recurrence: the newest finding with this fingerprint, whatever its
\* status.
Newest == IF Stored = {} THEN NoRow ELSE findings[Max(Stored)]

FoldRecurrence(a) ==
    /\ pc[a] = "lookup"
    /\ copy' = [copy EXCEPT ![a] = Newest]
    /\ pc' = [pc EXCEPT ![a] = "write"]
    /\ UNCHANGED <<storeVars, serious, historyVars>>

\* The transaction is over, and the lock with it.
EndTransaction(a, row) ==
    /\ lock' = IF lock = a THEN Nobody ELSE lock
    /\ copy' = [copy EXCEPT ![a] = row]

\* What a commit leaves of the row: the columns of mine that differ from what
\* was loaded, over the row as it is stored now.
Flushed(a, mine) ==
    LET stored == findings[mine.id]
    IN  [f \in DOMAIN mine |->
            IF mine[f] # copy[a][f] THEN mine[f] ELSE stored[f]]

\* Mutant of Reopens: every serious repeat goes to the sinks again.
ReopensAlways(a) == serious[a]

\* A dismissal is overridden for a live act at high or critical.
Reopens(a) == serious[a] /\ copy[a].status = "dismissed"

\* The repeat is counted; a reopen clears the review with the status.
Bump(a) ==
    LET counted == [copy[a] EXCEPT !.seen = @ + 1]
    IN  IF Reopens(a)
        THEN [counted EXCEPT !.status = "open", !.review = "none"]
        ELSE counted

\* A repeat: one more of the finding that was found.  A reopen goes on to the
\* sinks.
CommitFold(a) ==
    /\ pc[a] = "write" /\ copy[a] # NoRow /\ copy[a].id \in Stored
    /\ findings' = [findings EXCEPT ![copy[a].id] = Flushed(a, Bump(a))]
    /\ recorded' = recorded + 1
    /\ pc' = [pc EXCEPT ![a] = IF Reopens(a) THEN "sinks" ELSE "idle"]
    /\ EndTransaction(a, IF Reopens(a) THEN copy[a] ELSE NoRow)
    /\ UNCHANGED <<serious, arrived, purgedSeen, dismissals, alerts, reviews,
                   purges, deaths>>

\* Mutant of FoldGone: the failed request keeps its transaction open.
FoldGoneLocked(a) ==
    /\ pc[a] = "write" /\ copy[a] # NoRow /\ copy[a].id \notin Stored
    /\ pc' = [pc EXCEPT ![a] = "idle"]
    /\ copy' = [copy EXCEPT ![a] = NoRow]
    /\ UNCHANGED <<storeVars, serious, historyVars>>

\* The finding was deleted after it was loaded: the UPDATE matches no row, the
\* commit raises and the request fails.
FoldGone(a) ==
    /\ pc[a] = "write" /\ copy[a] # NoRow /\ copy[a].id \notin Stored
    /\ pc' = [pc EXCEPT ![a] = "idle"]
    /\ EndTransaction(a, NoRow)
    /\ UNCHANGED <<findings, serious, historyVars>>

\* The first of its class: a new, open finding.
CommitNew(a) ==
    /\ pc[a] = "write" /\ copy[a] = NoRow
    /\ LET row == [id |-> Len(findings) + 1, status |-> "open",
                    review |-> "none", seen |-> 1]
       IN  /\ findings' = Append(findings, row)
           /\ EndTransaction(a, row)
    /\ recorded' = recorded + 1
    /\ pc' = [pc EXCEPT ![a] = "sinks"]
    /\ UNCHANGED <<serious, arrived, purgedSeen, dismissals, alerts, reviews,
                   purges, deaths>>

\* The row is read again after the commit, and goes to _dispatch_sinks; when
\* it was deleted meanwhile, reading it raises and nothing is sent.
DispatchSinks(a) ==
    /\ pc[a] = "sinks"
    /\ alerts' = alerts + (IF copy[a].id \in Stored THEN 1 ELSE 0)
    /\ pc' = [pc EXCEPT ![a] = "idle"]
    /\ copy' = [copy EXCEPT ![a] = NoRow]
    /\ UNCHANGED <<storeVars, serious, arrived, recorded, purgedSeen,
                   dismissals, reviews, purges, deaths>>

\* The process dies: the transaction rolls back and the lock is free, or the
\* alert of a committed finding is never sent.
Die(a) ==
    /\ pc[a] # "idle"
    /\ deaths < MaxDeaths
    /\ deaths' = deaths + 1
    /\ pc' = [pc EXCEPT ![a] = "idle"]
    /\ EndTransaction(a, NoRow)
    /\ UNCHANGED <<findings, serious, arrived, recorded, purgedSeen,
                   dismissals, alerts, reviews, purges>>

----------------------------------------------------------------------------
(* Reviews                                                                 *)

NewDismissals(n, status) ==
    IF status = "dismissed" /\ findings[n].status # "dismissed" THEN 1 ELSE 0

\* A review or an answer loads the finding it is about.
OpenFinding(r) ==
    /\ pc[r] = "idle"
    /\ reviews < MaxReviews
    /\ reviews' = reviews + 1
    /\ \E n \in Stored : copy' = [copy EXCEPT ![r] = findings[n]]
    /\ pc' = [pc EXCEPT ![r] = "write"]
    /\ UNCHANGED <<storeVars, serious, arrived, recorded, purgedSeen,
                   dismissals, alerts, purges, deaths>>

\* The reviewer's copy is changed to mine and committed.
WriteBack(r, mine) ==
    LET row == Flushed(r, mine)
    IN  /\ findings' = [findings EXCEPT ![row.id] = row]
        /\ dismissals' = dismissals + NewDismissals(row.id, row.status)
        /\ pc' = [pc EXCEPT ![r] = "idle"]
        /\ copy' = [copy EXCEPT ![r] = NoRow]
        /\ UNCHANGED <<lock, serious, arrived, recorded, purgedSeen, alerts,
                       reviews, purges, deaths>>

Editing(r) == pc[r] = "write" /\ copy[r] # NoRow /\ copy[r].id \in Stored

\* Mutant of ReviewOf: opening a finding again is recorded as a review.
ReviewOfAny(status) == status

\* review_values: a record of the review, or a clean slate.
ReviewOf(status) == IF status = "open" THEN "none" ELSE status

\* update_status: one person, one finding.
UpdateStatus(r, status) ==
    /\ Editing(r)
    /\ WriteBack(r, [copy[r] EXCEPT !.status = status, !.review = ReviewOf(status)])

\* respond and justify: an open finding its person answered is triaged; the
\* review columns are not theirs to write.
Answer(r) ==
    /\ Editing(r)
    /\ WriteBack(r, [copy[r] EXCEPT !.status = IF @ = "open" THEN "triaged" ELSE @])

\* The finding was deleted meanwhile; the request fails.
ReviewGone(r) ==
    /\ pc[r] = "write" /\ copy[r].id \notin Stored
    /\ pc' = [pc EXCEPT ![r] = "idle"]
    /\ copy' = [copy EXCEPT ![r] = NoRow]
    /\ UNCHANGED <<storeVars, serious, historyVars>>

\* bulk_update_status and dismiss_benign_findings: one UPDATE.
BulkStatus(n, status) ==
    /\ reviews < MaxReviews
    /\ reviews' = reviews + 1
    /\ findings' = [findings EXCEPT ![n].status = status,
                                    ![n].review = ReviewOf(status)]
    /\ dismissals' = dismissals + NewDismissals(n, status)
    /\ UNCHANGED <<lock, pc, copy, serious, arrived, recorded, purgedSeen,
                   alerts, purges, deaths>>

\* purge_expired_findings: one DELETE, by created_at.
Purge(n) ==
    /\ purges < MaxPurges
    /\ purges' = purges + 1
    /\ purgedSeen' = purgedSeen + findings[n].seen
    /\ findings' = [findings EXCEPT ![n] = NoRow]
    /\ UNCHANGED <<lock, pc, copy, serious, arrived, recorded, dismissals,
                   alerts, reviews, deaths>>

----------------------------------------------------------------------------

Analysis(a) ==
    \/ FoldRecurrence(a)
    \/ CommitFold(a)
    \/ FoldGone(a)
    \/ CommitNew(a)
    \/ DispatchSinks(a)

Next ==
    \/ \E a \in Analyzers, s \in BOOLEAN : Arrive(a, s)
    \/ \E a \in Analyzers : LockFingerprint(a) \/ Analysis(a) \/ Die(a)
    \/ \E r \in Reviewers : OpenFinding(r) \/ Answer(r) \/ ReviewGone(r)
    \/ \E r \in Reviewers, status \in Statuses : UpdateStatus(r, status)
    \/ \E n \in Stored, status \in Statuses : BulkStatus(n, status)
    \/ \E n \in Stored : Purge(n)

\* A request that runs goes on, and PostgreSQL grants a lock to its waiters in
\* turn.
Fairness ==
    \A a \in Analyzers : WF_vars(Analysis(a)) /\ SF_vars(LockFingerprint(a))

Spec == Init /\ [][Next]_vars /\ Fairness

----------------------------------------------------------------------------
(* Properties                                                              *)

\* Concurrent identical events fold into one finding: there is never a second
\* row with the fingerprint, although no unique index forbids it.
OneFinding == \A m, n \in Stored : m = n

\* No repeat is lost or counted twice: what the one row counts, with what
\* deleted rows counted, is the number of analyses that committed.
RepeatsCounted ==
    /\ Stored = {} => recorded = purgedSeen
    /\ \A n \in Stored : recorded = purgedSeen + findings[n].seen

\* An alert answers a first occurrence or a dismissal: however many serious
\* repeats race, one dismissal is contradicted by at most one alert.
AlertsAreEarned == alerts <= Len(findings) + dismissals

\* A request that waits for the fingerprint's lock gets it and ends: no path
\* out of the transaction keeps it.
AnalysesEnd == \A a \in Analyzers : pc[a] = "wait" ~> pc[a] = "idle"

\* The inductive invariant behind the three safety properties above.

LockHeld == \A a \in Analyzers : pc[a] \in {"lookup", "write"} => lock = a

\* What an analysis found is still so when it writes: no row, or one that
\* nobody else has counted a repeat on.
LookupHolds ==
    \A a \in Analyzers : pc[a] = "write" =>
        /\ copy[a] = NoRow => Stored = {}
        /\ copy[a] # NoRow /\ copy[a].id \in Stored
               => findings[copy[a].id].seen = copy[a].seen

\* The alerts that committed analyses are about to send, and a dismissal that
\* a serious repeat may still contradict.
Pending == {a \in Analyzers : pc[a] = "sinks"}

Contradictable ==
    \/ \E n \in Stored : findings[n].status = "dismissed"
    \/ \E a \in Analyzers :
          pc[a] = "write" /\ copy[a] # NoRow /\ copy[a].status = "dismissed"

AlertsBacked ==
    alerts + Cardinality(Pending) + (IF Contradictable THEN 1 ELSE 0)
        <= Len(findings) + dismissals

IInv ==
    /\ TypeOK
    /\ LockHeld
    /\ LookupHolds
    /\ OneFinding
    /\ RepeatsCounted
    /\ AlertsBacked

\* What review.py:6-7 and models.py:693-701 say of the review columns: a
\* review writes them with its status, and a reopen clears them.
ReviewMatchesStatus ==
    \A n \in Stored :
        findings[n].review # "none" => findings[n].review = findings[n].status
============================================================================
