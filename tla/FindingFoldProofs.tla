-------------------------- MODULE FindingFoldProofs --------------------------
(***************************************************************************)
(* What holds of FindingFold for any number of analyses, reviewers, events,*)
(* reviews, purges and deaths: one finding for the event class, every      *)
(* repeat counted, and no alert without a first occurrence or a dismissal. *)
(*                                                                         *)
(* The actions fall into three kinds by what they do to the rows: nothing, *)
(* an edit of a stored row, an insertion when none is stored, a deletion.  *)
(* The first lemmas say what each does to Stored and to a row; the rest    *)
(* follow the conjuncts of IInv.                                           *)
(***************************************************************************)
EXTENDS FindingFold, FiniteSetTheorems, TLAPS

----------------------------------------------------------------------------
(* Rows                                                                    *)

\* What a commit leaves of a row, column by column.
LEMMA FlushedColumns ==
    ASSUME NEW a, NEW mine \in Rows, copy[a] \in Rows,
           findings[mine.id] \in Rows, mine.id = copy[a].id,
           findings[mine.id].id = mine.id
    PROVE  /\ Flushed(a, mine) \in Rows
           /\ Flushed(a, mine).id = mine.id
           /\ Flushed(a, mine).status =
                 IF mine.status # copy[a].status THEN mine.status
                 ELSE findings[mine.id].status
           /\ Flushed(a, mine).seen =
                 IF mine.seen # copy[a].seen THEN mine.seen
                 ELSE findings[mine.id].seen
<1> DEFINE stored == findings[mine.id]
           Col(f) == IF mine[f] # copy[a][f] THEN mine[f] ELSE stored[f]
<1>1. DOMAIN mine = {"id", "status", "review", "seen"}
    BY DEF Rows
<1>2. Flushed(a, mine) = [id |-> Col("id"), status |-> Col("status"),
                          review |-> Col("review"), seen |-> Col("seen")]
    BY <1>1 DEF Flushed
<1> QED
    BY <1>2 DEF Rows, Statuses

\* One more repeat of a row.
LEMMA CountedRow ==
    ASSUME NEW row \in Rows
    PROVE  LET counted == [row EXCEPT !.seen = @ + 1]
           IN  /\ counted \in Rows /\ counted.id = row.id
               /\ counted.seen = row.seen + 1 /\ counted.status = row.status
BY DEF Rows

\* Editing a stored row stores the same rows.
LEMMA StoredEdit ==
    ASSUME TypeOK, NEW n \in Stored, NEW row \in Rows, row.id = n,
           findings' = [findings EXCEPT ![n] = row]
    PROVE  /\ Stored' = Stored
           /\ Len(findings') = Len(findings)
           /\ findings' \in Seq(Rows \cup {NoRow})
           /\ \A m \in Stored' : findings'[m].id = m
           /\ findings'[n] = row
BY NoRowAssumption DEF TypeOK, Stored

\* An insertion into none.
LEMMA StoredAppend ==
    ASSUME TypeOK, NEW row \in Rows, row.id = Len(findings) + 1,
           Stored = {}, findings' = Append(findings, row)
    PROVE  /\ Stored' = {Len(findings) + 1}
           /\ Len(findings') = Len(findings) + 1
           /\ findings' \in Seq(Rows \cup {NoRow})
           /\ \A m \in Stored' : findings'[m].id = m
           /\ findings'[Len(findings) + 1] = row
BY NoRowAssumption DEF TypeOK, Stored

\* A deletion.
LEMMA StoredPurge ==
    ASSUME TypeOK, NEW n \in Stored, findings' = [findings EXCEPT ![n] = NoRow]
    PROVE  /\ Stored' = Stored \ {n}
           /\ Len(findings') = Len(findings)
           /\ findings' \in Seq(Rows \cup {NoRow})
           /\ \A m \in Stored' : findings'[m] = findings[m] /\ findings'[m].id = m
BY NoRowAssumption DEF TypeOK, Stored

----------------------------------------------------------------------------
(* The three kinds of step that change a row                               *)

\* A review, an answer or a bulk change.
Reviewed ==
    \/ \E r \in Reviewers : Answer(r)
    \/ \E r \in Reviewers, status \in Statuses : UpdateStatus(r, status)
    \/ \E n \in Stored, status \in Statuses : BulkStatus(n, status)

\* What an edit of the row n by a reviewer leaves alone.
EditOf(n, row) ==
    /\ row.id = n /\ row.seen = findings[n].seen
    /\ findings' = [findings EXCEPT ![n] = row]
    /\ dismissals' = dismissals + NewDismissals(n, row.status)
    /\ \A a \in Analyzers : pc'[a] = pc[a] /\ copy'[a] = copy[a]
    /\ pc' \in [Actors -> {"idle", "wait", "lookup", "write", "sinks"}]
    /\ copy' \in [Actors -> Rows \cup {NoRow}]
    /\ reviews' \in Nat
    /\ UNCHANGED <<lock, serious, arrived, recorded, purgedSeen, alerts,
                   purges, deaths>>

\* Whoever reviews, and however: one stored row is edited, never its count, and
\* no analysis notices.
LEMMA ReviewShape ==
    ASSUME TypeOK, Reviewed
    PROVE  \E n \in Stored : \E row \in Rows : EditOf(n, row)
<1> USE DEF TypeOK
<1>1. ASSUME NEW r \in Reviewers, NEW mine \in Rows, Editing(r),
             mine.id = copy[r].id, mine.seen = copy[r].seen,
             WriteBack(r, mine)
      PROVE  \E n \in Stored : \E row \in Rows : EditOf(n, row)
    <2> DEFINE n == copy[r].id
               row == Flushed(r, mine)
    <2>1. /\ n \in Stored /\ copy[r] \in Rows /\ findings[n] \in Rows
          /\ findings[n].id = n
        BY <1>1 DEF Editing, Stored, Actors
    <2>2. /\ row \in Rows /\ row.id = n /\ row.seen = findings[n].seen
        BY <1>1, <2>1, FlushedColumns
    <2>3. /\ findings' = [findings EXCEPT ![n] = row]
          /\ dismissals' = dismissals + NewDismissals(n, row.status)
          /\ pc' = [pc EXCEPT ![r] = "idle"]
          /\ copy' = [copy EXCEPT ![r] = NoRow]
          /\ UNCHANGED <<lock, serious, arrived, recorded, purgedSeen, alerts,
                         reviews, purges, deaths>>
        BY <1>1, <2>2 DEF WriteBack
    <2>4. EditOf(n, row)
        BY <2>2, <2>3, ActorsAssumption DEF EditOf, Actors
    <2> QED
        BY <2>1, <2>2, <2>4
<1>2. CASE \E r \in Reviewers : Answer(r)
    <2>1. PICK r \in Reviewers : Answer(r)
        BY <1>2
    <2> DEFINE mine == [copy[r] EXCEPT !.status = IF @ = "open" THEN "triaged" ELSE @]
    <2>2. copy[r] \in Rows
        BY <2>1 DEF Answer, Editing, Actors
    <2>3. mine \in Rows /\ mine.id = copy[r].id /\ mine.seen = copy[r].seen
        BY <2>2 DEF Rows, Statuses
    <2> QED
        BY <1>1, <2>1, <2>3 DEF Answer
<1>3. CASE \E r \in Reviewers, status \in Statuses : UpdateStatus(r, status)
    <2>1. PICK r \in Reviewers, status \in Statuses : UpdateStatus(r, status)
        BY <1>3
    <2> DEFINE mine == [copy[r] EXCEPT !.status = status, !.review = ReviewOf(status)]
    <2>2. copy[r] \in Rows
        BY <2>1 DEF UpdateStatus, Editing, Actors
    <2>3. mine \in Rows /\ mine.id = copy[r].id /\ mine.seen = copy[r].seen
        BY <2>2 DEF Rows, Statuses, ReviewOf
    <2> QED
        BY <1>1, <2>1, <2>3 DEF UpdateStatus
<1>4. CASE \E n \in Stored, status \in Statuses : BulkStatus(n, status)
    <2>1. PICK n \in Stored, status \in Statuses : BulkStatus(n, status)
        BY <1>4
    <2> DEFINE row == [findings[n] EXCEPT !.status = status, !.review = ReviewOf(status)]
    <2>2. findings[n] \in Rows /\ findings[n].id = n
        BY DEF Stored
    <2>3. /\ row \in Rows /\ row.id = n /\ row.seen = findings[n].seen
          /\ row.status = status
        BY <2>2 DEF Rows, Statuses, ReviewOf
    <2>4. findings' = [findings EXCEPT ![n] = row]
        BY <2>1, <2>2 DEF BulkStatus, Rows
    <2>5. dismissals' = dismissals + NewDismissals(n, row.status)
        BY <2>1, <2>3 DEF BulkStatus
    <2>6. /\ \A a \in Analyzers : pc'[a] = pc[a] /\ copy'[a] = copy[a]
          /\ reviews' \in Nat /\ pc' = pc /\ copy' = copy
          /\ UNCHANGED <<lock, serious, arrived, recorded, purgedSeen, alerts,
                         purges, deaths>>
        BY <2>1 DEF BulkStatus
    <2> HIDE DEF row
    <2>7. EditOf(n, row)
        BY <2>3, <2>4, <2>5, <2>6 DEF EditOf
    <2> QED
        BY <2>3, <2>7
<1> QED
    BY <1>2, <1>3, <1>4 DEF Reviewed

\* A fold edits the one row it loaded: one more repeat, and the status only to
\* open it.
LEMMA FoldShape ==
    ASSUME IInv, NEW a \in Analyzers, CommitFold(a)
    PROVE  \E n \in Stored : \E row \in Rows :
              /\ row.id = n /\ row.seen = findings[n].seen + 1
              /\ findings' = [findings EXCEPT ![n] = row]
              /\ row.status = IF Reopens(a) THEN "open" ELSE findings[n].status
<1> USE DEF IInv, TypeOK
<1> DEFINE n == copy[a].id
           mine == Bump(a)
<1>1. /\ pc[a] = "write" /\ copy[a] # NoRow /\ n \in Stored
      /\ copy[a] \in Rows /\ findings[n] \in Rows /\ findings[n].id = n
    BY DEF CommitFold, Stored, Actors
<1>2. findings[n].seen = copy[a].seen
    BY <1>1 DEF LookupHolds
<1>3. /\ mine \in Rows /\ mine.id = n /\ mine.seen = copy[a].seen + 1
      /\ mine.status = IF Reopens(a) THEN "open" ELSE copy[a].status
    <2> DEFINE counted == [copy[a] EXCEPT !.seen = @ + 1]
               reopened == [counted EXCEPT !.status = "open", !.review = "none"]
    <2>1. /\ counted \in Rows /\ counted.id = n /\ counted.seen = copy[a].seen + 1
          /\ counted.status = copy[a].status
        BY <1>1, CountedRow
    <2>2. /\ reopened \in Rows /\ reopened.id = counted.id
          /\ reopened.seen = counted.seen /\ reopened.status = "open"
        BY <2>1 DEF Rows, Statuses
    <2>3. mine = IF Reopens(a) THEN reopened ELSE counted
        BY DEF Bump
    <2> HIDE DEF mine, counted, reopened
    <2> QED
        BY <2>1, <2>2, <2>3
<1>4. copy[a].seen \in Nat /\ (Reopens(a) => copy[a].status = "dismissed")
    BY <1>1 DEF Rows, Reopens
<1>5. /\ Flushed(a, mine) \in Rows /\ Flushed(a, mine).id = n
      /\ Flushed(a, mine).seen = findings[n].seen + 1
      /\ Flushed(a, mine).status =
            IF Reopens(a) THEN "open" ELSE findings[n].status
    BY <1>1, <1>2, <1>3, <1>4, FlushedColumns
<1> QED
    BY <1>1, <1>5 DEF CommitFold
----------------------------------------------------------------------------
(* The inductive invariant                                                 *)

\* The steps that write no row.
Quiet ==
    \/ \E a \in Analyzers :
          \/ \E b \in BOOLEAN : Arrive(a, b)
          \/ LockFingerprint(a) \/ FoldRecurrence(a) \/ FoldGone(a)
          \/ DispatchSinks(a) \/ Die(a)
    \/ \E r \in Reviewers : OpenFinding(r) \/ ReviewGone(r)
    \/ UNCHANGED vars

\* Every step is quiet, a review, a fold, an insertion or a deletion.
LEMMA StepKinds ==
    [Next]_vars => \/ Quiet \/ Reviewed
                   \/ \E a \in Analyzers : CommitFold(a) \/ CommitNew(a)
                   \/ \E n \in Stored : Purge(n)
BY DEF Next, Analysis, Quiet, Reviewed

\* A quiet step leaves the table and what is counted of it.
LEMMA QuietRows ==
    Quiet => UNCHANGED <<findings, recorded, purgedSeen, dismissals>>
BY DEF Quiet, Arrive, LockFingerprint, FoldRecurrence, FoldGone, DispatchSinks,
       Die, OpenFinding, ReviewGone, EndTransaction, vars, storeVars, historyVars

\* The invariant holds of the empty table.
LEMMA InitIInv == Init => IInv
<1> SUFFICES ASSUME Init PROVE IInv
    OBVIOUS
<1>1. Stored = {} /\ Len(findings) = 0
    BY DEF Init, Stored
<1>2. TypeOK
    BY <1>1 DEF Init, TypeOK
<1>3. LockHeld /\ LookupHolds /\ OneFinding /\ RepeatsCounted
    BY <1>1 DEF Init, LockHeld, LookupHolds, OneFinding, RepeatsCounted, Actors
<1>4. Pending = {} /\ ~Contradictable
    BY <1>1 DEF Init, Pending, Contradictable, Actors
<1>5. AlertsBacked
    BY <1>1, <1>4, FS_EmptySet DEF Init, AlertsBacked
<1> QED
    BY <1>2, <1>3, <1>5 DEF IInv

\* The row an analysis finds, if it finds one.
LEMMA NewestType ==
    ASSUME TypeOK, OneFinding
    PROVE  /\ Stored = {} => Newest = NoRow
           /\ Stored # {} => \E n \in Stored : Newest = findings[n] /\ Newest \in Rows
<1>1. ASSUME NEW n \in Stored PROVE Max(Stored) = n
    <2>1. Stored = {n} /\ n \in Int
        BY <1>1 DEF OneFinding, Stored
    <2>2. Max({n}) = n
        BY <2>1 DEF Max
    <2> QED
        BY <2>1, <2>2
<1>2. ASSUME NEW n \in Stored PROVE findings[n] \in Rows
    BY <1>2 DEF TypeOK, Stored
<1> QED
    BY <1>1, <1>2 DEF Newest

\* The inserted row.
NewRow ==
    [id |-> Len(findings) + 1, status |-> "open", review |-> "none", seen |-> 1]

\* An insertion finds the table empty and appends that row.
LEMMA NewShape ==
    ASSUME IInv, NEW a \in Analyzers, CommitNew(a)
    PROVE  /\ Stored = {} /\ NewRow \in Rows
           /\ findings' = Append(findings, NewRow)
           /\ copy' = [copy EXCEPT ![a] = NewRow]
           /\ NewRow.id = Len(findings) + 1
BY DEF IInv, TypeOK, LookupHolds, CommitNew, EndTransaction, NewRow, Rows,
       Statuses

\* Every action keeps the types.
LEMMA TypeStep == IInv /\ [Next]_vars => TypeOK'
<1> SUFFICES ASSUME IInv, [Next]_vars PROVE TypeOK'
    OBVIOUS
<1> USE DEF TypeOK, storeVars, historyVars, Actors
<1>0. TypeOK
    BY DEF IInv
<1>1. ASSUME UNCHANGED findings, NEW a \in Actors,
             NEW row \in Rows \cup {NoRow}, copy' = [copy EXCEPT ![a] = row]
      PROVE  /\ findings' \in Seq(Rows \cup {NoRow})
             /\ \A n \in Stored' : findings'[n].id = n
             /\ copy' \in [Actors -> Rows \cup {NoRow}]
    BY <1>0, <1>1 DEF Stored
<1>2. CASE Quiet
    <2>0. ASSUME UNCHANGED <<findings, copy>>
          PROVE  /\ findings' \in Seq(Rows \cup {NoRow})
                 /\ \A n \in Stored' : findings'[n].id = n
                 /\ copy' \in [Actors -> Rows \cup {NoRow}]
        BY <1>0, <2>0 DEF Stored
    <2>1. ASSUME NEW a \in Analyzers, NEW b \in BOOLEAN, Arrive(a, b)
          PROVE  TypeOK'
        BY <1>0, <2>0, <2>1 DEF Arrive
    <2>2. ASSUME NEW a \in Analyzers, LockFingerprint(a)
          PROVE  TypeOK'
        BY <1>0, <2>0, <2>2 DEF LockFingerprint
    <2>3. ASSUME NEW a \in Analyzers, FoldRecurrence(a)
          PROVE  TypeOK'
        <3>1. Newest \in Rows \cup {NoRow}
            BY <1>0, NewestType DEF IInv
        <3> QED
            BY <1>0, <1>1, <2>3, <3>1 DEF FoldRecurrence
    <2>4. ASSUME NEW a \in Analyzers, FoldGone(a)
          PROVE  TypeOK'
        <3>1. /\ findings' \in Seq(Rows \cup {NoRow})
              /\ \A n \in Stored' : findings'[n].id = n
              /\ copy' \in [Actors -> Rows \cup {NoRow}]
            BY <1>1, <2>4 DEF FoldGone, EndTransaction
        <3> QED
            BY <1>0, <2>4, <3>1 DEF FoldGone, EndTransaction
    <2>5. ASSUME NEW a \in Analyzers, DispatchSinks(a)
          PROVE  TypeOK'
        <3>1. /\ findings' \in Seq(Rows \cup {NoRow})
              /\ \A n \in Stored' : findings'[n].id = n
              /\ copy' \in [Actors -> Rows \cup {NoRow}]
            BY <1>1, <2>5 DEF DispatchSinks
        <3> QED
            BY <1>0, <2>5, <3>1 DEF DispatchSinks
    <2>6. ASSUME NEW a \in Analyzers, Die(a)
          PROVE  TypeOK'
        <3>1. /\ findings' \in Seq(Rows \cup {NoRow})
              /\ \A n \in Stored' : findings'[n].id = n
              /\ copy' \in [Actors -> Rows \cup {NoRow}]
            BY <1>1, <2>6 DEF Die, EndTransaction
        <3> QED
            BY <1>0, <2>6, <3>1 DEF Die, EndTransaction
    <2>7. ASSUME NEW r \in Reviewers, OpenFinding(r)
          PROVE  TypeOK'
        <3>1. PICK n \in Stored : copy' = [copy EXCEPT ![r] = findings[n]]
            BY <2>7 DEF OpenFinding
        <3>2. findings[n] \in Rows
            BY <1>0 DEF Stored
        <3>3. /\ findings' \in Seq(Rows \cup {NoRow})
              /\ \A m \in Stored' : findings'[m].id = m
              /\ copy' \in [Actors -> Rows \cup {NoRow}]
            BY <1>1, <2>7, <3>1, <3>2 DEF OpenFinding
        <3> QED
            BY <1>0, <2>7, <3>3 DEF OpenFinding
    <2>8. ASSUME NEW r \in Reviewers, ReviewGone(r)
          PROVE  TypeOK'
        <3>1. /\ findings' \in Seq(Rows \cup {NoRow})
              /\ \A n \in Stored' : findings'[n].id = n
              /\ copy' \in [Actors -> Rows \cup {NoRow}]
            BY <1>1, <2>8 DEF ReviewGone
        <3> QED
            BY <1>0, <2>8, <3>1 DEF ReviewGone
    <2>9. CASE UNCHANGED vars
        BY <1>0, <2>0, <2>9 DEF vars
    <2> QED
        BY <1>2, <2>1, <2>2, <2>3, <2>4, <2>5, <2>6, <2>7, <2>8, <2>9 DEF Quiet
<1>3. CASE Reviewed
    <2>1. PICK n \in Stored : \E row \in Rows : EditOf(n, row)
        BY <1>0, <1>3, ReviewShape
    <2>2. PICK row \in Rows : EditOf(n, row)
        BY <2>1
    <2>3. NewDismissals(n, row.status) \in Nat
        BY DEF NewDismissals
    <2>4. /\ findings' \in Seq(Rows \cup {NoRow})
          /\ \A m \in Stored' : findings'[m].id = m
        BY <1>0, <2>2, StoredEdit DEF EditOf
    <2> QED
        BY <1>0, <2>2, <2>3, <2>4 DEF EditOf
<1>4. ASSUME NEW a \in Analyzers, CommitFold(a)
      PROVE  TypeOK'
    <2>1. PICK n \in Stored, row \in Rows :
              row.id = n /\ findings' = [findings EXCEPT ![n] = row]
        BY <1>4, FoldShape
    <2>2. /\ findings' \in Seq(Rows \cup {NoRow})
          /\ \A m \in Stored' : findings'[m].id = m
        BY <1>0, <2>1, StoredEdit
    <2>3. copy[a] \in Rows \cup {NoRow}
        BY <1>0
    <2> QED
        BY <1>0, <1>4, <2>2, <2>3 DEF CommitFold, EndTransaction
<1>5. ASSUME NEW a \in Analyzers, CommitNew(a)
      PROVE  TypeOK'
    <2>1. /\ findings' \in Seq(Rows \cup {NoRow})
          /\ \A m \in Stored' : findings'[m].id = m
        BY <1>0, <1>5, NewShape, StoredAppend
    <2>2. copy' \in [Actors -> Rows \cup {NoRow}]
        BY <1>0, <1>5, NewShape
    <2>3. /\ lock' = IF lock = a THEN Nobody ELSE lock
          /\ pc' = [pc EXCEPT ![a] = "sinks"]
          /\ recorded' = recorded + 1
          /\ UNCHANGED <<serious, arrived, purgedSeen, dismissals, alerts,
                         reviews, purges, deaths>>
        BY <1>5 DEF CommitNew, EndTransaction
    <2> QED
        BY <1>0, <2>1, <2>2, <2>3
<1>6. ASSUME NEW n \in Stored, Purge(n)
      PROVE  TypeOK'
    <2>1. /\ findings' \in Seq(Rows \cup {NoRow})
          /\ \A m \in Stored' : findings'[m].id = m
        BY <1>0, <1>6, StoredPurge DEF Purge
    <2>2. findings[n].seen \in Nat
        BY <1>0 DEF Stored, Rows
    <2> QED
        BY <1>0, <1>6, <2>1, <2>2 DEF Purge
<1> QED
    BY <1>2, <1>3, <1>4, <1>5, <1>6, StepKinds

\* While one analysis writes, no other looks up or writes.
LEMMA WritesAlone ==
    ASSUME LockHeld, NEW a \in Analyzers, pc[a] = "write"
    PROVE  /\ lock = a
           /\ \A b \in Analyzers : b # a => pc[b] \notin {"lookup", "write"}
BY DEF LockHeld

\* Every way out of the transaction gives back the lock, and only its own.
LEMMA LockStep == IInv /\ [Next]_vars => LockHeld'
<1> SUFFICES ASSUME IInv, [Next]_vars PROVE LockHeld'
    OBVIOUS
<1>0. /\ LockHeld /\ pc \in [Actors -> {"idle", "wait", "lookup", "write", "sinks"}]
      /\ Nobody \notin Analyzers /\ Analyzers \cap Reviewers = {}
      /\ lock \in Analyzers \cup {Nobody}
    BY ActorsAssumption DEF IInv, TypeOK
<1> USE DEF LockHeld, Actors
<1>1. ASSUME NEW a \in Analyzers, NEW to \in {"idle", "sinks"},
             pc' = [pc EXCEPT ![a] = to],
             lock' = IF lock = a THEN Nobody ELSE lock
      PROVE  LockHeld'
    BY <1>0, <1>1
<1>2. CASE Quiet
    <2>1. ASSUME NEW a \in Analyzers, NEW b \in BOOLEAN, Arrive(a, b)
          PROVE  LockHeld'
        BY <1>0, <2>1 DEF Arrive, storeVars
    <2>2. ASSUME NEW a \in Analyzers, LockFingerprint(a)
          PROVE  LockHeld'
        BY <1>0, <2>2 DEF LockFingerprint
    <2>3. ASSUME NEW a \in Analyzers, FoldRecurrence(a)
          PROVE  LockHeld'
        BY <1>0, <2>3 DEF FoldRecurrence, storeVars
    <2>4. ASSUME NEW a \in Analyzers, FoldGone(a) \/ Die(a)
          PROVE  LockHeld'
        BY <1>1, <2>4 DEF FoldGone, Die, EndTransaction
    <2>5. ASSUME NEW a \in Analyzers, DispatchSinks(a)
          PROVE  LockHeld'
        BY <1>0, <2>5 DEF DispatchSinks, storeVars
    <2>6. ASSUME NEW r \in Reviewers, OpenFinding(r) \/ ReviewGone(r)
          PROVE  LockHeld'
        BY <1>0, <2>6 DEF OpenFinding, ReviewGone, storeVars
    <2>7. CASE UNCHANGED vars
        BY <1>0, <2>7 DEF vars, storeVars
    <2> QED
        BY <1>2, <2>1, <2>2, <2>3, <2>4, <2>5, <2>6, <2>7 DEF Quiet
<1>3. CASE Reviewed
    <2>1. PICK n \in Stored, row \in Rows : EditOf(n, row)
        BY <1>3, ReviewShape DEF IInv
    <2> QED
        BY <1>0, <2>1 DEF EditOf
<1>4. ASSUME NEW a \in Analyzers, CommitFold(a) \/ CommitNew(a)
      PROVE  LockHeld'
    BY <1>1, <1>4 DEF CommitFold, CommitNew, EndTransaction
<1>5. ASSUME NEW n \in Stored, Purge(n)
      PROVE  LockHeld'
    BY <1>0, <1>5 DEF Purge
<1> QED
    BY <1>2, <1>3, <1>4, <1>5, StepKinds

\* An edit leaves the one row what it was, but for its status.
LEMMA EditedRow ==
    ASSUME TypeOK, OneFinding, NEW n \in Stored, NEW row \in Rows, EditOf(n, row)
    PROVE  /\ Stored' = Stored /\ Len(findings') = Len(findings)
           /\ findings'[n] = row /\ row.seen = findings[n].seen
           /\ \A m \in Stored : m = n
<1>1. row.id = n /\ findings' = [findings EXCEPT ![n] = row]
    BY DEF EditOf
<1>2. /\ Stored' = Stored /\ Len(findings') = Len(findings)
      /\ findings'[n] = row
    BY <1>1, StoredEdit
<1>3. \A m \in Stored : m = n
    BY DEF OneFinding
<1> QED
    BY <1>2, <1>3 DEF EditOf

\* What an analysis found under the lock stays so until it writes: reviewers
\* never touch the count, and a deletion only empties the table.
LEMMA LookupStep == IInv /\ [Next]_vars => LookupHolds'
<1> SUFFICES ASSUME IInv, [Next]_vars PROVE LookupHolds'
    OBVIOUS
<1>0. /\ TypeOK /\ LockHeld /\ LookupHolds /\ OneFinding
      /\ pc \in [Actors -> {"idle", "wait", "lookup", "write", "sinks"}]
      /\ copy \in [Actors -> Rows \cup {NoRow}]
      /\ Nobody \notin Analyzers /\ Analyzers \cap Reviewers = {}
    BY ActorsAssumption DEF IInv, TypeOK
<1>1. ASSUME UNCHANGED findings,
             \A b \in Analyzers : pc'[b] = "write" =>
                 pc[b] = "write" /\ copy'[b] = copy[b]
      PROVE  LookupHolds'
    BY <1>0, <1>1 DEF LookupHolds, Stored
<1>2. CASE Quiet
    <2> USE DEF Actors
    <2>1. ASSUME NEW a \in Analyzers, NEW b \in BOOLEAN, Arrive(a, b)
          PROVE  LookupHolds'
        BY <1>0, <1>1, <2>1 DEF Arrive, storeVars
    <2>2. ASSUME NEW a \in Analyzers, LockFingerprint(a)
          PROVE  LookupHolds'
        BY <1>0, <1>1, <2>2 DEF LockFingerprint
    <2>3. ASSUME NEW a \in Analyzers, FoldRecurrence(a)
          PROVE  LookupHolds'
        <3>1. ASSUME NEW b \in Analyzers, b # a
              PROVE  pc'[b] = pc[b] /\ copy'[b] = copy[b]
            BY <1>0, <2>3, <3>1 DEF FoldRecurrence
        <3>2. copy'[a] = Newest /\ Stored' = Stored /\ findings' = findings
            BY <1>0, <2>3 DEF FoldRecurrence, storeVars, Stored
        <3>3. /\ Newest = NoRow => Stored = {}
              /\ Newest # NoRow => findings[Newest.id] = Newest
            BY <1>0, NewestType, NoRowAssumption DEF TypeOK
        <3> QED
            BY <1>0, <3>1, <3>2, <3>3 DEF LookupHolds
    <2>4. ASSUME NEW a \in Analyzers, FoldGone(a) \/ DispatchSinks(a) \/ Die(a)
          PROVE  LookupHolds'
        <3>1. /\ UNCHANGED findings /\ pc' = [pc EXCEPT ![a] = "idle"]
              /\ copy' = [copy EXCEPT ![a] = NoRow]
            BY <2>4 DEF FoldGone, DispatchSinks, Die, EndTransaction, storeVars
        <3> QED
            BY <1>0, <1>1, <3>1
    <2>5. ASSUME NEW r \in Reviewers, OpenFinding(r) \/ ReviewGone(r)
          PROVE  LookupHolds'
        <3>1. \A b \in Analyzers : pc'[b] = pc[b] /\ copy'[b] = copy[b]
            BY <1>0, <2>5 DEF OpenFinding, ReviewGone
        <3>2. UNCHANGED findings
            BY <2>5 DEF OpenFinding, ReviewGone, storeVars
        <3> QED
            BY <1>1, <3>1, <3>2
    <2>6. CASE UNCHANGED vars
        BY <1>1, <2>6 DEF vars, storeVars
    <2> QED
        BY <1>2, <2>1, <2>2, <2>3, <2>4, <2>5, <2>6 DEF Quiet
<1>3. CASE Reviewed
    <2>1. PICK n \in Stored, row \in Rows : EditOf(n, row)
        BY <1>0, <1>3, ReviewShape
    <2>2. /\ Stored' = Stored /\ row.seen = findings[n].seen
          /\ findings'[n] = row
          /\ \A m \in Stored : m = n
        BY <1>0, <2>1, EditedRow DEF EditOf
    <2>3. \A b \in Analyzers : pc'[b] = pc[b] /\ copy'[b] = copy[b]
        BY <2>1 DEF EditOf
    <2>4. \A m \in Stored : findings'[m].seen = findings[m].seen
        BY <2>2
    <2> QED
        BY <1>0, <2>2, <2>3, <2>4 DEF LookupHolds
<1>4. ASSUME NEW a \in Analyzers, CommitFold(a) \/ CommitNew(a)
      PROVE  LookupHolds'
    <2>1. /\ pc[a] = "write"
          /\ \A b \in Analyzers : pc'[b] = "write" => b # a /\ pc[b] = "write"
        BY <1>0, <1>4 DEF CommitFold, CommitNew, Actors
    <2>2. \A b \in Analyzers : pc'[b] # "write"
        BY <1>0, <2>1, WritesAlone
    <2> QED
        BY <2>2 DEF LookupHolds
<1>5. ASSUME NEW n \in Stored, Purge(n)
      PROVE  LookupHolds'
    <2>1. /\ Stored' \subseteq Stored
          /\ \A m \in Stored' : findings'[m] = findings[m]
          /\ UNCHANGED <<pc, copy>>
        BY <1>0, <1>5, StoredPurge DEF Purge
    <2> QED
        BY <1>0, <2>1 DEF LookupHolds
<1> QED
    BY <1>2, <1>3, <1>4, <1>5, StepKinds

\* A row is inserted only when none is stored, and each commit is counted once.
LEMMA RowsStep == IInv /\ [Next]_vars => OneFinding' /\ RepeatsCounted'
<1> SUFFICES ASSUME IInv, [Next]_vars PROVE OneFinding' /\ RepeatsCounted'
    OBVIOUS
<1>0. /\ TypeOK /\ OneFinding /\ RepeatsCounted
      /\ recorded \in Nat /\ purgedSeen \in Nat
    BY DEF IInv, TypeOK
<1>1. ASSUME NEW n \in Stored
      PROVE  findings[n].seen \in Nat /\ recorded = purgedSeen + findings[n].seen
    BY <1>0, <1>1 DEF TypeOK, Stored, Rows, RepeatsCounted
<1>2. CASE Quiet
    <2>1. UNCHANGED <<findings, recorded, purgedSeen>>
        BY <1>2, QuietRows
    <2>2. Stored' = Stored
        BY <2>1 DEF Stored
    <2> QED
        BY <1>0, <2>1, <2>2 DEF OneFinding, RepeatsCounted
<1>3. CASE Reviewed
    <2>1. PICK n \in Stored, row \in Rows : EditOf(n, row)
        BY <1>0, <1>3, ReviewShape
    <2>2. /\ Stored' = Stored /\ row.seen = findings[n].seen
          /\ findings'[n] = row /\ \A m \in Stored : m = n
          /\ UNCHANGED <<recorded, purgedSeen>>
        BY <1>0, <2>1, EditedRow DEF EditOf
    <2> QED
        BY <1>0, <2>2 DEF OneFinding, RepeatsCounted
<1>4. ASSUME NEW a \in Analyzers, CommitFold(a)
      PROVE  OneFinding' /\ RepeatsCounted'
    <2>1. PICK n \in Stored, row \in Rows :
              /\ row.id = n /\ row.seen = findings[n].seen + 1
              /\ findings' = [findings EXCEPT ![n] = row]
        BY <1>4, FoldShape
    <2>2. /\ Stored' = Stored /\ findings'[n] = row
          /\ \A m \in Stored : m = n
        BY <1>0, <2>1, StoredEdit DEF OneFinding
    <2>3. recorded' = recorded + 1 /\ purgedSeen' = purgedSeen
        BY <1>4 DEF CommitFold
    <2> QED
        BY <1>0, <1>1, <2>1, <2>2, <2>3 DEF OneFinding, RepeatsCounted
<1>5. ASSUME NEW a \in Analyzers, CommitNew(a)
      PROVE  OneFinding' /\ RepeatsCounted'
    <2> DEFINE k == Len(findings) + 1
    <2>1. /\ Stored = {} /\ Stored' = {k} /\ findings'[k] = NewRow
        BY <1>0, <1>5, NewShape, StoredAppend
    <2>2. NewRow.seen = 1 /\ recorded = purgedSeen
        BY <1>0, <2>1 DEF NewRow, RepeatsCounted
    <2>3. recorded' = recorded + 1 /\ purgedSeen' = purgedSeen
        BY <1>5 DEF CommitNew
    <2>4. recorded' = purgedSeen' + NewRow.seen
        BY <1>0, <2>2, <2>3
    <2> HIDE DEF k
    <2> QED
        BY <2>1, <2>4 DEF OneFinding, RepeatsCounted
<1>6. ASSUME NEW n \in Stored, Purge(n)
      PROVE  OneFinding' /\ RepeatsCounted'
    <2>1. Stored' = {}
        BY <1>0, <1>6, StoredPurge DEF Purge, OneFinding
    <2>2. recorded' = recorded /\ purgedSeen' = purgedSeen + findings[n].seen
        BY <1>6 DEF Purge
    <2> QED
        BY <1>1, <2>1, <2>2 DEF OneFinding, RepeatsCounted
<1> QED
    BY <1>2, <1>3, <1>4, <1>5, <1>6, StepKinds

----------------------------------------------------------------------------
(* Alerts                                                                  *)

\* Analyses that are about to send an alert can be counted.
LEMMA PendingFinite == IsFiniteSet(Pending) /\ Cardinality(Pending) \in Nat
<1>1. Pending \in SUBSET Analyzers
    BY DEF Pending
<1> QED
    BY <1>1, ActorsAssumption, FS_Subset, FS_CardinalityType

\* A step that earns no alert sends none that was not pending.
LEMMA AlertsKept ==
    ASSUME AlertsBacked, TypeOK, Len(findings') = Len(findings),
           UNCHANGED dismissals,
           Cardinality(Pending)' \in Nat, alerts' \in Nat,
           alerts' + Cardinality(Pending)' <= alerts + Cardinality(Pending),
           Contradictable' => Contradictable
    PROVE  AlertsBacked'
BY PendingFinite DEF AlertsBacked, TypeOK

\* The steps that write no row: an alert is sent, lost or neither, and no
\* dismissal is found that was not stored.
LEMMA QuietAlerts == IInv /\ Quiet => AlertsBacked'
<1> SUFFICES ASSUME IInv, Quiet PROVE AlertsBacked'
    OBVIOUS
<1>0. /\ TypeOK /\ OneFinding /\ AlertsBacked
      /\ pc \in [Actors -> {"idle", "wait", "lookup", "write", "sinks"}]
      /\ copy \in [Actors -> Rows \cup {NoRow}] /\ alerts \in Nat
      /\ Analyzers \cap Reviewers = {}
    BY ActorsAssumption DEF IInv, TypeOK
<1>1. UNCHANGED <<findings, dismissals>> /\ Stored' = Stored
    BY QuietRows DEF Stored
<1>2. ASSUME \A b \in Analyzers : pc'[b] = "write" =>
                 pc[b] = "write" /\ copy'[b] = copy[b]
      PROVE  Contradictable' => Contradictable
    BY <1>1, <1>2 DEF Contradictable
<1>3. ASSUME Pending' = Pending, UNCHANGED alerts,
             Contradictable' => Contradictable
      PROVE  AlertsBacked'
    BY <1>0, <1>1, <1>3, AlertsKept, PendingFinite
<1>4. ASSUME NEW a \in Analyzers,
             \/ \E b \in BOOLEAN : Arrive(a, b)
             \/ LockFingerprint(a) \/ FoldGone(a)
      PROVE  AlertsBacked'
    <2>1. /\ UNCHANGED alerts /\ pc[a] # "sinks"
          /\ \E to \in {"idle", "wait", "lookup"} : pc' = [pc EXCEPT ![a] = to]
          /\ \A b \in Analyzers : b # a => copy'[b] = copy[b]
        BY <1>0, <1>4
        DEF Arrive, LockFingerprint, FoldGone, EndTransaction, historyVars, Actors
    <2>2. Pending' = Pending
        BY <1>0, <2>1 DEF Pending, Actors
    <2>3. Contradictable' => Contradictable
        BY <1>0, <1>2, <2>1 DEF Actors
    <2> QED
        BY <1>3, <2>1, <2>2, <2>3
<1>5. ASSUME NEW a \in Analyzers, FoldRecurrence(a)
      PROVE  AlertsBacked'
    <2>1. Pending' = Pending /\ UNCHANGED alerts
        BY <1>0, <1>5 DEF FoldRecurrence, Pending, Actors, historyVars
    <2>2. /\ copy'[a] = Newest
          /\ \A b \in Analyzers : b # a => pc'[b] = pc[b] /\ copy'[b] = copy[b]
        BY <1>0, <1>5 DEF FoldRecurrence, Actors
    <2>3. Newest # NoRow => \E n \in Stored : Newest = findings[n]
        BY <1>0, NewestType
    <2>4. Contradictable' => Contradictable
        BY <1>1, <2>2, <2>3 DEF Contradictable
    <2> QED
        BY <1>3, <2>1, <2>4
<1>6. ASSUME NEW a \in Analyzers, DispatchSinks(a) \/ Die(a)
      PROVE  AlertsBacked'
    <2>1. pc' = [pc EXCEPT ![a] = "idle"] /\ copy' = [copy EXCEPT ![a] = NoRow]
        BY <1>6 DEF DispatchSinks, Die, EndTransaction
    <2>2. Pending' = Pending \ {a}
        BY <1>0, <2>1 DEF Pending, Actors
    <2>3. /\ Cardinality(Pending)' \in Nat
          /\ Cardinality(Pending)' =
                IF a \in Pending THEN Cardinality(Pending) - 1
                ELSE Cardinality(Pending)
        BY <2>2, PendingFinite, FS_RemoveElement, FS_CardinalityType
    <2>4. /\ alerts' \in Nat
          /\ alerts' <= IF a \in Pending THEN alerts + 1 ELSE alerts
        BY <1>0, <1>6 DEF DispatchSinks, Die, Pending
    <2>5. Contradictable' => Contradictable
        BY <1>0, <1>2, <2>1 DEF Actors
    <2>6. alerts' + Cardinality(Pending)' <= alerts + Cardinality(Pending)
        BY <1>0, <2>3, <2>4, PendingFinite
    <2> QED
        BY <1>0, <1>1, <2>3, <2>4, <2>5, <2>6, AlertsKept
<1>7. ASSUME NEW r \in Reviewers, OpenFinding(r) \/ ReviewGone(r)
      PROVE  AlertsBacked'
    <2>1. UNCHANGED alerts
        BY <1>7 DEF OpenFinding, ReviewGone, historyVars
    <2>2. \A b \in Analyzers : pc'[b] = pc[b] /\ copy'[b] = copy[b]
        BY <1>0, <1>7 DEF OpenFinding, ReviewGone, Actors
    <2>3. Pending' = Pending
        BY <2>2 DEF Pending
    <2> QED
        BY <1>2, <1>3, <2>1, <2>2, <2>3
<1>8. CASE UNCHANGED vars
    <2>1. UNCHANGED <<pc, copy, alerts>>
        BY <1>8 DEF vars, historyVars
    <2>2. Pending' = Pending
        BY <2>1 DEF Pending
    <2> QED
        BY <1>2, <1>3, <2>1, <2>2
<1> QED
    BY <1>4, <1>5, <1>6, <1>7, <1>8 DEF Quiet

\* Only an alert that a first occurrence or a new dismissal earns becomes
\* pending, and a repeat that contradicts a dismissal uses it up.
LEMMA AlertStep == IInv /\ [Next]_vars => AlertsBacked'
<1> SUFFICES ASSUME IInv, [Next]_vars PROVE AlertsBacked'
    OBVIOUS
<1>0. /\ TypeOK /\ OneFinding /\ LockHeld /\ AlertsBacked
      /\ pc \in [Actors -> {"idle", "wait", "lookup", "write", "sinks"}]
      /\ alerts \in Nat /\ dismissals \in Nat /\ Len(findings) \in Nat
    BY DEF IInv, TypeOK
<1>1. CASE Quiet
    BY <1>1, QuietAlerts
<1>2. CASE Reviewed
    <2>1. PICK n \in Stored, row \in Rows : EditOf(n, row)
        BY <1>0, <1>2, ReviewShape
    <2>2. /\ Stored' = Stored /\ Len(findings') = Len(findings)
          /\ findings'[n] = row /\ \A m \in Stored : m = n
        BY <1>0, <2>1, EditedRow
    <2>3. /\ \A b \in Analyzers : pc'[b] = pc[b] /\ copy'[b] = copy[b]
          /\ UNCHANGED alerts
          /\ dismissals' = dismissals + NewDismissals(n, row.status)
        BY <2>1 DEF EditOf
    <2>4. Pending' = Pending
        BY <2>3 DEF Pending
    <2>5. NewDismissals(n, row.status) \in Nat
        BY DEF NewDismissals
    <2>6. Contradictable' => Contradictable \/ NewDismissals(n, row.status) = 1
        BY <2>2, <2>3 DEF Contradictable, NewDismissals
    <2> QED
        BY <1>0, <2>2, <2>3, <2>4, <2>5, <2>6, PendingFinite DEF AlertsBacked
<1>3. ASSUME NEW a \in Analyzers, pc[a] = "write",
             pc' = [pc EXCEPT ![a] = "sinks"], UNCHANGED <<alerts, dismissals>>,
             \A m \in Stored' : findings'[m].status = "open",
             Len(findings') \in Nat,
             \/ Len(findings') = Len(findings) + 1
             \/ Len(findings') = Len(findings) /\ Contradictable
      PROVE  AlertsBacked'
    <2>1. Pending' = Pending \cup {a} /\ a \notin Pending
        BY <1>0, <1>3 DEF Pending, Actors
    <2>2. Cardinality(Pending)' = Cardinality(Pending) + 1
        BY <2>1, PendingFinite, FS_AddElement
    <2>3. \A b \in Analyzers : pc'[b] # "write"
        BY <1>0, <1>3, WritesAlone DEF Actors
    <2>4. ~Contradictable'
        BY <1>3, <2>3 DEF Contradictable
    <2> QED
        BY <1>0, <1>3, <2>2, <2>4, PendingFinite DEF AlertsBacked
<1>4. ASSUME NEW a \in Analyzers, CommitFold(a)
      PROVE  AlertsBacked'
    <2>1. PICK n \in Stored, row \in Rows :
              /\ row.id = n /\ findings' = [findings EXCEPT ![n] = row]
              /\ row.status = IF Reopens(a) THEN "open" ELSE findings[n].status
        BY <1>4, FoldShape
    <2>2. /\ Stored' = Stored /\ Len(findings') = Len(findings)
          /\ findings'[n] = row /\ \A m \in Stored : m = n
        <3>1. \A m \in Stored : m = n
            BY <1>0 DEF OneFinding
        <3>2. /\ Stored' = Stored /\ Len(findings') = Len(findings)
              /\ findings'[n] = row
            <4>1. TypeOK /\ row.id = n /\ findings' = [findings EXCEPT ![n] = row]
                BY <1>0, <2>1
            <4> QED
                BY <4>1, StoredEdit
        <3> QED
            BY <3>1, <3>2
    <2>3. /\ pc[a] = "write" /\ copy[a] # NoRow
          /\ UNCHANGED <<alerts, dismissals>>
          /\ pc' = [pc EXCEPT ![a] = IF Reopens(a) THEN "sinks" ELSE "idle"]
        BY <1>4 DEF CommitFold
    <2>4. CASE Reopens(a)
        <3>1. Contradictable
            BY <2>3, <2>4 DEF Contradictable, Reopens
        <3>2. pc' = [pc EXCEPT ![a] = "sinks"]
            BY <2>3, <2>4
        <3>3. \A m \in Stored' : findings'[m].status = "open"
            BY <2>1, <2>2, <2>4
        <3> QED
            BY <1>0, <1>3, <2>2, <2>3, <3>1, <3>2, <3>3
    <2>5. CASE ~Reopens(a)
        <3>1. pc' = [pc EXCEPT ![a] = "idle"]
            BY <2>3, <2>5
        <3>2. Pending' = Pending
            BY <1>0, <2>3, <3>1 DEF Pending, Actors
        <3>3. \A b \in Analyzers : pc'[b] # "write"
            BY <1>0, <2>3, <3>1, WritesAlone DEF Actors
        <3>4. Contradictable' => Contradictable
            BY <2>1, <2>2, <2>5, <3>3 DEF Contradictable
        <3> QED
            BY <1>0, <2>2, <2>3, <3>2, <3>4, AlertsKept, PendingFinite
    <2> QED
        BY <2>4, <2>5
<1>5. ASSUME NEW a \in Analyzers, CommitNew(a)
      PROVE  AlertsBacked'
    <2>1. /\ Stored' = {Len(findings) + 1}
          /\ Len(findings') = Len(findings) + 1
          /\ findings'[Len(findings) + 1] = NewRow
        BY <1>0, <1>5, NewShape, StoredAppend
    <2>2. NewRow.status = "open"
        BY DEF NewRow
    <2>3. \A m \in Stored' : findings'[m].status = "open"
        BY <2>1, <2>2
    <2>4. /\ pc[a] = "write" /\ UNCHANGED <<alerts, dismissals>>
          /\ pc' = [pc EXCEPT ![a] = "sinks"]
          /\ Len(findings') \in Nat
        BY <1>0, <1>5, <2>1 DEF CommitNew
    <2> QED
        BY <1>0, <1>3, <2>1, <2>3, <2>4
<1>6. ASSUME NEW n \in Stored, Purge(n)
      PROVE  AlertsBacked'
    <2>1. /\ Stored' \subseteq Stored /\ Len(findings') = Len(findings)
          /\ \A m \in Stored' : findings'[m] = findings[m]
        BY <1>0, <1>6, StoredPurge DEF Purge
    <2>2. UNCHANGED <<pc, copy, alerts, dismissals>>
        BY <1>6 DEF Purge
    <2>3. Pending' = Pending /\ (Contradictable' => Contradictable)
        BY <2>1, <2>2 DEF Pending, Contradictable
    <2> QED
        BY <1>0, <2>1, <2>2, <2>3, AlertsKept, PendingFinite
<1> QED
    BY <1>1, <1>2, <1>4, <1>5, <1>6, StepKinds

----------------------------------------------------------------------------
(* Theorems                                                                *)

\* Any step keeps the invariant: the lemmas above, one for each conjunct.
LEMMA StepIInv == IInv /\ [Next]_vars => IInv'
BY TypeStep, LockStep, LookupStep, RowsStep, AlertStep DEF IInv

\* The inductive invariant holds in every state: the lock, what was looked up
\* under it, the rows, their counts and the alerts fit together whatever the
\* reviewers, retention and dying processes do meanwhile.
THEOREM InductiveInvariant == Spec => []IInv
BY InitIInv, StepIInv, PTL DEF Spec

\* Every variable keeps its type, and a stored finding its id (service.py).
THEOREM TypeCorrect == Spec => []TypeOK
<1>1. IInv => TypeOK
    BY DEF IInv
<1> QED
    BY <1>1, InductiveInvariant, PTL

\* However many analyses of one event class race, _lock_fingerprint and
\* _fold_recurrence keep it one finding, without a unique index.
THEOREM OneFindingCorrect == Spec => []OneFinding
<1>1. IInv => OneFinding
    BY DEF IInv
<1> QED
    BY <1>1, InductiveInvariant, PTL

\* Every committed analysis is counted once on the row that stands for its
\* class, or on one that retention deleted since.
THEOREM CountsCorrect == Spec => []RepeatsCounted
<1>1. IInv => RepeatsCounted
    BY DEF IInv
<1> QED
    BY <1>1, InductiveInvariant, PTL

\* The sinks get at most one alert for each finding created and one for each
\* dismissal.
THEOREM AlertsCorrect == Spec => []AlertsAreEarned
<1>1. IInv => AlertsAreEarned
    BY PendingFinite DEF IInv, TypeOK, AlertsBacked, AlertsAreEarned
<1> QED
    BY <1>1, InductiveInvariant, PTL
============================================================================
