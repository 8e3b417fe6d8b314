------------------------- MODULE GraphDeltasProofs -------------------------
(***************************************************************************)
(* GraphDeltas implements ScanCoverage for any number of drives and        *)
(* notified scans: no saved delta link ever passes a change that was not   *)
(* handled.                                                                *)
(***************************************************************************)
EXTENDS GraphDeltas, FiniteSetTheorems, TLAPS

\* Of a finite set of numbers, at most r have fewer than r below them: what a
\* scan reads in one drive fits its budget.
LEMMA WithinRoom ==
    ASSUME NEW N \in Nat, NEW F \in SUBSET (1 .. N), NEW r \in Nat
    PROVE  Cardinality({n \in F : Cardinality({m \in F : m < n}) < r}) \in 0 .. r
<1> DEFINE Below(n) == {m \in F : m < n}
           R == {n \in F : Cardinality(Below(n)) < r}
           f == [n \in R |-> Cardinality(Below(n)) + 1]
<1>0. \A n \in F : n \in Nat
    OBVIOUS
<1>1. IsFiniteSet(F)
    <2>1. IsFiniteSet(1 .. N)
        BY FS_Interval
    <2> QED
        BY <2>1, FS_Subset
<1>2. IsFiniteSet(R) /\ Cardinality(R) \in Nat
    BY <1>1, FS_Subset, FS_CardinalityType
<1>3. ASSUME NEW n \in F
      PROVE  IsFiniteSet(Below(n)) /\ Cardinality(Below(n)) \in Nat
    BY <1>1, FS_Subset, FS_CardinalityType
<1>4. ASSUME NEW a \in F, NEW b \in F, a < b
      PROVE  Cardinality(Below(a)) # Cardinality(Below(b))
    <2>1. Below(a) \in SUBSET Below(b) /\ Below(a) # Below(b)
        <3>1. a \in Below(b) /\ a \notin Below(a)
            BY <1>4
        <3>2. \A m \in F : m < a => m < b
            BY <1>0, <1>4
        <3>3. Below(a) \subseteq Below(b)
            BY <3>2
        <3> QED
            BY <3>1, <3>3
    <2> HIDE DEF Below
    <2> QED
        BY <2>1, <1>3, FS_Subset
<1>5. \A a, b \in R : a # b => f[a] # f[b]
    <2> SUFFICES ASSUME NEW a \in R, NEW b \in R, a # b
                 PROVE  f[a] # f[b]
        OBVIOUS
    <2>1. f[a] = Cardinality(Below(a)) + 1 /\ f[b] = Cardinality(Below(b)) + 1
        OBVIOUS
    <2>2. a \in F /\ b \in F /\ (a < b \/ b < a)
        OBVIOUS
    <2>3. Cardinality(Below(a)) # Cardinality(Below(b))
        BY <2>2, <1>4
    <2> HIDE DEF Below, R, f
    <2> QED
        BY <2>1, <2>2, <2>3, <1>3
<1>6. f \in [R -> 1 .. r]
    <2>1. ASSUME NEW n \in R
          PROVE  Cardinality(Below(n)) + 1 \in 1 .. r
        <3>1. n \in F /\ Cardinality(Below(n)) < r
            OBVIOUS
        <3> HIDE DEF Below, R
        <3> QED
            BY <3>1, <1>3
    <2> QED
        BY <2>1
<1>7. IsFiniteSet(1 .. r) /\ Cardinality(1 .. r) = r
    BY FS_Interval
<1>8. Cardinality(R) <= r
    <2> SUFFICES ASSUME r < Cardinality(R)
                 PROVE  FALSE
        BY <1>2
    <2> HIDE DEF Below, R, f
    <2> QED
        BY <1>2, <1>5, <1>6, <1>7, FS_PigeonHole
<1> QED
    BY <1>2, <1>8

----------------------------------------------------------------------------
(* A scan of one drive                                                     *)

\* The files a scan reads fit the room it has.
LEMMA FilesFit ==
    ASSUME TypeOK, NEW p \in Scanners, NEW d \in Drives,
           NEW skipped \in SUBSET Todo(p, d)
    PROVE  Cardinality(Reached(p, d, skipped) \ skipped) \in 0 .. Room(p)
<1> DEFINE F == Todo(p, d) \ skipped
<1>1. changes[d] \in Nat /\ Room(p) \in Nat
    BY BoundsAssumption DEF TypeOK, Links, Room
<1>2. F \in SUBSET (1 .. changes[d])
    BY DEF Todo
<1>3. Reached(p, d, skipped) \ skipped
        = {n \in F : Cardinality({m \in F : m < n}) < Room(p)}
    BY DEF Reached
<1> HIDE DEF F
<1> QED
    BY <1>1, <1>2, <1>3, WithinRoom

\* A scan keeps the types, handles changes that exist, and moves the link it
\* works on only over changes that were handled.
LEMMA ScanKeeps ==
    ASSUME IInv, NEW p \in Scanners, NEW d \in Drives,
           NEW skipped \in SUBSET Todo(p, d),
           ScanDrive(p, d, skipped), UNCHANGED <<changes, links>>
    PROVE  /\ deltas' \in [Scanners -> Links] /\ loaded' \in [Scanners -> Links]
           /\ spent' \in 0 .. Budget
           /\ handled \subseteq handled' /\ handled' \subseteq Posted
           /\ \A q \in Scanners : Covered(loaded[q])' /\ Covered(deltas[q])'
<1> DEFINE read == Reached(p, d, skipped)
           link == LinkAfter(p, d, skipped)
<1>1. /\ changes \in Links /\ links \in Links
      /\ deltas \in [Scanners -> Links] /\ loaded \in [Scanners -> Links]
      /\ spent \in 0 .. Budget
    BY DEF IInv, TypeOK
<1>2. /\ deltas' = [deltas EXCEPT ![p][d] = link]
      /\ handled' = handled \cup ({d} \X read)
      /\ loaded' = loaded \/ loaded' = [loaded EXCEPT ![p] = links]
      /\ changes' = changes /\ links' = links
    BY DEF ScanDrive
<1>3. link \in 0 .. MaxChanges /\ link <= changes[d]
    <2>1. deltas[p][d] \in 0 .. MaxChanges /\ changes[d] \in 0 .. MaxChanges
        BY <1>1 DEF Links
    <2>2. deltas[p][d] <= changes[d]
        BY DEF IInv, Covered
    <2> QED
        BY <2>1, <2>2, BoundsAssumption DEF LinkAfter
<1>4. read \subseteq 1 .. changes[d]
    BY DEF Reached, Todo
<1>5. deltas' \in [Scanners -> Links]
    BY <1>1, <1>2, <1>3 DEF Links
<1>6. loaded' \in [Scanners -> Links]
    BY <1>1, <1>2
<1>7. spent' \in 0 .. Budget
    <2>1. Cardinality(read \ skipped) \in 0 .. Room(p)
        BY FilesFit DEF IInv
    <2>2. spent' = IF p = Sync THEN spent + Cardinality(read \ skipped) ELSE spent
        BY DEF ScanDrive
    <2> HIDE DEF read
    <2> QED
        BY <1>1, <2>1, <2>2, BoundsAssumption DEF Room
<1>8. handled' \subseteq Posted
    <2>1. {d} \X read \subseteq Posted
        BY <1>1, <1>4, BoundsAssumption DEF Posted, Links
    <2> QED
        BY <1>2, <2>1 DEF IInv
<1>9. \A n \in 1 .. link : <<d, n>> \in handled'
    <2> SUFFICES ASSUME NEW n \in 1 .. link
                 PROVE  <<d, n>> \in handled'
        OBVIOUS
    <2>1. CASE n <= deltas[p][d]
        <3>1. n \in 1 .. deltas[p][d]
            BY <2>1, <1>1 DEF Links
        <3> QED
            BY <3>1, <1>2 DEF IInv, Covered
    <2>2. CASE ~(n <= deltas[p][d])
        <3>1. n > deltas[p][d] /\ n <= changes[d] /\ n \in 1 .. changes[d]
            BY <2>2, <1>1, <1>3 DEF Links
        <3>2. read = Todo(p, d)
            BY <3>1, <1>1 DEF LinkAfter, Links
        <3>3. n \in Todo(p, d)
            BY <3>1 DEF Todo
        <3> QED
            BY <1>2, <3>2, <3>3
    <2> QED
        BY <2>1, <2>2
<1>10. ASSUME NEW q \in Scanners
       PROVE  Covered(loaded[q])' /\ Covered(deltas[q])'
    <2> HIDE DEF read, link
    <2>1. Covered(links) /\ Covered(loaded[q]) /\ Covered(deltas[q])
        BY DEF IInv
    <2>2. handled \subseteq handled'
        BY <1>2
    <2>3. Covered(loaded[q])'
        <3>1. loaded'[q] = loaded[q] \/ loaded'[q] = links
            BY <1>1, <1>2
        <3> QED
            BY <1>2, <2>1, <2>2, <3>1 DEF Covered
    <2>4. Covered(deltas[q])'
        <3> SUFFICES ASSUME NEW e \in Drives
                     PROVE  /\ deltas'[q][e] <= changes[e]
                            /\ \A n \in 1 .. deltas'[q][e] : <<e, n>> \in handled'
            BY <1>2 DEF Covered
        <3>1. CASE q = p /\ e = d
            <4>1. deltas'[q][e] = link
                BY <1>1, <1>2, <3>1 DEF Links
            <4> QED
                BY <4>1, <1>3, <1>9, <3>1
        <3>2. CASE ~(q = p /\ e = d)
            <4>1. deltas'[q][e] = deltas[q][e]
                BY <1>1, <1>2, <3>2 DEF Links
            <4> QED
                BY <4>1, <2>1, <2>2 DEF Covered
        <3> QED
            BY <3>1, <3>2
    <2> QED
        BY <2>3, <2>4
<1> QED
    BY <1>2, <1>5, <1>6, <1>7, <1>8, <1>10

----------------------------------------------------------------------------
(* The inductive invariant                                                 *)

\* The first state has no changes, no links and no scans.
LEMMA InitIInv == Init => IInv
<1> SUFFICES ASSUME Init PROVE IInv
    OBVIOUS
<1>1. NoLinks \in Links /\ \A d \in Drives : NoLinks[d] = 0
    BY BoundsAssumption DEF NoLinks, Links
<1>2. TypeOK
    BY <1>1, BoundsAssumption DEF Init, TypeOK, Drives
<1>3. Covered(NoLinks)
    BY <1>1 DEF Init, Covered
<1>4. \A p \in Scanners : pc[p] = "idle" /\ loaded[p] = NoLinks /\ deltas[p] = NoLinks
    BY DEF Init
<1> QED
    BY <1>2, <1>3, <1>4 DEF IInv, Init, Scanners

\* A step that leaves the feeds, the handled changes and the two copies alone,
\* and saves a covered set of links, keeps what the invariant says of them.
LEMMA SaveKeeps ==
    ASSUME IInv, UNCHANGED <<changes, handled, loaded, deltas>>,
           links' = links \/ (\E p \in Scanners : links' \in {loaded[p], deltas[p]})
    PROVE  /\ links' \in Links
           /\ (handled \subseteq Posted)'
           /\ Covered(links)'
           /\ \A q \in Scanners : Covered(loaded[q])' /\ Covered(deltas[q])'
<1>1. links' \in Links
    BY DEF IInv, TypeOK
<1>2. Covered(links)'
    BY DEF IInv, Covered
<1>3. \A q \in Scanners : Covered(loaded[q])' /\ Covered(deltas[q])'
    BY DEF IInv, Covered
<1>4. (handled \subseteq Posted)'
    BY DEF IInv, Posted
<1> QED
    BY <1>1, <1>2, <1>3, <1>4

\* So does a scan that starts with the saved links.
LEMMA StartKeeps ==
    ASSUME IInv, NEW p \in Scanners, UNCHANGED <<changes, links, handled>>,
           loaded' = [loaded EXCEPT ![p] = links],
           deltas' = [deltas EXCEPT ![p] = links]
    PROVE  /\ loaded' \in [Scanners -> Links] /\ deltas' \in [Scanners -> Links]
           /\ (handled \subseteq Posted)'
           /\ Covered(links)'
           /\ \A q \in Scanners : Covered(loaded[q])' /\ Covered(deltas[q])'
<1>1. loaded \in [Scanners -> Links] /\ deltas \in [Scanners -> Links] /\ links \in Links
    BY DEF IInv, TypeOK
<1>2. \A q \in Scanners : /\ loaded'[q] = loaded[q] \/ loaded'[q] = links
                          /\ deltas'[q] = deltas[q] \/ deltas'[q] = links
    BY <1>1
<1>3. Covered(links)'
    BY DEF IInv, Covered
<1>4. \A q \in Scanners : Covered(loaded[q])' /\ Covered(deltas[q])'
    BY <1>2 DEF IInv, Covered
<1>5. (handled \subseteq Posted)'
    BY DEF IInv, Posted
<1> QED
    BY <1>1, <1>3, <1>4, <1>5

\* Every step keeps the invariant.
LEMMA StepIInv == IInv /\ [Next]_vars => IInv'
<1> SUFFICES ASSUME IInv, [Next]_vars PROVE IInv'
    OBVIOUS
<1> USE BoundsAssumption DEF Drives
<1>0. TypeOK /\ Sync \in Scanners /\ Notifiers \subseteq Scanners
    BY DEF IInv, Scanners
<1>1. \A q \in Notifiers : pc'[q] = "scan" => at'[q] \in Drives
    BY <1>0, SyncAssumption
       DEF IInv, TypeOK, Next, SyncStep, vars, Change, StartSync, SyncDrive, SaveSync,
           SyncError, SyncLost, Notify, NotifiedDrive, SaveNotified, NotifiedFails
<1>2. ASSUME NEW d \in Drives, Change(d) PROVE IInv'
    <2>1. TypeOK'
        <3>1. changes \in [Drives -> 0 .. MaxChanges] /\ changes[d] < MaxChanges
            BY <1>0, <1>2 DEF TypeOK, Change, Links
        <3>2. changes[d] + 1 \in 0 .. MaxChanges
            BY <3>1
        <3>3. changes' \in Links
            BY <1>2, <3>1, <3>2 DEF Change, Links
        <3> QED
            BY <1>0, <1>2, <3>3 DEF TypeOK, Change
    <2>2. \A e \in Drives : changes[e] <= changes'[e]
        <3> SUFFICES ASSUME NEW e \in Drives
                     PROVE  changes[e] <= changes'[e]
            OBVIOUS
        <3>1. changes[e] \in Nat
            BY <1>0 DEF TypeOK, Links
        <3>2. changes'[e] = IF e = d THEN changes[e] + 1 ELSE changes[e]
            BY <1>0, <1>2 DEF TypeOK, Change, Links
        <3> QED
            BY <3>1, <3>2
    <2>3. (handled \subseteq Posted)'
        <3>1. changes \in [Drives -> Nat] /\ changes' \in [Drives -> Nat]
            BY <1>0, <2>1 DEF TypeOK, Links
        <3>2. ASSUME NEW x \in Posted PROVE x \in Posted'
            <4>1. x \in Drives \X (1 .. MaxChanges) /\ x[1] \in Drives /\ x[2] \in Nat
                BY DEF Posted
            <4>2. x[2] <= changes[x[1]]
                BY DEF Posted
            <4>3. changes[x[1]] \in Nat /\ changes'[x[1]] \in Nat
                BY <3>1, <4>1
            <4>4. x[2] <= changes'[x[1]]
                BY <2>2, <4>1, <4>2, <4>3
            <4> QED
                BY <4>1, <4>4 DEF Posted
        <3> QED
            BY <1>2, <3>2 DEF IInv, Change
    <2>4. ASSUME NEW L \in Links, Covered(L)
          PROVE  \A e \in Drives :
                    L[e] <= changes'[e] /\ \A n \in 1 .. L[e] : <<e, n>> \in handled'
        <3> SUFFICES ASSUME NEW e \in Drives
                     PROVE  /\ L[e] <= changes'[e]
                            /\ \A n \in 1 .. L[e] : <<e, n>> \in handled'
            OBVIOUS
        <3>1. L[e] \in Nat /\ changes[e] \in Nat /\ changes'[e] \in Nat
            BY <1>0, <2>1 DEF TypeOK, Links
        <3>2. L[e] <= changes[e] /\ \A n \in 1 .. L[e] : <<e, n>> \in handled
            BY <2>4 DEF Covered
        <3> QED
            BY <1>2, <2>2, <3>1, <3>2 DEF Change
    <2>5. Covered(links)'
        BY <1>0, <1>2, <2>4 DEF IInv, TypeOK, Change, Covered
    <2>6. \A q \in Scanners : Covered(loaded[q])' /\ Covered(deltas[q])'
        BY <1>0, <1>2, <2>4 DEF IInv, TypeOK, Change, Covered
    <2> QED
        BY <1>1, <2>1, <2>3, <2>5, <2>6 DEF IInv
<1>3. CASE StartSync
    <2>1. TypeOK'
        BY <1>0, <1>3, StartKeeps DEF TypeOK, StartSync
    <2> QED
        BY <1>0, <1>1, <1>3, <2>1, StartKeeps DEF IInv, StartSync
<1>4. CASE SyncDrive
    <2>1. at[Sync] \in Drives
        BY <1>4 DEF SyncDrive, InLoop
    <2>2. PICK skipped \in SUBSET Todo(Sync, at[Sync]) :
              ScanDrive(Sync, at[Sync], skipped)
        BY <1>4 DEF SyncDrive
    <2>3. /\ deltas' \in [Scanners -> Links] /\ loaded' \in [Scanners -> Links]
          /\ spent' \in 0 .. Budget
          /\ handled \subseteq handled' /\ handled' \subseteq Posted
          /\ \A q \in Scanners : Covered(loaded[q])' /\ Covered(deltas[q])'
        BY <1>0, <1>4, <2>1, <2>2, ScanKeeps DEF SyncDrive
    <2>4. at' \in [Scanners -> 1 .. NDrives + 1]
        BY <1>0, <1>4, <2>1 DEF TypeOK, SyncDrive
    <2>5. TypeOK'
        BY <1>0, <1>4, <2>3, <2>4 DEF TypeOK, SyncDrive, Posted
    <2> QED
        BY <1>4, <1>1, <2>3, <2>5 DEF IInv, SyncDrive, Covered, Posted
<1>5. CASE SaveSync
    <2>1. TypeOK'
        BY <1>0, <1>5, SaveKeeps DEF TypeOK, SaveSync
    <2> QED
        BY <1>0, <1>1, <1>5, <2>1, SaveKeeps DEF IInv, SaveSync
<1>6. CASE SyncError
    <2>1. TypeOK'
        BY <1>0, <1>6, SaveKeeps DEF TypeOK, SyncError
    <2> QED
        BY <1>0, <1>1, <1>6, <2>1, SaveKeeps DEF IInv, SyncError
<1>7. CASE SyncLost
    <2>1. TypeOK'
        BY <1>0, <1>7 DEF TypeOK, SyncLost
    <2> QED
        BY <1>7, <1>1, <2>1, SaveKeeps DEF IInv, SyncLost
<1>8. ASSUME NEW p \in Notifiers, NEW d \in Drives, Notify(p, d) PROVE IInv'
    <2>1. TypeOK'
        BY <1>0, <1>8, StartKeeps DEF TypeOK, Notify
    <2> QED
        BY <1>0, <1>1, <1>8, <2>1, StartKeeps DEF IInv, Notify
<1>9. ASSUME NEW p \in Notifiers, NotifiedDrive(p) PROVE IInv'
    <2>0. p \in Scanners /\ p # Sync
        BY <1>0, SyncAssumption
    <2>1. at[p] \in Drives
        BY <1>9 DEF IInv, NotifiedDrive
    <2>2. PICK skipped \in SUBSET Todo(p, at[p]) : ScanDrive(p, at[p], skipped)
        BY <1>9 DEF NotifiedDrive
    <2>3. /\ deltas' \in [Scanners -> Links] /\ loaded' \in [Scanners -> Links]
          /\ spent' \in 0 .. Budget
          /\ handled \subseteq handled' /\ handled' \subseteq Posted
          /\ \A q \in Scanners : Covered(loaded[q])' /\ Covered(deltas[q])'
        BY <1>9, <2>0, <2>1, <2>2, ScanKeeps DEF NotifiedDrive
    <2>4. TypeOK'
        BY <1>0, <1>9, <2>3 DEF TypeOK, NotifiedDrive, Posted
    <2> QED
        BY <1>9, <1>1, <2>3, <2>4 DEF IInv, NotifiedDrive, Covered, Posted
<1>10. ASSUME NEW p \in Notifiers, SaveNotified(p) PROVE IInv'
    <2>1. TypeOK'
        BY <1>0, <1>10, SaveKeeps DEF TypeOK, SaveNotified
    <2> QED
        BY <1>0, <1>1, <1>10, <2>1, SaveKeeps DEF IInv, SaveNotified
<1>11. ASSUME NEW p \in Notifiers, NotifiedFails(p) PROVE IInv'
    <2>1. TypeOK'
        BY <1>0, <1>11 DEF TypeOK, NotifiedFails
    <2> QED
        BY <1>11, <1>1, <2>1, SaveKeeps DEF IInv, NotifiedFails
<1>12. CASE UNCHANGED vars
    <2>1. TypeOK'
        BY <1>0, <1>12 DEF TypeOK, vars
    <2> QED
        BY <1>12, <1>1, <2>1, SaveKeeps DEF IInv, vars
<1> QED
    BY <1>2, <1>3, <1>4, <1>5, <1>6, <1>7, <1>8, <1>9, <1>10, <1>11, <1>12
       DEF Next, SyncStep

\* In every reachable state every saved, loaded and working link has passed
\* only changes that some scan handled.
THEOREM InductiveInvariant == Spec => []IInv
<1>1. Init => IInv
    BY InitIInv
<1>2. IInv /\ [Next]_vars => IInv'
    BY StepIInv
<1> QED
    BY <1>1, <1>2, PTL DEF Spec

\* The variables keep their types; a sync never scans more files than its
\* budget.
THEOREM TypeCorrect == Spec => []TypeOK
<1>1. IInv => TypeOK
    BY DEF IInv
<1> QED
    BY <1>1, InductiveInvariant, PTL

----------------------------------------------------------------------------
(* Refinement                                                              *)

\* Nothing is owed at the start.
LEMMA InitCovers == Init => Coverage!Init
<1> SUFFICES ASSUME Init PROVE Coverage!Init
    OBVIOUS
<1>1. Posted = {}
    BY DEF Init, Posted, NoLinks
<1>2. Owed = {}
    BY <1>1 DEF Owed
<1>3. {d \in Drives : links[d] > 0} = {}
    BY DEF Init, NoLinks
<1> QED
    BY <1>1, <1>2, <1>3 DEF Coverage!Init, Init

\* A change of a file is posted, and owed since no link is ahead of its feed.
LEMMA ChangePosts ==
    ASSUME IInv, IInv', NEW d \in Drives, Change(d)
    PROVE  Coverage!Post(<<d, changes[d] + 1>>)
<1> DEFINE x == <<d, changes[d] + 1>>
<1>1. /\ changes \in Links /\ changes[d] \in 0 .. MaxChanges
      /\ links \in Links /\ links[d] \in Nat /\ links[d] <= changes[d]
    BY BoundsAssumption DEF IInv, TypeOK, Links, Covered
<1>2. x \in Drives \X (1 .. MaxChanges)
    BY <1>1, BoundsAssumption DEF Change
<1>3. \A e \in Drives : changes'[e] = IF e = d THEN changes[d] + 1 ELSE changes[e]
    BY <1>1 DEF Change, Links
<1>4. x \notin Posted
    BY <1>1 DEF Posted
<1>5. Posted' = Posted \cup {x}
    <2> SUFFICES ASSUME NEW e \in Drives, NEW n \in 1 .. MaxChanges
                 PROVE  n <= changes'[e] <=> (n <= changes[e] \/ <<e, n>> = x)
        BY <1>2 DEF Posted
    <2>1. changes[e] \in Nat
        BY <1>1, BoundsAssumption DEF Links
    <2> QED
        BY <1>1, <1>3, <2>1
<1>6. Owed' = Owed \cup {x}
    <2>1. links' = links
        BY DEF Change
    <2>2. x[2] > links[x[1]]
        BY <1>1
    <2> QED
        BY <1>5, <2>1, <2>2 DEF Owed
<1> QED
    BY <1>4, <1>5, <1>6 DEF Coverage!Post, Change

\* A scan reads changes that exist.
LEMMA ScanReads ==
    ASSUME IInv', UNCHANGED <<changes, links>>, handled \subseteq handled'
    PROVE  Coverage!Read
<1>1. Posted' = Posted /\ Owed' = Owed
    BY DEF Posted, Owed
<1>2. handled' \subseteq Posted
    BY <1>1 DEF IInv
<1> QED
    BY <1>1, <1>2 DEF Coverage!Read

\* Whatever links are saved, they differ from the ones before by changes that
\* were handled: those the old links had not passed are under the new ones, and
\* the other way round.
LEMMA SaveRewinds ==
    ASSUME IInv, IInv', UNCHANGED <<changes, handled>>
    PROVE  Coverage!Rewind
<1>1. Posted' = Posted
    BY DEF Posted
<1>2. ASSUME NEW x \in Posted
      PROVE  /\ x[1] \in Drives /\ x[2] \in 1 .. MaxChanges
             /\ x = <<x[1], x[2]>>
             /\ links[x[1]] \in Nat /\ links'[x[1]] \in Nat
    BY BoundsAssumption DEF Posted, IInv, TypeOK, Links
<1>3. Owed \ Owed' \subseteq handled
    <2> SUFFICES ASSUME NEW x \in Posted, x \notin Owed'
                 PROVE  x \in handled
        BY DEF Owed
    <2>1. x[2] \in 1 .. links'[x[1]]
        BY <1>1, <1>2 DEF Owed
    <2> QED
        BY <1>2, <2>1 DEF IInv, Covered
<1>4. Owed' \ Owed \subseteq handled
    <2> SUFFICES ASSUME NEW x \in Posted, x \notin Owed
                 PROVE  x \in handled
        BY <1>1 DEF Owed
    <2>1. x[2] \in 1 .. links[x[1]]
        BY <1>2 DEF Owed
    <2> QED
        BY <1>2, <2>1 DEF IInv, Covered
<1> QED
    BY <1>1, <1>3, <1>4 DEF Coverage!Rewind

\* Every step is one of ScanCoverage's or leaves its variables alone.
LEMMA StepCovers == IInv /\ IInv' /\ [Next]_vars => [Coverage!Next]_(Coverage!vars)
<1> SUFFICES ASSUME IInv, IInv', [Next]_vars
             PROVE  [Coverage!Next]_(Coverage!vars)
    OBVIOUS
<1>1. ASSUME NEW d \in Drives, Change(d) PROVE Coverage!Next
    <2>1. <<d, changes[d] + 1>> \in Coverage!Items
        BY <1>1, BoundsAssumption DEF Coverage!Items, Change, IInv, TypeOK, Links
    <2> QED
        BY <1>1, <2>1, ChangePosts DEF Coverage!Next
<1>2. ASSUME SyncDrive \/ \E p \in Notifiers : NotifiedDrive(p)
      PROVE  Coverage!Next
    <2>1. UNCHANGED <<changes, links>> /\ handled \subseteq handled'
        BY <1>2 DEF SyncDrive, NotifiedDrive, ScanDrive
    <2> QED
        BY <2>1, ScanReads DEF Coverage!Next
<1>3. ASSUME SaveSync \/ SyncError \/ \E p \in Notifiers : SaveNotified(p)
      PROVE  Coverage!Next
    <2>1. UNCHANGED <<changes, handled>>
        BY <1>3 DEF SaveSync, SyncError, SaveNotified
    <2> QED
        BY <2>1, SaveRewinds DEF Coverage!Next
<1>4. ASSUME \/ StartSync \/ SyncLost
             \/ \E p \in Notifiers, d \in Drives : Notify(p, d)
             \/ \E p \in Notifiers : NotifiedFails(p)
             \/ UNCHANGED vars
      PROVE  UNCHANGED Coverage!vars
    <2>1. UNCHANGED <<changes, links, handled>>
        BY <1>4 DEF StartSync, SyncLost, Notify, NotifiedFails, vars
    <2> QED
        BY <2>1 DEF Coverage!vars, Posted, Owed
<1> QED
    BY <1>1, <1>2, <1>3, <1>4 DEF Next, SyncStep

\* The delta links cover the drives: whichever of the sync and the notified
\* scans saves last, no link passes a change that was not handled.
THEOREM CoverageCorrect == Spec => CoverageSpec
<1>1. Init => Coverage!Init
    BY InitCovers
<1>2. IInv /\ IInv' /\ [Next]_vars => [Coverage!Next]_(Coverage!vars)
    BY StepCovers
<1> QED
    BY <1>1, <1>2, InductiveInvariant, PTL DEF Spec, CoverageSpec, Coverage!Spec
============================================================================
