----------------------------- MODULE GraphDeltas -----------------------------
(***************************************************************************)
(* The delta links of a SharePoint connector and the two kinds of scan     *)
(* that move them: the sync, which goes through every drive under one      *)
(* budget and holds the connector's claim (ConnectorSync), and the scan of *)
(* one drive that a Graph change notification starts, which holds none.    *)
(*                                                                         *)
(* Each drive has a feed of file changes, and its delta link is a position *)
(* in that feed.  Every scan copies all the links when it starts, works on *)
(* its copy for minutes and writes all of them at its end.                 *)
(***************************************************************************)
EXTENDS Integers, FiniteSets

CONSTANTS
    NDrives,       \* drives, in the order Graph lists them
    Budget,        \* _MAX_FILES_PER_SYNC
    Sync,          \* the sync
    Notifiers,     \* the threads that serve notifications
    MaxChanges,    \* bound: changes of one drive
    MaxNotes,      \* bound: notified scans
    MaxFails       \* bound: syncs that fail or are lost

ASSUME BoundsAssumption ==
    /\ NDrives \in Nat /\ Budget \in Nat \ {0}
    /\ MaxChanges \in Nat /\ MaxNotes \in Nat /\ MaxFails \in Nat

ASSUME SyncAssumption == Sync \notin Notifiers

Drives   == 1 .. NDrives
Scanners == Notifiers \cup {Sync}
Links    == [Drives -> 0 .. MaxChanges]

VARIABLES
    changes,       \* changes[d]: the length of the feed of d
    links,         \* the saved delta links; 0 is none yet
    pc,            \* pc[p]: idle, scan or save
    at,            \* at[p]: the drive p scans next
    spent,         \* files the sync has scanned
    loaded,        \* loaded[p]: the saved links as p's session last read them
    deltas,        \* deltas[p]: the links p works on
    handled,       \* history: changes scanned or counted as skipped
    notes, fails   \* history: what the bounds count

vars == <<changes, links, pc, at, spent, loaded, deltas, handled, notes, fails>>

TypeOK ==
    /\ changes \in Links
    /\ links   \in Links
    /\ pc      \in [Scanners -> {"idle", "scan", "save"}]
    /\ at      \in [Scanners -> 1 .. NDrives + 1]
    /\ spent   \in 0 .. Budget
    /\ loaded  \in [Scanners -> Links]
    /\ deltas  \in [Scanners -> Links]
    /\ handled \in SUBSET (Drives \X (1 .. MaxChanges))
    /\ notes \in 0 .. MaxNotes /\ fails \in 0 .. MaxFails

NoLinks == [d \in Drives |-> 0]

Init ==
    /\ changes = NoLinks
    /\ links   = NoLinks
    /\ pc      = [p \in Scanners |-> "idle"]
    /\ at      = [p \in Scanners |-> 1]
    /\ spent   = 0
    /\ loaded  = [p \in Scanners |-> NoLinks]
    /\ deltas  = [p \in Scanners |-> NoLinks]
    /\ handled = {}
    /\ notes = 0 /\ fails = 0

\* Somebody edits a file.
Change(d) ==
    /\ changes[d] < MaxChanges
    /\ changes' = [changes EXCEPT ![d] = @ + 1]
    /\ UNCHANGED <<links, pc, at, spent, loaded, deltas, handled, notes, fails>>

----------------------------------------------------------------------------
(* One drive                                                               *)

\* Mutant of Room: every drive gets a whole budget.
RoomAlways(p) == Budget

\* Files p may still scan; a notified scan starts its count at 0.
Room(p) == IF p = Sync THEN Budget - spent ELSE Budget

Todo(p, d) == {n \in 1 .. changes[d] : n > deltas[p][d]}

\* The changes come to before the budget runs out, when the files of those in
\* skipped are too large or cannot be read and so cost nothing.
Reached(p, d, skipped) ==
    {n \in Todo(p, d) :
        Cardinality({m \in Todo(p, d) \ skipped : m < n}) < Room(p)}

\* Mutant of LinkAfter: the new link is kept although the pass was cut.
LinkAfterCut(p, d, skipped) == changes[d]

\* The new link on a full pass, the old one when the budget cut it.
LinkAfter(p, d, skipped) ==
    IF Reached(p, d, skipped) = Todo(p, d) THEN changes[d] ELSE deltas[p][d]

\* _scan_drive, the pages of the delta query and their files.  A finding
\* commits, and the row is then read afresh.
ScanDrive(p, d, skipped) ==
    LET read  == Reached(p, d, skipped)
        files == read \ skipped
    IN  /\ deltas' = [deltas EXCEPT ![p][d] = LinkAfter(p, d, skipped)]
        /\ handled' = handled \cup ({d} \X read)
        /\ spent' = IF p = Sync THEN spent + Cardinality(files) ELSE spent
        /\ \/ loaded' = loaded
           \/ files # {} /\ loaded' = [loaded EXCEPT ![p] = links]

----------------------------------------------------------------------------
(* The sync                                                                *)

\* The claim is taken and the row read.
StartSync ==
    /\ pc[Sync] = "idle"
    /\ pc' = [pc EXCEPT ![Sync] = "scan"]
    /\ at' = [at EXCEPT ![Sync] = 1]
    /\ spent' = 0
    /\ loaded' = [loaded EXCEPT ![Sync] = links]
    /\ deltas' = [deltas EXCEPT ![Sync] = links]
    /\ UNCHANGED <<changes, links, handled, notes, fails>>

\* Drives are left and so is budget.
InLoop == pc[Sync] = "scan" /\ at[Sync] \in Drives /\ spent < Budget

SyncDrive ==
    /\ InLoop
    /\ \E skipped \in SUBSET Todo(Sync, at[Sync]) :
           ScanDrive(Sync, at[Sync], skipped)
    /\ at' = [at EXCEPT ![Sync] = @ + 1]
    /\ UNCHANGED <<changes, links, pc, notes, fails>>

\* Mutant of SaveSync: the claim is let go and the links are not written.
ReleaseOnly ==
    /\ pc[Sync] = "scan" /\ ~InLoop
    /\ pc' = [pc EXCEPT ![Sync] = "idle"]
    /\ UNCHANGED <<changes, links, at, spent, loaded, deltas, handled, notes, fails>>

\* The end of scan_sharepoint_files, and _finish_sync.
SaveSync ==
    /\ pc[Sync] = "scan" /\ ~InLoop
    /\ links' = deltas[Sync]
    /\ pc' = [pc EXCEPT ![Sync] = "idle"]
    /\ UNCHANGED <<changes, at, spent, loaded, deltas, handled, notes, fails>>

\* Graph refuses a page: the error is recorded, and the state as the session
\* has it is written with it.
SyncError ==
    /\ InLoop /\ fails < MaxFails
    /\ fails' = fails + 1
    /\ links' = loaded[Sync]
    /\ pc' = [pc EXCEPT ![Sync] = "idle"]
    /\ UNCHANGED <<changes, at, spent, loaded, deltas, handled, notes>>

\* The process dies, the scan has outlived its claim, or it crashes and its
\* transaction is rolled back: the links stay as they are.
SyncLost ==
    /\ pc[Sync] = "scan" /\ fails < MaxFails
    /\ fails' = fails + 1
    /\ pc' = [pc EXCEPT ![Sync] = "idle"]
    /\ UNCHANGED <<changes, links, at, spent, loaded, deltas, handled, notes>>

----------------------------------------------------------------------------
(* A notified scan                                                         *)

\* A notification that is not debounced.
Notify(p, d) ==
    /\ pc[p] = "idle"
    /\ notes < MaxNotes
    /\ notes' = notes + 1
    /\ pc' = [pc EXCEPT ![p] = "scan"]
    /\ at' = [at EXCEPT ![p] = d]
    /\ loaded' = [loaded EXCEPT ![p] = links]
    /\ deltas' = [deltas EXCEPT ![p] = links]
    /\ UNCHANGED <<changes, links, spent, handled, fails>>

NotifiedDrive(p) ==
    /\ pc[p] = "scan"
    /\ \E skipped \in SUBSET Todo(p, at[p]) : ScanDrive(p, at[p], skipped)
    /\ pc' = [pc EXCEPT ![p] = "save"]
    /\ UNCHANGED <<changes, links, at, notes, fails>>

\* All the links are assigned; the commit writes them when they differ from
\* what the session read.
SaveNotified(p) ==
    /\ pc[p] = "save"
    /\ links' = IF deltas[p] = loaded[p] THEN links ELSE deltas[p]
    /\ pc' = [pc EXCEPT ![p] = "idle"]
    /\ UNCHANGED <<changes, at, spent, loaded, deltas, handled, notes, fails>>

\* It never raises; the next sync makes up for it.
NotifiedFails(p) ==
    /\ pc[p] \in {"scan", "save"}
    /\ pc' = [pc EXCEPT ![p] = "idle"]
    /\ UNCHANGED <<changes, links, at, spent, loaded, deltas, handled, notes, fails>>

----------------------------------------------------------------------------

SyncStep == StartSync \/ SyncDrive \/ SaveSync

Next ==
    \/ \E d \in Drives : Change(d)
    \/ SyncStep
    \/ SyncError
    \/ SyncLost
    \/ \E p \in Notifiers, d \in Drives : Notify(p, d)
    \/ \E p \in Notifiers : NotifiedDrive(p) \/ SaveNotified(p) \/ NotifiedFails(p)

\* The scheduler syncs the connector again and again (ConnectorSync).
Fairness == WF_vars(SyncStep)

Spec == Init /\ [][Next]_vars /\ Fairness

----------------------------------------------------------------------------
(* Properties                                                              *)

\* What has changed, and what the saved links have not passed.
Posted == {x \in Drives \X (1 .. MaxChanges) : x[2] <= changes[x[1]]}
Owed   == {x \in Posted : x[2] > links[x[1]]}

\* The links cover the drives: whichever scan writes last, over whatever the
\* other one saved meanwhile, a link passes a change only once that change was
\* handled.  A late writer may set links back, so that some changes are read
\* again, and never forward over changes nobody read (refines ScanCoverage).
Coverage == INSTANCE ScanCoverage WITH
    Streams   <- Drives,
    Positions <- 1 .. MaxChanges,
    Rewinds   <- TRUE,
    posted    <- Posted,
    scanned   <- handled,
    owed      <- Owed,
    tracked   <- {d \in Drives : links[d] > 0}

CoverageSpec == Coverage!Spec

\* Every change of every drive is handled in the end, however notified scans
\* and failing syncs come between and although the drives take no turns: "the
\* cursor resumes where it stopped" (saas_connectors.py:1169).  The code keeps
\* this only for drives with no more changes than one sync's budget.
EventuallyHandled ==
    \A x \in Drives \X (1 .. MaxChanges) :
        x[2] <= changes[x[1]] ~> x \in handled

\* The inductive invariant behind CoverageSpec.

\* The links in L pass changes that exist and were handled.
Covered(L) ==
    \A d \in Drives :
        L[d] <= changes[d] /\ \A n \in 1 .. L[d] : <<d, n>> \in handled

IInv ==
    /\ TypeOK
    /\ handled \subseteq Posted
    /\ Covered(links)
    /\ \A p \in Scanners : Covered(loaded[p]) /\ Covered(deltas[p])
    /\ \A p \in Notifiers : pc[p] = "scan" => at[p] \in Drives
============================================================================
