---------------------------- MODULE ScanCoverage ----------------------------
(***************************************************************************)
(* What an incremental content scan promises, whatever its cursor looks    *)
(* like: an item that appears in one of the scanned streams (a Slack       *)
(* conversation, a drive, a repository) is owed to the scan, and leaves    *)
(* the debt only once it has been scanned.  The one exception is the first *)
(* scan of a stream, which reaches back a fixed time: an item of a stream  *)
(* the cursor has no mark in yet may grow too old for it.                  *)
(*                                                                         *)
(* A cursor that several scans write without a claim may also go back over *)
(* what was scanned, which is then read again (Rewinds).                   *)
(*                                                                         *)
(* SlackCursor and GraphDeltas implement this module.                      *)
(***************************************************************************)
CONSTANTS
    Streams,       \* what a cursor keeps a mark for
    Positions,     \* where an item stands in its stream
    Rewinds        \* whether a saved cursor may go back

VARIABLES
    posted,        \* the items that have appeared
    scanned,       \* the items the detectors have seen
    owed,          \* the items the saved cursor has not moved past
    tracked        \* the streams the saved cursor has a mark in

vars == <<posted, scanned, owed, tracked>>

Items == Streams \X Positions

Init ==
    /\ posted  = {}
    /\ scanned = {}
    /\ owed    = {}
    /\ tracked = {}

\* An item appears.
Post(x) ==
    /\ x \notin posted
    /\ posted' = posted \cup {x}
    /\ owed' = owed \cup {x}
    /\ UNCHANGED <<scanned, tracked>>

\* A scan reads some items; what was read before may be read again.
Read ==
    /\ scanned \subseteq scanned' /\ scanned' \subseteq posted
    /\ UNCHANGED <<posted, owed, tracked>>

\* The cursor is saved: it moves past items that have been scanned, and no
\* others, and keeps every mark it has.
Settle ==
    /\ owed' \subseteq owed /\ owed \ owed' \subseteq scanned
    /\ tracked \subseteq tracked' /\ tracked' \subseteq Streams
    /\ UNCHANGED <<posted, scanned>>

\* An older copy of the cursor is saved: it moves over scanned items only,
\* either way, and may lose a mark.
Rewind ==
    /\ Rewinds
    /\ owed \ owed' \subseteq scanned /\ owed' \ owed \subseteq scanned
    /\ tracked' \subseteq Streams
    /\ UNCHANGED <<posted, scanned>>

\* Items of a stream without a mark grow older than the first scan reaches.
Expire ==
    /\ owed' \subseteq owed
    /\ \A x \in owed \ owed' : x[1] \notin tracked
    /\ UNCHANGED <<posted, scanned, tracked>>

Next ==
    \/ Read
    \/ Settle
    \/ Rewind
    \/ Expire
    \/ \E x \in Items : Post(x)

Spec == Init /\ [][Next]_vars
============================================================================
