---------------------------- MODULE ExportPolls ----------------------------
(***************************************************************************)
(* A SIEM that pulls findings: it asks for what was seen since its         *)
(* watermark, oldest first and at most a page, and takes the newest time   *)
(* it got for its next watermark (main.py export_findings, audit_export,   *)
(* session_audit.py export).  Meanwhile findings come and repeat; their    *)
(* time is taken before the commit that shows them.                        *)
(***************************************************************************)
EXTENDS Naturals, FiniteSets

CONSTANTS
    NFindings,   \* findings, by id
    Page,        \* limit
    MaxClock,    \* bound: times that can be told apart
    MaxSeen      \* bound: events

PageAssumption == {NFindings, MaxSeen} \subseteq Nat /\ {MaxClock, Page} \subseteq Nat \ {0}

Ids == 1 .. NFindings

VARIABLES
    export,   \* "findings" breaks ties by id, "audit" does not
    clock,
    last,     \* last[f]: last_seen as committed, 0 for no row
    stamp,    \* stamp[f]: the time a transaction took and has not committed, or 0
    mark,     \* the poller's since
    got,      \* what was pulled: findings with the time they had
    late,     \* history: what was committed behind the watermark
    events

pollVars == <<export, clock, last, stamp, mark, got, late, events>>

TypeOK ==
    /\ export \in {"findings", "audit"}
    /\ clock \in 1 .. MaxClock /\ mark \in 0 .. MaxClock /\ events \in 0 .. MaxSeen
    /\ last \in [Ids -> 0 .. MaxClock] /\ stamp \in [Ids -> 0 .. MaxClock]
    /\ got \subseteq Ids \X (1 .. MaxClock) /\ late \subseteq Ids \X (1 .. MaxClock)

Init ==
    /\ export \in {"findings", "audit"}
    /\ clock = 1 /\ mark = 0 /\ got = {} /\ late = {} /\ events = 0
    /\ last = [f \in Ids |-> 0] /\ stamp = [f \in Ids |-> 0]

\* run_analysis takes the time of a finding or of its repeat, under its lock.
Stamp(f) ==
    /\ stamp[f] = 0 /\ events < MaxSeen
    /\ f > 1 => last[f - 1] + stamp[f - 1] > 0
    /\ events' = events + 1
    /\ stamp' = [stamp EXCEPT ![f] = clock]
    /\ UNCHANGED <<export, clock, last, mark, got, late>>

Commit(f) ==
    /\ stamp[f] # 0
    /\ last' = [last EXCEPT ![f] = stamp[f]]
    /\ late' = IF stamp[f] < mark THEN late \cup {<<f, stamp[f]>>} ELSE late
    /\ stamp' = [stamp EXCEPT ![f] = 0]
    /\ UNCHANGED <<export, clock, mark, got, events>>

Tick ==
    /\ clock < MaxClock /\ clock' = clock + 1
    /\ UNCHANGED <<export, last, stamp, mark, got, late, events>>

\* Mutant of Since: the watermark itself is left out.
After(f) == last[f] > mark

\* The filter, which includes the watermark.
Since(f) == last[f] # 0 /\ last[f] >= mark

\* Mutant of Before: the newest come first, as without a watermark.
NewestFirst(f, g) == last[f] > last[g] \/ (export = "findings" /\ last[f] = last[g] /\ f < g)

Before(f, g) == last[f] < last[g] \/ (export = "findings" /\ last[f] = last[g] /\ f < g)

\* The pages the database may answer with.
Pages ==
    LET due == {f \in Ids : Since(f)}
    IN  {page \in SUBSET due :
            /\ page = due \/ Cardinality(page) = Page
            /\ Cardinality(page) <= Page
            /\ \A f \in page, g \in due \ page : ~Before(g, f)}

\* An empty page carries no watermark, and the poller keeps its own.
Poll ==
    \E page \in Pages :
        /\ page # {}
        /\ got' = got \cup {<<f, last[f]>> : f \in page}
        /\ mark' \in {last[f] : f \in page} /\ \A f \in page : last[f] <= mark'
        /\ UNCHANGED <<export, clock, last, stamp, late, events>>

Next == (\E f \in Ids : Stamp(f) \/ Commit(f)) \/ Tick \/ Poll

Spec == Init /\ [][Next]_pollVars /\ WF_pollVars(Poll)

-----------------------------------------------------------------------------
Pulled(f) == <<f, last[f]>> \in got \cup late

(***************************************************************************)
(* Nothing behind the watermark was skipped: a tie at the edge of a page,  *)
(* a repeat that moves a finding ahead of it, or a page that was cut, but  *)
(* for what was committed behind it (main.py export_findings).             *)
(***************************************************************************)
NothingSkipped == \A f \in Ids : last[f] # 0 /\ last[f] < mark => Pulled(f)

\* A whole page of one time: the answer, and with it the watermark, stays the same.
Stuck == Cardinality({f \in Ids : last[f] = mark}) >= Page

(***************************************************************************)
(* A poller that keeps asking has everything, unless it is stuck           *)
(* (main.py export_findings, session_audit.py export).                     *)
(***************************************************************************)
AllPulled == Stuck \/ \A f \in Ids : last[f] # 0 => Pulled(f)

=============================================================================
