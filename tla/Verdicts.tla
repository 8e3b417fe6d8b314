------------------------------ MODULE Verdicts ------------------------------
(***************************************************************************)
(* One analysis, from the detectors to the verdict (engine.py, scoring.py, *)
(* service.py run_analysis, policies.py, policy.py).  Detectors find       *)
(* signals or raise; checks that are off, for the organisation or for      *)
(* whom an override governs, and categories a tool may send take signals   *)
(* out again; what is left is scored.  A confirmed leak and the marker of  *)
(* an unread part have to come through all of it.                          *)
(* A contribution is in tenths.                                            *)
(***************************************************************************)
EXTENDS Integers, FiniteSets, Sequences, FiniteSetsExt

CONSTANTS
    Signal,       \* Signal[s]: category, check, parts (of its contribution), confirmed
    Detectors,    \* Detectors[d]: the signals the d-th detector may find, and its marker
    MaxFound,     \* bound: signals of one item
    Bases,        \* what the organisation may have turned off
    Overrides,    \* the rows it may have
    ToolSkips,    \* categories that the tool, or the destination, is allowed
    Extras        \* what the caller may bring along

Signals == DOMAIN Signal

\* Every confirmed signal is strong enough for an alert, every context signal weak.
WeightsAssumption ==
    /\ MaxFound \in Nat
    /\ \A s \in Signals : Signal[s].parts \in 0 .. 10
    /\ \A s \in Signals : Signal[s].confirmed => Signal[s].parts >= 4
    /\ \A s \in Signals : Signal[s].category = "unsanctioned_ai" => Signal[s].parts <= 3

VARIABLES
    at,        \* the detector that comes next
    found,     \* the signals; after the last detector those of the engine's verdict
    unread,    \* history: what raised, or was not read
    asked,     \* under which policy, and for whom
    verdict

verdictVars == <<at, found, unread, asked, verdict>>

Markers == {s \in Signals : Signal[s].check = "detector_error"}
Hints   == {s \in Signals : Signal[s].check \in {"prompt_injection_ml", "source_code_ml"}}
Context == {s \in Signals : Signal[s].category = "unsanctioned_ai"}
Risks   == {s \in Signals : Signal[s].category # "ai_generated"}
Leaks   == {s \in Signals : Signal[s].confirmed}
Losses  == {s \in Signals : Signal[s].category \in
               {"secret_leak", "pii_exposure", "source_code_leak", "confidential_data"}}

-----------------------------------------------------------------------------
(***************************************************************************)
(* Scoring.                                                                *)
(***************************************************************************)
\* _drop_uncorroborated_ml_code
Corroborated(ss) ==
    IF \E s \in ss : /\ Signal[s].check # "source_code_ml"
                     /\ Signal[s].category \in {"source_code_leak", "confidential_data"}
    THEN ss ELSE {s \in ss : Signal[s].check # "source_code_ml"}

\* The tenths that a set of signals leaves open: Pi (1 - c), over 10^n.
Open(ss) == MapThenFoldSet(LAMBDA x, y : x * y, 1, LAMBDA s : 10 - Signal[s].parts,
                           LAMBDA T : CHOOSE s \in T : TRUE, ss)
Unit(n)  == <<1, 10, 100, 1000, 10000, 100000, 1000000>>[n + 1]

\* round(100 * min(1, risk + 0.35 * ai * risk))
Combined(ss) ==
    LET risks == ss \cap Risks
        ai    == ss \ Risks
        risk  == Unit(Cardinality(risks)) - Open(risks)
        lift  == 20 * Unit(Cardinality(ai)) + 7 * (Unit(Cardinality(ai)) - Open(ai))
        whole == 20 * Unit(Cardinality(ai)) * Unit(Cardinality(risks))
    IN  Min({100, (200 * risk * lift + whole) \div (2 * whole)})

\* Mutant of Capped: a hint stands for itself.
NeverCapped(risk, ss) == risk

\* _cap_uncorroborated_hints
Capped(risk, ss) ==
    IF ss \cap Hints # {} /\ (ss \cap Risks) \ (Hints \cup Context) = {}
    THEN Min({risk, 34}) ELSE risk

\* severity_for
Severity(risk) ==
    CASE risk >= 80 -> "critical"
      [] risk >= 60 /\ risk < 80 -> "high"
      [] risk >= 35 /\ risk < 60 -> "suspicious"
      [] risk >= 15 /\ risk < 35 -> "low"
      [] risk < 15 -> "benign"

Score(ss) ==
    LET kept == Corroborated(ss)
        real == {s \in kept : Signal[s].parts > 0}
    IN  [signals |-> real \cup (kept \cap Markers), risk |-> Capped(Combined(real), real)]

-----------------------------------------------------------------------------
(***************************************************************************)
(* What is off for whom.                                                   *)
(***************************************************************************)
\* Whether one row that applies is more specific than another (_best_match).
Beats(o, p) ==
    LET rank(r) == <<IF r.scope = "user" THEN 0 ELSE 1, IF r.tool THEN 0 ELSE 1,
                     IF r.scope = "user" THEN 0 ELSE r.loose>>
        a == rank(o)
        b == rank(p)
    IN  \E i \in 1 .. 3 : a[i] < b[i] /\ \A j \in 1 .. i - 1 : a[j] = b[j]

\* The rows that may govern: those that no other beats; which of them is the database's choice.
Governing(rows) == {o \in rows : ~\E p \in rows : Beats(p, o)}

\* Mutant of Effective: a claimed actor's row replaces the organisation's checks.
EffectiveForAll(base, rows, claimed) ==
    IF rows = {} THEN {base} ELSE {o.disabled : o \in Governing(rows)}

\* resolve_disabled: for a claimed actor a row only takes entries away.
Effective(base, rows, claimed) ==
    IF rows = {} THEN {base}
    ELSE {IF claimed THEN o.disabled \cap base ELSE o.disabled : o \in Governing(rows)}

\* The checks an admin can turn off; a detector's own key follows its category.
CatalogKeys == {"secret_leak", "pii_exposure", "source_code_leak", "confidential_data",
                "prompt_injection", "hidden_characters", "unsanctioned_ai"}

IsOff(s, disabled) ==
    \/ Signal[s].check \in disabled
    \/ Signal[s].check \notin CatalogKeys /\ Signal[s].category \in disabled

\* Mutant of Filtered: a filter drops markers as it drops signals.
FilteredWhole(ss, disabled, skips) ==
    {s \in ss : ~IsOff(s, disabled) /\ Signal[s].category \notin skips}

\* checks_signal_filter and signal_filter_for, with _keep_unscanned.
Filtered(ss, disabled, skips) ==
    {s \in ss : s \in Markers \/ (~IsOff(s, disabled) /\ Signal[s].category \notin skips)}

\* Mutant of Restored: what a filter dropped stays dropped.
RestoredNever(raw, ss) == ss

\* The confirmed leaks come back when the filters left none.
Restored(raw, ss) == IF ss \cap Leaks = {} THEN ss \cup (raw \cap Leaks) ELSE ss

\* The verdict on what the engine found, as run_analysis re-scores it.
Judged(raw, a) ==
    LET all == Filtered(raw \cup a.extra, a.disabled, a.skips)
    IN  IF a.disabled = {} /\ a.skips = {} /\ a.extra = {} THEN Score(raw)
        ELSE Score(IF raw \cap Leaks # {} THEN Restored(raw, all) ELSE all)

-----------------------------------------------------------------------------
Unasked == [base |-> {}, disabled |-> {}, claimed |-> FALSE, skips |-> {}, extra |-> {}]
NoVerdict == [signals |-> {}, risk |-> 0]

TypeOK ==
    /\ at \in 1 .. Len(Detectors) + 3
    /\ found \subseteq Signals /\ unread \subseteq Markers
    /\ asked \in [base : Bases, disabled : SUBSET CatalogKeys, claimed : BOOLEAN,
                  skips : ToolSkips, extra : Extras]
    /\ verdict \in [signals : SUBSET Signals, risk : 0 .. 100]

Init == at = 1 /\ found = {} /\ unread = {} /\ asked = Unasked /\ verdict = NoVerdict

\* A detector that does not apply, and the judge without consent, finds nothing.
Detect ==
    /\ at <= Len(Detectors)
    /\ at' = at + 1
    /\ \E some \in SUBSET Detectors[at].finds :
          /\ Cardinality((found \cup some) \ Markers) <= MaxFound
          /\ found' = found \cup some
    /\ UNCHANGED <<unread, asked, verdict>>

\* A detector raises: nothing of it is kept but the marker.
Raise ==
    /\ at <= Len(Detectors)
    /\ at' = at + 1
    /\ found' = found \cup {Detectors[at].marker}
    /\ unread' = unread \cup {Detectors[at].marker}
    /\ UNCHANGED <<asked, verdict>>

\* The engine's verdict, and the re-score under the policy of that moment.
Judge ==
    /\ at = Len(Detectors) + 1
    /\ at' = at + 1
    /\ \E base \in Bases, rows \in Overrides, claimed \in BOOLEAN, skips \in ToolSkips,
          extra \in Extras : \E disabled \in Effective(base, rows, claimed) :
          /\ asked' = [base |-> base, disabled |-> disabled, claimed |-> claimed,
                       skips |-> skips, extra |-> extra]
          /\ unread' = unread \cup (extra \cap Markers)
    /\ found' = Score(found).signals
    /\ verdict' = Judged(found', asked')

\* trace_origin: a document that was scanned at rest holds the content.
Trace ==
    /\ at = Len(Detectors) + 2
    /\ at' = at + 1
    /\ \/ UNCHANGED verdict
       \/ /\ verdict.signals \cap Losses # {}
          /\ \E sensitive \in BOOLEAN :
                LET boosted == Min({100, verdict.risk + (IF sensitive THEN 25 ELSE 15)})
                IN  verdict' = [verdict EXCEPT !.risk =
                        IF sensitive THEN Max({boosted, 60}) ELSE boosted]
    /\ UNCHANGED <<found, unread, asked>>

Next == Detect \/ Raise \/ Judge \/ Trace

Spec == Init /\ [][Next]_verdictVars

-----------------------------------------------------------------------------
Done == at > Len(Detectors) + 1

(***************************************************************************)
(* A confirmed leak that the engine found is in the record, and loud       *)
(* enough for an alert, whatever is off, whoever it is and whatever the    *)
(* client reports beside it (service.py run_analysis).                     *)
(***************************************************************************)
ConfirmedIsRecorded ==
    Done /\ found \cap Leaks # {} =>
        /\ verdict.signals \cap Leaks # {}
        /\ Severity(verdict.risk) \notin {"benign", "low"}

(***************************************************************************)
(* A verdict says what was not scanned, through every filter and re-score  *)
(* (service.py _keep_unscanned, scoring.py score).                         *)
(***************************************************************************)
UnscannedIsSaid == Done => unread \subseteq verdict.signals

(***************************************************************************)
(* A verdict that rests on a model's hint alone, or one whose support was  *)
(* filtered out, is low at most, after the boost of a matching document    *)
(* too (scoring.py _cap_uncorroborated_hints).                             *)
(***************************************************************************)
HintsOnlyWarn ==
    Done /\ verdict.signals \cap Hints # {}
         /\ (verdict.signals \cap Risks) \ Markers \subseteq Hints \cup Context =>
        Severity(verdict.risk) \in {"benign", "low"}

(***************************************************************************)
(* Whom a client merely claims to be, the verdict is no weaker than it     *)
(* would be without overrides (policies.py resolve_disabled), unless two   *)
(* confirmed leaks met: with both filtered out both are restored, with one *)
(* left the other is not.                                                  *)
(***************************************************************************)
ClaimedNeverWeaker ==
    at = Len(Detectors) + 2 /\ asked.claimed /\ asked.disabled # asked.base
        /\ Cardinality((found \cup asked.extra) \cap Leaks) < 2 =>
            verdict.risk >= Judged(found, [asked EXCEPT !.disabled = asked.base]).risk

=============================================================================
