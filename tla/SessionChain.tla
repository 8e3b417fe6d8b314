---------------------------- MODULE SessionChain ----------------------------
(***************************************************************************)
(* The correlation of one actor's findings into an attack chain            *)
(* (session_correlation.py correlate, called by service.py run_analysis    *)
(* after a new finding is committed).  Each new finding looks back over    *)
(* the actor's findings of the window, and when they make a chain it       *)
(* records the chain, or folds into the row that already has its stages.   *)
(* The lookup and the insert are not one write and take no lock.           *)
(*                                                                         *)
(* The findings are those that touch a stage; a repeat of one is folded    *)
(* into it (FindingFold), which makes it recent again and correlates       *)
(* nothing.  The console and the owner's answers change the status of      *)
(* findings and of chains, which are findings too, and retention deletes   *)
(* them.  Counts, severities and alerts are left out.                      *)
(***************************************************************************)
EXTENDS Naturals, FiniteSets, Sequences, SequencesExt, FiniteSetsExt

CONSTANTS
    StagesOf,     \* StagesOf[e]: the kill-chain stages of finding e
    Limit,        \* how many findings a lookup returns
    MaxRows,      \* bound: chains recorded
    MaxActs       \* bound: repeats, reviews, deletions, failures, findings that grow old

Events == DOMAIN StagesOf
Stages == {"recon", "manipulation", "collection", "execution", "exfiltration"}
Late   == {"collection", "execution", "exfiltration"}

ChainAssumption ==
    /\ \A e \in Events : StagesOf[e] \subseteq Stages /\ StagesOf[e] # {}
    /\ {Limit, MaxRows, MaxActs} \subseteq Nat

VARIABLES
    window,      \* the stored findings last seen in the window, oldest first
    stored,      \* the findings there are
    dismissed,   \* those that are dismissed
    request,     \* the analysis of each finding: where it is, the stages, the row found
    rows,        \* the chains recorded: their stages and their state
    revived,     \* history: findings that a repeat or a reopening brought back
    crowded,     \* history: a lookup came to its limit
    overlapped,  \* history: two correlations ran at once
    acts         \* history: what MaxActs counts

chainVars == <<window, stored, dismissed, request, rows, revived, crowded, overlapped, acts>>

\* A row that is open again, after another may have taken its place, is told from the rest;
\* of one that retention deleted the stages are kept, as history.
RowStates == {"open", "dismissed", "reopened", "deleted"}

Ended(how) == [at |-> how, stages |-> {}, row |-> 0]

TypeOK ==
    /\ ToSet(window) \subseteq stored /\ stored \subseteq Events /\ dismissed \subseteq stored
    /\ request \in [Events -> [at : {"none", "look", "fold", "write", "done", "failed"},
                               stages : SUBSET Stages, row : 0 .. MaxRows]]
    /\ \A i \in DOMAIN rows : rows[i].stages \subseteq Stages /\ rows[i].state \in RowStates
    /\ revived \subseteq stored /\ {crowded, overlapped} \subseteq BOOLEAN
    /\ acts \in 0 .. MaxActs

Init ==
    /\ window = <<>> /\ stored = {} /\ dismissed = {}
    /\ request = [e \in Events |-> Ended("none")]
    /\ rows = <<>>
    /\ revived = {} /\ crowded = FALSE /\ overlapped = FALSE
    /\ acts = 0

\* run_analysis commits the new finding and goes on to correlate.
Store(e) ==
    /\ e \notin stored /\ request[e].at = "none"
    /\ stored' = stored \cup {e} /\ window' = Append(window, e)
    /\ request' = [request EXCEPT ![e].at = "look"]
    /\ UNCHANGED <<dismissed, rows, revived, crowded, overlapped, acts>>

Busy == {e \in Events : request[e].at \in {"fold", "write"}}

Union(set) == UNION {StagesOf[e] : e \in set}

\* _should_correlate, of two findings or more.
Chain(set) ==
    /\ Cardinality(set) >= 2 /\ Cardinality(Union(set)) >= 2
    /\ Union(set) \cap Late # {} \/ Cardinality(Union(set)) >= 3

\* The places in the window of the findings that nobody dismissed.
Open == {i \in DOMAIN window : window[i] \notin dismissed}

\* Mutant of Shown: the findings before this one only.
ShownBefore(e) == {window[i] : i \in Open} \ {e}

\* The newest of those findings, up to the limit.
Shown(e) == {window[i] : i \in {j \in Open : Cardinality({k \in Open : k >= j}) <= Limit}}

Look(e) ==
    /\ request[e].at = "look"
    /\ request' = [request EXCEPT ![e] =
                       IF Chain(Shown(e))
                       THEN [@ EXCEPT !.at = "fold", !.stages = Union(Shown(e))]
                       ELSE Ended("done")]
    /\ crowded' = (crowded \/ Cardinality(Open) > Limit)
    /\ overlapped' = (overlapped \/ Busy # {})
    /\ UNCHANGED <<window, stored, dismissed, rows, revived, acts>>

IsOpen(i) == rows[i].state \in {"open", "reopened"}

\* The newest row of these stages that is not dismissed, of whatever age.
Prior(stages) == Max({0} \cup {i \in DOMAIN rows : rows[i].stages = stages /\ IsOpen(i)})

FindPrior(e) ==
    /\ request[e].at = "fold"
    /\ request' = [request EXCEPT ![e].at = "write", ![e].row = Prior(request[e].stages)]
    /\ UNCHANGED <<window, stored, dismissed, rows, revived, crowded, overlapped, acts>>

\* A prior row is bumped, which fails when it was deleted; otherwise one is inserted.
Write(e) ==
    /\ request[e].at = "write"
    /\ request[e].row = 0 => Len(rows) < MaxRows
    /\ rows' = IF request[e].row # 0 THEN rows
               ELSE Append(rows, [stages |-> request[e].stages, state |-> "open"])
    /\ LET lost == request[e].row # 0 /\ rows[request[e].row].state = "deleted" IN
       request' = [request EXCEPT ![e] = Ended(IF lost THEN "failed" ELSE "done")]
    /\ UNCHANGED <<window, stored, dismissed, revived, crowded, overlapped, acts>>

\* Whatever correlate raises is swallowed by run_analysis; or the process dies.
Fail(e) ==
    /\ request[e].at \in {"look", "fold", "write"} /\ acts < MaxActs
    /\ request' = [request EXCEPT ![e] = Ended("failed")]
    /\ acts' = acts + 1
    /\ UNCHANGED <<window, stored, dismissed, rows, revived, crowded, overlapped>>

Without(e) ==
    IF e \in ToSet(window)
    THEN RemoveAt(window, CHOOSE i \in DOMAIN window : window[i] = e)
    ELSE window

\* A repeat is folded: the finding is the latest again, and may be reopened.
Repeat(e, reopened) ==
    /\ e \in stored /\ acts < MaxActs
    /\ reopened => e \in dismissed
    /\ window' = Append(Without(e), e)
    /\ dismissed' = IF reopened THEN dismissed \ {e} ELSE dismissed
    /\ revived' = revived \cup {e}
    /\ acts' = acts + 1
    /\ UNCHANGED <<stored, request, rows, crowded, overlapped>>

AgeOut ==
    /\ window # <<>> /\ acts < MaxActs
    /\ window' = Tail(window)
    /\ acts' = acts + 1
    /\ UNCHANGED <<stored, dismissed, request, rows, revived, crowded, overlapped>>

\* update_status and bulk_update_status write whatever status they are given.
Dismiss(e) ==
    /\ e \in stored \ dismissed /\ acts < MaxActs
    /\ dismissed' = dismissed \cup {e}
    /\ acts' = acts + 1
    /\ UNCHANGED <<window, stored, request, rows, revived, crowded, overlapped>>

\* Open or triaged again; an owner's answer that loaded the finding open does it too.
\* Nothing correlates.
Reopen(e) ==
    /\ e \in dismissed /\ acts < MaxActs
    /\ dismissed' = dismissed \ {e}
    /\ revived' = revived \cup {e}
    /\ acts' = acts + 1
    /\ UNCHANGED <<window, stored, request, rows, crowded, overlapped>>

\* The same for a chain,
DismissRow(i) ==
    /\ i \in DOMAIN rows /\ IsOpen(i) /\ acts < MaxActs
    /\ rows' = [rows EXCEPT ![i].state = "dismissed"]
    /\ acts' = acts + 1
    /\ UNCHANGED <<window, stored, dismissed, request, revived, crowded, overlapped>>

\* of which another row may have been written meanwhile, or be about to be.
Replaced(i) ==
    \/ \E j \in DOMAIN rows : j > i /\ rows[j].stages = rows[i].stages
    \/ \E e \in Busy : request[e].stages = rows[i].stages

ReopenRow(i) ==
    /\ i \in DOMAIN rows /\ rows[i].state = "dismissed" /\ acts < MaxActs
    /\ rows' = [rows EXCEPT ![i].state = IF Replaced(i) THEN "reopened" ELSE "open"]
    /\ acts' = acts + 1
    /\ UNCHANGED <<window, stored, dismissed, request, revived, crowded, overlapped>>

\* Retention deletes what was created long ago, however recent a repeat has made it:
\* findings (an event like one that is gone makes another)
Delete(e) ==
    /\ e \in stored /\ request[e].at \in {"done", "failed"} /\ acts < MaxActs
    /\ stored' = stored \ {e} /\ dismissed' = dismissed \ {e} /\ revived' = revived \ {e}
    /\ window' = Without(e)
    /\ acts' = acts + 1
    /\ UNCHANGED <<request, rows, crowded, overlapped>>

\* and chains.
DeleteRow(i) ==
    /\ i \in DOMAIN rows /\ rows[i].state # "deleted" /\ acts < MaxActs
    /\ rows' = [rows EXCEPT ![i].state = "deleted"]
    /\ acts' = acts + 1
    /\ UNCHANGED <<window, stored, dismissed, request, revived, crowded, overlapped>>

Next ==
    \/ \E e \in Events :
          \/ Store(e) \/ Look(e) \/ FindPrior(e) \/ Write(e) \/ Fail(e)
          \/ Dismiss(e) \/ Reopen(e) \/ Delete(e)
          \/ \E reopened \in BOOLEAN : Repeat(e, reopened)
    \/ AgeOut
    \/ \E i \in 1 .. MaxRows : DismissRow(i) \/ ReopenRow(i) \/ DeleteRow(i)

Spec == Init /\ [][Next]_chainVars

-----------------------------------------------------------------------------
\* What the analyses of the findings in the window had to put together.
Told == {e \in ToSet(window) \ (dismissed \cup revived) : request[e].at = "done"}

(***************************************************************************)
(* A chain in the window is on record, whole: whichever analysis came last *)
(* saw the findings of all the others, however they interleave, and found  *)
(* or wrote a row with at least their stages (correlate), which only       *)
(* retention may have deleted since.  Not counted are findings whose       *)
(* correlation failed, lookups that came to their limit, and findings that *)
(* a repeat made recent ("Runs only for a real (non-recurrence) finding")  *)
(* or that were dismissed and reopened: neither correlates again.  And no  *)
(* second row is written for a chain that has an open one, "fold ... don't *)
(* duplicate", unless two correlations ran at once: there is no lock.  Two *)
(* rows of a chain are open when the older was dismissed while the younger *)
(* was written, and was then reopened by hand.                             *)
(***************************************************************************)
ChainRecorded ==
    /\ Busy = {} /\ Chain(Told) /\ ~crowded
          => \E i \in DOMAIN rows : Union(Told) \subseteq rows[i].stages
    /\ ~overlapped => \A i, j \in DOMAIN rows :
          i < j /\ rows[i].stages = rows[j].stages => rows[i].state # "open"

=============================================================================
