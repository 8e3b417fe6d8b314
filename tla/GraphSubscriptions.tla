------------------------- MODULE GraphSubscriptions -------------------------
(***************************************************************************)
(* The change subscription of one SharePoint drive (saas_connectors.py     *)
(* _ensure_graph_subscriptions).  A sync makes one when it knows of none,  *)
(* and renews the one it knows when little of its life is left.  What it   *)
(* knows is in the connector's state, which the scan that a notification   *)
(* starts writes as well, as it read it minutes before, and without a      *)
(* claim (GraphDeltas); it may be for another drive.  A notification of    *)
(* a subscription that is not in the state is dropped.                     *)
(***************************************************************************)
EXTENDS Naturals, FiniteSets

CONSTANTS
    Life,          \* _GRAPH_SUB_DAYS
    RenewAhead,    \* _GRAPH_SUB_RENEW_DAYS
    MaxSubs,       \* bound: subscriptions
    MaxTime,       \* bound: the clock
    MaxFailures    \* bound: calls and syncs that fail

LifeAssumption ==
    /\ {Life, RenewAhead, MaxSubs, MaxTime, MaxFailures} \subseteq Nat
    /\ RenewAhead < Life

Subs == 1 .. MaxSubs
Unknown == 0

VARIABLES
    time,
    expires,     \* expires[s] at Graph, 0 for a subscription nobody made
    known,       \* known[s]: its end as the state has it, Unknown when it has none
    scan,        \* the sync
    notified,    \* the notified scan
    checked,     \* history: when a sync last made or checked the subscription and was saved
    forgotten,   \* history: since then, one was written out of the state
    misses       \* what the bound counts

subscriptionVars == <<time, expires, known, scan, notified, checked, forgotten, misses>>

Known == [Subs -> 0 .. MaxTime + Life]
NoneKnown == [s \in Subs |-> Unknown]
Resting == [at |-> "idle", loaded |-> NoneKnown, has |-> NoneKnown, good |-> FALSE, since |-> 0]

TypeOK ==
    /\ time \in 0 .. MaxTime
    /\ expires \in Known /\ known \in Known
    /\ {scan, notified} \subseteq [at : {"idle", "begun", "called"}, loaded : Known, has : Known,
                                   good : BOOLEAN, since : 0 .. MaxTime]
    /\ checked \subseteq 0 .. MaxTime /\ Cardinality(checked) <= 1
    /\ forgotten \in BOOLEAN /\ misses \in 0 .. MaxFailures

Init ==
    /\ time = 0 /\ expires = NoneKnown /\ known = NoneKnown
    /\ scan = Resting /\ notified = Resting
    /\ checked = {} /\ forgotten = FALSE /\ misses = 0

Alive(s) == expires[s] > time
Has(k) == {s \in Subs : k[s] # Unknown}

-----------------------------------------------------------------------------
\* The sync reads the row; it reads it again whenever a finding was committed.
BeginSync ==
    /\ scan.at = "idle"
    /\ scan' = [Resting EXCEPT !.at = "begun", !.loaded = known]
    /\ UNCHANGED <<time, expires, known, notified, checked, forgotten, misses>>

CommitFinding ==
    /\ scan.at = "begun" /\ scan.loaded # known
    /\ scan' = [scan EXCEPT !.loaded = known]
    /\ UNCHANGED <<time, expires, known, notified, checked, forgotten, misses>>

\* The end of a subscription is more than RenewAhead away, as far as is known.
LeaveAlone(s) ==
    /\ scan.at = "begun" /\ s \in Has(scan.loaded) /\ scan.loaded[s] > time + RenewAhead
    /\ scan' = [scan EXCEPT !.at = "called", !.since = time, !.has = scan.loaded, !.good = TRUE]
    /\ UNCHANGED <<time, expires, known, notified, checked, forgotten, misses>>

\* Mutant of Renewed: the new end is recorded whether or not Graph grants it.
RenewedAnyway(s, ok) == [scan.loaded EXCEPT ![s] = time + Life]

Renewed(s, ok) == IF ok THEN [scan.loaded EXCEPT ![s] = time + Life] ELSE scan.loaded

\* Graph renews what is still alive.
Renew(s, ok) ==
    /\ scan.at = "begun" /\ s \in Has(scan.loaded) /\ scan.loaded[s] <= time + RenewAhead
    /\ IF Alive(s) THEN ok \/ misses < MaxFailures ELSE ~ok
    /\ expires' = IF ok THEN [expires EXCEPT ![s] = time + Life] ELSE expires
    /\ scan' = [scan EXCEPT !.at = "called", !.since = time, !.has = Renewed(s, ok), !.good = ok]
    /\ misses' = misses + (IF Alive(s) /\ ~ok THEN 1 ELSE 0)
    /\ UNCHANGED <<time, known, notified, checked, forgotten>>

Create(ok) ==
    /\ scan.at = "begun" /\ Has(scan.loaded) = {}
    /\ IF ok
       THEN \E s \in {s \in Subs : expires[s] = 0} :
               /\ expires' = [expires EXCEPT ![s] = time + Life]
               /\ scan' = [scan EXCEPT !.at = "called", !.since = time, !.good = TRUE,
                                       !.has = [scan.loaded EXCEPT ![s] = time + Life]]
               /\ UNCHANGED misses
       ELSE /\ misses < MaxFailures /\ misses' = misses + 1
            /\ scan' = [scan EXCEPT !.at = "called", !.since = time, !.has = scan.loaded]
            /\ UNCHANGED expires
    /\ UNCHANGED <<time, known, notified, checked, forgotten>>

SaveSync ==
    /\ scan.at = "called"
    /\ known' = scan.has
    /\ checked' = IF scan.good THEN {scan.since} ELSE checked
    /\ forgotten' = IF scan.good THEN FALSE ELSE forgotten \/ Has(known) \ Has(scan.has) # {}
    /\ scan' = Resting
    /\ UNCHANGED <<time, expires, notified, misses>>

\* The sync fails, and the state it read is written again; or it is lost.
FailSync(saves) ==
    /\ scan.at # "idle" /\ misses < MaxFailures
    /\ misses' = misses + 1
    /\ IF saves
       THEN /\ known' = scan.loaded
            /\ forgotten' = (forgotten \/ Has(known) \ Has(scan.loaded) # {})
       ELSE UNCHANGED <<known, forgotten>>
    /\ scan' = Resting
    /\ UNCHANGED <<time, expires, notified, checked>>

-----------------------------------------------------------------------------
\* A notification, of this drive or of another one.
BeginNotified ==
    /\ notified.at = "idle"
    /\ notified' = [Resting EXCEPT !.at = "begun", !.loaded = known]
    /\ UNCHANGED <<time, expires, known, scan, checked, forgotten, misses>>

\* The whole state is written when a link has changed.
EndNotified(writes) ==
    /\ notified.at = "begun"
    /\ IF writes
       THEN /\ known' = notified.loaded
            /\ forgotten' = (forgotten \/ Has(known) \ Has(notified.loaded) # {})
       ELSE UNCHANGED <<known, forgotten>>
    /\ notified' = Resting
    /\ UNCHANGED <<time, expires, scan, checked, misses>>

\* A sync takes minutes; its checks are all made with one reading of the clock.
Tick ==
    /\ time < MaxTime /\ scan.at # "called"
    /\ time' = time + 1
    /\ UNCHANGED <<expires, known, scan, notified, checked, forgotten, misses>>

Next ==
    \/ BeginSync \/ CommitFinding
    \/ \E s \in Subs : LeaveAlone(s) \/ \E ok \in BOOLEAN : Renew(s, ok)
    \/ \E ok \in BOOLEAN : Create(ok)
    \/ SaveSync \/ \E saves \in BOOLEAN : FailSync(saves)
    \/ BeginNotified \/ \E writes \in BOOLEAN : EndNotified(writes)
    \/ Tick

Spec == Init /\ [][Next]_subscriptionVars

-----------------------------------------------------------------------------
(***************************************************************************)
(* Within RenewAhead of a sync that made, renewed or checked it, a drive   *)
(* has a subscription that is alive at Graph and known here, unless a scan *)
(* wrote it out of the state meanwhile; the state never promises a longer  *)
(* life than Graph granted (_ensure_graph_subscriptions,                   *)
(* _scan_notified_drive).                                                  *)
(***************************************************************************)
SubscriptionsLast ==
    /\ \A t \in checked : time <= t + RenewAhead /\ ~forgotten =>
          \E s \in Has(known) : Alive(s)
    /\ \A s \in Subs : known[s] <= expires[s]

=============================================================================
