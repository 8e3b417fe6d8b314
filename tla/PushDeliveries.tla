--------------------------- MODULE PushDeliveries ---------------------------
(***************************************************************************)
(* The push events of GitHub at one server process (github_webhook.py).    *)
(* GitHub may send a delivery again at any time.  The process keeps a map  *)
(* of when each delivery stops being ignored: a short hold while it is     *)
(* queued or scanned, an hour once it was read in full, nothing after a    *)
(* scan that failed.  Two workers scan; the map and the queue die with the *)
(* process.                                                                *)
(***************************************************************************)
EXTENDS Naturals, FiniteSets, Sequences

CONSTANTS
    Deliveries,
    Pool,          \* the threads of _EXECUTOR
    InflightTTL,   \* how long a delivery is held when it is accepted
    SeenTTL,       \* how long one that was read in full is remembered
    MaxClock,      \* bound: the clock
    MaxQueue,      \* bound: the queue
    MaxDeaths      \* bound: deaths of the process

TTLAssumption ==
    /\ IsFiniteSet(Pool)
    /\ InflightTTL \in Nat \ {0} /\ SeenTTL \in Nat /\ SeenTTL >= InflightTTL
    /\ {MaxClock, MaxQueue, MaxDeaths} \subseteq Nat

VARIABLES
    now,
    ignored,    \* ignored[d]: when d stops being ignored (_SEEN)
    queue,      \* the deliveries that wait for a worker
    scan,       \* scan[w]: the delivery worker w scans, in a set
    readUntil,  \* history, readUntil[d]: when its last reading in full is to be forgotten
    outlived,   \* history: deliveries accepted again while a scan of them was pending
    again,      \* history: deliveries accepted though read in full in the last hour
    deaths

pushVars == <<now, ignored, queue, scan, readUntil, outlived, again, deaths>>

TypeOK ==
    /\ now \in 0 .. MaxClock /\ deaths \in 0 .. MaxDeaths
    /\ ignored \in [Deliveries -> 0 .. MaxClock + SeenTTL]
    /\ queue \in Seq(Deliveries) /\ Len(queue) <= MaxQueue
    /\ \A w \in Pool : scan[w] \subseteq Deliveries /\ Cardinality(scan[w]) <= 1
    /\ readUntil \in [Deliveries -> 0 .. MaxClock + SeenTTL]
    /\ outlived \subseteq Deliveries /\ again \subseteq Deliveries

Init ==
    /\ now = 0 /\ deaths = 0
    /\ ignored = [d \in Deliveries |-> 0]
    /\ queue = <<>> /\ scan = [w \in Pool |-> {}]
    /\ readUntil = [d \in Deliveries |-> 0]
    /\ outlived = {} /\ again = {}

Waiting(d)  == {k \in 1 .. Len(queue) : queue[k] = d}
Scanning(d) == {w \in Pool : d \in scan[w]}
Pending(d)  == Cardinality(Waiting(d)) + Cardinality(Scanning(d))
Ignores(d)  == ignored[d] > now

\* A delivery that is not ignored is held and handed to the executor.
Accept(d) ==
    /\ ~Ignores(d) /\ Len(queue) < MaxQueue
    /\ ignored' = [ignored EXCEPT ![d] = now + InflightTTL]
    /\ queue' = Append(queue, d)
    /\ outlived' = IF Pending(d) > 0 THEN outlived \cup {d} ELSE outlived
    /\ again' = IF readUntil[d] > now THEN again \cup {d} ELSE again
    /\ UNCHANGED <<now, scan, readUntil, deaths>>

BeginScan(w) ==
    /\ scan[w] = {} /\ queue # <<>>
    /\ scan' = [scan EXCEPT ![w] = {Head(queue)}]
    /\ queue' = Tail(queue)
    /\ UNCHANGED <<now, ignored, readUntil, outlived, again, deaths>>

\* Mutant of Settle: whatever came of the scan, the delivery is remembered.
SettleAnyway(d, ok) ==
    /\ ignored' = [ignored EXCEPT ![d] = now + SeenTTL]
    /\ readUntil' = IF ok THEN [readUntil EXCEPT ![d] = now + SeenTTL] ELSE readUntil

Settle(d, ok) ==
    /\ ignored' = [ignored EXCEPT ![d] = IF ok THEN now + SeenTTL ELSE 0]
    /\ readUntil' = IF ok THEN [readUntil EXCEPT ![d] = now + SeenTTL] ELSE readUntil

(***************************************************************************)
(* A scan ends.  It is well when every commit was read, or when there was  *)
(* nothing to read (no such connector, a branch or repository it does not  *)
(* cover); it is not when it raised, was cut short or left a commit.       *)
(***************************************************************************)
EndScan(w, ok) ==
    /\ scan[w] # {}
    /\ \A d \in scan[w] : Settle(d, ok)
    /\ scan' = [scan EXCEPT ![w] = {}]
    /\ UNCHANGED <<now, queue, outlived, again, deaths>>

Tick ==
    /\ now < MaxClock
    /\ now' = now + 1
    /\ UNCHANGED <<ignored, queue, scan, readUntil, outlived, again, deaths>>

\* The process dies, and another starts with an empty map.
Die ==
    /\ deaths < MaxDeaths
    /\ deaths' = deaths + 1
    /\ ignored' = [d \in Deliveries |-> 0]
    /\ readUntil' = [d \in Deliveries |-> 0]
    /\ queue' = <<>> /\ scan' = [w \in Pool |-> {}]
    /\ UNCHANGED <<now, outlived, again>>

Next ==
    \/ \E d \in Deliveries : Accept(d)
    \/ \E w \in Pool : BeginScan(w) \/ \E ok \in BOOLEAN : EndScan(w, ok)
    \/ Tick \/ Die

Spec == Init /\ [][Next]_pushVars

-----------------------------------------------------------------------------
(***************************************************************************)
(* A delivery that is ignored is being dealt with or was read in full, so  *)
(* sending it again repairs every scan that failed; and it is scanned      *)
(* twice, at once or within the hour, only if its hold ran out while its   *)
(* first scan was still pending (github_webhook.py _already_seen, _settle).*)
(***************************************************************************)
PushesSettled ==
    \A d \in Deliveries :
        /\ Ignores(d) => Pending(d) > 0 \/ readUntil[d] > now
        /\ Pending(d) <= 1 \/ d \in outlived
        /\ d \in again => d \in outlived

=============================================================================
