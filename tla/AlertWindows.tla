---------------------------- MODULE AlertWindows ----------------------------
(***************************************************************************)
(* The digests of one organisation (alerts.py run_digests): workers, the   *)
(* background loop of each process and the console's button, send what     *)
(* was seen since the last digest.  A worker reads the clock, loads the    *)
(* organisation, claims the window by a conditional update that moves      *)
(* alert_digest_last, and only then asks for the findings and posts them;  *)
(* a failed post gives the window back.  The weekly report claims and      *)
(* releases its week in the same way; its mails and their retries are in   *)
(* WeeklyReports.                                                          *)
(***************************************************************************)
EXTENDS Integers, FiniteSets

CONSTANTS
    Workers,
    Events,      \* bound: findings seen, each once
    Interval,    \* the length of a window
    MaxClock,    \* bound
    MaxFaults    \* bound: posts that fail and workers that die

WindowsAssumption ==
    Interval \in Nat \ {0} /\ MaxClock \in Nat /\ MaxFaults \in Nat

VARIABLES
    clock,
    last,       \* alert_digest_last
    event,      \* findings: not yet seen, stamped by a flush, or committed
    worker,     \* what each worker is doing
    told,       \* history: events in a digest that was delivered
    delivered,  \* history: the windows delivered
    excused,    \* history: events no digest has to carry (see DigestsArrive)
    faults      \* history: what MaxFaults counts

windowVars == <<clock, last, event, worker, told, delivered, excused, faults>>

Never == -1
Idle  == [at |-> "idle", now |-> 0, last |-> Never, found |-> {}]

TypeOK ==
    /\ clock \in 0 .. MaxClock /\ last \in Never .. MaxClock
    /\ event \in [Events -> [at : {"none", "flushed", "stored"}, stamp : 0 .. MaxClock]]
    /\ worker \in [Workers -> [at : {"idle", "begun", "loaded", "claimed", "sending"},
                               now : 0 .. MaxClock, last : Never .. MaxClock,
                               found : SUBSET Events]]
    /\ {told, excused} \subseteq SUBSET Events
    /\ delivered \subseteq [by : Workers, since : -Interval .. MaxClock, now : 0 .. MaxClock]
    /\ faults \in 0 .. MaxFaults

Init ==
    /\ clock = 0 /\ last = Never
    /\ event = [e \in Events |-> [at |-> "none", stamp |-> 0]]
    /\ worker = [w \in Workers |-> Idle]
    /\ told = {} /\ delivered = {} /\ excused = {} /\ faults = 0

Tick ==
    /\ clock < MaxClock
    /\ clock' = clock + 1
    /\ UNCHANGED <<last, event, worker, told, delivered, excused, faults>>

\* A finding gets its time at the flush; no window ends at that very time.
Happen(e) ==
    /\ event[e].at = "none" /\ last # clock
    /\ \A w \in Workers : worker[w].at # "idle" => worker[w].now # clock
    /\ event' = [event EXCEPT ![e] = [at |-> "flushed", stamp |-> clock]]
    /\ UNCHANGED <<clock, last, worker, told, delivered, excused, faults>>

\* It is seen by others when it commits, perhaps after its window was claimed.
Record(e) ==
    /\ event[e].at = "flushed"
    /\ event' = [event EXCEPT ![e].at = "stored"]
    /\ excused' = IF event[e].stamp <= last THEN excused \cup {e} ELSE excused
    /\ UNCHANGED <<clock, last, worker, told, delivered, faults>>

Begin(w) ==
    /\ worker[w].at = "idle"
    /\ worker' = [worker EXCEPT ![w].at = "begun", ![w].now = clock]
    /\ UNCHANGED <<clock, last, event, told, delivered, excused, faults>>

Due(w) == last = Never \/ worker[w].now - last >= Interval

Load(w) ==
    /\ worker[w].at = "begun"
    /\ worker' = [worker EXCEPT ![w] =
                      IF Due(w) THEN [@ EXCEPT !.at = "loaded", !.last = last] ELSE Idle]
    /\ UNCHANGED <<clock, last, event, told, delivered, excused, faults>>

\* The first window looks back one interval.
Since(w) == IF worker[w].last = Never THEN worker[w].now - Interval ELSE worker[w].last

\* The one conditional update: it matches if nobody moved the window meanwhile.
Claim(w) ==
    /\ worker[w].at = "loaded"
    /\ IF last = worker[w].last
       THEN /\ last' = worker[w].now
            /\ worker' = [worker EXCEPT ![w].at = "claimed"]
            /\ excused' = IF last # Never THEN excused ELSE excused \cup
                   {e \in Events : event[e].at # "none" /\ event[e].stamp <= Since(w)}
       ELSE /\ worker' = [worker EXCEPT ![w] = Idle]
            /\ UNCHANGED <<last, excused>>
    /\ UNCHANGED <<clock, event, told, delivered, faults>>

\* An empty window is kept: there was nothing to tell.
Query(w) ==
    LET found == {e \in Events : event[e].at = "stored" /\ event[e].stamp > Since(w)} IN
    /\ worker[w].at = "claimed"
    /\ worker' = [worker EXCEPT ![w] =
                      IF found = {} THEN Idle ELSE [@ EXCEPT !.at = "sending", !.found = found]]
    /\ UNCHANGED <<clock, last, event, told, delivered, excused, faults>>

SendOk(w) ==
    /\ worker[w].at = "sending"
    /\ told' = told \cup worker[w].found
    /\ delivered' = delivered \cup {[by |-> w, since |-> Since(w), now |-> worker[w].now]}
    /\ worker' = [worker EXCEPT ![w] = Idle]
    /\ UNCHANGED <<clock, last, event, excused, faults>>

\* The committed events of a window that its claim took and nobody will send.
Eaten(w) == {e \in Events : event[e].at = "stored"
                            /\ event[e].stamp > Since(w) /\ event[e].stamp <= worker[w].now}

\* Mutant of Release: the window is kept although its post failed.
NoRelease(w) == UNCHANGED <<last, excused>>

\* _release_claim: the window goes back unless somebody claimed the next one.
Release(w) ==
    IF last = worker[w].now
    THEN last' = worker[w].last /\ UNCHANGED excused
    ELSE excused' = excused \cup Eaten(w) /\ UNCHANGED last

SendFails(w) ==
    /\ worker[w].at = "sending" /\ faults < MaxFaults
    /\ Release(w)
    /\ worker' = [worker EXCEPT ![w] = Idle]
    /\ faults' = faults + 1
    /\ UNCHANGED <<clock, event, told, delivered>>

\* The process dies: nobody gives its window back.
Die(w) ==
    /\ worker[w].at # "idle" /\ faults < MaxFaults
    /\ excused' = IF worker[w].at \in {"claimed", "sending"} THEN excused \cup Eaten(w) ELSE excused
    /\ worker' = [worker EXCEPT ![w] = Idle]
    /\ faults' = faults + 1
    /\ UNCHANGED <<clock, last, event, told, delivered>>

Next ==
    \/ Tick
    \/ \E e \in Events : Happen(e) \/ Record(e)
    \/ \E w \in Workers :
          Begin(w) \/ Load(w) \/ Claim(w) \/ Query(w) \/ SendOk(w) \/ SendFails(w) \/ Die(w)

Spec == Init /\ [][Next]_windowVars

-----------------------------------------------------------------------------
\* A worker still has the window of the event to send.
Underway(e) ==
    \E w \in Workers : /\ worker[w].at \in {"claimed", "sending"}
                       /\ event[e].stamp > Since(w) /\ event[e].stamp <= worker[w].now

(***************************************************************************)
(* Every finding of a window that counts as sent was told: "a failed POST  *)
(* must not eat the window" (run_digests).  Excused are those whose worker *)
(* died after the claim, those of a post that failed so late that the next *)
(* window was claimed by then, those that committed after their window was *)
(* claimed, and those from before the first window.  And two deliveries    *)
(* are of windows that do not meet: "a second worker's sweep matches zero  *)
(* rows" and "a delivered window is never re-sent" (_release_claim).       *)
(***************************************************************************)
DigestsArrive ==
    /\ \A e \in Events : event[e].at = "stored" /\ event[e].stamp <= last
                             => e \in told \cup excused \/ Underway(e)
    /\ \A u, v \in delivered : u # v => u.now <= v.since \/ v.now <= u.since

=============================================================================
