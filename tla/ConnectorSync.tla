--------------------------- MODULE ConnectorSync ---------------------------
(***************************************************************************)
(* The claim protocol of the SaaS connector scans.                         *)
(*                                                                         *)
(* A connector is one row of saas_connectors.  Every server process runs   *)
(* the scheduler loop (main._connector_loop, connector_schedule            *)
(* .run_scheduled_scans), and admins ("Scan now") and Drive notifications  *)
(* start scans as well.  A scan holds a claim on its row (sync_claimed_at),*)
(* taken and given back by conditional UPDATEs, and writes its outcome     *)
(* (last_sync_at, the cursor in sync_state) only while the claim is still  *)
(* its own.                                                                *)
(*                                                                         *)
(* Time is counted in units of a few minutes: a database round trip takes  *)
(* none of it, a scan takes some.  A cursor is a position in the           *)
(* platform's stream of items: everything up to it has been read.  Two     *)
(* actors never read the same microsecond, so a claim's timestamp          *)
(* identifies its holder; the model's clock is coarse and carries the      *)
(* holder beside the time.                                                 *)
(***************************************************************************)
EXTENDS Integers, Sequences, FiniteSets

CONSTANTS
    Connectors,    \* the rows of saas_connectors
    Scheduled,     \* those whose platform sets schedule_secs (GitHub)
    Schedulers,    \* one scheduler loop per server process
    Requesters,    \* admin requests and Drive notifications
    Never,         \* last_sync_at is NULL
    NoClaim,       \* sync_claimed_at is NULL
    NoConnector,   \* an actor that holds no job
    ClaimSecs,     \* SYNC_CLAIM_SECS: a claim this old is stale
    ScanMax,       \* SCAN_MAX_SECS and the batch that was in flight then
    CatchUp,       \* CATCH_UP_SECS: a truncated scan resumes this soon
    Interval,      \* _interval: how often a scheduled connector scans
    LoopSleep,     \* the pause between two ticks of one scheduler loop
    MaxPerTick,    \* MAX_PER_TICK: connectors scanned per tick
    LastItem,      \* bound: the items the platform holds
    MaxTime,       \* bound: the clock stops here
    MaxDeaths      \* bound: scans lost to a process that died

Actors == Schedulers \cup Requesters

ASSUME ConnectorsAssumption ==
    /\ IsFiniteSet(Connectors)
    /\ Scheduled \subseteq Connectors

ASSUME ActorsAssumption == Schedulers \cap Requesters = {}

\* connector_schedule.py:26-33 and saas_connectors.py:2453-2456: the claim is
\* longer than the longest scan, and an interval is at least CATCH_UP_SECS
\* (scan_every_minutes is 5 or more).
ASSUME TimesAssumption ==
    /\ ClaimSecs \in Nat /\ ScanMax \in Nat /\ ScanMax < ClaimSecs
    /\ CatchUp \in Nat /\ Interval \in Nat /\ CatchUp <= Interval
    /\ LoopSleep \in Nat /\ MaxPerTick \in Nat
    /\ LastItem \in Nat /\ MaxTime \in Nat /\ MaxDeaths \in Nat

ASSUME NullsAssumption ==
    /\ Never \notin Int
    /\ NoClaim \notin [by : Actors, at : Nat]
    /\ NoConnector \notin Connectors

VARIABLES
    clock,         \* the wall clock
    exists,        \* exists[c]: the row has not been deleted
    last,          \* last[c]: last_sync_at
    claim,         \* claim[c]: sync_claimed_at
    cursor,        \* cursor[c]: sync_state
    pc,            \* pc[a]: idle, tick (between two rows), claimed, scan
    now,           \* now[a]: the time a put on its claim (a tick reads it once)
    queue,         \* queue[i]: the rows the tick has not looked at yet
    ran,           \* ran[i]: scans this tick has started
    wake,          \* wake[i]: when loop i ticks next
    job,           \* job[a]: the connector a has claimed
    base,          \* base[a]: the cursor a's scan started from
    started,       \* started[a]: when a's scan began to read
    finished,      \* history: when the last recorded scan of c finished
    deaths         \* history: scans lost so far

rowVars  == <<exists, last, claim, cursor, finished>>
tickVars == <<queue, ran, wake>>
scanVars == <<job, base, started>>
vars     == <<clock, rowVars, pc, now, tickVars, scanVars, deaths>>

Claims == [by : Actors, at : Nat]
Items  == 0 .. LastItem

Token(a) == [by |-> a, at |-> now[a]]

\* _finish_sync's filter, and what every property below means by "holding".
Holds(a, c) == exists[c] /\ claim[c] = Token(a)

Scanning(a, c) == pc[a] = "scan" /\ job[a] = c

----------------------------------------------------------------------------

TypeOK ==
    /\ clock    \in Nat
    /\ exists   \in [Connectors -> BOOLEAN]
    /\ last     \in [Connectors -> Int \cup {Never}]
    /\ claim    \in [Connectors -> Claims \cup {NoClaim}]
    /\ cursor   \in [Connectors -> Items]
    /\ pc       \in [Actors -> {"idle", "tick", "claimed", "scan"}]
    /\ now      \in [Actors -> Nat]
    /\ queue    \in [Schedulers -> Seq(Connectors)]
    /\ ran      \in [Schedulers -> Nat]
    /\ wake     \in [Schedulers -> Nat]
    /\ job      \in [Actors -> Connectors \cup {NoConnector}]
    /\ base     \in [Actors -> Items]
    /\ started  \in [Actors -> Nat]
    /\ finished \in [Connectors -> Nat \cup {Never}]
    /\ deaths   \in Nat

Init ==
    /\ clock    = 0
    /\ exists   = [c \in Connectors |-> TRUE]
    /\ last     = [c \in Connectors |-> Never]
    /\ claim    = [c \in Connectors |-> NoClaim]
    /\ cursor   = [c \in Connectors |-> 0]
    /\ pc       = [a \in Actors |-> "idle"]
    /\ now      = [a \in Actors |-> 0]
    /\ queue    = [i \in Schedulers |-> <<>>]
    /\ ran      = [i \in Schedulers |-> 0]
    /\ wake     = [i \in Schedulers |-> 0]
    /\ job      = [a \in Actors |-> NoConnector]
    /\ base     = [a \in Actors |-> 0]
    /\ started  = [a \in Actors |-> 0]
    /\ finished = [c \in Connectors |-> Never]
    /\ deaths   = 0

----------------------------------------------------------------------------
(* The claim                                                               *)

\* Mutant of Claimable: a claim kept for less time than a scan takes.
ClaimableTooSoon(c, t) ==
    /\ exists[c]
    /\ \/ claim[c] = NoClaim
       \/ claim[c] # NoClaim /\ claim[c].at <= t - CatchUp

\* Mutant of Claimable: a dead process's claim is never taken over.
ClaimableNeverStale(c, t) == exists[c] /\ claim[c] = NoClaim /\ t \in Nat

\* claim_sync's filter for a claim stamped t: none held, or the holder's is
\* stale by the claimant's own clock reading.
Claimable(c, t) ==
    /\ exists[c]
    /\ \/ claim[c] = NoClaim
       \/ claim[c] # NoClaim /\ claim[c].at <= t - ClaimSecs

\* claim_sync's due_before, as run_scheduled_scans calls it.
Due(c, t) ==
    \/ last[c] = Never
    \/ last[c] # Never /\ last[c] <= t - Interval

\* claim_sync: one conditional UPDATE of sync_claimed_at, committed.
ClaimSync(a, c, t) ==
    /\ Claimable(c, t)
    /\ claim' = [claim EXCEPT ![c] = [by |-> a, at |-> t]]
    /\ job' = [job EXCEPT ![a] = c]
    /\ pc' = [pc EXCEPT ![a] = "claimed"]
    /\ UNCHANGED <<clock, exists, last, cursor, finished, wake, base, started,
                   deaths>>

----------------------------------------------------------------------------
(* The scheduler loop                                                      *)

\* ORDER BY last_sync_at IS NULL DESC, last_sync_at.
Before(c, d) ==
    \/ last[c] = Never
    \/ last[c] # Never /\ last[d] # Never /\ last[c] <= last[d]

Listings(S) ==
    {q \in [1 .. Cardinality(S) -> S] :
        \A m, n \in 1 .. Cardinality(S) :
            m < n => q[m] # q[n] /\ Before(q[m], q[n])}

\* The loop wakes, reads the clock once for the whole tick and lists the
\* scheduled connectors.
TickStart(i) ==
    /\ pc[i] = "idle"
    /\ wake[i] <= clock
    /\ now' = [now EXCEPT ![i] = clock]
    /\ \E q \in Listings({c \in Scheduled : exists[c]}) :
           queue' = [queue EXCEPT ![i] = q]
    /\ pc' = [pc EXCEPT ![i] = "tick"]
    /\ wake' = [wake EXCEPT ![i] = 0]
    /\ UNCHANGED <<clock, rowVars, ran, scanVars, deaths>>

\* The tick has a row to look at and has not used up its scans.
AtRow(i) == pc[i] = "tick" /\ queue[i] # <<>> /\ ran[i] < MaxPerTick

\* The row is not due, another scan holds it, or it was deleted since.
SkipRow(i) ==
    /\ AtRow(i)
    /\ LET c == Head(queue[i])
       IN  ~(Claimable(c, now[i]) /\ Due(c, now[i]))
    /\ queue' = [queue EXCEPT ![i] = Tail(@)]
    /\ UNCHANGED <<clock, rowVars, pc, now, ran, wake, scanVars, deaths>>

\* The row is due and this loop's claim is the one that matches.
ClaimRow(i) ==
    /\ AtRow(i)
    /\ Due(Head(queue[i]), now[i])
    /\ ClaimSync(i, Head(queue[i]), now[i])
    /\ queue' = [queue EXCEPT ![i] = Tail(@)]
    /\ ran' = [ran EXCEPT ![i] = @ + 1]
    /\ UNCHANGED now

\* The tick is over: no row left, MAX_PER_TICK reached, or reading a row that
\* was deleted after it was listed raised out of the loop.
TickEnd(i) ==
    /\ pc[i] = "tick"
    /\ \/ queue[i] = <<>>
       \/ ran[i] >= MaxPerTick
       \/ queue[i] # <<>> /\ ~exists[Head(queue[i])]
    /\ pc' = [pc EXCEPT ![i] = "idle"]
    /\ now' = [now EXCEPT ![i] = 0]
    /\ queue' = [queue EXCEPT ![i] = <<>>]
    /\ ran' = [ran EXCEPT ![i] = 0]
    /\ wake' = [wake EXCEPT ![i] = clock + LoopSleep]
    /\ UNCHANGED <<clock, rowVars, scanVars, deaths>>

----------------------------------------------------------------------------
(* Scan now, and a Drive notification                                      *)

\* sync_connector without a claim: it takes one stamped with the present, or
\* raises ScanInProgress and touches nothing.
RequestScan(r, c) ==
    /\ pc[r] = "idle"
    /\ now' = [now EXCEPT ![r] = clock]
    /\ ClaimSync(r, c, clock)
    /\ UNCHANGED <<queue, ran>>

----------------------------------------------------------------------------
(* A scan                                                                  *)

\* The row is read again once it is claimed: expire_all and get in the
\* scheduler, refresh in sync_connector.
ReadRow(a) ==
    /\ pc[a] = "claimed"
    /\ exists[job[a]]
    /\ base' = [base EXCEPT ![a] = cursor[job[a]]]
    /\ started' = [started EXCEPT ![a] = clock]
    /\ pc' = [pc EXCEPT ![a] = "scan"]
    /\ UNCHANGED <<clock, rowVars, now, tickVars, job, deaths>>

\* The actor's job is over and its locals go with it: a scheduler looks at the
\* next row of its tick, a request is answered.
JobOver(a) ==
    /\ pc' = [pc EXCEPT ![a] = IF a \in Schedulers THEN "tick" ELSE "idle"]
    /\ now' = [now EXCEPT ![a] = IF a \in Schedulers THEN @ ELSE 0]
    /\ job' = [job EXCEPT ![a] = NoConnector]
    /\ base' = [base EXCEPT ![a] = 0]
    /\ started' = [started EXCEPT ![a] = 0]

\* The row was deleted between the claim and the read.
ReadGone(a) ==
    /\ pc[a] = "claimed"
    /\ ~exists[job[a]]
    /\ JobOver(a)
    /\ UNCHANGED <<clock, rowVars, tickVars, deaths>>

\* Mutant of FinishSync: the outcome is committed with the row, whoever holds
\* the claim by now (the code before #298).
FinishUnclaimed(a, stamp, position) ==
    LET c == job[a]
    IN  /\ last' = [last EXCEPT ![c] = stamp]
        /\ claim' = [claim EXCEPT ![c] = IF Holds(a, c) THEN NoClaim ELSE @]
        /\ cursor' = [cursor EXCEPT ![c] = position]
        /\ finished' = [finished EXCEPT ![c] = clock]
        /\ JobOver(a)
        /\ UNCHANGED <<clock, exists, tickVars, deaths>>

\* Mutant of FinishSync: the cursor is written one item too far.
FinishOneTooFar(a, stamp, position) ==
    LET c == job[a]
    IN  /\ Holds(a, c)
        /\ last' = [last EXCEPT ![c] = stamp]
        /\ claim' = [claim EXCEPT ![c] = NoClaim]
        /\ cursor' = [cursor EXCEPT ![c] = position + 1]
        /\ finished' = [finished EXCEPT ![c] = clock]
        /\ JobOver(a)
        /\ UNCHANGED <<clock, exists, tickVars, deaths>>

\* _finish_sync: the scan's time and cursor, and the claim let go, in one
\* conditional UPDATE; when the claim is no longer this scan's, nothing.
FinishSync(a, stamp, position) ==
    LET c == job[a]
    IN  /\ IF Holds(a, c)
           THEN /\ last' = [last EXCEPT ![c] = stamp]
                /\ claim' = [claim EXCEPT ![c] = NoClaim]
                /\ cursor' = [cursor EXCEPT ![c] = position]
                /\ finished' = [finished EXCEPT ![c] = clock]
           ELSE UNCHANGED <<last, claim, cursor, finished>>
        /\ JobOver(a)
        /\ UNCHANGED <<clock, exists, tickVars, deaths>>

\* Mutant of Stamp: a truncated scan is due again at once.
StampDueNow(resume) ==
    (IF resume < clock + Interval THEN resume ELSE clock + Interval) - Interval

\* _stamp_for: a scan that stopped at its budget is recorded as if it had
\* finished earlier, so that it is due CatchUp from now, or at the rate
\* limit's reset (resume), never later than an ordinary interval.
Stamp(resume) ==
    LET due == IF resume > clock + CatchUp THEN resume ELSE clock + CatchUp
    IN  (IF due < clock + Interval THEN due ELSE clock + Interval) - Interval

\* The scan read on from base, all of it or until its budget was spent.  Only
\* the scheduler passes a stamp; a request records the plain finish.
ScanDone(a) ==
    /\ pc[a] = "scan"
    /\ \E position \in base[a] .. LastItem :
           \/ FinishSync(a, clock, position)
           \/ /\ a \in Schedulers
              /\ \E resume \in clock .. clock + Interval + 1 :
                     FinishSync(a, Stamp(resume), position)

\* A ConnectorError: the time is recorded, and the position the scan keeps in
\* its finally block (GitHub) or the one it started from (the others).
ScanError(a) ==
    /\ pc[a] = "scan"
    /\ \E position \in base[a] .. LastItem : FinishSync(a, clock, position)

\* Any other exception: the session is rolled back, so the cursor written is
\* the one the row has now.
ScanCrash(a) ==
    /\ pc[a] = "scan"
    /\ FinishSync(a, clock, cursor[job[a]])

\* The process dies, or the write of the outcome fails: the claim stays.
Die(a) ==
    /\ pc[a] # "idle"
    /\ deaths < MaxDeaths
    /\ deaths' = deaths + 1
    /\ pc' = [pc EXCEPT ![a] = "idle"]
    /\ now' = [now EXCEPT ![a] = 0]
    /\ queue' = [i \in Schedulers |-> IF i = a THEN <<>> ELSE queue[i]]
    /\ ran' = [i \in Schedulers |-> IF i = a THEN 0 ELSE ran[i]]
    /\ wake' = [i \in Schedulers |->
                   IF i = a THEN clock + LoopSleep ELSE wake[i]]
    /\ job' = [job EXCEPT ![a] = NoConnector]
    /\ base' = [base EXCEPT ![a] = 0]
    /\ started' = [started EXCEPT ![a] = 0]
    /\ UNCHANGED <<clock, rowVars>>

\* connectors_delete removes the row, whoever is scanning it.
DeleteConnector(c) ==
    /\ exists[c]
    /\ exists' = [exists EXCEPT ![c] = FALSE]
    /\ UNCHANGED <<clock, last, claim, cursor, finished, pc, now, tickVars,
                   scanVars, deaths>>

\* A scan of a scheduled platform stops at its own clock (out_of_time).
OutOfTime(a) ==
    pc[a] = "scan" /\ job[a] \in Scheduled /\ clock >= started[a] + ScanMax

\* Time passes while scans run: not across a scheduler's database work, and
\* not past the wall-clock budget of a scheduled platform's scan.
Tick ==
    /\ clock < MaxTime
    /\ \A i \in Schedulers : pc[i] \notin {"tick", "claimed"}
    /\ \A a \in Actors : ~OutOfTime(a)
    /\ clock' = clock + 1
    /\ UNCHANGED <<rowVars, pc, now, tickVars, scanVars, deaths>>

----------------------------------------------------------------------------

Finish(a) == ScanDone(a) \/ ScanError(a) \/ ScanCrash(a)

Loop(i) == TickStart(i) \/ SkipRow(i) \/ ClaimRow(i) \/ TickEnd(i)

Scan(a) == ReadRow(a) \/ ReadGone(a) \/ Finish(a)

Next ==
    \/ Tick
    \/ \E i \in Schedulers : Loop(i)
    \/ \E r \in Requesters, c \in Connectors : RequestScan(r, c)
    \/ \E a \in Actors : Scan(a) \/ Die(a)
    \/ \E c \in Connectors : DeleteConnector(c)

\* The loop and the scan of a live process go on (nothing in them waits for
\* another process), and the clock does not stop before MaxTime.
Fairness ==
    /\ WF_vars(Tick)
    /\ \A i \in Schedulers : WF_vars(Loop(i))
    /\ \A a \in Actors : WF_vars(Scan(a))

Spec == Init /\ [][Next]_vars /\ Fairness

----------------------------------------------------------------------------
(* Properties                                                              *)

\* A scan that still holds its claim started from the cursor the row has now:
\* no other scan wrote in between, so what it writes builds on everything
\* recorded before it (claim_sync, ReadRow and _finish_sync together).
HolderIsCurrent ==
    \A a \in Actors : \A c \in Connectors :
        Scanning(a, c) /\ Holds(a, c) => base[a] = cursor[c]

\* The cursor of a connector never moves back, whatever order slow scans,
\* takeovers and crashes finish in: an overlapping scan cannot put an older
\* cursor over a newer one (_finish_sync's promise).
CursorNeverRegresses ==
    [][\A c \in Connectors : cursor'[c] >= cursor[c]]_cursor

\* No scheduler, in any process, claims a connector sooner than CATCH_UP_SECS
\* after the last recorded scan of it finished, however that scan was stamped
\* and however old the tick's own clock reading is.
NoHammering ==
    [][\A c \in Connectors :
          claim'[c] # claim[c] /\ claim'[c] # NoClaim
              /\ claim'[c].by \in Schedulers /\ finished[c] # Never
          => clock >= finished[c] + CatchUp]_claim

\* Two scans of a scheduled connector overlap only when one of them began long
\* after the time its claim is stamped with (the tick's single clock reading):
\* a scan that starts as it claims is never overtaken, because it ends within
\* ScanMax and its claim lasts longer.
OverlapNeedsAnOldStamp ==
    \A a, b \in Actors : \A c \in Scheduled :
        a # b /\ Scanning(a, c) /\ Scanning(b, c) =>
            \E x \in {a, b} : started[x] - now[x] >= ClaimSecs - ScanMax

\* What connector_schedule.py:27-31 says: a scan holds a claim that no other
\* instance can take while it runs.
ExclusiveScan ==
    \A a, b \in Actors : \A c \in Scheduled :
        Scanning(a, c) /\ Scanning(b, c) => a = b

\* The inductive invariant behind the four safety properties above.

Working(a, c) == pc[a] \in {"claimed", "scan"} /\ job[a] = c

WorkersHaveJobs ==
    \A a \in Actors : pc[a] \in {"claimed", "scan"} => job[a] \in Connectors

StampsArePast == \A a \in Actors : now[a] <= clock

\* A claim passes to another scan only by going stale.
LostClaimsAreStale ==
    \A a \in Actors : \A c \in Connectors :
        Working(a, c) /\ claim[c] # Token(a) => clock >= now[a] + ClaimSecs

ScansEndInTime ==
    \A a \in Actors :
        pc[a] = "scan" /\ job[a] \in Scheduled => clock <= started[a] + ScanMax

FinishesAreStamped ==
    \A c \in Connectors :
        finished[c] # Never =>
            last[c] # Never /\ last[c] >= finished[c] + CatchUp - Interval

IInv ==
    /\ TypeOK
    /\ WorkersHaveJobs
    /\ StampsArePast
    /\ LostClaimsAreStale
    /\ ScansEndInTime
    /\ FinishesAreStamped
    /\ HolderIsCurrent

\* A claim no live actor answers for.
Orphaned(c) ==
    /\ exists[c] /\ claim[c] # NoClaim
    /\ LET a == claim[c].by
       IN  ~(pc[a] \in {"claimed", "scan"} /\ job[a] = c /\ Holds(a, c))

\* A connector whose scan died with its process is claimed or deleted again:
\* a dead claim never wedges it.  The clock stops at MaxTime, so only a claim
\* orphaned while enough time is left is owed that.
OrphanRecovers ==
    \A c \in Scheduled :
        (Orphaned(c) /\ clock <= MaxTime - ClaimSecs - Interval - ScanMax)
            ~> ~Orphaned(c)
============================================================================
