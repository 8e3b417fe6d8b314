----------------------------- MODULE FleetAlerts -----------------------------
(***************************************************************************)
(* The page about a sensor that has gone dark (alerts.py run_fleet_alerts) *)
(* and the heartbeats that arm it again (main.py _record_heartbeat).  A    *)
(* sweep finds the sensor silent and unmarked, marks it by a conditional   *)
(* update that does not look at the silence again, commits, and posts; a   *)
(* failed post leaves the mark.  A heartbeat loads the row and clears the  *)
(* mark it saw: when it saw none, its update does not name the column.     *)
(* Revoked keys in use are paged by the same sweep, and are not in here.   *)
(***************************************************************************)
EXTENDS Naturals

CONSTANTS
    Sweeps,         \* sweeps that may run at once
    Beats,          \* heartbeats that may be recorded at once
    MaxSilences     \* bound

SilencesAssumption == MaxSilences \in Nat

VARIABLES
    silent,     \* last_seen is more than 72 hours ago
    marked,     \* dark_alerted_at is set
    silence,    \* history: how often the sensor went dark
    pages,      \* history: pages[k] about the k-th silence
    failed,     \* history: silences whose page failed
    raced,      \* history: a sweep and a heartbeat met, and the mark outlived the beat
    sweep,      \* where each sweep is, and the silence it claimed (0: the sensor was back)
    beat        \* where each heartbeat is

fleetVars == <<silent, marked, silence, pages, failed, raced, sweep, beat>>

Silences == 1 .. MaxSilences

TypeOK ==
    /\ {silent, marked, raced} \subseteq BOOLEAN
    /\ silence \in 0 .. MaxSilences
    /\ pages \in [0 .. MaxSilences -> Nat] /\ failed \subseteq 0 .. MaxSilences
    /\ sweep \in [Sweeps -> [at : {"idle", "loaded", "sending"}, claimed : 0 .. MaxSilences]]
    /\ beat \in [Beats -> {"idle", "saw mark", "saw none"}]

NotSweeping == [at |-> "idle", claimed |-> 0]

Init ==
    /\ silent = FALSE /\ marked = FALSE /\ silence = 0
    /\ pages = [k \in 0 .. MaxSilences |-> 0] /\ failed = {} /\ raced = FALSE
    /\ sweep = [w \in Sweeps |-> NotSweeping]
    /\ beat = [b \in Beats |-> "idle"]

GoDark ==
    /\ ~silent /\ silence < MaxSilences
    /\ silent' = TRUE /\ silence' = silence + 1
    /\ UNCHANGED <<marked, pages, failed, raced, sweep, beat>>

LoadBeat(b) ==
    /\ beat[b] = "idle"
    /\ beat' = [beat EXCEPT ![b] = IF marked THEN "saw mark" ELSE "saw none"]
    /\ UNCHANGED <<silent, marked, silence, pages, failed, raced, sweep>>

CommitBeat(b) ==
    /\ beat[b] # "idle"
    /\ beat' = [beat EXCEPT ![b] = "idle"]
    /\ silent' = FALSE
    /\ marked' = (marked /\ beat[b] = "saw none")
    /\ raced' = marked'
    /\ UNCHANGED <<silence, pages, failed, sweep>>

LoadSweep(w) ==
    /\ sweep[w].at = "idle" /\ silent /\ ~marked
    /\ sweep' = [sweep EXCEPT ![w].at = "loaded"]
    /\ UNCHANGED <<silent, marked, silence, pages, failed, raced, beat>>

\* Mutant of Mark: every sweep that loaded the row claims it.
MarkAnyway(w) ==
    /\ marked' = TRUE
    /\ raced' = (raced \/ ~silent)
    /\ sweep' = [sweep EXCEPT ![w] =
                     [at |-> "sending", claimed |-> IF silent THEN silence ELSE 0]]

\* The conditional update.  A heartbeat may have come since the row was loaded.
Mark(w) ==
    IF marked
    THEN /\ sweep' = [sweep EXCEPT ![w] = NotSweeping]
         /\ UNCHANGED <<marked, raced>>
    ELSE /\ marked' = TRUE
         /\ raced' = ~silent
         /\ sweep' = [sweep EXCEPT ![w] =
                          [at |-> "sending", claimed |-> IF silent THEN silence ELSE 0]]

Claim(w) ==
    /\ sweep[w].at = "loaded"
    /\ Mark(w)
    /\ UNCHANGED <<silent, silence, pages, failed, beat>>

\* The post succeeds or fails; the mark stays in both cases.
Send(w, ok) ==
    /\ sweep[w].at = "sending"
    /\ pages'  = IF ok THEN [pages EXCEPT ![sweep[w].claimed] = @ + 1] ELSE pages
    /\ failed' = IF ok THEN failed ELSE failed \cup {sweep[w].claimed}
    /\ sweep'  = [sweep EXCEPT ![w] = NotSweeping]
    /\ UNCHANGED <<silent, marked, silence, raced, beat>>

Next ==
    \/ GoDark
    \/ \E b \in Beats : LoadBeat(b) \/ CommitBeat(b)
    \/ \E w \in Sweeps : LoadSweep(w) \/ Claim(w) \/ \E ok \in BOOLEAN : Send(w, ok)

Spec == Init /\ [][Next]_fleetVars

-----------------------------------------------------------------------------
(***************************************************************************)
(* A silence is paged at most once, however many workers sweep (the claims *)
(* of run_fleet_alerts), and a sensor that is dark and marked was paged    *)
(* for this silence: the heartbeat before it cleared the mark ("arm the    *)
(* gone-dark alert again", _record_heartbeat).  Two things break the       *)
(* second: a post that failed, because nothing releases the mark, and a    *)
(* sweep that marked the row while a heartbeat had it loaded, or after one *)
(* had committed.                                                          *)
(***************************************************************************)
PagedOnce ==
    /\ \A k \in Silences : pages[k] <= 1
    /\ silent /\ marked /\ ~raced =>
          \/ pages[silence] = 1
          \/ silence \in failed
          \/ \E w \in Sweeps : sweep[w].at = "sending" /\ sweep[w].claimed = silence

=============================================================================
