---------------------------- MODULE ScanFailures ----------------------------
(***************************************************************************)
(* How a sensor's failed scans come to be counted (proxy/palivane_addon.py *)
(* and, on the server, main.py _record_heartbeat).  A scan that fails is   *)
(* allowed and counted in a file.  The next request takes the file by      *)
(* renaming it, carries its count, and deletes it once the server accepted *)
(* the request, or folds it back when the request failed.  What a killed   *)
(* process had taken is folded back by a later failure.  The server adds   *)
(* the count to the sensor's row, which it loads and writes.               *)
(*                                                                         *)
(* The flows are the threads of one process, which a lock keeps from       *)
(* counting at once, or processes of their own, which share the files and  *)
(* no lock.  Nothing excludes taking the file while another flow counts.   *)
(***************************************************************************)
EXTENDS Naturals, FiniteSets, Functions

CONSTANTS
    Flows,
    MaxClaims,     \* bound: claim files at once
    MaxFailures,   \* bound
    MaxDeaths      \* bound

FlowsAssumption == IsFiniteSet(Flows) /\ {MaxClaims, MaxFailures, MaxDeaths} \subseteq Nat

VARIABLES
    threads,    \* the flows are threads of one process
    pending,    \* the count in the file, 0 for no file
    claims,     \* claims[c]: the count in claim file c, 0 for no file
    stale,      \* the claim files older than _FAILOPEN_ORPHAN_SECS
    flow,       \* flow[f]: where it is, the claim it holds (0: none), what it
                \* has read, and the claims it folds back
    row,        \* scan_fail_count of the sensor
    failures,   \* history: the failures counted
    slipped,    \* history: something happened that loses or repeats a count
    deaths

failureVars == <<threads, pending, claims, stale, flow, row, failures, slipped, deaths>>

Claims == 1 .. MaxClaims
Resting == [at |-> "idle", claim |-> 0, read |-> 0, back |-> {}]

TypeOK ==
    /\ threads \in BOOLEAN
    /\ {pending, row, failures, deaths} \subseteq Nat
    /\ claims \in [Claims -> Nat] /\ stale \subseteq Claims
    /\ slipped \in BOOLEAN
    /\ \A f \in Flows :
          /\ flow[f].at \in {"idle", "sent", "loaded", "answered", "failed", "counted", "written"}
          /\ flow[f].claim \in 0 .. MaxClaims /\ flow[f].read \in Nat
          /\ flow[f].back \subseteq Claims

Init ==
    /\ threads \in BOOLEAN
    /\ pending = 0 /\ claims = [c \in Claims |-> 0] /\ stale = {}
    /\ flow = [f \in Flows |-> Resting]
    /\ row = 0 /\ failures = 0 /\ slipped = FALSE /\ deaths = 0

At(where) == {f \in Flows : flow[f].at = where}
Carries(f) == flow[f].claim # 0

-----------------------------------------------------------------------------
(***************************************************************************)
(* scan: the breaker is open and the scan is skipped, or the file is taken *)
(* and the request sent.                                                   *)
(***************************************************************************)
SkipScan(f) ==
    /\ flow[f].at = "idle" /\ failures < MaxFailures
    /\ flow' = [flow EXCEPT ![f].at = "failed"]
    /\ UNCHANGED <<threads, pending, claims, stale, row, failures, slipped, deaths>>

ClaimScanFailures(f) ==
    /\ flow[f].at = "idle"
    /\ IF pending = 0
       THEN /\ flow' = [flow EXCEPT ![f].at = "sent"]
            /\ UNCHANGED <<pending, claims, slipped>>
       ELSE \E c \in {c \in Claims : claims[c] = 0} :
               /\ claims' = [claims EXCEPT ![c] = pending] /\ pending' = 0
               /\ flow' = [flow EXCEPT ![f].at = "sent", ![f].claim = c]
               /\ slipped' = (slipped \/ At("counted") # {})
    /\ UNCHANGED <<threads, stale, row, failures, deaths>>

\* The server: over its ingest budget it answers before it records a heartbeat.
AnswerOverBudget(f) ==
    /\ flow[f].at = "sent"
    /\ flow' = [flow EXCEPT ![f].at = "answered"]
    /\ slipped' = (slipped \/ Carries(f))
    /\ UNCHANGED <<threads, pending, claims, stale, row, failures, deaths>>

LoadHeartbeat(f) ==
    /\ flow[f].at = "sent"
    /\ flow' = [flow EXCEPT ![f].at = "loaded", ![f].read = row]
    /\ UNCHANGED <<threads, pending, claims, stale, row, failures, slipped, deaths>>

\* A heartbeat that fails is rolled back, and the request goes on.
RecordHeartbeat(f, ok) ==
    /\ flow[f].at = "loaded"
    /\ row' = IF ok /\ Carries(f) THEN flow[f].read + claims[flow[f].claim] ELSE row
    /\ flow' = [flow EXCEPT ![f].at = "answered", ![f].read = 0]
    /\ slipped' = (slipped \/ (Carries(f) /\ (~ok \/ row # flow[f].read)))
    /\ UNCHANGED <<threads, pending, claims, stale, failures, deaths>>

\* The answer arrives; one that cannot be read is a failure of its own.
Delivered(f, readable) ==
    /\ flow[f].at = "answered"
    /\ readable \/ failures < MaxFailures
    /\ claims' = [c \in Claims |-> IF c = flow[f].claim THEN 0 ELSE claims[c]]
    /\ flow' = [flow EXCEPT ![f] = IF readable THEN Resting ELSE [Resting EXCEPT !.at = "failed"]]
    /\ stale' = stale \ {flow[f].claim}
    /\ UNCHANGED <<threads, pending, row, failures, slipped, deaths>>

\* The request does not arrive, is refused, or its answer is lost.
RequestFails(f) ==
    /\ flow[f].at \in {"sent", "answered"} /\ failures < MaxFailures
    /\ flow' = [flow EXCEPT ![f].at = "failed"]
    /\ slipped' = (slipped \/ (flow[f].at = "answered" /\ Carries(f)))
    /\ UNCHANGED <<threads, pending, claims, stale, row, failures, deaths>>

-----------------------------------------------------------------------------
\* Mutant of Orphans: every claim file of another flow is taken for an orphan.
AllClaims(f) == {c \in Claims : claims[c] > 0 /\ c # flow[f].claim}

\* The claims that their owner must have left behind.
Orphans(f) == {c \in stale : claims[c] > 0 /\ c # flow[f].claim}

Counting == At("counted") \cup At("written")

(***************************************************************************)
(* record_scan_failure: read the file and the claims to fold back, write   *)
(* their sum and the new failure over the file, delete those claims.       *)
(***************************************************************************)
ReadTally(f) ==
    LET back == Orphans(f) \cup ({flow[f].claim} \ {0})
    IN  /\ flow[f].at = "failed"
        /\ threads => Counting = {}
        /\ flow' = [flow EXCEPT ![f] =
               [at |-> "counted", claim |-> 0, back |-> back,
                read |-> pending + 1 + FoldFunctionOnSet(+, 0, claims, back)]]
        /\ slipped' = (slipped \/ \E g \in At("written") : flow[g].back \cap back # {})
        /\ UNCHANGED <<threads, pending, claims, stale, row, failures, deaths>>

WriteTally(f) ==
    /\ flow[f].at = "counted" /\ failures < MaxFailures
    /\ pending' = flow[f].read
    /\ failures' = failures + 1
    /\ flow' = [flow EXCEPT ![f].at = "written", ![f].read = 0]
    /\ slipped' = (slipped \/ (~threads /\ At("counted") # {f}))
    /\ UNCHANGED <<threads, claims, stale, row, deaths>>

UnlinkClaims(f) ==
    /\ flow[f].at = "written"
    /\ claims' = [c \in Claims |-> IF c \in flow[f].back THEN 0 ELSE claims[c]]
    /\ stale' = stale \ flow[f].back
    /\ flow' = [flow EXCEPT ![f] = Resting]
    /\ UNCHANGED <<threads, pending, row, failures, slipped, deaths>>

\* A claim that no live flow holds comes of age; a request ends long before.
GrowStale(c) ==
    /\ claims[c] > 0 /\ c \notin stale
    /\ \A f \in Flows : flow[f].claim # c /\ c \notin flow[f].back
    /\ stale' = stale \cup {c}
    /\ UNCHANGED <<threads, pending, claims, flow, row, failures, slipped, deaths>>

\* A process is killed, with all its threads.
Die(f) ==
    LET dying == IF threads THEN Flows ELSE {f}
    IN  /\ deaths < MaxDeaths /\ flow[f].at # "idle"
        /\ deaths' = deaths + 1
        /\ flow' = [g \in Flows |-> IF g \in dying THEN Resting ELSE flow[g]]
        /\ slipped' = (slipped \/ (\E g \in dying \cap At("answered") : Carries(g))
                               \/ (\E g \in dying \cap At("written") : flow[g].back # {}))
        /\ UNCHANGED <<threads, pending, claims, stale, row, failures>>

Next ==
    \/ \E f \in Flows :
          \/ SkipScan(f) \/ ClaimScanFailures(f)
          \/ AnswerOverBudget(f) \/ LoadHeartbeat(f) \/ \E ok \in BOOLEAN : RecordHeartbeat(f, ok)
          \/ (\E readable \in BOOLEAN : Delivered(f, readable)) \/ RequestFails(f)
          \/ ReadTally(f) \/ WriteTally(f) \/ UnlinkClaims(f) \/ Die(f)
    \/ \E c \in Claims : GrowStale(c)

Spec == Init /\ [][Next]_failureVars

-----------------------------------------------------------------------------
\* The claims whose count is in the row, or in the file, already.
Settled ==
    {flow[f].claim : f \in At("answered")} \cup UNION {flow[f].back : f \in At("written")}

(***************************************************************************)
(* Every failure that was counted is in the sensor's row, in the file or   *)
(* in a claim, once, through failed requests, kills and orphans, unless    *)
(* one of these has happened: the file was taken, or written by another    *)
(* process, while a flow counts; claims were read that were being deleted; *)
(* an answer did not arrive; a request was over the budget; a heartbeat    *)
(* failed or met another (palivane_addon.py record_scan_failure,           *)
(* claim_scan_failures; main.py _record_heartbeat).                        *)
(***************************************************************************)
FailuresTallied ==
    slipped \/
        row + pending + FoldFunctionOnSet(+, 0, claims, Claims \ Settled) = failures

=============================================================================
