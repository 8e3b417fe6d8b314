---------------------------- MODULE HookVerdicts ----------------------------
(***************************************************************************)
(* The verdicts on the prompts of one session that Anthropic's inference   *)
(* hook asks for (main.py _inference_hook_verdict, inference_hooks.py).    *)
(* Every request carries the whole transcript, of which only the latest    *)
(* turn is scanned.  The blocks of a turn that is denied are remembered in *)
(* the database, since they stay in the transcript; the verdict on a       *)
(* request is remembered in the process, since requests are sent again.    *)
(*                                                                         *)
(* A request is a transcript with an id: the blocks people wrote in its    *)
(* latest turn, the tool results of that, and of the blocks people wrote   *)
(* in its earlier turns the last 1000, which are all that is looked up.    *)
(***************************************************************************)
EXTENDS Integers

CONSTANTS
    Handlers,               \* the threads of one process
    Transcripts,            \* request ids, as a function to [prior, latest, results]
    Verdict,                \* of a block: "clean", "high" or "secret"
    RecallTTL, DenialTTL,
    MaxClock, MaxRequests, MaxFaults, MaxChanges

TTLAssumption ==
    /\ \A i \in DOMAIN Transcripts :
          Transcripts[i] \in [prior   : SUBSET DOMAIN Verdict, latest : SUBSET DOMAIN Verdict,
                              results : SUBSET DOMAIN Verdict]
    /\ RecallTTL \in Nat \ {0} /\ DenialTTL \in Nat
    /\ {MaxClock, MaxRequests, MaxFaults, MaxChanges} \subseteq Nat

VARIABLES
    clock, enforce,
    recalled,   \* in the process: id -> [verdict, until]
    denial,     \* in the database: block -> when its row was made, or Never
    handler,
    denied,     \* history: block -> when the stance last refused it in a turn, which was denied
    slipped,    \* history: blocks whose last denial made no row
    given,      \* history: id -> [verdict, at] of the first answer since the process started
    doubled,    \* history: ids that two handlers worked on at once, or at one time
    requests, faults, changes

hookVars == <<clock, enforce, recalled, denial, handler, denied, slipped, given, doubled,
              requests, faults, changes>>

Ids == DOMAIN Transcripts
Blocks == DOMAIN Verdict
Never == -1
Nothing == [verdict |-> "none", at |-> 0]

\* Times, ids and copies of the histories that a handler does not use are as in Idle.
Idle == [at |-> "idle", id |-> CHOOSE i \in Ids : TRUE, cutoff |-> 0, stance |-> FALSE,
         verdict |-> "none", fresh |-> FALSE, since |-> 0, had |-> {}]

TypeOK ==
    /\ clock \in 0 .. MaxClock /\ enforce \in BOOLEAN
    /\ \A i \in Ids : recalled[i].verdict \in {"none", "allow", "deny"}
    /\ denial \in [Blocks -> -1 .. MaxClock] /\ denied \in [Blocks -> -1 .. MaxClock]
    /\ \A h \in Handlers :
          /\ handler[h].at \in {"idle", "new", "score", "remember", "answer"}
          /\ handler[h].id \in Ids /\ handler[h].had \subseteq Blocks
          /\ handler[h].at = "answer" => handler[h].verdict \in {"allow", "deny"}
    /\ slipped \subseteq Blocks /\ doubled \subseteq Ids
    /\ requests \in 0 .. MaxRequests /\ faults \in 0 .. MaxFaults /\ changes \in 0 .. MaxChanges

Init ==
    /\ clock = 0 /\ enforce \in BOOLEAN
    /\ recalled = [i \in Ids |-> Nothing]
    /\ denial = [b \in Blocks |-> Never] /\ denied = [b \in Blocks |-> Never]
    /\ handler = [h \in Handlers |-> Idle]
    /\ slipped = {} /\ doubled = {}
    /\ given = [i \in Ids |-> Nothing]
    /\ requests = 0 /\ faults = 0 /\ changes = 0

Refuses(stance, b) == Verdict[b] = "secret" \/ (stance /\ Verdict[b] = "high")
Moves(h, to) == handler' = [handler EXCEPT ![h] = to]

-----------------------------------------------------------------------------
\* Mutant of Recall: a verdict is not looked up.
RecallNothing(i) == FALSE

\* The verdict of this id, if it is still remembered.
Recall(i) == recalled[i].verdict # "none" /\ recalled[i].at > clock

Receive(h, i) ==
    /\ handler[h].at = "idle" /\ requests < MaxRequests
    /\ requests' = requests + 1
    /\ IF Recall(i)
       THEN Moves(h, [Idle EXCEPT !.at = "answer", !.id = i, !.verdict = recalled[i].verdict,
                                  !.since = clock])
       ELSE Moves(h, [Idle EXCEPT !.at = "new", !.id = i, !.fresh = TRUE, !.since = clock])
    /\ doubled' = IF \E g \in Handlers : handler[g].at # "idle" /\ handler[g].id = i
                  THEN doubled \cup {i} ELSE doubled
    /\ UNCHANGED <<clock, enforce, recalled, denial, denied, slipped, given, faults, changes>>

\* Whether the organisation enforces; then whether a denied block is in the earlier turns.
LookBack(h) ==
    LET r      == handler[h]
        prior  == Transcripts[r.id].prior
        cutoff == clock - DenialTTL
        hit    == \E b \in prior : denial[b] # Never /\ denial[b] >= cutoff
    IN  /\ r.at = "new"
        /\ Moves(h, [r EXCEPT !.at = IF hit THEN "answer" ELSE "score",
                              !.verdict = IF hit THEN "deny" ELSE "none",
                              !.stance = enforce, !.cutoff = cutoff,
                              !.had = {b \in prior \ slipped :
                                          denied[b] # Never /\ denied[b] >= cutoff}])
        /\ UNCHANGED <<clock, enforce, recalled, denial, denied, slipped, given, doubled,
                       requests, faults, changes>>

\* A secret in the tool results denies, and only then is the turn itself scored.
Score(h) ==
    LET r == handler[h]
        t == Transcripts[r.id]
        leaks   == \E b \in t.results : Verdict[b] = "secret"
        refused == \E b \in t.latest : Refuses(r.stance, b)
    IN  /\ r.at = "score"
        /\ Moves(h, [r EXCEPT !.at = IF ~leaks /\ refused THEN "remember" ELSE "answer",
                              !.verdict = IF leaks \/ refused THEN "deny" ELSE "allow"])
        /\ UNCHANGED <<clock, enforce, recalled, denial, denied, slipped, given, doubled,
                       requests, faults, changes>>

\* Mutant of Kept: what is still remembered goes, and what has expired stays.
KeptExpired(h) == {b \in Blocks : denial[b] # Never /\ denial[b] < handler[h].cutoff}

\* The rows that the sweep after a denial leaves.
Kept(h) == {b \in Blocks : denial[b] # Never /\ denial[b] >= handler[h].cutoff}

(***************************************************************************)
(* _remember_denial: the blocks of the turn are inserted, but for those    *)
(* that have a row, and the rows that have expired are deleted.  When that *)
(* fails the verdict stands.                                               *)
(***************************************************************************)
RememberDenial(h, ok) ==
    LET new == {b \in Transcripts[handler[h].id].latest : denial[b] = Never}
    IN  /\ handler[h].at = "remember"
        /\ faults' = faults + (IF ok THEN 0 ELSE 1) /\ faults' <= MaxFaults
        /\ denial' = IF ok
                     THEN [b \in Blocks |-> IF b \in new THEN clock
                                            ELSE IF b \in Kept(h) THEN denial[b] ELSE Never]
                     ELSE denial
        /\ slipped' = IF ok THEN slipped \ new ELSE slipped
        /\ Moves(h, [handler[h] EXCEPT !.at = "answer"])
        /\ UNCHANGED <<clock, enforce, recalled, denied, given, doubled, requests, changes>>

(***************************************************************************)
(* remember_verdict, and the answer.                                       *)
(***************************************************************************)
Answer(h) ==
    LET r == handler[h]
        t == Transcripts[r.id]
        refused == IF r.fresh /\ r.verdict = "deny"
                   THEN {b \in t.latest : Refuses(r.stance, b)} ELSE {}
    IN  /\ r.at = "answer"
        /\ recalled' = IF r.fresh
                       THEN [recalled EXCEPT ![r.id] = [verdict |-> r.verdict,
                                                        at |-> clock + RecallTTL]]
                       ELSE recalled
        /\ given' = IF given[r.id].verdict = "none" \/ given[r.id].at + RecallTTL <= r.since
                    THEN [given EXCEPT ![r.id] = [verdict |-> r.verdict, at |-> clock]]
                    ELSE given
        /\ denied' = [b \in Blocks |-> IF b \in refused THEN clock ELSE denied[b]]
        /\ slipped' = slipped \cup {b \in refused : denial[b] # clock}
        /\ Moves(h, Idle)
        /\ UNCHANGED <<clock, enforce, denial, doubled, requests, faults, changes>>

\* A request fails half way and is not answered.
Fail(h) ==
    /\ handler[h].at \in {"new", "score", "remember"}
    /\ faults < MaxFaults /\ faults' = faults + 1
    /\ Moves(h, Idle)
    /\ UNCHANGED <<clock, enforce, recalled, denial, denied, slipped, given, doubled,
                   requests, changes>>

\* The process starts again, and knows no verdicts.
Restart ==
    /\ faults < MaxFaults /\ faults' = faults + 1
    /\ recalled' = [i \in Ids |-> Nothing] /\ given' = recalled' /\ doubled' = {}
    /\ handler' = [h \in Handlers |-> Idle]
    /\ UNCHANGED <<clock, enforce, denial, denied, slipped, requests, changes>>

\* Requests take seconds.
Tick ==
    /\ clock < MaxClock
    /\ \A h \in Handlers : handler[h].at = "idle"
    /\ clock' = clock + 1
    /\ UNCHANGED <<enforce, recalled, denial, handler, denied, slipped, given, doubled,
                   requests, faults, changes>>

ChangeStance ==
    /\ changes < MaxChanges /\ changes' = changes + 1
    /\ enforce' = ~enforce
    /\ UNCHANGED <<clock, recalled, denial, handler, denied, slipped, given, doubled,
                   requests, faults>>

Next ==
    \/ \E h \in Handlers :
          \/ \E i \in Ids : Receive(h, i)
          \/ LookBack(h) \/ Score(h)
          \/ \E ok \in BOOLEAN : RememberDenial(h, ok)
          \/ Answer(h) \/ Fail(h)
    \/ Restart \/ Tick \/ ChangeStance

Spec == Init /\ [][Next]_hookVars

-----------------------------------------------------------------------------
(***************************************************************************)
(* A block that was denied is not let through in the earlier turns of a    *)
(* transcript, in their last 1000 blocks, while the denial is remembered:  *)
(* "without this the next message would carry the denied content to the    *)
(* model" (models.py InferenceHookDenial).  Left out are the blocks whose  *)
(* last denial made no row: those that had one already, which keeps its    *)
(* time and goes with it, those of a turn that was denied for its tool     *)
(* results or for an earlier turn, and those whose insert failed.          *)
(***************************************************************************)
DeniedStaysOut ==
    \A h \in Handlers : handler[h].at = "answer" /\ handler[h].verdict = "allow"
                             => handler[h].had = {}

(***************************************************************************)
(* "The first verdict for an id is kept and returned for any repeat within *)
(* the window" (inference_hooks.py), by one process, whatever becomes of   *)
(* the stance meanwhile; but not for an id that was asked for twice at     *)
(* once: both are scored, and the later verdict is kept.                   *)
(***************************************************************************)
RepeatsAgree ==
    \A h \in Handlers :
        LET r == handler[h]
        IN  r.at = "answer" /\ r.id \notin doubled /\ given[r.id].verdict # "none"
                /\ r.since < given[r.id].at + RecallTTL
            => r.verdict = given[r.id].verdict

=============================================================================
