---------------------------- MODULE GatewayTurn ----------------------------
(***************************************************************************)
(* Turns of conversations at one gateway process (gateway.py).  A client   *)
(* sends the whole conversation every time.  The gateway scans the latest  *)
(* message, the attachments, and of the history what no turn it let        *)
(* through has carried before; it refuses the turn or forwards it, and     *)
(* then looks at the answer, unless it is streamed on as it arrives.       *)
(*                                                                         *)
(* Whether the tenant enforces, and whether the agent's role does, may be  *)
(* changed at any time.  The tenant's stance is read once and holds for    *)
(* the turn, minutes of it; the role is read whenever it is needed.        *)
(*                                                                         *)
(* A text takes one unit of a scan.  Secrets are refused in either stance  *)
(* (gateway_enforce_secrets and block_tool_result_secrets, the defaults),  *)
(* and answers are scanned (gateway_scan_responses).                       *)
(*                                                                         *)
(* A tool call is checked by way of the texts it has.  A bare call is one  *)
(* without a text among its arguments, as {} or a number: it is not        *)
(* analysed, and so not authorised either.                                 *)
(***************************************************************************)
EXTENDS Naturals, FiniteSets, Sequences

CONSTANTS
    Turns,          \* the turns in flight at once
    Conversations,  \* what a client may send: the latest text, the earlier
                    \* ones of the user, oldest first, and the attachments
    Verdict,        \* Verdict[t]: what the detectors say of text t
    Unreadable,     \* attachments whose text cannot be extracted
    HistoryBudget,  \* unseen history read for a turn (_HISTORY_BUDGET)
    MaxContent,     \* what one scan reads (schemas.MAX_CONTENT)
    SeenMax,        \* texts remembered (_SEEN_MAX)
    MaxTurns,       \* bound: turns
    MaxChanges      \* bound: changes of the tenant's stance and of the role

Texts == DOMAIN Verdict

ScanAssumption ==
    /\ HistoryBudget \in Nat /\ MaxContent \in Nat \ {0} /\ SeenMax \in Nat
    /\ Verdict \in [Texts -> {"clean", "high", "secret"}]
    /\ Conversations \subseteq
           [latest : Texts, history : Seq(Texts), attached : SUBSET Texts]

VARIABLES
    enforce,     \* the tenant's gateway_enforce
    role,        \* the agent's role enforces
    seen,        \* the texts this process need not scan again (_seen)
    turn,        \* turn[r]
    blind,       \* history: texts remembered though the scan did not read so far, or
                 \* could not read them
    lenient,     \* history: texts let through by a stance that does not refuse them
    turns, changes

turnVars == <<enforce, role, seen, turn, blind, lenient, turns, changes>>

Idle == [at |-> "idle", stream |-> FALSE, stance |-> FALSE, carried |-> {}, scanned |-> {},
         pending |-> {}, unread |-> {}, cut |-> {}, reply |-> "plain", live |-> FALSE,
         lax |-> FALSE, unruled |-> FALSE]

Replies == {"plain", "secret", "dangerous call", "denied call", "bare denied call"}

\* What a request carries of tools; the result of a bare call is a text.
Activities == {"none", "denied call", "bare denied call", "high", "secret"}

TypeOK ==
    /\ enforce \in BOOLEAN /\ role \in BOOLEAN
    /\ seen \subseteq Texts /\ Cardinality(seen) <= SeenMax
    /\ blind \subseteq Texts /\ lenient \subseteq Texts
    /\ turn \in [Turns -> [at : {"idle", "read", "passed", "checked", "sent", "answered"},
                           stream : BOOLEAN, stance : BOOLEAN,
                           carried : SUBSET Texts, scanned : SUBSET Texts,
                           pending : SUBSET Texts, unread : SUBSET Texts, cut : SUBSET Texts,
                           reply : Replies, live : BOOLEAN, lax : BOOLEAN, unruled : BOOLEAN]]
    /\ turns \in 0 .. MaxTurns /\ changes \in 0 .. MaxChanges

Init ==
    /\ enforce \in BOOLEAN /\ role \in BOOLEAN
    /\ seen = {} /\ blind = {} /\ lenient = {}
    /\ turn = [r \in Turns |-> Idle]
    /\ turns = 0 /\ changes = 0

Elements(s) == {s[k] : k \in 1 .. Len(s)}
Lesser(m, n) == IF m < n THEN m ELSE n

Refuses(stance, v) == v = "secret" \/ (stance /\ v = "high")

-----------------------------------------------------------------------------
\* Mutant of Pending: history that does not fit the budget is remembered as well.
PendingAll(c, over) == {c.latest} \cup Elements(c.history) \cup c.attached

\* What a turn that is let through will have made seen.
Pending(c, over) == ({c.latest} \cup Elements(c.history) \cup c.attached) \ over

(***************************************************************************)
(* The text of a turn: the latest message, then the unseen history, of     *)
(* which the budget takes the most recent, then the attachments that were  *)
(* not seen.  A scan reads as much of it as it can.                        *)
(***************************************************************************)
ReadTurn(r, c, stream) ==
    LET carried == {c.latest} \cup Elements(c.history) \cup c.attached
        new     == SelectSeq(c.history, LAMBDA t : t \notin seen)
        room    == Lesser(HistoryBudget, Len(new))
        taken   == SubSeq(new, Len(new) - room + 1, Len(new))
        said    == <<c.latest>> \o taken
        files   == (c.attached \ seen) \ Unreadable
        scanned == Elements(SubSeq(said, 1, Lesser(MaxContent, Len(said)))) \cup
                   (IF Len(said) + Cardinality(files) <= MaxContent THEN files ELSE {})
        over    == Elements(new) \ Elements(said)
    IN  /\ turn[r].at \in {"idle", "answered"} /\ turns < MaxTurns
        /\ turn' = [turn EXCEPT ![r] =
               [Idle EXCEPT !.at = "read", !.stream = stream, !.stance = enforce,
                            !.carried = carried, !.scanned = scanned,
                            !.pending = Pending(c, over),
                            !.unread = (carried \ seen) \ scanned,
                            !.cut = ((carried \ seen) \ scanned) \ over,
                            !.lax = ~enforce, !.unruled = ~role]]
        /\ turns' = turns + 1
        /\ UNCHANGED <<enforce, role, seen, blind, lenient, changes>>

\* As many as fit are kept; which are forgotten is left open.
Remembered(all, s) ==
    s \subseteq all /\ Cardinality(s) = Lesser(SeenMax, Cardinality(all))

(***************************************************************************)
(* The verdict is in.  The stance is that of now, or of when the session   *)
(* last read the tenant, before the scan.                                  *)
(***************************************************************************)
LetThrough(r, stance) ==
    /\ turn[r].at = "read"
    /\ ~\E t \in turn[r].scanned : Refuses(stance, Verdict[t])
    /\ \E s \in SUBSET (seen \cup turn[r].pending) :
          Remembered(seen \cup turn[r].pending, s) /\ seen' = s
    /\ blind' = blind \cup turn[r].cut
    /\ lenient' = lenient \cup {t \in turn[r].scanned : Verdict[t] = "high"}
    /\ turn' = [turn EXCEPT ![r].at = "passed", ![r].stance = stance,
                            ![r].scanned = {}, ![r].pending = {}, ![r].cut = {}]
    /\ UNCHANGED <<enforce, role, turns, changes>>

RefuseTurn(r, stance) ==
    /\ turn[r].at = "read"
    /\ \E t \in turn[r].scanned : Refuses(stance, Verdict[t])
    /\ turn' = [turn EXCEPT ![r] = Idle]
    /\ UNCHANGED <<enforce, role, seen, blind, lenient, turns, changes>>

(***************************************************************************)
(* The tool calls and results a request carries: refused when the role     *)
(* denies the call or the content would be refused in a message.  A bare   *)
(* call without a result is passed over.                                   *)
(***************************************************************************)
CheckInbound(r, activity) ==
    /\ turn[r].at = "passed"
    /\ turn' = [turn EXCEPT ![r] =
           IF (activity = "denied call" /\ role) \/ Refuses(turn[r].stance, activity)
           THEN Idle
           ELSE [turn[r] EXCEPT !.at = "checked"]]
    /\ UNCHANGED <<enforce, role, seen, blind, lenient, turns, changes>>

\* Mutant of PassesLive: only the tenant's stance decides.
PassesLiveInMonitor(r) == turn[r].stream /\ ~turn[r].stance

\* The answer is streamed on as it arrives: nobody enforces.
PassesLive(r) == turn[r].stream /\ ~turn[r].stance /\ ~role

Forward(r) ==
    /\ turn[r].at = "checked"
    /\ turn' = [turn EXCEPT ![r].at = "sent", ![r].live = PassesLive(r),
                            ![r].carried = {}, ![r].unread = {}]
    /\ UNCHANGED <<enforce, role, seen, blind, lenient, turns, changes>>

(***************************************************************************)
(* The whole answer is there.  A stream that was held back for the role is *)
(* refused for a secret in either stance, an answer that is not a stream   *)
(* only when the tenant enforces.  The role is asked about a call only     *)
(* when its arguments have a text.                                         *)
(***************************************************************************)
Withholds(r, reply) ==
    \/ reply = "denied call" /\ role
    \/ reply = "dangerous call" /\ turn[r].stance
    \/ reply = "secret" /\ (turn[r].stream \/ turn[r].stance)

Answer(r, reply) ==
    /\ turn[r].at = "sent"
    /\ turn' = [turn EXCEPT ![r] =
           IF ~turn[r].live /\ Withholds(r, reply)
           THEN Idle
           ELSE [turn[r] EXCEPT !.at = "answered", !.reply = reply]]
    /\ UNCHANGED <<enforce, role, seen, blind, lenient, turns, changes>>

\* An administrator changes the stance, or the role.
ChangeStance ==
    /\ changes < MaxChanges
    /\ changes' = changes + 1
    /\ enforce' = ~enforce
    /\ turn' = [r \in Turns |-> [turn[r] EXCEPT !.lax = (@ \/ ~enforce') /\ turn[r].at # "idle"]]
    /\ UNCHANGED <<role, seen, blind, lenient, turns>>

ChangeRole ==
    /\ changes < MaxChanges
    /\ changes' = changes + 1
    /\ role' = ~role
    /\ turn' = [r \in Turns |-> [turn[r] EXCEPT !.unruled = (@ \/ ~role') /\ turn[r].at # "idle"]]
    /\ UNCHANGED <<enforce, seen, blind, lenient, turns>>

Next ==
    \/ \E r \in Turns :
          \/ \E c \in Conversations, stream \in BOOLEAN : ReadTurn(r, c, stream)
          \/ \E stance \in {turn[r].stance, enforce} :
                LetThrough(r, stance) \/ RefuseTurn(r, stance)
          \/ \E activity \in Activities : CheckInbound(r, activity)
          \/ Forward(r)
          \/ \E reply \in Replies : Answer(r, reply)
    \/ ChangeStance \/ ChangeRole

Spec == Init /\ [][Next]_turnVars

-----------------------------------------------------------------------------
(***************************************************************************)
(* What the stance of a turn refuses is not let through to the provider,   *)
(* in the latest message, the history or an attachment, unless a scan that *)
(* was let through read it before under a stance that did not refuse it,   *)
(* this turn's scan says that it did not read everything, or an earlier    *)
(* one remembered it without reading it (gateway.py _ScanScope).           *)
(***************************************************************************)
RefusedStaysOut ==
    \A r \in Turns : turn[r].at \in {"passed", "checked"} =>
        \A t \in turn[r].carried :
            Refuses(turn[r].stance, Verdict[t]) =>
                t \in turn[r].unread \/ t \in blind \/ t \in lenient

(***************************************************************************)
(* An answer that was handed over although the role denies its call, or    *)
(* although an enforcing tenant withholds it, was on its way while the     *)
(* role, or the tenant, did not enforce (messages, chat_completions,       *)
(* _role_enforces).  A call without a text among its arguments is the      *)
(* exception: it is handed over whatever the role says                     *)
(* (_capture_tool_activity).                                               *)
(***************************************************************************)
AnswersAreChecked ==
    \A r \in Turns : turn[r].at = "answered" =>
        /\ turn[r].reply = "denied call" => turn[r].unruled
        /\ turn[r].reply \in {"dangerous call", "secret"} => turn[r].lax

=============================================================================
