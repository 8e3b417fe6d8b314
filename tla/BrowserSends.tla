---------------------------- MODULE BrowserSends ----------------------------
(***************************************************************************)
(* The messages a person sends from one page of an AI tool, each held by   *)
(* the browser extension until the server has scored it (injected.js       *)
(* fetch, background.js), and the justification that lets one of them      *)
(* through (background.js justify, main.py ingest_justify).                *)
(*                                                                         *)
(* The page sends on its own too: a client that is told its send failed    *)
(* sends it again.  The page remembers what it stopped; the worker keeps   *)
(* one grant, and for each finding the last message of it that was         *)
(* stopped; findings fold on classes, so two messages may be one finding.  *)
(* Whatever goes wrong, and after four seconds, the message goes out.      *)
(***************************************************************************)
EXTENDS Integers, FiniteSets, Sequences

CONSTANTS
    Sends,          \* calls of fetch that are under way at once
    Finding,        \* of a message the server blocks: the finding it folds into
    Confirmed,      \* findings of a confirmed credential
    MaxReasons,     \* justifications
    MaxSends, MaxUnchecked

FindingsAssumption ==
    /\ Confirmed \subseteq {Finding[m] : m \in DOMAIN Finding}
    /\ {MaxReasons, MaxSends, MaxUnchecked} \subseteq Nat

VARIABLES
    enforce,        \* the extension's setting: FALSE only monitors
    send,           \* Sends -> the message and where it is
    recent,         \* the page: how a send of this message is answered after a block
    dialog,         \* the page: the message whose block asks for a reason, or nothing
    blocked,        \* the worker's storage: the last blocked message of each finding
    grant,          \* the worker's storage: the justification that waits for its send, or 0
    reason,         \* justification -> [at, meant, hash]
    through,        \* the server: justification -> the messages that went through for it
    lapsed,         \* justifications whose ten minutes are over
    replaced,       \* history: justifications that left the storage for another
    after,          \* history: the messages of its finding that were blocked after this one
    crossed,        \* history: justifications of a message another was blocked after
    shown,          \* history: messages whose block was shown
    sends, unchecked

pageVars   == <<recent, dialog, shown>>
workerVars == <<blocked, grant, replaced, after>>
reasonVars == <<reason, lapsed, crossed>>
sendVars   == <<enforce, send, pageVars, workerVars, reasonVars, through, sends, unchecked>>

Messages == DOMAIN Finding
Findings == {Finding[m] : m \in Messages}
Reasons  == 1 .. MaxReasons

\* A confirmed credential is not one a person may talk their way past.
Justifiable(m) == Finding[m] \notin Confirmed

Unsent == [at |-> "idle", msg |-> CHOOSE m \in Messages : TRUE, repeat |-> FALSE,
           grant |-> 0, verdict |-> "none", by |-> 0, late |-> FALSE, offered |-> {}]
Unasked == [at |-> "none", meant |-> {}, hash |-> {}]

TypeOK ==
    /\ enforce \in BOOLEAN
    /\ \A s \in Sends :
          /\ send[s].at \in {"idle", "asked", "sent", "scored", "returned", "stopped"}
          /\ send[s].msg \in Messages
          /\ send[s].verdict \in {"none", "block", "warn", "skipped"}
          /\ {send[s].grant, send[s].by} \subseteq 0 .. MaxReasons
          /\ send[s].offered \subseteq Reasons
    /\ recent \in [Messages -> {"none", "quiet", "rescan"}]
    /\ dialog \subseteq Messages /\ Cardinality(dialog) <= 1
    /\ \A f \in Findings : \A m \in blocked[f] : Finding[m] = f
    /\ grant \in 0 .. MaxReasons /\ grant # 0 => reason[grant].at = "stored"
    /\ \A j \in Reasons : reason[j].at \in {"none", "minted", "stored"}
    /\ through \in [Reasons -> Seq(Messages)]
    /\ lapsed \cup replaced \cup crossed \subseteq Reasons
    /\ after \in [Messages -> SUBSET Messages] /\ shown \subseteq Messages
    /\ sends \in 0 .. MaxSends /\ unchecked \in 0 .. MaxUnchecked

Init ==
    /\ enforce \in BOOLEAN
    /\ send = [s \in Sends |-> Unsent]
    /\ recent = [m \in Messages |-> "none"] /\ dialog = {}
    /\ blocked = [f \in Findings |-> {}] /\ grant = 0
    /\ reason = [j \in Reasons |-> Unasked]
    /\ through = [j \in Reasons |-> <<>>]
    /\ lapsed = {} /\ replaced = {} /\ crossed = {} /\ shown = {}
    /\ after = [m \in Messages |-> {}]
    /\ sends = 0 /\ unchecked = 0

Moves(s, to) == send' = [send EXCEPT ![s] = to]

\* _spend_once: the tokens that were used.
Spent == {j \in Reasons : through[j] # <<>>}

GoesUnchecked == unchecked < MaxUnchecked /\ unchecked' = unchecked + 1

-----------------------------------------------------------------------------
\* Mutant of Answer: every block is final for a while.
AnswerAlways(m) == "quiet"

\* What the page remembers of a block: a block that can be justified is scanned again.
Answer(m) == IF Justifiable(m) THEN "rescan" ELSE "quiet"

\* Justifications of this very message that wait for its send.
Waiting(m) == {j \in Reasons \ (Spent \cup lapsed \cup replaced \cup crossed) :
                  reason[j].at = "stored" /\ reason[j].meant = {m}}

\* The person or the page sends: a repeat of what was just stopped has its answer already.
Press(s, m) ==
    LET r == [Unsent EXCEPT !.msg = m, !.repeat = recent[m] # "none",
                            !.offered = Waiting(m)]
    IN  /\ send[s].at \in {"idle", "stopped"}
        /\ sends < MaxSends /\ sends' = sends + 1
        /\ Moves(s, [r EXCEPT !.at = IF recent[m] = "quiet" THEN "stopped" ELSE "asked"])
        /\ UNCHANGED <<enforce, pageVars, workerVars, reasonVars, through, unchecked>>

\* The worker attaches the grant that waits, whatever message it is for.
Attach(s) ==
    /\ send[s].at = "asked"
    /\ Moves(s, [send[s] EXCEPT !.at = "sent",
                                !.grant = IF grant \in lapsed THEN 0 ELSE grant])
    /\ UNCHANGED <<enforce, pageVars, workerVars, reasonVars, through, sends, unchecked>>

\* Mutant of Honours: the grant is for any message of its finding.
HonoursFinding(j, m) ==
    /\ j # 0 /\ Justifiable(m) /\ j \notin Spent \cup lapsed
    /\ \A b \in reason[j].meant : Finding[b] = Finding[m]

\* Mutant of Honours: a token is good for its ten minutes.
HonoursAgain(j, m) == j # 0 /\ Justifiable(m) /\ j \notin lapsed /\ reason[j].hash = {m}

\* A token is good for one send, of exactly the message whose hash it carries.
Honours(j, m) ==
    /\ j # 0 /\ Justifiable(m) /\ j \notin Spent \cup lapsed
    /\ reason[j].hash = {m}

Score(s) ==
    LET r == send[s]
        honoured == Honours(r.grant, r.msg)
    IN  /\ r.at = "sent"
        /\ Moves(s, [r EXCEPT !.at = "scored", !.grant = 0,
                              !.verdict = IF honoured THEN "warn" ELSE "block",
                              !.by = IF honoured THEN r.grant ELSE 0])
        /\ through' = IF honoured THEN [through EXCEPT ![r.grant] = Append(@, r.msg)]
                      ELSE through
        /\ UNCHANGED <<enforce, pageVars, workerVars, reasonVars, sends, unchecked>>

(***************************************************************************)
(* The worker has the verdict.  Monitoring makes a warning of a block that *)
(* is not of a confirmed leak.  After an override the grant is removed,    *)
(* whichever it is by now; a block that can be justified becomes its       *)
(* finding's last.                                                         *)
(***************************************************************************)
Return(s) ==
    LET r    == send[s]
        m    == r.msg
        held == r.verdict = "block" /\ (enforce \/ ~Justifiable(m))
        last == held /\ Justifiable(m)
    IN  /\ r.at = "scored"
        /\ Moves(s, [r EXCEPT !.at = "returned",
                              !.verdict = IF held THEN "block" ELSE "warn"])
        /\ grant' = IF r.by # 0 THEN 0 ELSE grant
        /\ replaced' = IF r.by # 0 THEN replaced \cup ({grant} \ {0, r.by}) ELSE replaced
        /\ blocked' = IF last THEN [blocked EXCEPT ![Finding[m]] = {m}] ELSE blocked
        /\ after' = [x \in Messages |->
                        IF ~last \/ Finding[x] # Finding[m] THEN after[x]
                        ELSE IF x = m THEN {} ELSE after[x] \cup {m}]
        /\ UNCHANGED <<enforce, pageVars, reasonVars, through, sends, unchecked>>

\* No key, no server, or no answer from it: the message goes unchecked.
Skip(s) ==
    /\ send[s].at \in {"asked", "sent", "scored"}
    /\ IF send[s].late THEN UNCHANGED unchecked ELSE GoesUnchecked
    /\ Moves(s, [send[s] EXCEPT !.at = "returned", !.grant = 0, !.by = 0,
                                !.verdict = "skipped"])
    /\ UNCHANGED <<enforce, pageVars, workerVars, reasonVars, through, sends>>

(***************************************************************************)
(* The answer reaches the page.  One that it no longer waits for finds the *)
(* message gone.  A block is shown, but not that of a repeat, and answered *)
(* as a failed send.                                                       *)
(***************************************************************************)
Receive(s) ==
    LET r     == send[s]
        stops == r.verdict = "block" /\ ~r.late
    IN  /\ r.at = "returned"
        /\ Moves(s, IF stops THEN [r EXCEPT !.at = "stopped"] ELSE Unsent)
        /\ recent' = IF r.late THEN recent
                     ELSE [recent EXCEPT ![r.msg] = IF stops THEN Answer(r.msg) ELSE "none"]
        /\ dialog' = IF stops /\ ~r.repeat THEN {r.msg} ELSE dialog
        /\ shown' = IF stops /\ ~r.repeat THEN shown \cup {r.msg} ELSE shown
        /\ UNCHANGED <<enforce, workerVars, reasonVars, through, sends, unchecked>>

\* Four seconds have passed: the message goes out, and the scan goes on.
GiveUp(s) ==
    /\ send[s].at \in {"asked", "sent", "scored", "returned"} /\ ~send[s].late
    /\ GoesUnchecked
    /\ Moves(s, [send[s] EXCEPT !.late = TRUE])
    /\ recent' = [recent EXCEPT ![send[s].msg] = "none"]
    /\ UNCHANGED <<enforce, dialog, shown, workerVars, reasonVars, through, sends>>

\* Half a minute without a send of it: the page forgets the block.
Forget(m) ==
    /\ recent[m] # "none"
    /\ recent' = [recent EXCEPT ![m] = "none"]
    /\ UNCHANGED <<enforce, send, dialog, shown, workerVars, reasonVars, through,
                   sends, unchecked>>

\* Mutant of LastBlocked: the hash is kept under another finding's name.
LastBlockedOfAny(m) == UNION {blocked[f] : f \in Findings \ {Finding[m]}}

\* The hash the worker looks up by the finding.
LastBlocked(m) == blocked[Finding[m]]

(***************************************************************************)
(* The person gives a reason and the server mints a token of it, for the   *)
(* message whose hash the worker sends.  Once it is recorded, the button   *)
(* of this dialog stays off.                                               *)
(***************************************************************************)
Justify(j) ==
    /\ reason[j].at = "none" /\ \A i \in Reasons : i < j => reason[i].at # "none"
    /\ \E m \in dialog :
          /\ Justifiable(m)
          /\ reason' = [reason EXCEPT ![j] = [at |-> "minted", meant |-> dialog,
                                             hash |-> LastBlocked(m)]]
          /\ crossed' = IF after[m] # {} THEN crossed \cup {j} ELSE crossed
    /\ dialog' = {}
    /\ UNCHANGED <<enforce, send, recent, shown, workerVars, lapsed, through, sends, unchecked>>

\* One grant at a time: a second one takes the place of the first.
Store(j) ==
    /\ reason[j].at = "minted"
    /\ reason' = [reason EXCEPT ![j].at = "stored"]
    /\ grant' = j
    /\ replaced' = replaced \cup ({grant} \ {0})
    /\ UNCHANGED <<enforce, send, pageVars, blocked, after, lapsed, crossed, through,
                   sends, unchecked>>

Expire(j) ==
    /\ grant = j /\ j \notin lapsed \cup Spent
    /\ lapsed' = lapsed \cup {j}
    /\ UNCHANGED <<enforce, send, pageVars, workerVars, reason, crossed, through,
                   sends, unchecked>>

Next ==
    \/ \E s \in Sends :
          \/ \E m \in Messages : Press(s, m)
          \/ Attach(s) \/ Score(s) \/ Return(s) \/ Skip(s) \/ Receive(s) \/ GiveUp(s)
    \/ \E m \in Messages : Forget(m)
    \/ \E j \in Reasons : Justify(j) \/ Store(j) \/ Expire(j)

Spec == Init /\ [][Next]_sendVars

-----------------------------------------------------------------------------
(***************************************************************************)
(* "One justification can't wave through other same-class content", and    *)
(* goes through once (main.py ingest_ai_usage): whatever sends are on      *)
(* their way with it, one at most was let through for it, and that was the *)
(* message of the dialog, never a confirmed credential.  Left out are      *)
(* reasons for a message after which another of its finding was blocked:   *)
(* the worker's hash is then that one's (background.js), and the reason    *)
(* given for the one lets the other through, perhaps by the page's retry.  *)
(***************************************************************************)
JustifiedOnce ==
    \A j \in Reasons :
        /\ Len(through[j]) <= 1
        /\ \A i \in DOMAIN through[j] :
              /\ Justifiable(through[j][i])
              /\ j \notin crossed => reason[j].meant = {through[j][i]}

(***************************************************************************)
(* "Recording the reason and pressing send again works" (injected.js): a   *)
(* message that was justified before it was sent is not stopped, unless    *)
(* the justification was used by another send meanwhile, ran out, or left  *)
(* the worker's storage, which holds one and which an override empties     *)
(* whosever it was.                                                        *)
(***************************************************************************)
JustifiedGoesThrough ==
    \A s \in Sends :
        send[s].at = "stopped" => send[s].offered \subseteq Spent \cup lapsed \cup replaced

(***************************************************************************)
(* "One popup per stopped send, not per retry" (injected.js): what is      *)
(* stopped in silence is a repeat of what was shown.                       *)
(***************************************************************************)
StopsAreShown == \A s \in Sends : send[s].at = "stopped" => send[s].msg \in shown

=============================================================================
