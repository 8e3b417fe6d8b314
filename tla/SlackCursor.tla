----------------------------- MODULE SlackCursor -----------------------------
(***************************************************************************)
(* The cursor of the two Slack content scans (saas_connectors              *)
(* .scan_slack_messages and .scan_slack_discovery), which share            *)
(* _slack_scan_conversation.                                               *)
(*                                                                         *)
(* History arrives newest first and a sync reads a limited number of       *)
(* messages, so the cursor of a conversation is a watermark (the newest    *)
(* message scanned) and a list of backfill gaps, the older windows a sync  *)
(* cut short.  A sync works on its own copy of the cursor while people go  *)
(* on posting, and saves it once, at its end; what it scanned is persisted *)
(* as it goes.  ConnectorSync shows that the sync that saves started from  *)
(* the saved cursor, so here syncs follow one another.                     *)
(*                                                                         *)
(* The cursor shares its column with the workspace the connector is of,    *)
(* which a worker of the events endpoint learns from Slack and writes      *)
(* together with the cursor it read before it asked (slack_events          *)
(* ._map_pasted).                                                          *)
(*                                                                         *)
(* A message is its position in its conversation, 1, 2, ... (Slack's ts is *)
(* unique in a conversation and grows).                                    *)
(***************************************************************************)
EXTENDS Integers, Sequences, FiniteSets

CONSTANTS
    Order,         \* the conversations, in the order Slack lists them
    Discovery,     \* TRUE: scan_slack_discovery, FALSE: scan_slack_messages
    PageSize,      \* messages one discovery fetch returns (200)
    Budget,        \* _MAX_MESSAGES_PER_SYNC
    NoMark,        \* a conversation that is not in the watermark map
    Nowhere,       \* resume_at is ""
    Kinds,         \* who posts: "human", and "other" (apps, joins)
    MaxPosts,      \* bound: messages posted, over all conversations
    MaxFails,      \* bound: fetches that fail, and syncs that are lost
    MaxGaps        \* bound: a sync starts with fewer gaps than this

Conversations == {Order[k] : k \in 1 .. Len(Order)}

ASSUME OrderAssumption ==
    /\ \E S \in {Conversations} : Order \in Seq(S)
    /\ \A j, k \in 1 .. Len(Order) : Order[j] = Order[k] => j = k

ASSUME BoundsAssumption ==
    /\ Discovery \in BOOLEAN
    /\ PageSize \in Nat \ {0} /\ Budget \in Nat \ {0}
    /\ "human" \in Kinds
    /\ MaxPosts \in Nat /\ MaxFails \in Nat /\ MaxGaps \in Nat
    /\ NoMark \notin Nat /\ Nowhere \notin Conversations

VARIABLES
    posted,        \* posted[c]: who wrote each message, "human" or "other"
    horizon,       \* horizon[c]: the newest message older than the lookback
    scanned,       \* the messages run_analysis has seen
    mark, gaps,    \* the saved cursor (sync_state): watermarks and gaps
    resume,        \*   and the conversation the next sync starts with
    pc,            \* idle, next (conversation), backfill
    todo,          \* the conversations this sync still has to visit
    spent,         \* the messages this sync has scanned
    newMark,       \* the copy of mark this sync works on
    newGaps,       \* the copy of gaps this sync works on
    known,         \* saved with the cursor: the workspace is known
    newKnown,      \* the copy of known this sync works on
    asking,        \* the cursors as read by an events worker that asks Slack
    waited,        \* history, waited[c]: the syncs saved since c's last turn
    fails          \* history: fetches and syncs that failed so far

cursorVars == <<mark, gaps, resume>>
syncVars   == <<pc, todo, spent, newMark, newGaps, newKnown>>
teamVars   == <<known, asking>>
vars       == <<posted, horizon, scanned, cursorVars, syncVars, teamVars, waited, fails>>

Marks == Nat \cup {NoMark}
\* A gap <<lo, hi>> is the window between lo and hi, both exclusive.
Gaps  == Nat \X Nat

\* A cursor a worker has read.
Cursors == [mark : [Conversations -> Marks], gaps : [Conversations -> Seq(Gaps)],
            resume : Conversations \cup {Nowhere}]

TypeOK ==
    /\ posted  \in [Conversations -> Seq(Kinds)]
    /\ horizon \in [Conversations -> Nat]
    /\ scanned \subseteq Conversations \X Nat
    /\ mark    \in [Conversations -> Marks]
    /\ gaps    \in [Conversations -> Seq(Gaps)]
    /\ resume  \in Conversations \cup {Nowhere}
    /\ pc      \in {"idle", "next", "backfill"}
    /\ todo    \in Seq(Conversations)
    /\ spent   \in 0 .. Budget
    /\ newMark \in [Conversations -> Marks]
    /\ newGaps \in [Conversations -> Seq(Gaps)]
    /\ {known, newKnown} \subseteq BOOLEAN
    /\ Cardinality(asking) <= 1
    /\ asking \subseteq Cursors
    /\ waited  \in [Conversations -> Nat]
    /\ fails   \in Nat

Init ==
    /\ posted  = [c \in Conversations |-> <<>>]
    /\ horizon = [c \in Conversations |-> 0]
    /\ scanned = {}
    /\ mark    = [c \in Conversations |-> NoMark]
    /\ gaps    = [c \in Conversations |-> <<>>]
    /\ resume  = Nowhere
    /\ pc      = "idle"
    /\ todo    = <<>>
    /\ spent   = 0
    /\ newMark = [c \in Conversations |-> NoMark]
    /\ newGaps = [c \in Conversations |-> <<>>]
    /\ known   = FALSE
    /\ newKnown = FALSE
    /\ asking  = {}
    /\ waited  = [c \in Conversations |-> 0]
    /\ fails   = 0

----------------------------------------------------------------------------
(* A window of history                                                     *)

Human(c) == {m \in 1 .. Len(posted[c]) : posted[c][m] = "human"}

Newest(n, S) == {m \in S : Cardinality({k \in S : k > m}) < n}
Smallest(S)  == CHOOSE m \in S : \A k \in S : m <= k
Largest(S)   == CHOOSE m \in S : \A k \in S : m >= k

Between(c, lo, hi) == {m \in 1 .. Len(posted[c]) : lo < m /\ m < hi}

\* What one fetch returns: every page of the window through the bot's token,
\* the newest page of it through the Discovery API.
Page(c, lo, hi) ==
    IF Discovery THEN Newest(PageSize, Between(c, lo, hi)) ELSE Between(c, lo, hi)

\* Mutant of Window: the budget is checked after the message is taken.
WindowOverBudget(c, lo, hi, n) == Newest(n + 1, Page(c, lo, hi) \cap Human(c))

\* _slack_window: the newest human messages of the page, at most n of them.
Window(c, lo, hi, n) == Newest(n, Page(c, lo, hi) \cap Human(c))

\* Mutant of Cut: the bound is taken to be inclusive.
CutInclusive(c, lo, hi, n) ==
    IF Window(c, lo, hi, n) # Page(c, lo, hi) \cap Human(c)
    THEN Smallest(Window(c, lo, hi, n)) + 1
    ELSE 0

\* Mutant of Cut: the bound is one message too low.
CutTooLow(c, lo, hi, n) ==
    IF Window(c, lo, hi, n) # Page(c, lo, hi) \cap Human(c)
    THEN Smallest(Window(c, lo, hi, n)) - 1
    ELSE 0

\* Mutant of Cut: that there are more pages is not looked at.
CutOnePage(c, lo, hi, n) ==
    IF Window(c, lo, hi, n) # Page(c, lo, hi) \cap Human(c)
    THEN Smallest(Window(c, lo, hi, n))
    ELSE 0

\* The upper bound of the older remainder, 0 when the window was read to its
\* end: the oldest message kept when the budget cut the window, and the oldest
\* one fetched when there are more pages.
Cut(c, lo, hi, n) ==
    IF Window(c, lo, hi, n) # Page(c, lo, hi) \cap Human(c)
    THEN Smallest(Window(c, lo, hi, n))
    ELSE IF Page(c, lo, hi) # Between(c, lo, hi) THEN Smallest(Page(c, lo, hi))
    ELSE 0

Scan(c, W) ==
    /\ scanned' = scanned \cup {<<c, m>> : m \in W}
    /\ spent' = spent + Cardinality(W)

----------------------------------------------------------------------------
(* One sync                                                                *)

\* Mutant of Rotated: every sync starts with the first conversation.
NotRotated == Order

\* _rotate: start where the last sync that ran out of budget stopped.
Rotated ==
    IF resume = Nowhere THEN Order
    ELSE LET k == CHOOSE j \in 1 .. Len(Order) : Order[j] = resume
         IN  SubSeq(Order, k, Len(Order)) \o SubSeq(Order, 1, k - 1)

\* Mutant of StartSync: the watermarks are built from nothing, not copied.
StartForgetful ==
    /\ pc = "idle"
    /\ \A c \in Conversations : Len(gaps[c]) < MaxGaps
    /\ pc' = "next"
    /\ todo' = Rotated
    /\ newMark' = [c \in Conversations |-> NoMark]
    /\ newGaps' = gaps
    /\ newKnown' = known
    /\ UNCHANGED <<posted, horizon, scanned, cursorVars, teamVars, spent, waited, fails>>

\* A sync begins with a copy of the saved cursor.
StartSync ==
    /\ pc = "idle"
    /\ \A c \in Conversations : Len(gaps[c]) < MaxGaps
    /\ pc' = "next"
    /\ todo' = Rotated
    /\ newMark' = mark
    /\ newGaps' = gaps
    /\ newKnown' = known
    /\ UNCHANGED <<posted, horizon, scanned, cursorVars, teamVars, spent, waited, fails>>

\* Where the window of new messages of c begins.
Oldest(c, marks) == IF marks[c] = NoMark THEN horizon[c] ELSE marks[c]

AtConversation == pc = "next" /\ todo # <<>> /\ spent < Budget

\* Mutant of ReadNew: a window that does not fit holds the watermark back (the
\* code before the backfill gaps).
ReadNewHeldBack ==
    /\ AtConversation
    /\ LET c   == Head(todo)
           lo  == Oldest(c, newMark)
           hi  == Len(posted[c]) + 1
           n   == Budget - spent
           W   == Window(c, lo, hi, n)
       IN  /\ Scan(c, W)
           /\ newMark' = [newMark EXCEPT
                 ![c] = IF W = {} \/ Cut(c, lo, hi, n) # 0 THEN @ ELSE Largest(W)]
    /\ pc' = "backfill"
    /\ UNCHANGED <<posted, horizon, cursorVars, teamVars, todo, newGaps, newKnown,
                   waited, fails>>

\* The first window of a conversation: the messages after its watermark.
ReadNew ==
    /\ AtConversation
    /\ LET c   == Head(todo)
           lo  == Oldest(c, newMark)
           hi  == Len(posted[c]) + 1
           n   == Budget - spent
           W   == Window(c, lo, hi, n)
           cut == Cut(c, lo, hi, n)
       IN  /\ Scan(c, W)
           /\ newMark' = [newMark EXCEPT ![c] = IF W = {} THEN @ ELSE Largest(W)]
           /\ newGaps' = [newGaps EXCEPT
                             ![c] = IF cut = 0 THEN @ ELSE Append(@, <<lo, cut>>)]
    /\ pc' = "backfill"
    /\ UNCHANGED <<posted, horizon, cursorVars, teamVars, todo, newKnown, waited, fails>>

\* Budget is left: the newest gap is read on, from its upper end.
ReadGap ==
    /\ pc = "backfill"
    /\ LET c == Head(todo)
           g == newGaps[c]
       IN  /\ g # <<>>
           /\ spent < Budget
           /\ LET k   == Len(g)
                  n   == Budget - spent
                  cut == Cut(c, g[k][1], g[k][2], n)
              IN  /\ Scan(c, Window(c, g[k][1], g[k][2], n))
                  /\ newGaps' = [newGaps EXCEPT
                        ![c] = IF cut # 0 /\ cut < g[k][2]
                               THEN [g EXCEPT ![k] = <<g[k][1], cut>>]
                               ELSE SubSeq(g, 1, k - 1)]
    /\ UNCHANGED <<posted, horizon, cursorVars, teamVars, pc, todo, newMark,
                   newKnown, waited, fails>>

NextConversation ==
    /\ pc' = "next"
    /\ todo' = Tail(todo)
    /\ UNCHANGED <<posted, horizon, scanned, cursorVars, teamVars, spent, newMark,
                   newGaps, newKnown, waited>>

\* No gap is left, or no budget.
ConversationDone ==
    /\ pc = "backfill"
    /\ newGaps[Head(todo)] = <<>> \/ spent >= Budget
    /\ NextConversation
    /\ UNCHANGED fails

\* A gap that cannot be fetched is kept for the next sync.
GapFails ==
    /\ pc = "backfill"
    /\ newGaps[Head(todo)] # <<>> /\ spent < Budget
    /\ fails < MaxFails
    /\ fails' = fails + 1
    /\ NextConversation

\* The Discovery scan leaves out a conversation it cannot open.
SkipConversation ==
    /\ Discovery
    /\ AtConversation
    /\ fails < MaxFails
    /\ fails' = fails + 1
    /\ NextConversation

SyncOver ==
    /\ pc' = "idle"
    /\ todo' = <<>>
    /\ spent' = 0
    /\ newMark' = [c \in Conversations |-> NoMark]
    /\ newGaps' = [c \in Conversations |-> <<>>]
    /\ newKnown' = FALSE
    /\ UNCHANGED <<posted, horizon, scanned, asking>>

\* Every conversation was visited, or the budget is spent: the whole cursor is
\* written back, with the conversation the budget stopped at.
Save ==
    /\ pc = "next"
    /\ todo = <<>> \/ spent >= Budget
    /\ mark' = newMark
    /\ gaps' = newGaps
    /\ resume' = IF todo = <<>> THEN Nowhere ELSE Head(todo)
    /\ waited' = [c \in Conversations |->
                     IF \E k \in 1 .. Len(todo) : todo[k] = c
                     THEN waited[c] + 1 ELSE 0]
    /\ known' = newKnown
    /\ SyncOver
    /\ UNCHANGED fails

\* The sync's cursor is not saved: its process died, its claim was taken over,
\* or (through the bot's token) a conversation's new messages could not be
\* fetched, which ends the whole sync.  What it scanned stays scanned.
\* A sync that ends with an error writes back the column that its session last
\* read (_finish_sync), which can only undo a LearnWorkspace of meanwhile; it
\* ends as if Slack had not answered that worker (WorkspaceUnknown), and is not
\* a step of its own here.
SyncLost ==
    /\ pc # "idle"
    /\ fails < MaxFails
    /\ fails' = fails + 1
    /\ SyncOver
    /\ UNCHANGED <<cursorVars, known, waited>>

----------------------------------------------------------------------------
(* The events endpoint                                                     *)

\* An event of a workspace no connector is known to be of: Slack is asked
\* about a connector that has a bot's token.
AskWorkspace ==
    /\ ~Discovery
    /\ ~known /\ asking = {}
    /\ asking' = {[mark |-> mark, gaps |-> gaps, resume |-> resume]}
    /\ UNCHANGED <<posted, horizon, scanned, cursorVars, syncVars, known, waited, fails>>

\* Slack does not say: the next event asks again.
WorkspaceUnknown ==
    /\ asking # {}
    /\ asking' = {}
    /\ UNCHANGED <<posted, horizon, scanned, cursorVars, syncVars, known, waited, fails>>

\* The answer is written together with the cursor that was read before it,
\* and undoes a sync that has saved in between; the turns begin anew.
LearnWorkspace ==
    /\ \E old \in asking :
          /\ mark' = old.mark /\ gaps' = old.gaps /\ resume' = old.resume
          /\ waited' = IF old = [mark |-> mark, gaps |-> gaps, resume |-> resume]
                       THEN waited ELSE [c \in Conversations |-> 0]
    /\ known' = TRUE
    /\ asking' = {}
    /\ UNCHANGED <<posted, horizon, scanned, syncVars, fails>>

----------------------------------------------------------------------------
(* The workspace                                                           *)

Posts == Cardinality(UNION {{c} \X (1 .. Len(posted[c])) : c \in Conversations})

Post(c, kind) ==
    /\ Posts < MaxPosts
    /\ posted' = [posted EXCEPT ![c] = Append(@, kind)]
    /\ UNCHANGED <<horizon, scanned, cursorVars, syncVars, teamVars, waited, fails>>

\* Messages of a conversation without a watermark grow older than the seven
\* days its first scan reaches back; a sync is short against them.
AgeOut(c) ==
    /\ pc = "idle"
    /\ mark[c] = NoMark
    /\ horizon[c] < Len(posted[c])
    /\ horizon' = [horizon EXCEPT ![c] = @ + 1]
    /\ UNCHANGED <<posted, scanned, cursorVars, syncVars, teamVars, waited, fails>>

----------------------------------------------------------------------------

Sync == StartSync \/ ReadNew \/ ReadGap \/ ConversationDone \/ Save

Next ==
    \/ Sync
    \/ GapFails
    \/ SkipConversation
    \/ SyncLost
    \/ AskWorkspace
    \/ WorkspaceUnknown
    \/ LearnWorkspace
    \/ \E c \in Conversations, kind \in Kinds : Post(c, kind)
    \/ \E c \in Conversations : AgeOut(c)

\* The operator's cron goes on requesting syncs, and a sync that is running
\* goes on.
Spec == Init /\ [][Next]_vars /\ WF_vars(Sync)

----------------------------------------------------------------------------
(* Properties                                                              *)

InGap(c, m) ==
    \E k \in 1 .. Len(gaps[c]) : gaps[c][k][1] < m /\ m < gaps[c][k][2]

\* The saved cursor has not moved past m.
Owed(c, m) == m > Oldest(c, mark) \/ InGap(c, m)

IsOwed(c, m) == m \in 1 .. Len(posted[c]) /\ posted[c][m] = "human" /\ Owed(c, m)

Messages(P(_, _)) ==
    UNION {{c} \X {m \in Human(c) : P(c, m)} : c \in Conversations}

\* The cursor covers the conversations: a human message leaves the cursor's
\* debt only once it was scanned, through cuts, backfill, failed fetches, lost
\* syncs and syncs that an event's answer undoes (refines ScanCoverage).
Coverage == INSTANCE ScanCoverage WITH
    Streams   <- Conversations,
    Positions <- 1 .. MaxPosts,
    Rewinds   <- ~Discovery,
    posted    <- Messages(LAMBDA c, m : TRUE),
    scanned   <- scanned,
    owed      <- Messages(Owed),
    tracked   <- {c \in Conversations : mark[c] # NoMark}

CoverageSpec == Coverage!Spec

\* Through the bot's token the gaps of a conversation are disjoint, ascending
\* and behind its watermark, so no message is scanned for two of them and the
\* list is no longer than the messages it stands for.
GapsInOrder ==
    \A c \in Conversations :
        LET g == gaps[c]
        IN  /\ \A k \in 1 .. Len(g) : g[k][1] < g[k][2] /\ mark[c] # NoMark /\ g[k][2] <= mark[c]
            /\ \A k \in 1 .. Len(g) - 1 : g[k][2] <= g[k + 1][1]

\* A watermark never moves back and is never forgotten.
MarksAdvance ==
    [][\A c \in Conversations :
          mark[c] # NoMark => mark'[c] # NoMark /\ mark'[c] >= mark[c]]_mark

\* Every conversation has a turn in any Len(Order) syncs in a row, however
\* busy the others are: a sync starts where the last one's budget ended
\* (_rotate and resume_at).
FairTurns == \A c \in Conversations : waited[c] < Len(Order)

\* Every message is scanned in the end, unless it grew too old for the first
\* scan of its conversation: backfill and rotation starve nothing.
EventuallyScanned ==
    \A x \in Conversations \X (1 .. MaxPosts) :
        []<>(x \in scanned \/ ~IsOwed(x[1], x[2]))

\* What _slack_scan_conversation says (saas_connectors.py:586-590) of a busy
\* conversation: the cursor moves past what was scanned instead of scanning
\* the newest page again forever.
CursorMovesOn ==
    \A x \in Conversations \X (1 .. MaxPosts) :
        (x \in scanned /\ mark[x[1]] # NoMark) ~> ~IsOwed(x[1], x[2])
============================================================================
