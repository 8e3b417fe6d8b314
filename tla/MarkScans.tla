----------------------------- MODULE MarkScans ------------------------------
(***************************************************************************)
(* The content scans that keep one watermark per stream (saas_connectors): *)
(* the files of Google Drive, the records of Salesforce (not the files     *)
(* attached to them), the channels and chats of Teams, the sent mail of    *)
(* Outlook and Gmail mailboxes.  A sync goes through the streams in order  *)
(* under one budget and saves all the marks at its end.  What it does with *)
(* one stream depends on the source:                                       *)
(*                                                                         *)
(*   Drive, Salesforce   oldest first; the mark is that of the last item   *)
(*                       come to, and the next sync asks for later ones    *)
(*   Teams               everything or nothing: a stream that the budget   *)
(*                       cuts keeps its link.  A channel lists its posts   *)
(*                       alone; the replies in a thread are asked for when *)
(*                       its post is scanned, and the link moves whether   *)
(*                       or not they came                                  *)
(*   Outlook, Gmail      one page, of the oldest or the newest; the mark   *)
(*                       moves to the newest mail scanned, and stays where *)
(*                       it is when there are more pages or the budget is  *)
(*                       spent                                             *)
(*                                                                         *)
(* An item that cannot be fetched or read is counted as skipped and is not *)
(* told from a scanned one here, except that it costs nothing and that,    *)
(* when it is a post, its thread is left alone.  What a sync never lists   *)
(* is no stream here: teams, chat users and mailboxes beyond the first     *)
(* hundred, fifty and two hundred (_MAX_TEAMS_PER_SYNC, _MAX_CHAT_USERS,   *)
(* _MAX_MAIL_USERS_PER_SYNC), which no sync reads.                         *)
(***************************************************************************)
EXTENDS Integers, FiniteSets, FiniteSetsExt

CONSTANTS
    NStreams,    \* streams, in the order the platform lists them
    MaxItems,    \* bound: items of one stream, numbered as they appear
    Date,        \* Date[n]: when item n appeared, equal for some
    Answers,     \* Answers[s][n]: the replies in the thread that post n of s begins;
                 \* a post that is edited is a new item, with the thread of the old one
    Page,        \* _MAX_MESSAGES_PER_MAILBOX
    Budget,      \* the files, records or messages of one sync
    MaxAge,      \* bound: how far the horizon moves
    MaxFaults    \* bound: syncs lost, and mailboxes refused

Streams == 1 .. NStreams
Items   == 1 .. MaxItems
Sources == {"drive", "salesforce", "teams", "outlook", "gmail"}

MarksAssumption ==
    /\ NStreams \in Nat \ {0} /\ MaxItems \in Nat /\ MaxAge \in Nat /\ MaxFaults \in Nat
    /\ Page \in Nat \ {0} /\ Budget \in Nat /\ Budget >= Page
    /\ Date \in [Items -> Nat \ {0}]
    /\ \A m, n \in Items : m < n => Date[m] <= Date[n]
    /\ Answers \in [Streams -> [Items -> SUBSET Items]]
    /\ \A s \in Streams, n \in Items : \A m \in Answers[s][n] : Answers[s][m] = {}

VARIABLES
    source,     \* the platform
    count,      \* count[s]: the items of stream s
    horizon,    \* what a first scan looks back to: items no later are too old
    marks,      \* the saved watermarks
    sync,       \* the sync in progress
    handled,    \* history: <<stream, item>> scanned or counted as skipped
    aged,       \* history: items that grew too old before their stream had a mark
    unpulled,   \* history: replies that a link was moved past and no fetch had given
    faults      \* history: what MaxFaults counts

markVars == <<source, count, horizon, marks, sync, handled, aged, unpulled, faults>>

NoMark   == -1
LastDate == Max({Date[n] : n \in Items} \cup {MaxAge, MaxItems})
Marks    == [Streams -> NoMark .. LastDate]
Idle     == [at |-> 0, spent |-> 0, from |-> 0, marks |-> [s \in Streams |-> NoMark]]

TypeOK ==
    /\ source \in Sources
    /\ count \in [Streams -> 0 .. MaxItems]
    /\ horizon \in 0 .. MaxAge
    /\ marks \in Marks
    /\ sync \in [at : 0 .. NStreams + 1, spent : 0 .. Budget, from : 0 .. MaxAge, marks : Marks]
    /\ \A known \in {handled, aged, unpulled} : known \subseteq Streams \X Items
    /\ faults \in 0 .. MaxFaults

Init ==
    /\ source \in Sources
    /\ count = [s \in Streams |-> 0]
    /\ horizon = 0
    /\ marks = [s \in Streams |-> NoMark]
    /\ sync = Idle
    /\ handled = {} /\ aged = {} /\ unpulled = {} /\ faults = 0

\* Where item n stands for the source: Teams has links, the others dates.
At(n) == IF source = "teams" THEN n ELSE Date[n]

\* Drive is one stream.
Used == IF source = "drive" THEN {1} ELSE Streams

\* A new item, of the present and so within the reach of a first scan.
Appear(s) ==
    /\ s \in Used /\ count[s] < MaxItems /\ Date[count[s] + 1] > horizon
    /\ count' = [count EXCEPT ![s] = @ + 1]
    /\ UNCHANGED <<source, horizon, marks, sync, handled, aged, unpulled, faults>>

\* Time passes, and the items of streams without a mark grow too old.
Age ==
    /\ horizon < MaxAge
    /\ horizon' = horizon + 1
    /\ aged' = aged \cup {x \in Streams \X Items :
           /\ marks[x[1]] = NoMark
           /\ x[2] <= count[x[1]] /\ Date[x[2]] <= horizon' /\ x \notin handled}
    /\ UNCHANGED <<source, count, marks, sync, handled, unpulled, faults>>

StartSync ==
    /\ sync.at = 0
    /\ sync' = [at |-> 1, spent |-> 0, from |-> horizon, marks |-> marks]
    /\ UNCHANGED <<source, count, horizon, marks, handled, aged, unpulled, faults>>

InLoop == sync.at \in Used /\ sync.spent < Budget

After(s) == IF sync.marks[s] = NoMark THEN sync.from ELSE sync.marks[s]

\* The replies that there are in the threads of some posts; only Teams has threads.
Replies(s, posts) ==
    {n \in 1 .. count[s] : source = "teams" /\ \E m \in posts : n \in Answers[s][m]}

\* A channel's delta lists posts, never the replies to them.
Listed(s) ==
    {n \in 1 .. count[s] \ Replies(s, Items) :
        IF sync.marks[s] = NoMark THEN Date[n] > sync.from ELSE At(n) > sync.marks[s]}

\* The items of the one page that is asked for.
Paged(s) ==
    LET listed == Listed(s)
    IN  CASE source = "outlook" -> {n \in listed : Cardinality({m \in listed : m < n}) < Page}
          [] source = "gmail"   -> {n \in listed : Cardinality({m \in listed : m > n}) < Page}
          [] OTHER              -> listed

\* What may be had of a stream when the items in skipped are: the replies to a post that
\* counts, as many as the cap of a thread and fetches that fail leave of them.
Pages(s, skipped) == {Paged(s) \cup pulled : pulled \in SUBSET Replies(s, Paged(s) \ skipped)}

\* Gmail is read from the newest on, Teams in no order that one can rely on.
Earlier(m, n) == IF source = "gmail" THEN m > n ELSE m < n

\* The items of a page come to before the budget is spent, when those in skipped
\* cost nothing; a reply is come to after its post.
ComeTo(s, page, skipped) ==
    LET left == Budget - sync.spent
        Ends(came) == Cardinality(came \ skipped) <= left
                      /\ (came # page => Cardinality(came \ skipped) = left)
    IN  IF source = "teams"
        THEN {came \in SUBSET page : Ends(came) /\ came \subseteq Paged(s) \cup Replies(s, came)}
        ELSE {{n \in page : Cardinality({m \in page \ skipped : Earlier(m, n)}) < left}}

\* Mutant of Over: only the end of the budget holds the mark back.
OverBudgetOnly(s, page, came) == came # page

\* Mutant of Over: the replies that the budget cuts off do not hold the link back.
OverPostsOnly(s, page, came) == ~(Listed(s) \subseteq came)

\* There is more than was read.
Over(s, page, came) == came # page \cup Listed(s)

Newest(set) == Max({At(n) : n \in set})

MarkAfter(s, page, came, scanned) ==
    CASE source \in {"drive", "salesforce"} ->
             IF came = {} THEN After(s) ELSE Newest(came)
      [] source = "teams" -> IF Over(s, page, came) THEN sync.marks[s] ELSE count[s]
      [] source \in {"outlook", "gmail"} ->
             IF Over(s, page, came) \/ scanned = {} THEN sync.marks[s] ELSE Newest(scanned)

\* The replies that a link is moved past: those to older posts or to posts that do not
\* count, those beyond the cap, and those of a fetch that failed.
LeftBehind(s, page, came) ==
    IF Over(s, page, came) THEN {} ELSE Replies(s, Items) \ page

ReadStream ==
    /\ InLoop
    /\ LET s == sync.at IN
       \E skipped \in SUBSET (Paged(s) \cup Replies(s, Paged(s))) :
       \E page \in Pages(s, skipped) :
       \E came \in ComeTo(s, page, skipped) :
          LET scanned == came \ skipped
          IN  /\ skipped \subseteq came
              /\ handled' = handled \cup {<<s, n>> : n \in came}
              /\ unpulled' = unpulled \cup {<<s, n>> : n \in LeftBehind(s, page, came)}
              /\ sync' = [sync EXCEPT
                     !.at = @ + 1, !.spent = @ + Cardinality(scanned),
                     !.marks[s] = MarkAfter(s, page, came, scanned)]
    /\ UNCHANGED <<source, count, horizon, marks, aged, faults>>

\* A mailbox or a person's chats are refused: it goes on with the next.
SkipStream ==
    /\ InLoop /\ source \in {"teams", "outlook", "gmail"} /\ faults < MaxFaults
    /\ sync' = [sync EXCEPT !.at = @ + 1]
    /\ faults' = faults + 1
    /\ UNCHANGED <<source, count, horizon, marks, handled, aged, unpulled>>

\* All the marks are written at the end.
SaveSync ==
    /\ sync.at # 0 /\ ~InLoop
    /\ marks' = sync.marks
    /\ sync' = Idle
    /\ UNCHANGED <<source, count, horizon, handled, aged, unpulled, faults>>

\* The platform fails, the process dies or the claim was lost.
LoseSync ==
    /\ sync.at # 0 /\ faults < MaxFaults
    /\ sync' = Idle
    /\ faults' = faults + 1
    /\ UNCHANGED <<source, count, horizon, marks, handled, aged, unpulled>>

SyncStep == StartSync \/ ReadStream \/ SaveSync

Next ==
    \/ \E s \in Streams : Appear(s)
    \/ Age \/ SyncStep \/ SkipStream \/ LoseSync

\* The schedule, or an admin, syncs the connector again and again.
Spec == Init /\ [][Next]_markVars /\ WF_markVars(SyncStep)

-----------------------------------------------------------------------------
Present(x) == x[2] <= count[x[1]]

\* The item has the date of another one that was come to: the mark, which is a
\* date, stands for both.
Tied(x) ==
    /\ source # "teams"
    /\ \E y \in handled : y[1] = x[1] /\ y[2] # x[2] /\ Date[y[2]] = Date[x[2]]

(***************************************************************************)
(* No mark is past an item that was not read: "the cursor only ever moves  *)
(* past files actually scanned" (scan_gdrive_files), mail "only moves past *)
(* mail actually scanned" (scan_gmail_messages), "keep the OLD delta link: *)
(* rescan, don't skip" (scan_teams_messages), whatever the order of the    *)
(* page, the budget, the items that fail and the syncs that are lost.      *)
(* There are two exceptions.  Of two items of one date, the mark that the  *)
(* one leaves hides the other.  And a link of Teams does pass replies that *)
(* no fetch gave: a fetch that fails ends the thread and nothing else, a   *)
(* thread is cut at _MAX_REPLIES_PER_ROOT, and a reply to a post that does *)
(* not come again is not asked for (docs/teams-scanning.md).  A reply that *)
(* was fetched and that the budget cut off holds the link back.            *)
(***************************************************************************)
NothingPassed ==
    \A x \in Streams \X Items :
        Present(x) /\ marks[x[1]] # NoMark /\ At(x[2]) <= marks[x[1]]
            => x \in handled \cup aged \cup unpulled \/ Tied(x)

\* What a stream has to give, when all its replies come.
Unread(s) ==
    LET posts == {n \in 1 .. count[s] \ Replies(s, Items) : At(n) > marks[s]}
    IN  posts \cup Replies(s, posts)

\* A mailbox with more than a page of unread mail, or a Teams stream with more
\* than the budget: the mark stays, so every sync reads the same part of it.
Stuck(s) ==
    \/ source \in {"outlook", "gmail"} /\ Cardinality(Unread(s)) > Page
    \/ source = "teams" /\ Cardinality(Unread(s)) > Budget

AllRead ==
    \/ \A x \in Streams \X Items :
          Present(x) => x \in handled \cup aged \cup unpulled \/ Tied(x)
    \/ \E s \in Streams : Stuck(s)

(***************************************************************************)
(* Every item is read in the end, although the streams take no turns, as   *)
(* long as no stream is stuck: a mailbox with a hundred unread mails never *)
(* moves on again, and takes its page out of the budget of every sync      *)
(* (scan_outlook_messages, scan_gmail_messages, scan_teams_messages).  The *)
(* replies of Teams that a link has passed are the exception, as they are  *)
(* in NothingPassed.  Items and failures are bounded, so that this is      *)
(* []<>; fetches of replies may fail for ever.                             *)
(***************************************************************************)
CatchesUp == []<>AllRead

=============================================================================
