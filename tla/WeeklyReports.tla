---------------------------- MODULE WeeklyReports ---------------------------
(***************************************************************************)
(* The weekly report of one organisation (alerts.py run_weekly_reports,    *)
(* _retry_weekly).  A worker first sends a delivered report again to the   *)
(* admins it missed, then claims the next week if it is due, mails every   *)
(* admin, and saves whom it missed; when it missed them all it gives the   *)
(* week back.  The list of the missed is read, worked on for as long as    *)
(* mails take, and written, by workers that do not see one another.        *)
(* That windows follow on one another is in AlertWindows.                  *)
(***************************************************************************)
EXTENDS Integers

CONSTANTS
    Workers,
    People,       \* the active admins
    Week,         \* the length of a window
    Retries,      \* _WEEKLY_RETRIES
    MaxReports,   \* bound: weeks claimed
    MaxClock,     \* bound
    MaxFaults     \* bound: workers that die

WeeksAssumption ==
    /\ {Week, Retries} \subseteq Nat \ {0}
    /\ {MaxReports, MaxClock, MaxFaults} \subseteq Nat

VARIABLES
    today,      \* the clock
    sent,       \* weekly_report_last
    missed,     \* weekly_report_retry
    mailer,     \* what each worker is doing
    reports,    \* how many weeks were claimed: the report of the n-th is n
    mailed,     \* history: the reports of which a mail went out at the first try
    got,        \* history: got[n][a]: how many mails of report n reached a, up to 2
    tried,      \* history: tried[n][a]: how many were tried, up to Retries + 1
    lost,       \* history: <<report, admin>> that nobody has to mail any more
    shared,     \* history: reports whose retry two workers loaded, or one died in
    faults      \* history: what MaxFaults counts

weeklyVars == <<today, sent, missed, mailer, reports, mailed, got, tried, lost, shared, faults>>

Reports   == 1 .. MaxReports
Never     == -Week
NoMissed  == [report |-> 0, to |-> {}, tries |-> 0]
Missed    == [report : 0 .. MaxReports, to : SUBSET People, tries : 0 .. Retries]
Idle      == [at |-> "idle", now |-> 0, last |-> Never, report |-> 0,
              loaded |-> NoMissed, still |-> {}]

TypeOK ==
    /\ today \in 0 .. MaxClock /\ sent \in {Never} \cup 0 .. MaxClock /\ missed \in Missed
    /\ mailer \in [Workers -> [at : {"idle", "retry", "save", "claim", "mail", "settle"},
                               now : 0 .. MaxClock, last : {Never} \cup 0 .. MaxClock,
                               report : 0 .. MaxReports, loaded : Missed,
                               still : SUBSET People]]
    /\ reports \in 0 .. MaxReports /\ {mailed, shared} \subseteq SUBSET Reports
    /\ got \in [Reports -> [People -> 0 .. 2]]
    /\ tried \in [Reports -> [People -> 0 .. Retries + 1]]
    /\ lost \subseteq Reports \X People /\ faults \in 0 .. MaxFaults

Init ==
    /\ today = 0 /\ sent = Never /\ missed = NoMissed
    /\ mailer = [w \in Workers |-> Idle]
    /\ reports = 0 /\ mailed = {} /\ lost = {} /\ shared = {} /\ faults = 0
    /\ got = [n \in Reports |-> [a \in People |-> 0]]
    /\ tried = [n \in Reports |-> [a \in People |-> 0]]

Tick ==
    /\ today < MaxClock /\ today' = today + 1
    /\ UNCHANGED <<sent, missed, mailer, reports, mailed, got, tried, lost, shared, faults>>

\* A tick of the loop reads the clock and loads the organisation.
Begin(w) ==
    /\ mailer[w].at = "idle"
    /\ mailer' = [mailer EXCEPT ![w] =
           [@ EXCEPT !.at = IF missed.to = {} THEN "claim" ELSE "retry",
                     !.now = today, !.last = sent, !.loaded = missed]]
    /\ shared' = IF \E v \in Workers : /\ mailer[v].at \in {"retry", "save"}
                                       /\ mailer[v].loaded.report = missed.report
                 THEN shared \cup {missed.report} ELSE shared
    /\ UNCHANGED <<today, sent, missed, reports, mailed, got, tried, lost, faults>>

\* Mails to some admins of whom those in failed get none.
Mails(n, to, failed) ==
    /\ got' = [got EXCEPT ![n] = [a \in People |->
                  IF a \in to \ failed /\ @[a] < 2 THEN @[a] + 1 ELSE @[a]]]
    /\ tried' = [tried EXCEPT ![n] = [a \in People |->
                  IF a \in to /\ @[a] <= Retries THEN @[a] + 1 ELSE @[a]]]

Resend(w) ==
    LET old == mailer[w].loaded IN
    /\ mailer[w].at = "retry"
    /\ \E failed \in SUBSET old.to :
          /\ Mails(old.report, old.to, failed)
          /\ mailer' = [mailer EXCEPT ![w].at = "save", ![w].still = failed]
    /\ UNCHANGED <<today, sent, missed, reports, mailed, lost, shared, faults>>

\* Mutant of StillMissed: they are given up one run too early.
StillMissedEarly(old, still) ==
    IF still # {} /\ old.tries + 2 < Retries
    THEN [old EXCEPT !.to = still, !.tries = @ + 1] ELSE NoMissed

StillMissed(old, still) ==
    IF still # {} /\ old.tries + 1 < Retries
    THEN [old EXCEPT !.to = still, !.tries = @ + 1] ELSE NoMissed

\* The list is written over whatever is there, and the row is read again.
SaveRetry(w) ==
    LET old == mailer[w].loaded IN
    /\ mailer[w].at = "save"
    /\ missed' = StillMissed(old, mailer[w].still)
    /\ lost' = IF missed.report # old.report
               THEN lost \cup ({missed.report} \X missed.to) ELSE lost
    /\ mailer' = [mailer EXCEPT ![w].at = "claim", ![w].last = sent, ![w].still = {}]
    /\ UNCHANGED <<today, sent, reports, mailed, got, tried, shared, faults>>

\* The conditional update of a week that is due.
Claim(w) ==
    /\ mailer[w].at = "claim"
    /\ IF mailer[w].now - mailer[w].last >= Week /\ sent = mailer[w].last
       THEN /\ reports < MaxReports
            /\ reports' = reports + 1 /\ sent' = mailer[w].now
            /\ mailer' = [mailer EXCEPT ![w].at = "mail", ![w].report = reports']
       ELSE mailer' = [mailer EXCEPT ![w] = Idle] /\ UNCHANGED <<reports, sent>>
    /\ UNCHANGED <<today, missed, mailed, got, tried, lost, shared, faults>>

\* The row is read again for the text, then every admin is mailed.
MailAll(w) ==
    /\ mailer[w].at = "mail"
    /\ \E failed \in SUBSET People :
          /\ Mails(mailer[w].report, People, failed)
          /\ mailer' = [mailer EXCEPT
                 ![w].at = "settle", ![w].loaded = missed, ![w].still = failed]
    /\ UNCHANGED <<today, sent, missed, reports, mailed, lost, shared, faults>>

\* Somebody was mailed: the others are saved, over an older report's list.
Settle(w) ==
    LET me == mailer[w]
        new == IF me.still = {} THEN NoMissed
               ELSE [report |-> me.report, to |-> me.still, tries |-> 0]
    IN
    /\ me.at = "settle" /\ me.still # People
    /\ missed' = IF new = me.loaded THEN missed ELSE new
    /\ lost' = IF missed' # missed THEN lost \cup ({missed.report} \X missed.to) ELSE lost
    /\ mailed' = mailed \cup {me.report}
    /\ mailer' = [mailer EXCEPT ![w] = Idle]
    /\ UNCHANGED <<today, sent, reports, got, tried, shared, faults>>

\* Every mail failed: _release_claim, if the claim is still this one.
GiveBack(w) ==
    /\ mailer[w].at = "settle" /\ mailer[w].still = People
    /\ sent' = IF sent = mailer[w].now THEN mailer[w].last ELSE sent
    /\ mailer' = [mailer EXCEPT ![w] = Idle]
    /\ UNCHANGED <<today, missed, reports, mailed, got, tried, lost, shared, faults>>

\* The process dies; mails it sent are not on record.
Die(w) ==
    /\ mailer[w].at # "idle" /\ faults < MaxFaults
    /\ shared' = IF mailer[w].at \in {"retry", "save"}
                 THEN shared \cup {mailer[w].loaded.report} ELSE shared
    /\ mailer' = [mailer EXCEPT ![w] = Idle]
    /\ faults' = faults + 1
    /\ UNCHANGED <<today, sent, missed, reports, mailed, got, tried, lost>>

Next ==
    \/ Tick
    \/ \E w \in Workers :
          \/ Begin(w) \/ Resend(w) \/ SaveRetry(w)
          \/ Claim(w) \/ MailAll(w) \/ Settle(w) \/ GiveBack(w) \/ Die(w)

Spec == Init /\ [][Next]_weeklyVars

-----------------------------------------------------------------------------
(***************************************************************************)
(* An admin whom a delivered report missed has it, or is on the list, or   *)
(* was tried as often as the code promises ("the admins it missed still    *)
(* get it on a later run", run_weekly_reports), although two workers write *)
(* the list at once.  Excused are those whose list a newer report          *)
(* replaced, and those whose list a slow retry of another report wrote     *)
(* over.                                                                   *)
(***************************************************************************)
MissedAreRetried ==
    \A n \in mailed, a \in People :
        \/ got[n][a] > 0
        \/ missed.report = n /\ a \in missed.to
        \/ tried[n][a] > Retries
        \/ <<n, a>> \in lost

(***************************************************************************)
(* Nobody gets one report twice, unless two workers send it again at once  *)
(* or one dies before it writes whom it reached (_retry_weekly).           *)
(***************************************************************************)
MailedOnce == \A n \in Reports \ shared, a \in People : got[n][a] <= 1

=============================================================================
