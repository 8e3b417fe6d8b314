---------------------------- MODULE MCBackground ----------------------------
(***************************************************************************)
(* The scheduled scans that keep a watermark (GitHub's commits and files,  *)
(* and the sources of MarkScans), the alerts that a background loop sends, *)
(* the correlation of findings, and a SIEM that pulls them, each on a      *)
(* small instance.  They share no state: part says which of them a         *)
(* behaviour is of.  What is counted as a fault is kept in one variable.   *)
(***************************************************************************)
EXTENDS Naturals, FiniteSets, Sequences

CONSTANTS
    NCommits, CommitDate, Huge, Tries, CommitBudget, ListMax,     \* GithubCommits
    NPaths, Batch, FileBudget, MaxEdits,      \* GithubTree
    NStreams, MaxItems, ItemDate, Answers, MailPage, ItemBudget, MaxAge,   \* MarkScans
    NFindings, ExportPage, MaxHours, MaxSeen, \* ExportPolls
    Workers, Findings, Interval, MaxClock,    \* AlertWindows
    Beats, MaxSilences,                       \* FleetAlerts; its sweeps are Workers
    StagesOf, Limit, MaxRows, MaxActs,        \* SessionChain
    MaxFaults

VARIABLES
    part, faults,
    landed, commitCursor, commitSync, read, missed,
    tree, done, treeCursor, pass, old, removed, seen, edits,
    source, count, horizon, marks, sync, handled, aged, unpulled,
    clock, last, event, worker, told, delivered, excused,
    silent, marked, silence, pages, failed, raced, sweep, beat,
    window, stored, dismissed, request, rows, revived, crowded, overlapped, acts,
    export, hour, latest, stamp, mark, pulled, behind, arrivals

commitVars == <<landed, commitCursor, commitSync, read, missed>>
treeVars   == <<tree, done, treeCursor, pass, old, removed, seen, edits>>
markVars   == <<source, count, horizon, marks, sync, handled, aged, unpulled>>
digestVars == <<clock, last, event, worker, told, delivered, excused>>
fleetVars  == <<silent, marked, silence, pages, failed, raced, sweep, beat>>
chainVars  == <<window, stored, dismissed, request, rows, revived, crowded, overlapped, acts>>
pollVars   == <<export, hour, latest, stamp, mark, pulled, behind, arrivals>>
vars == <<part, faults, commitVars, treeVars, markVars, digestVars, fleetVars, chainVars, pollVars>>

Commits == INSTANCE GithubCommits WITH
    Date <- CommitDate, Budget <- CommitBudget,
    cursor <- commitCursor, sync <- commitSync, handled <- read

Files == INSTANCE GithubTree WITH Budget <- FileBudget, cursor <- treeCursor

Marks == INSTANCE MarkScans WITH Date <- ItemDate, Page <- MailPage, Budget <- ItemBudget

Digests == INSTANCE AlertWindows WITH Events <- Findings

Fleet == INSTANCE FleetAlerts WITH Sweeps <- Workers

Chains == INSTANCE SessionChain

Exports == INSTANCE ExportPolls WITH
    Page <- ExportPage, MaxClock <- MaxHours, clock <- hour, last <- latest,
    got <- pulled, late <- behind, events <- arrivals

\* Dates that tie.
FourCommits == <<1, 2, 2, 3>>
ThreeItems  == <<1, 2, 2>>

\* A thread whose post is edited after the reply, and one with two replies.
TwoThreads == <<<<{2}, {}, {2}>>, <<{2, 3}, {}, {}>>>>

\* Three findings of an actor, the second of them where the payoff begins.
ThreeFindings == <<{"recon"}, {"collection"}, {"exfiltration"}>>

ASSUME Assumptions ==
    /\ Commits!DateAssumption /\ Commits!BudgetAssumption /\ Files!TreeAssumption
    /\ Marks!MarksAssumption /\ Digests!WindowsAssumption /\ Fleet!SilencesAssumption
    /\ Chains!ChainAssumption /\ Exports!PageAssumption

Init ==
    /\ part \in {"commits", "files", "marks", "digests", "fleet", "chains", "exports"}
    /\ Commits!Init /\ Files!Init /\ Marks!Init /\ Digests!Init /\ Fleet!Init /\ Chains!Init
    /\ Exports!Init
    /\ part # "files" => tree = {1}
    /\ part # "marks" => source = "drive"
    /\ part # "exports" => export = "findings"

Next ==
    \/ part = "commits" /\ Commits!Next
       /\ UNCHANGED <<part, treeVars, markVars, digestVars, fleetVars, chainVars, pollVars>>
    \/ part = "files" /\ Files!Next
       /\ UNCHANGED <<part, commitVars, markVars, digestVars, fleetVars, chainVars, pollVars>>
    \/ part = "marks" /\ Marks!Next
       /\ UNCHANGED <<part, commitVars, treeVars, digestVars, fleetVars, chainVars, pollVars>>
    \/ part = "digests" /\ Digests!Next
       /\ UNCHANGED <<part, commitVars, treeVars, markVars, fleetVars, chainVars, pollVars>>
    \/ part = "fleet" /\ Fleet!Next
       /\ UNCHANGED <<part, faults, commitVars, treeVars, markVars, digestVars, chainVars, pollVars>>
    \/ part = "chains" /\ Chains!Next
       /\ UNCHANGED <<part, faults, commitVars, treeVars, markVars, digestVars, fleetVars, pollVars>>
    \/ part = "exports" /\ Exports!Next
       /\ UNCHANGED <<part, faults, commitVars, treeVars, markVars, digestVars, fleetVars, chainVars>>

\* A sync that is due is begun and goes on to its end (ConnectorSync); a poller asks again.
ScheduledStep ==
    \/ part = "commits" /\ Commits!SyncStep
       /\ UNCHANGED <<part, treeVars, markVars, digestVars, fleetVars, chainVars, pollVars>>
    \/ part = "marks" /\ Marks!SyncStep
       /\ UNCHANGED <<part, commitVars, treeVars, digestVars, fleetVars, chainVars, pollVars>>
    \/ part = "exports" /\ Exports!Poll
       /\ UNCHANGED <<part, faults, commitVars, treeVars, markVars, digestVars, fleetVars, chainVars>>

Spec == Init /\ [][Next]_vars /\ WF_vars(ScheduledStep)

-----------------------------------------------------------------------------
(***************************************************************************)
(* The variables of every part keep their types; a retry count never comes *)
(* to the number of tries (GithubCommits).                                 *)
(***************************************************************************)
TypeOK ==
    /\ Commits!TypeOK /\ Files!TypeOK /\ Marks!TypeOK
    /\ Digests!TypeOK /\ Fleet!TypeOK /\ Chains!TypeOK /\ Exports!TypeOK

(***************************************************************************)
(* A cursor passes only what was read: the watermark of a branch and the   *)
(* tree that counts as done, but for what removals cost (github_secrets.py *)
(* _commits, _tree), every mark of a source that keeps one                 *)
(* (saas_connectors.py), and that of a SIEM which pulls findings (main.py  *)
(* export_findings).                                                       *)
(***************************************************************************)
OnlyReadIsPassed ==
    /\ Commits!CommitsRead /\ Files!FilesScanned /\ Marks!NothingPassed
    /\ Exports!NothingSkipped

\* A digest window that counts as sent was told, and a silence is paged once (alerts.py).
AlertsArrive == Digests!DigestsArrive /\ Fleet!PagedOnce

\* A chain in the window is on record, in one row (session_correlation.py).
ChainRecorded == Chains!ChainRecorded

(***************************************************************************)
(* Every commit, every item and every finding is read in the end, apart    *)
(* from those behind a commit, a stream or a page that is stuck            *)
(* (github_secrets.py, saas_connectors.py, session_audit.py).              *)
(***************************************************************************)
CatchesUp == []<>(Commits!AllRead /\ Marks!AllRead /\ Exports!AllPulled)

=============================================================================
