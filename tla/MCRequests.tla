----------------------------- MODULE MCRequests -----------------------------
(***************************************************************************)
(* The protocols that requests run, on small instances: the last admin, a  *)
(* claimed domain, an OAuth grant, guesses at a sign-in, an account's      *)
(* sessions, GitHub's deliveries, the archive of what was analysed, the    *)
(* turns a gateway forwards and the answers it streams back, the prompts   *)
(* an inference hook is asked about, the messages a browser extension      *)
(* holds, a sensor's failed scans, Stripe's events, an organisation's data *)
(* key, Graph's change subscriptions, a person's capture keys, the devices *)
(* that enrol, the analysis of one item, an account's second factor, and   *)
(* the mails of a weekly report.                                           *)
(* They share the database the deployment uses and no other state, so a    *)
(* behaviour is one of one of them: part says of which.                    *)
(***************************************************************************)
EXTENDS Integers, FiniteSets, Sequences, TLC

CONSTANTS
    People, Removals,                                           \* AdminGuard
    Companies, MaxTokens,                                       \* DomainCapture
    Codes, NoCode, NPairs, Clients,                             \* OAuthGrant
    CodeTTL, AccessTTL, RefreshTTL, KeepRevoked, MaxTime,
    Guessers, MaxFails, MaxRows,                                \* SignInThrottle
    SignIns, Endings, MaxSessions,                              \* Sessions
    Deliveries, Pool, InflightTTL, SeenTTL,                     \* PushDeliveries
    MaxClock, MaxQueue, MaxDeaths,
    Items, OrgOf, FlushAt, DailyCap, Slots, MaxDay,             \* EventArchive
    Talks, Verdict, Conversations, Unreadable,                  \* GatewayTurn; its turns
    HistoryBudget, MaxContent, SeenMax, MaxTurns, MaxChanges,
    Flows, MaxClaims, MaxFailures, MaxKills,                    \* ScanFailures
    Webhooks, NSubs, MaxEvents, MaxDeliveries, MaxFaults,       \* Billing; its handlers
    KeyUses,                                                    \* TenantKeys
    Life, RenewAhead, MaxSubs, MaxAge, MaxMisses,               \* GraphSubscriptions
    Hooks, Transcripts, RecallTTL, DenialTTL, MaxPrompts,       \* HookVerdicts; its handlers
    Calls, Finding, Credentials, MaxReasons,                    \* BrowserSends; its sends
    MaxSends, MaxUnchecked,
    Connects, NAddresses, MaxKeys, MaxRequests,                 \* CaptureKeys
    Enrollers, MaxUses, Quota, MaxMints,                        \* Enrolment
    Factors, NSecrets, NBatches, NCodes, MaxStep,               \* SecondFactor
    Mailers, Week, Retries, MaxReports, MaxDays, MaxOutages     \* WeeklyReports

Parts == {"admins", "domain", "grant", "throttle", "sessions", "pushes", "archive", "tokens",
          "turns", "failures", "billing", "keys", "subscriptions", "hooks",
          "browser", "capture", "enrolment", "verdicts", "factor", "weekly"}

VARIABLES
    part, database,
    admin, active, removal, stale,
    claim, drawn, published, console, takeover, proven, chosen, crossed,
    clock, code, pairs, pair, handler, consented, ended,
    step, own, refused, wrongPasswords, wrongFactors,
    version, enabled, sessions, signin, ending, raced,
    now, ignored, queue, scan, readUntil, outlived, again, deaths,
    day, thread, today, spent, buffer, detached, jobs, others, free,
    stored, capped, dropped, lost, phase, late, killed, admitted, straggled,
    text, arrived, carry, out, stream,
    enforce, role, seen, turn, blind, lenient, turns, changes,
    threads, pending, claims, orphaned, flow, row, failures, slipped, kills,
    status, number, sent, handled, plan, current, webhook, enterprise, aside, obeyedLate, met,
    unaudited, deliveries, faults,
    keeps, key, minted, request, lock, findings, sealed,
    time, expires, known, sync, notified, checked, forgotten, misses,
    hour, enforces, recalled, denial, hook, denied, slippedBy, given, doubled,
    prompts, crashes, stances,
    holds, send, recent, dialog, shown, blocked, grant, replaced, after, reason, lapsed,
    misled, through, calls, unchecked,
    address, live, captured, device, handed, spoilt, twice, astray, connects,
    valid, expired, uses, keys, enrolled, mints, enroller, together, closed,
    at, found, unread, asked, verdict,
    account, attempt, timestep, secrets, batches, used, told, replayed, collided,
    weekday, reported, missed, mailer, reports, mailed, got, tried, dropouts, shared, outages

guardVars    == <<admin, active, removal, stale>>
domainVars   == <<claim, drawn, published, console, takeover, proven, chosen, crossed>>
oauthVars    == <<clock, code, pairs, pair, handler, consented, ended>>
throttleVars == <<step, own, refused, wrongPasswords, wrongFactors>>
sessionVars  == <<version, enabled, sessions, signin, ending, raced>>
pushVars     == <<now, ignored, queue, scan, readUntil, outlived, again, deaths>>
archiveVars  == <<day, thread, today, spent, buffer, detached, jobs, others, free,
                  stored, capped, dropped, lost, phase, late, killed, admitted, straggled>>
tokenVars    == <<text, arrived, carry, out, stream>>
turnVars     == <<enforce, role, seen, turn, blind, lenient, turns, changes>>
failureVars  == <<threads, pending, claims, orphaned, flow, row, failures, slipped, kills>>
billingVars  == <<status, number, sent, handled, plan, current, webhook, enterprise, aside,
                  obeyedLate, met, unaudited, deliveries, faults>>
keyVars      == <<keeps, key, minted, request, lock, findings, sealed>>
graphVars    == <<time, expires, known, sync, notified, checked, forgotten, misses>>
hookVars     == <<hour, enforces, recalled, denial, hook, denied, slippedBy, given, doubled,
                  prompts, crashes, stances>>
browserVars  == <<holds, send, recent, dialog, shown, blocked, grant, replaced, after, reason,
                  lapsed, misled, through, calls, unchecked>>
captureVars  == <<address, live, captured, device, handed, spoilt, twice, astray, connects>>
enrolVars    == <<valid, expired, uses, keys, enrolled, mints, enroller, together, closed>>
mintVars     == <<captureVars, enrolVars>>
verdictVars  == <<at, found, unread, asked, verdict>>
factorVars   == <<account, attempt, timestep, secrets, batches, used, told, replayed, collided>>
weeklyVars   == <<weekday, reported, missed, mailer, reports, mailed, got, tried, dropouts,
                  shared, outages>>
otherVars    == <<verdictVars, factorVars, weeklyVars>>
accessVars   == <<guardVars, domainVars, oauthVars, throttleVars, sessionVars>>
deliveryVars == <<pushVars, archiveVars, tokenVars>>
contentVars  == <<turnVars, failureVars, browserVars>>
tenantVars   == <<billingVars, keyVars, graphVars, hookVars>>
vars == <<part, database, accessVars, deliveryVars, contentVars, tenantVars, mintVars, otherVars>>

Admins   == INSTANCE AdminGuard WITH engine <- database
Domain   == INSTANCE DomainCapture WITH Orgs <- Companies
Grant    == INSTANCE OAuthGrant WITH Handlers <- Clients
Throttle == INSTANCE SignInThrottle WITH Handlers <- Guessers
Account  == INSTANCE Sessions

Pushes == INSTANCE PushDeliveries

Archive == INSTANCE EventArchive WITH Events <- Items, refused <- capped

\* Three events of two organizations.
ThreeEvents == <<"acme", "acme", "globex">>

Minted == <<"P", "L", "V", "_", "A", "A", "_", "A", "A">>
Pieces == {<<"P">>, <<"P", "L", "V", "_">>, <<"A", "A">>, <<"_", "A", "A">>, <<"A", "_">>,
           <<"n">>, Minted}

Tokens == INSTANCE TokenStream WITH
    Texts   <- {a \o b \o c : a \in Pieces, b \in Pieces, c \in Pieces},
    Mapping <- [t \in {Minted, <<"P", "L", "V", "_", "P", "L", "V", "_", "A", "A">>} |->
                   IF t = Minted THEN "1" ELSE "2"],
    SlugMin <- 2, SlugMax <- 3, HexLen <- 2

Said(history, attached) == [latest |-> "talk", history |-> history, attached |-> attached]

SomeConversations ==
    {[Said(<<>>, {}) EXCEPT !.latest = "plan"], Said(<<"key">>, {}),
     Said(<<"key", "plan", "talk">>, {}), Said(<<"plan">>, {"scan"}), Said(<<>>, {"key"})}

\* What the detectors say of a text, and of a block of a transcript.
FourTexts == [talk |-> "clean", plan |-> "high", key |-> "secret", scan |-> "secret"]

Gateway == INSTANCE GatewayTurn WITH Turns <- Talks

Sensor == INSTANCE ScanFailures WITH
    MaxDeaths <- MaxKills, stale <- orphaned, deaths <- kills

Browser == INSTANCE BrowserSends WITH
    Sends <- Calls, Confirmed <- Credentials,
    enforce <- holds, crossed <- misled, sends <- calls

\* Three messages, two of them one finding.
ThreeMessages == [key |-> "credential", memo |-> "pii", roster |-> "pii"]

Plans == INSTANCE Billing WITH
    Handlers <- Webhooks, handler <- webhook, late <- obeyedLate, raced <- met

DataKey == INSTANCE TenantKeys WITH Requests <- KeyUses

Subscriptions == INSTANCE GraphSubscriptions WITH
    MaxTime <- MaxAge, MaxFailures <- MaxMisses, scan <- sync

Asked(prior, latest, results) == [prior |-> prior, latest |-> latest, results |-> results]

ThreeTranscripts == <<Asked({}, {"key", "plan"}, {}), Asked({"key"}, {"plan"}, {}),
                      Asked({"plan"}, {"key"}, {"key"})>>

Prompts == INSTANCE HookVerdicts WITH
    Handlers <- Hooks, MaxRequests <- MaxPrompts,
    clock <- hour, enforce <- enforces, handler <- hook,
    slipped <- slippedBy, requests <- prompts, faults <- crashes, changes <- stances

Capture == INSTANCE CaptureKeys WITH
    Handlers <- Connects, enabled <- live, keys <- captured, handler <- device,
    doubled <- twice, requests <- connects

Enrolling == INSTANCE Enrolment WITH Handlers <- Enrollers, handler <- enroller

Evidence(category, check, parts, confirmed) ==
    [category |-> category, check |-> check, parts |-> parts, confirmed |-> confirmed]
Marker == Evidence("posture_gap", "detector_error", 0, FALSE)

Row(scope, tool, loose, disabled) ==
    [scope |-> scope, tool |-> tool, loose |-> loose, disabled |-> disabled]

Analysis == INSTANCE Verdicts WITH
    Signal <- [key       |-> Evidence("secret_leak", "secret_leak", 8, TRUE),
               blob      |-> Evidence("secret_leak", "secret_leak", 5, FALSE),
               ssn       |-> Evidence("pii_exposure", "pii_exposure", 4, TRUE),
               reported  |-> Evidence("pii_exposure", "pii_exposure", 4, TRUE),
               module    |-> Evidence("source_code_leak", "source_code_leak", 4, FALSE),
               host      |-> Evidence("unsanctioned_ai", "unsanctioned_ai", 2, FALSE),
               ignore    |-> Evidence("prompt_injection", "prompt_injection", 5, FALSE),
               injection |-> Evidence("prompt_injection", "prompt_injection_ml", 4, FALSE),
               snippet   |-> Evidence("source_code_leak", "source_code_ml", 3, FALSE),
               written   |-> Evidence("ai_generated", "ai_generated", 6, FALSE),
               rules     |-> Marker, model |-> Marker, image |-> Marker],
    Detectors <- <<[finds |-> {"key", "blob", "ssn", "module", "host", "ignore"},
                    marker |-> "rules"],
                   [finds |-> {"injection", "snippet", "written"}, marker |-> "model"]>>,
    MaxFound <- 2,
    Bases <- {{}, {"secret_leak", "pii_exposure"}, {"prompt_injection", "source_code_leak"}},
    Overrides <- {{}, {Row("group", FALSE, 1, {"secret_leak"})},
                  {Row("group", FALSE, 1, {}), Row("user", FALSE, 0, {"prompt_injection"})},
                  {Row("group", TRUE, 2, {"source_code_leak"}), Row("group", FALSE, 1, {})}},
    ToolSkips <- {{}, {"source_code_leak", "posture_gap"}},
    Extras <- {{}, {"image"}, {"reported"}}

Factor == INSTANCE SecondFactor WITH
    Requests <- Factors, request <- attempt, now <- timestep, again <- replayed, crossed <- collided

Weekly == INSTANCE WeeklyReports WITH
    Workers <- Mailers, MaxClock <- MaxDays, MaxFaults <- MaxOutages,
    today <- weekday, sent <- reported, lost <- dropouts, faults <- outages

ASSUME Assumptions ==
    /\ Admins!PeopleAssumption /\ Domain!TokensAssumption
    /\ Grant!CodesAssumption /\ Grant!LifetimesAssumption
    /\ Throttle!FailsAssumption /\ Account!EndingsAssumption
    /\ Pushes!TTLAssumption /\ Archive!BudgetAssumption /\ Tokens!LengthsAssumption
    /\ Gateway!ScanAssumption /\ Sensor!FlowsAssumption
    /\ Plans!SubsAssumption /\ DataKey!RequestsAssumption /\ Subscriptions!LifeAssumption
    /\ Prompts!TTLAssumption /\ Browser!FindingsAssumption
    /\ Capture!KeysAssumption /\ Enrolling!UsesAssumption /\ Analysis!WeightsAssumption
    /\ Factor!StepsAssumption /\ Weekly!WeeksAssumption

\* The variables of a part that a behaviour is not of.
Off == "off"

Init ==
    /\ part \in Parts
    /\ database \in (IF part \in {"admins", "domain"} THEN {"postgres", "sqlite"} ELSE {"postgres"})
    /\ IF part = "admins" THEN Admins!Init
       ELSE /\ admin = Off /\ active = Off /\ removal = Off /\ stale = Off
    /\ IF part = "domain" THEN Domain!Init
       ELSE /\ claim = Off /\ drawn = Off /\ published = Off /\ console = Off
            /\ takeover = Off /\ proven = Off /\ chosen = Off /\ crossed = Off
    /\ IF part = "grant" THEN Grant!Init
       ELSE /\ clock = Off /\ code = Off /\ pairs = Off /\ pair = Off /\ handler = Off
            /\ consented = Off /\ ended = Off
    /\ IF part = "throttle" THEN Throttle!Init
       ELSE /\ step = Off /\ own = Off /\ refused = Off /\ wrongPasswords = Off
            /\ wrongFactors = Off
    /\ IF part = "sessions" THEN Account!Init
       ELSE /\ version = Off /\ enabled = Off /\ sessions = Off /\ signin = Off
            /\ ending = Off /\ raced = Off
    /\ IF part = "pushes" THEN Pushes!Init
       ELSE /\ now = Off /\ ignored = Off /\ queue = Off /\ scan = Off
            /\ readUntil = Off /\ outlived = Off /\ again = Off /\ deaths = Off
    /\ IF part = "archive" THEN Archive!Init
       ELSE /\ day = Off /\ thread = Off /\ today = Off /\ spent = Off /\ buffer = Off
            /\ detached = Off /\ jobs = Off /\ others = Off /\ free = Off
            /\ stored = Off /\ capped = Off /\ dropped = Off /\ lost = Off
            /\ phase = Off /\ late = Off /\ killed = Off /\ admitted = Off
            /\ straggled = Off
    /\ IF part = "tokens" THEN Tokens!Init
       ELSE /\ text = Off /\ arrived = Off /\ carry = Off /\ out = Off /\ stream = Off
    /\ IF part = "turns" THEN Gateway!Init
       ELSE /\ enforce = Off /\ role = Off /\ seen = Off /\ turn = Off /\ blind = Off
            /\ lenient = Off /\ turns = Off /\ changes = Off
    /\ IF part = "failures" THEN Sensor!Init
       ELSE /\ threads = Off /\ pending = Off /\ claims = Off /\ orphaned = Off
            /\ flow = Off /\ row = Off /\ failures = Off /\ slipped = Off
            /\ kills = Off
    /\ IF part = "billing" THEN Plans!Init
       ELSE /\ status = Off /\ number = Off /\ sent = Off /\ handled = Off
            /\ plan = Off /\ current = Off /\ webhook = Off /\ enterprise = Off
            /\ aside = Off /\ obeyedLate = Off /\ met = Off /\ unaudited = Off
            /\ deliveries = Off /\ faults = Off
    /\ IF part = "keys" THEN DataKey!Init
       ELSE /\ keeps = Off /\ key = Off /\ minted = Off /\ request = Off /\ lock = Off
            /\ findings = Off /\ sealed = Off
    /\ IF part = "subscriptions" THEN Subscriptions!Init
       ELSE /\ time = Off /\ expires = Off /\ known = Off /\ sync = Off
            /\ notified = Off /\ checked = Off /\ forgotten = Off /\ misses = Off
    /\ IF part = "hooks" THEN Prompts!Init /\ enforces
       ELSE /\ hour = Off /\ enforces = Off /\ recalled = Off /\ denial = Off
            /\ hook = Off /\ denied = Off /\ slippedBy = Off /\ given = Off
            /\ doubled = Off /\ prompts = Off /\ crashes = Off /\ stances = Off
    /\ IF part = "browser" THEN Browser!Init
       ELSE /\ holds = Off /\ send = Off /\ recent = Off /\ dialog = Off /\ shown = Off
            /\ blocked = Off /\ grant = Off /\ replaced = Off /\ after = Off
            /\ reason = Off /\ lapsed = Off /\ misled = Off /\ through = Off
            /\ calls = Off /\ unchecked = Off
    /\ IF part = "capture" THEN Capture!Init
       ELSE /\ address = Off /\ live = Off /\ captured = Off /\ device = Off
            /\ handed = Off /\ spoilt = Off /\ twice = Off /\ astray = Off
            /\ connects = Off
    /\ IF part = "enrolment" THEN Enrolling!Init
       ELSE /\ valid = Off /\ expired = Off /\ uses = Off /\ keys = Off
            /\ enrolled = Off /\ mints = Off /\ enroller = Off /\ together = Off
            /\ closed = Off
    /\ IF part = "verdicts" THEN Analysis!Init
       ELSE /\ at = Off /\ found = Off /\ unread = Off /\ asked = Off /\ verdict = Off
    /\ IF part = "factor" THEN Factor!Init
       ELSE /\ account = Off /\ attempt = Off /\ timestep = Off /\ secrets = Off
            /\ batches = Off /\ used = Off /\ told = Off /\ replayed = Off /\ collided = Off
    /\ IF part = "weekly" THEN Weekly!Init
       ELSE /\ weekday = Off /\ reported = Off /\ missed = Off /\ mailer = Off
            /\ reports = Off /\ mailed = Off /\ got = Off /\ tried = Off /\ dropouts = Off
            /\ shared = Off /\ outages = Off

Next ==
    \/ part = "admins" /\ Admins!Next
       /\ UNCHANGED <<part, domainVars, oauthVars, throttleVars, sessionVars, deliveryVars, contentVars, tenantVars, mintVars, otherVars>>
    \/ part = "domain" /\ Domain!Next
       /\ UNCHANGED <<part, guardVars, oauthVars, throttleVars, sessionVars, deliveryVars, contentVars, tenantVars, mintVars, otherVars>>
    \/ part = "grant" /\ Grant!Next
       /\ UNCHANGED <<part, database, guardVars, domainVars, throttleVars, sessionVars, deliveryVars, contentVars, tenantVars, mintVars, otherVars>>
    \/ part = "throttle" /\ Throttle!Next
       /\ UNCHANGED <<part, database, guardVars, domainVars, oauthVars, sessionVars, deliveryVars, contentVars, tenantVars, mintVars, otherVars>>
    \/ part = "sessions" /\ Account!Next
       /\ UNCHANGED <<part, database, guardVars, domainVars, oauthVars, throttleVars, deliveryVars, contentVars, tenantVars, mintVars, otherVars>>
    \/ part = "pushes" /\ Pushes!Next
       /\ UNCHANGED <<part, database, accessVars, archiveVars, tokenVars, contentVars, tenantVars, mintVars, otherVars>>
    \/ part = "archive" /\ Archive!Next
       /\ UNCHANGED <<part, database, accessVars, pushVars, tokenVars, contentVars, tenantVars, mintVars, otherVars>>
    \/ part = "tokens" /\ Tokens!Next
       /\ UNCHANGED <<part, database, accessVars, pushVars, archiveVars, contentVars, tenantVars, mintVars, otherVars>>
    \/ part = "turns" /\ Gateway!Next
       /\ UNCHANGED <<part, database, accessVars, deliveryVars, failureVars, browserVars, tenantVars, mintVars, otherVars>>
    \/ part = "failures" /\ Sensor!Next
       /\ UNCHANGED <<part, database, accessVars, deliveryVars, turnVars, browserVars, tenantVars, mintVars, otherVars>>
    \/ part = "browser" /\ Browser!Next
       /\ UNCHANGED <<part, database, accessVars, deliveryVars, turnVars, failureVars, tenantVars, mintVars, otherVars>>
    \/ part = "billing" /\ Plans!Next
       /\ UNCHANGED <<part, database, accessVars, deliveryVars, contentVars, keyVars, graphVars, hookVars, mintVars, otherVars>>
    \/ part = "keys" /\ DataKey!Next
       /\ UNCHANGED <<part, database, accessVars, deliveryVars, contentVars, billingVars, graphVars, hookVars, mintVars, otherVars>>
    \/ part = "subscriptions" /\ Subscriptions!Next
       /\ UNCHANGED <<part, database, accessVars, deliveryVars, contentVars, billingVars, keyVars, hookVars, mintVars, otherVars>>
    \/ part = "hooks" /\ Prompts!Next
       /\ UNCHANGED <<part, database, accessVars, deliveryVars, contentVars, billingVars, keyVars, graphVars, mintVars, otherVars>>
    \/ part = "capture" /\ Capture!Next
       /\ UNCHANGED <<part, database, accessVars, deliveryVars, contentVars, tenantVars, enrolVars, otherVars>>
    \/ part = "enrolment" /\ Enrolling!Next
       /\ UNCHANGED <<part, database, accessVars, deliveryVars, contentVars, tenantVars, captureVars, otherVars>>
    \/ part = "verdicts" /\ Analysis!Next
       /\ UNCHANGED <<part, database, accessVars, deliveryVars, contentVars, tenantVars, mintVars, factorVars, weeklyVars>>
    \/ part = "factor" /\ Factor!Next
       /\ UNCHANGED <<part, database, accessVars, deliveryVars, contentVars, tenantVars, mintVars, verdictVars, weeklyVars>>
    \/ part = "weekly" /\ Weekly!Next
       /\ UNCHANGED <<part, database, accessVars, deliveryVars, contentVars, tenantVars, mintVars, verdictVars, factorVars>>

\* The requests, deliveries, turns and flows of a part are interchangeable; the cfg
\* gives every part the same two.
RequestsAreAlike == Permutations(Removals)

Spec == Init /\ [][Next]_vars

-----------------------------------------------------------------------------
(***************************************************************************)
(* The variables of every part keep their types; a revocation reaches only *)
(* committed tokens (OAuthGrant).                                          *)
(***************************************************************************)
TypeOK ==
    /\ part = "admins" => Admins!TypeOK
    /\ part = "domain" => Domain!TypeOK
    /\ part = "grant" => Grant!TypeOK
    /\ part = "throttle" => Throttle!TypeOK
    /\ part = "sessions" => Account!TypeOK
    /\ part = "pushes" => Pushes!TypeOK
    /\ part = "archive" => Archive!TypeOK
    /\ part = "tokens" => Tokens!TypeOK
    /\ part = "turns" => Gateway!TypeOK
    /\ part = "failures" => Sensor!TypeOK
    /\ part = "billing" => Plans!TypeOK
    /\ part = "keys" => DataKey!TypeOK
    /\ part = "subscriptions" => Subscriptions!TypeOK
    /\ part = "hooks" => Prompts!TypeOK
    /\ part = "browser" => Browser!TypeOK
    /\ part = "capture" => Capture!TypeOK
    /\ part = "enrolment" => Enrolling!TypeOK
    /\ part = "verdicts" => Analysis!TypeOK
    /\ part = "factor" => Factor!TypeOK
    /\ part = "weekly" => Weekly!TypeOK

(***************************************************************************)
(* Overlapping removals leave an active admin (auth.py, scim.py), a burst  *)
(* of guesses at an account stays within the limit, or near it (login,     *)
(* mfa_verify), a code is used once and a second factor is the one its     *)
(* owner confirmed (mfa_setup, mfa_confirm, mfa_disable).                  *)
(***************************************************************************)
AccountsHold ==
    /\ part = "admins" => Admins!AlwaysAnAdmin
    /\ part = "throttle" => Throttle!GuessesBounded
    /\ part = "factor" => Factor!UsedOnce /\ Factor!FactorIsHers

\* A domain's claim inherits neither proof nor choice from another (domains.py).
ClaimIsItsOwn == part = "domain" => Domain!ClaimIsItsOwn

(***************************************************************************)
(* What was granted ends: at most one refresh token of a grant can be      *)
(* rotated, refreshing never puts off the next consent, what was revoked   *)
(* while nothing of it was minted stays dead (oauth_provider.py            *)
(* _issue_pair, _revoke_grant), a session or challenge from before an      *)
(* ending never works after it, a leaver's capture keys are out while      *)
(* everybody else's last one works, and an enrollment token mints no more  *)
(* than it may (auth.py, scim.py).                                         *)
(***************************************************************************)
AccessEnds ==
    /\ part = "grant" => Grant!NeverForks /\ Grant!ConsentLapses /\ Grant!EndedStaysEnded
    /\ part = "sessions" => Account!SessionsEnd
    /\ part = "capture" => /\ Capture!LeaverIsOut /\ Capture!LastHandedWorks
                           /\ Capture!OneKeyPerDevice
    /\ part = "enrolment" => Enrolling!MintsAreBounded

(***************************************************************************)
(* A push that is ignored was read, and redelivering repairs               *)
(* (github_webhook.py); a drive that was subscribed goes on being notified *)
(* (saas_connectors.py _ensure_graph_subscriptions); an admin whom a       *)
(* weekly report missed is mailed again, and nobody twice (alerts.py).     *)
(***************************************************************************)
NotificationsHold ==
    /\ part = "pushes" => Pushes!PushesSettled
    /\ part = "subscriptions" => Subscriptions!SubscriptionsLast
    /\ part = "weekly" => Weekly!MissedAreRetried /\ Weekly!MailedOnce

(***************************************************************************)
(* Nothing is lost without being counted: archived events and the slots of *)
(* the pool (archive_s3.py, dispatch.py), and a sensor's failed scans      *)
(* (palivane_addon.py, main.py).                                           *)
(***************************************************************************)
CountsAddUp ==
    /\ part = "archive" => Archive!EventsAccounted
    /\ part = "failures" => Sensor!FailuresTallied

(***************************************************************************)
(* Nothing of a content is lost on the way: a streamed answer is reversed  *)
(* as if it came whole (tokenization.py detokenize_stream); and a verdict  *)
(* loses no confirmed leak and no unread part, makes nothing of a mere     *)
(* hint, and is not weaker for whom a client claims to be (service.py      *)
(* run_analysis, scoring.py, policies.py).                                 *)
(***************************************************************************)
ContentIsKept ==
    /\ part = "tokens" => Tokens!RestoredWhole
    /\ part = "verdicts" => /\ Analysis!ConfirmedIsRecorded /\ Analysis!UnscannedIsSaid
                            /\ Analysis!HintsOnlyWarn /\ Analysis!ClaimedNeverWeaker

(***************************************************************************)
(* What a stance refuses neither leaves in a turn nor comes back in its    *)
(* answer, but for what the history variables excuse (gateway.py); on the  *)
(* inference hook what was denied stays out, and a repeat gets the answer  *)
(* the first one got (main.py, inference_hooks.py); and what a browser     *)
(* holds goes through for its own justification, once, and then does       *)
(* (injected.js, background.js, main.py ingest_ai_usage).                  *)
(***************************************************************************)
TurnsAreHeld ==
    /\ part = "turns" => Gateway!RefusedStaysOut /\ Gateway!AnswersAreChecked
    /\ part = "hooks" => Prompts!DeniedStaysOut /\ Prompts!RepeatsAgree
    /\ part = "browser" => /\ Browser!JustifiedOnce /\ Browser!JustifiedGoesThrough
                           /\ Browser!StopsAreShown

\* Once Stripe's events are handled, the plan is the one that is paid for (billing.py).
PlanSettles == part = "billing" => Plans!PlanSettles

(***************************************************************************)
(* What was sealed after the first key's first minters were done can be    *)
(* opened, and minting does not release an event's lock (crypto.py,        *)
(* service.py).                                                            *)
(***************************************************************************)
KeysHold == part = "keys" => DataKey!SealedOpens /\ DataKey!MintKeepsLock

=============================================================================
