# Palivane, in TLA+

TLA+ models of the parts of Palivane that several processes work on at once,
checked by TLC on small instances, with theorems checked by TLAPS for every
instance. Paths are relative to `src/backend/app/` unless they begin with `src/`.

## The system

Palivane watches how an organisation uses AI. Sensors (browser and editor
extensions, an egress proxy, endpoint hooks, an LLM gateway) send what people
type to a FastAPI server; connectors pull what SaaS platforms hold. Both end in
`service.run_analysis`, which scores the text and records a *finding*. People
review findings in a console, findings go out to alert webhooks and SIEMs, and
retention deletes them. Several server processes share one PostgreSQL database
(row-level security per tenant); SQLite is the development database. There is no
queue and no leader: background tasks run in every process and coordinate by
conditional UPDATEs and advisory locks on rows. That is what the models are
about.

| component | code | state | operations | hard because |
|---|---|---|---|---|
| Connector claims and schedule | `connector_schedule.py`, `saas_connectors.py` (end) | `saas_connectors` rows: `sync_claimed_at`, `last_sync_at`, `sync_state` | claim, scan, finish, tick, Scan now, delete | every process runs the loop; scans take minutes; processes die in them |
| Slack content scans | `saas_connectors.py` 360-910 | cursor: watermarks, backfill gaps, `resume_at` | read a window, backfill, rotate, save | newest-first paging under a budget, traffic meanwhile, fetches that fail |
| Drive, SharePoint, Gmail, Exchange scans | `saas_connectors.py`, `webhooks_graph.py` | watermarks, delta links, subscriptions | scan, notified scan, renew | a second writer of the cursor; ties and budgets |
| GitHub secret scan | `github_secrets.py`, `github_webhook.py` | per repository: tree, `since`, failed commits | scan, push scan, settle | rate limits, retries, merges out of date order |
| Findings | `service.py`, `review.py`, `lifecycle.py`, `main.py` | `findings` rows: status, `seen_count`, review columns | fold, reopen, insert, review, answer, purge | check-then-insert, load-then-write, alerts after commit |
| Session correlation | `session_correlation.py` | chain findings | correlate | folds without a lock |
| Alerts and digests | `alerts.py` | claim timestamps on tenants, sensors, keys | claim, send, release | a send fails or a process dies after the claim |
| Delivery | `dispatch.py`, `siem*.py`, `archive_s3.py`, `sink_health.py` | semaphore and pool, buffers, counters | submit, flush, drop | bounded queues, shutdown |
| OAuth provider | `oauth_provider.py` | codes, tokens | authorise, exchange, refresh, revoke | concurrent exchanges and replays |
| Accounts | `auth.py`, `scim.py`, `totp.py`, `domains.py` | users, token versions, domains | change roles, reset, verify | the last admin; a lookup between read and write |
| Replay windows | `slack_events.py`, `github_webhook.py`, `inference_hooks.py`, `main.py` 1817-1985 | maps per process; denied blocks in the database | seen, settle, remember, look back | redeliveries, several processes, a map and a table that expire |
| Plans and metering | `billing.py`, `metering.py`, `plans.py`, `trial.py`, `licensing.py` | plan and subscription on the tenant, usage counters | Stripe's events, downgrade, upsert | events late, twice and out of order; a commit inside another step |
| Envelope encryption | `crypto.py`, `service.py` | a data key per tenant | mint at first use, seal, open | minting commits, and so releases what was locked |
| Verdicts | `engine.py`, `scoring.py`, `policies.py`, `policy.py`, `service.py` | an organisation's checks and overrides | detect, filter, re-score, trace | detectors that raise; filters, caps and bands that undo one another |
| Detectors | `detectors/`, `ml/`, `ocr.py`, `doc_extract.py` | none across requests | find signals | a data problem, not a protocol |
| Exports | `main.py`, `session_audit.py` | the poller's watermark | pull a page | findings that move ahead of the watermark, ties, late commits |
| Gateway | `gateway.py`, `upstreams.py`, `tokenization.py` | the texts a process has seen | scan a turn, forward, check the answer, rewrite streams | a stance that changes during a scan, answers in chunks, content that is remembered |
| Egress proxy | `src/proxy/palivane_addon.py` | a tally of failed scans in files | count, claim, carry, fold back | threads, processes and kills around renamed files |
| Browser extension | `src/extension` | what a page stopped; one grant and a hash per finding in the worker | hold, scan, stop, justify, send | pages that retry by themselves, timeouts, several sends against one grant |
| Other clients and console | `src/vscode-extension`, `src/cli`, `src/frontend`, `src/mcp-server` | their own | call the API | outside this project |

Connectors call `run_analysis` while they scan, so the second module's *scanned*
is the third module's *Arrive*. A notification or an admin starts the same
`sync_connector` the scheduler does. Reviews and folds share the `findings` row
and nothing else. The gateway, the inference hook and the proxy ask for verdicts
and keep what they know of earlier ones; the rest of the parts meet only at rows
of the database.

What makes the first parts correct:

* **Claims.** One scan's outcome at a time: a late scan never writes an older
  cursor; a dead process never wedges a connector; no schedule scans a platform
  faster than its pause; a scan is not run twice at once.
* **Slack cursor.** Nothing leaves the cursor before it is scanned, and
  everything is scanned in the end, whatever is cut, fails or arrives meanwhile.
* **Findings.** One row for one class of event, every repeat counted, an alert
  only when there is something new, no request stuck behind another, and review
  columns that agree with the status.
* **Accounts and grants.** An active admin is left, a claimed domain inherits
  nothing, a grant never forks and ends, guesses are limited, ended sessions are
  dead.
* **Verdicts.** A confirmed leak and the mark of an unread part come through every
  filter. What the stance refuses neither leaves in a turn nor comes back in
  an answer, and what was denied stays denied while it is remembered.
* **Tallies and deliveries.** What cannot be delivered is counted, what failed can
  be sent again, what was read is not read again, and no slot is lost.
* **Watermarks.** A mark, of a scan or of a SIEM that pulls, passes only what was
  read, and everything is read in the end, except behind what is stuck.
* **Plans and keys.** The plan ends up the one that is paid for; what was sealed
  can be opened.

`PROJECT.json` lists every component with its status and, under `hazards`, what
a test would hardly reach, each at its line.

## Modules

| module | what it is |
|---|---|
| `ConnectorSync` | the claim protocol: loops, requests, scans, deaths, deletions, a clock |
| `MCConnectorSync` | its instances for TLC, with the symmetry of the loops |
| `ConnectorSyncProofs` | its theorems |
| `ScanCoverage` | abstract: what any incremental scan promises (posted, scanned, owed) |
| `SlackCursor` | the Slack cursor and the two scans that share it; implements `ScanCoverage` |
| `MCSlackCursor` | its instances for TLC |
| `SlackCursorProofs` | its theorems, the refinement among them |
| `GraphDeltas` | SharePoint's delta links, the sync and the notified scans that write them; implements `ScanCoverage` |
| `GraphDeltasProofs` | its theorems, the refinement among them |
| `FindingFold` | analyses, reviews, answers and retention on one class of event |
| `FindingFoldProofs` | its theorems |
| `AdminGuard`, `DomainCapture`, `OAuthGrant`, `SignInThrottle`, `Sessions`, `CaptureKeys`, `Enrolment`, `SecondFactor` | accounts: the last admin, the claim on a domain, a grant and its rotations, guesses, sessions and what ends them, a device's capture keys, enrollment tokens, a second factor and its codes |
| `PushDeliveries`, `EventArchive`, `ScanFailures` | deliveries: GitHub's pushes, the archive and the pool, a sensor's tally of failed scans |
| `Verdicts`, `GatewayTurn`, `TokenStream`, `HookVerdicts`, `BrowserSends` | contents: one analysis, a gateway's turns and answers, tokens reversed in a stream, the inference hook's prompts, the browser's sends |
| `Billing`, `TenantKeys`, `GraphSubscriptions`, `WeeklyReports` | the plan as Stripe's events set it, an organisation's data key, a drive's change subscription, the weekly report and whom it missed |
| `MCRequests` | these modules on their instances |
| `RequestsProofs` | the theorems about domains, data keys, plans and grants; lemmas about turns and prompts |
| `AccountsProofs` | the theorems about the last admin, guesses, second factors, sessions, capture keys, enrolment, and about turns, prompts and sends |
| `DeliveriesProofs` | the theorems about pushes, subscriptions, the weekly report, the archive and the sensor's tally |
| `GithubCommits`, `GithubTree`, `MarkScans`, `ExportPolls` | scans, and a SIEM's pulls, that keep a watermark or an index |
| `AlertWindows`, `FleetAlerts`, `SessionChain` | digests, the page about a silent sensor, attack chains |
| `MCBackground` | these modules on their instances |
| `BackgroundProofs` | the theorems about digests, pages about sensors, watermarks and chains, and the types of all these parts |

`MCRequests` and `MCBackground` put modules that share nothing, or only the
database, into one run: the variable `part` says which of them a behaviour is of,
the variables of the others stay in their initial state, or, in `MCRequests`, have
one value that means nothing (`Off`), and a property of the run is the conjunction of
what each part promises. It is a way to check many small instances
in one run of TLC and claims nothing about their interplay.

### ConnectorSync and the code

`claim`, `last` and `cursor` are the columns `sync_claimed_at`, `last_sync_at`
and `sync_state`; `pc`, `now`, `queue`, `ran`, `job`, `base` are locals of
`run_scheduled_scans` and `sync_connector`. `ClaimSync` is `claim_sync` (its one
UPDATE and commit), `ReadRow` the `expire_all`/`refresh` after it, `FinishSync`
is `_finish_sync`, and `ScanDone`, `ScanError`, `ScanCrash` are the three ways
out of `sync_connector`. `TickStart`, `SkipRow`, `ClaimRow` and `TickEnd` are the
loop of `run_scheduled_scans`, with its single reading of the clock in `now`.
`RequestScan` is Scan now and the Google Drive notification. `Die` loses a scan
with its claim in place; the failure of the final UPDATE looks the same.

A cursor is a number: everything up to it has been read. A scan may read as far
as it likes from the position it started at. A claim carries its holder beside
the time because the model's clock is coarse where the real one has
microseconds. `DeleteConnector` also stands for deactivating a row, as far as
the claim filter is concerned.

Time passes only when no scheduler is between two database statements, and not
past the wall-clock budget of a scheduled platform's scan (`out_of_time`):
`ScanMax` is `SCAN_MAX_SECS` and the batch that was in flight. Connectors that
are not scheduled have no such limit, which is why the properties about overlap
speak of `Scheduled`.

### SlackCursor and the code

`mark`, `gaps` and `resume` are the saved cursor; `newMark`, `newGaps`, `todo`
and `spent` the copies one sync works on. `Window` and `Cut` are the two results
of `_slack_window`, `ReadNew` and `ReadGap` the two calls of it in
`_slack_scan_conversation`, `Rotated` is `_rotate`, `Save` the assignment of
`connector.state` at the end, and `SyncLost` every way a sync ends without one.
`Discovery` chooses the scan: one page per fetch and failing conversations
skipped, or all pages and a failing conversation ending the sync. A message is
its position in its conversation and is by a person or not
(`_slack_user_msg`). Syncs follow one another: `HolderIsCurrent` of
`ConnectorSync` is what allows that.

The cursor's column also holds the workspace of a connector with a pasted token,
which the events endpoint learns on the first event: `AskWorkspace` is the read of
the row in `slack_events._map_pasted`, `LearnWorkspace` the write after Slack's
answer, of the whole column as it was read. It undoes a sync that saved in between,
hence `Rewinds` for the bot's scan, and the count behind `FairTurns` begins anew. A
sync that began before the answer drops the workspace again (`newKnown`). One worker
asks at a time here; that the events' messages are scanned by the workers themselves
changes no cursor and is left out.

`owed` of `ScanCoverage` is a state function of the cursor: the human messages
after the watermark or inside a gap. `AgeOut` is the seven-day lookback of a
conversation without a watermark, which is what `Expire` grants.

### GraphDeltas and the code

`links` is the `deltas` map in `sync_state`; `loaded` what a session has read of
it and `deltas` the copy `_scan_drive` changes. A link is a position in the
drive's feed of changed files, 0 for none, and `handled` records the changes
some scan has come past: scanned, or counted as skipped because the file is too
large or cannot be read. `ScanDrive` is `_scan_drive` as a whole, since nobody
else sees its copy; `Reached` is how far the budget carries and `LinkAfter` the
link it leaves. Folders are not in the feed: they cost nothing and change
nothing. A file that produces a finding commits, and SQLAlchemy then reads the
row afresh; `ScanDrive` may therefore replace `loaded`, which decides two things
later: `SyncError` writes `loaded` back, and `SaveNotified` writes only a map
that differs from it.

`StartSync`, `SyncDrive` and `SaveSync` are the sync, which holds the claim of
`ConnectorSync`, so there is one; `SyncError` and `SyncLost` are its other ends
(`_finish_sync` after a `ConnectorError`; a death, a lost claim, a rollback).
`Notify`, `NotifiedDrive` and `SaveNotified` are `_scan_notified_drive`, which
holds no claim and is not excluded by one. The bound of notifications stands for
the debouncing and for what arrives. Which drives Graph lists, and in what order,
does not change during a behaviour.

In `ScanCoverage` the items are the changes, `owed` those the saved links have
not passed. `Rewinds` is true here and false for Slack's Discovery scan: a notified
scan, or a sync that fails, may save an older copy of the links, which puts handled changes
back on the debt and no others.

### FindingFold and the code

One fingerprint. `findings` are the rows with it, `copy` the row an actor's
session has loaded. `Flushed` is what an ORM commit does: it writes the columns
that differ from what was loaded, over the row as it now is; every race between
a review and an answer comes from it. `LockFingerprint` is the advisory lock,
held until `EndTransaction`. `CommitNew`, `CommitFold` and `FoldGone` (the row
was purged) are the ends of the transaction; `DispatchSinks` follows the commit.
`UpdateStatus`, `Answer` and `BulkStatus` are the console's endpoints, `Purge`
is retention. The four review columns are one field that says which decision
they record.

### Accounts and grants

`AdminGuard`: a request that demotes, deactivates, offboards or deprovisions
somebody loads the person (`LoadTarget`), locks the organisation's row and counts
(`LockAndCount`), writes and counts again, and commits. `engine` is the database:
SQLite ignores the lock and has one writer at a time. `AlwaysAnAdmin` holds on
both, except after `stale`: a removal that loaded somebody who was promoted or
restored since thinks that it removes no admin.

`DomainCapture`: the one row of a domain, its takeover by another organisation
after a week, and the console's requests that load it, wait for DNS and write the
columns that changed. `crossed` marks the claims that two handlers wrote at once:
a verification whose write meets the takeover's leaves a claim verified by the
other organisation's token.

`OAuthGrant`: a code is approved, loaded, burnt and exchanged; a refresh token is
rotated into the next pair; a replay, a sign-out or a removed app revokes what it
can see. The pair that is being minted is invisible until its commit, which is why
`EndedStaysEnded` speaks of revocations that overlapped no mint of their line.

`SignInThrottle`: wrong passwords are recorded, then counted; second factors are
counted, checked, then recorded. The bound of `GuessesBounded` on both together is
what that order costs: one less than the guesses in flight.

`Sessions`: `token_version` and all that adds one to it. Two endings that overlap
write the same number, and one that is late may write an old one back: `raced`.

`CaptureKeys`: the keys of one person on one device, which only their `actor`, an
address, binds to the person. Connecting, renaming and deactivating load the account
(`Load`), read the keys (`Find`) and write both (`Store`, `Rename`, `Deactivate`);
`Works` is what the gateway looks at. `doubled` and `astray` are the overlaps that
leave a second key, or one at an address of nobody; `spoilt` a connect that a
deactivation met.

`Enrolment`: `Claim` is the conditional update of a token's uses, whose row lock
(`Holders`) lasts until the commit of the key in `Mint`; `CountKeys` is the quota,
which takes no lock. `together` marks requests that counted at once.

`SecondFactor`: every request loads the account (`Begin`), decides on what it loaded,
and `Commit` writes the columns that it changed. `Matching` is `totp.verify_step`,
`Acceptable` what the sign-in and the disabling take. `crossed` says that a commit
met one its request had not seen: two codes taken at once each put back what the
other used, so that one of them counts again, and a setup beside a confirmation
leaves a factor that is on with a secret its owner never confirmed, so that only her
recovery codes let her in. A behaviour ends there, since nothing is promised after it.

### Verdicts and contents

`Verdicts`: `found` grows by what the detectors of `Engine.analyze` find (`Detect`)
and by the marker of each one that raises (`Raise`); `Judge` is the score of the
engine and what `run_analysis` makes of it. `Effective` is `resolve_disabled`, with
`Governing` the row that `_best_match` takes; `Filtered` and `Restored` are the two
filters and what they may not take; `Score` is `score` with its caps, in tenths, so
that the bands of `severity_for` mean what they do in the code. `Trace` is the boost
of a document that was scanned at rest. What a detector recognises is not here: a
signal is a name with a category, a check, a contribution and whether it is a
confirmed leak. `ClaimedNeverWeaker` leaves out two confirmed leaks: with both
filtered out both are restored (`service.py:437`), with one left the other is not,
so that turning a check back on can lower the score.

`GatewayTurn`: `seen` is the process's set of texts that need no second scan,
`ReadTurn` the composition of a scan under the budgets, `LetThrough` and
`RefuseTurn` the verdict, `CheckInbound` the tool calls a request carries,
`Forward` and `Answer` the way out and back. The tenant's stance is read once for a
turn, the role's when it is needed. Two histories excuse texts: `blind`, those that
were remembered although the scan did not come to them (cut at `MAX_CONTENT`, or an
attachment nobody could read), against the comment at `gateway.py:424-426`; and
`lenient`, those that an earlier stance let through.

`TokenStream`: `text` arrives in chunks of any length, `carry` is what is held back
and `out` what went out. `IsPartial` is the pattern of a token's beginning,
`Reversed` what the whole text would become. A slug that ends in `PLV` looks like
the beginning of a token inside a token; `_emit_upto` then cuts there, and the
token is not reversed. `RestoredWhole`, which is part of `ContentIsKept`, leaves such
texts out.

`HookVerdicts`: `Receive` looks the id up among the verdicts the process remembers,
`LookBack` the earlier blocks among the denials in the database, `Score` scans the
turn, `RememberDenial` is one transaction that inserts the turn's blocks and sweeps
what expired, `Answer` remembers the verdict. `slipped` are blocks whose last denial
made no row: their first row stands, with its time, and when it has expired the
insert meets it and the sweep takes it, so that the denial is forgotten at once
(`main.py:1977-1982`); those of a turn denied for its tool results or for an earlier
block; and those whose insert failed. `doubled` are ids that two handlers score at
once: the later verdict replaces the first (`inference_hooks.py:83-86`). That the map
of verdicts drops its oldest entries when it is full is left out.

`BrowserSends`: one page and the extension's worker. `recent`, `dialog` are the
page's (`recentBlocks`, the modal), `blocked` and `grant` the worker's session
storage (`blockedHash:<finding>`, `overrideGrant`). `Press` is `fetch` up to the
scan, `Attach` the worker's, `Score` the server's verdict with the token it may
honour, `Return` the worker's end of it, `Receive` the page's; `Skip` and `GiveUp` are
the ways on which a message goes out unchecked. `Justify` is the server's minting
after the worker read the hash, `Store` its return. A message is a name, and
`Finding` says which of them fold into one finding. Three histories mark what the
code lets happen: a reason given after another message of the finding was stopped
(`crossed`) has that one's hash, so it lets through what its author did not mean and
not what she did; a grant that is displaced by a second one, or removed by an override
that used another (`background.js:376`), is gone without having been used
(`replaced`); and a token that ran out (`lapsed`).

### Deliveries and tallies

`PushDeliveries`: the map of deliveries with the three times it may hold (a short
hold, an hour, nothing), the queue and the workers. A process that dies forgets all
of it, and GitHub sends again. A push of which there was nothing to read is
remembered like one that was read. `outlived` are deliveries whose hold ran out
while their scan was pending: only those are scanned twice.

`EventArchive`: an event's thread reads the date, counts, buffers; a full or old
buffer is detached and needs a slot of the pool in `dispatch.py`; the finished job
gives it back. `late` events were buffered after `flush_all`; `killed` is a kill;
`straggled` is a thread that read the date before midnight and counts after another
one reset the counters for the new day: it resets them again.

`ScanFailures`: the tally is a file that is renamed, carried, deleted or folded back.
`slipped` says that one of the losses the code accepts has happened (the comment at
`palivane_addon.py:1226-1230` names some of them); the server's load and write of
the count (`LoadHeartbeat`, `RecordHeartbeat`) loses one as well. `FailuresTallied`
is that nothing else does.

### Plans, keys and subscriptions

`Billing`: Stripe makes events of statuses (`Buy`, `Turns`), which are delivered in
any order, twice and two at a time; `Adopt`, `Downgrade`, `Forget` and `Ignore` are
the outcomes of `_handle_event`. `_downgrade` has two commits, because `audit.record`
has one: hence `Downgrade` and `Forget`. Four histories excuse a plan: `late` (an
old event was obeyed after a newer one), `raced` (two handlers met, or Stripe's answer
about a subscription was overtaken: `Answered`), `unaudited` (the
audit entry failed, and took the plan's change with it, and the subscription was
cleared all the same), and `aside` (a subscription bought while another was live).

`TenantKeys`: a session `sees` the key as it loaded the row; `Prepare` is the mint
before the lock, `LockAndLook` the fingerprint lock and the lookup, `SealContent`
and `SealExcerpts` the uses under it, each of which may mint, which commits and
releases the lock. Two first users that both lack the key both mint, and what the
earlier one sealed is lost; `calm` marks the requests after that. A tenant that
stores content and has excerpts turned off mints under the lock, and
`MintKeepsLock` leaves it out.

`GraphSubscriptions`: `known` is `graph_subs` in the connector's state, `expires`
what Graph granted. A sync creates, renews or leaves alone; the notified scan of
`GraphDeltas` writes back the state it read. `forgotten` says that such a write
dropped a subscription. One that has expired at Graph is renewed at every sync and
never made anew; `checked` are the syncs after which the property may demand one.

### Watermarks

`GithubCommits`: `cursor` is the saved watermark with the failures and the push it
saw, `sync` the listing a sync works on. `InARow` is how far a watermark may move,
`FailCommit` a try that failed, the last of which gives the commit up. `missed` are
commits a merge brings in behind the watermark or a listing does not reach. `Huge`
commits have more files than one sync's budget, and hold the branch.

`GithubTree`: the first pass reads the tree in batches and saves an index into a
list that the next sync fetches again. Every file removed meanwhile may shift one
other past the index: `removed` counts them.

`MarkScans`: five sources with one watermark per stream, and what each does with an
order, a page and a budget. `Tied` items share a date with one that left a mark:
the strict comparison hides them. `Stuck` streams have more unread than a page (or
a budget, in Teams) and stay where they are.

`ExportPolls`: `mark` is the `since` the poller sends next, `Pages` the answers the
query allows (by time and id in `export_findings`, by time alone in the audit
export), `Stamp` the time `run_analysis` gives a finding or its repeat and `Commit`
its commit. `late` findings were committed behind the watermark: the time is taken
before the commit and no overlap of polls covers that. A page that holds one time
only (`Stuck`) is sent for ever. A poller that has no watermark yet is one with the
earliest time.

### Alerts and chains

`AlertWindows`: a worker reads the clock, loads `alert_digest_last`, claims by the
conditional update, asks, posts, and releases when the post fails. `excused` events
are those of a worker that died, of a release that came after the next claim, those
that committed after the claim of their window, and those from before the first.

`FleetAlerts`: a sweep marks a silent sensor and posts, a heartbeat clears the mark
it saw. Nothing releases the mark of a failed post (`failed`), and a sweep that
marks across a heartbeat (`raced`) leaves a mark on a sensor that is back, whose
next silence nobody is told of.

`WeeklyReports` (in `MCRequests`): `missed` is `weekly_report_retry`, `Resend` and
`SaveRetry` are `_retry_weekly`, `Claim`, `MailAll`, `Settle` and `GiveBack` the rest
of `run_weekly_reports`. The list is loaded before mails are sent and written after
them, without a lock. `lost` are the admins of a list that a newer report replaced, as
the comment at `alerts.py:320` says, or that a slow retry of an older one wrote over,
which it does not say. `shared` reports were sent again by two workers at once, or by
one that died before it wrote whom it reached.

`SessionChain`: a new finding looks back, and its analysis folds into the row with
the same stages or inserts one. `overlapped` correlations may insert two rows;
`crowded` lookups came to their limit.

## Runs

| run | instance | what it shows |
|---|---|---|
| `sync_claims` | 1 connector, 2 loops, 1 requester, 1 death, clock 0..6 | safety of claims, cursor and pacing |
| `sync_recovers` | 1 connector, 2 loops, 1 death, clock 0..11 | an orphaned claim is taken over |
| `sync_overlap` (violation) | 2 connectors, 2 loops, nobody dies | `ExclusiveScan` fails: a tick stamps its second claim with an old time |
| `slack_bot` | 2 conversations, 5 messages, budget 2, any number of events | coverage, gap order, fair turns, everything scanned in the end |
| `slack_discovery` | 2 conversations, 4 messages of both kinds, pages of 1, budget 2 | coverage and marks with one page per fetch |
| `slack_rescan` (violation) | 1 conversation, 4 messages | `CursorMovesOn` fails: a page without human messages is read again by every sync |
| `graph_deltas` | 2 drives, 2 changes each, budget 2, 1 notifier, 2 notifications, 1 failure | coverage whichever scan saves last, the budget, every change handled in the end |
| `graph_backlog` (violation) | 1 drive, 3 changes, budget 2, no failures | `EventuallyHandled` fails: the third change is never reached |
| `finding_fold` | 2 analyses, 1 reviewer, 3 events, 2 reviews, 1 purge, 1 death | one finding, counts, alerts, no stuck request |
| `finding_review` (violation) | the same without purge and death | `ReviewMatchesStatus` fails: an answer undoes a dismissal and leaves its record |
| `requests` | the twenty modules of `MCRequests`, small instances | accounts, grants, verdicts, deliveries, plans and keys under overlapping requests |
| `background` | the seven modules of `MCBackground`, small instances, 1 fault each | watermarks pass what was read, everything is read in the end, windows and chains are told |

**Bounds.** A claim of 3 units, scans of at most 2, an interval of 2 and a
catch-up of 1 keep the order of the code's 600, 480, 3600 (or 300) and 300
seconds: a scan is shorter than a claim and can be longer than an interval (GitHub's shortest is
five minutes). `MaxTime` 6 is two claims, so a scan can lose its claim, another
take it and finish, and a third begin; 11 leaves a whole recovery after the last
claim that is owed one. One item of progress is enough to move a cursor back.
In the Slack runs the budget is smaller than the messages, so windows are cut,
gaps are cut again (5 messages are the fewest for that; 6, with 795,000 states, were
checked on their own), and the rotation matters; a page of one makes every
Discovery fetch a partial one. `MaxGaps` stops a Discovery sync from starting
when a list has grown to it, because the defect `slack_rescan` shows makes the
list grow without end; that is why `slack_discovery` does not check deadlock.
In `graph_deltas` the first drive alone can use up the budget, so the second is cut
or not reached; two notifications let one scan save over the sync and another over
the first one. No drive has more changes than the budget, which `EventuallyHandled`
needs and `graph_backlog` takes away.
Three events are a first, a repeat and a race between repeats; two reviews are a
dismissal and the answer that meets it. Runs whose counters are exhausted stop,
and say `CHECK_DEADLOCK FALSE`; `slack_bot` has no such bound on its syncs and
checks deadlock.

In `requests` each part is as small as its cases allow. Admins: 2 people and 2
removals, on both databases (3 people give the same, with 160,000 states).
Domains: 2 organisations, 2 tokens, so one takeover. Grants: 1 code, 3 pairs, that
is two rotations, 2 handlers, a code and an access token of 1 unit and a refresh
token of 2, a clock of 3. Guesses: 3 at once against a limit of 3. Sessions: 1
sign-in, 3 endings, 2 tokens. Pushes: 2 deliveries and 2 workers, a hold of 1 and a
memory of 2 units of a clock of 3, one death. Archive: 3 events of 2 organisations,
batches of 2, a budget of 1 a day, 1 slot, 1 midnight. Tokens: every text of three
out of seven pieces, in every cut; slugs of 2 or 3 characters, hex runs of 2.
Verdicts: 10 signals over two detectors, 2
signals of one item (3, with 91,000 states, were checked on their own), 3 sets of
checks that are off, 4 sets of overrides.
Gateway: 5 conversations over 4 texts, budgets smaller than the longest of them, a
memory of 3, 3 turns of which 2 at once, 1 change of stance. Hooks: 3 transcripts
over 3 blocks, a memory of verdicts of 1 and of denials of 2 units of a clock of 3,
3 requests of which 2 at once, 1 fault, 1 change, from enforcing (4 transcripts and 4 requests, with
3.9 million states, were checked on their own). Browser: 3 messages, two of which
fold into one finding while the third is a confirmed credential, 3 sends of which 2
at once, 2 reasons, 1 message that goes unchecked (4 sends, with 3.9 million states,
were checked on their own). Failures: 2 flows and 2 claim files,
3 failures, 1 death. Billing: 2 subscriptions, 3 events, 4 deliveries, 1 fault (4
and 5, with 3.8 million states, were checked on their own; 5 events up to the first
that is excused). Keys: 3 requests.
Capture keys: 3 addresses, 3 keys, 5 requests of which 2 at once. Enrolment: 2 uses, a
quota of 2, 4 keys, 2 requests at once. Second factor: 2 secrets, 2 sets of 1 recovery
code, 2 time-steps, 2 requests at once (sets of 2 codes, with 2.6 million states, were
checked on their own). Weekly reports: 2 workers, 2 admins, 2 reports, 2 tries, 1
death (a clock of 2, with 1.4 million states, was checked on its own).
Subscriptions: a life of 3, renewed 1 ahead, a clock of 5, so that one can be
renewed, run out and be missed.

In `background`: 4 commits with a tie in their dates and one too large for the
budget of 2, listings of 3; 5 paths, batches of 2, a budget of 3, 2 changes of the
tree between syncs; 2 streams of up to 3 items with a tie, a page and a budget of
2; 2 workers and 2 findings over windows of 2; 2 sweeps, 2 heartbeats and 2
silences; 3 findings of 3 stages with a lookup of 2; 3 findings and 4 events in
pages of 2 over 3 times (5 events, with 34,000 states, were checked on their own).

**Symmetry.** The loops of `ConnectorSync` are interchangeable; the runs without
a liveness property use it. In `requests` the requests, handlers, deliveries, turns,
sends and flows of every part are given the same two or three values, and the first two of
them are interchangeable in every part; `background` checks a liveness property and
uses no symmetry.

**Fairness.** `ConnectorSync`: the clock goes on and a live process goes on with
its loop and its scan (weak; nothing in them waits for another process). No
fairness is given to requests, deletions or deaths. `SlackCursor`: weak fairness
of the sync as a whole, which stands for the operator's recurring sync; failures
are bounded (`MaxFails`), so progress is claimed once they stop. `GraphDeltas`: weak
fairness of the sync, for the same reason; none for notifications. `FindingFold`:
an analysis goes on, and PostgreSQL hands an advisory lock to its waiters in
turn, hence strong fairness of `LockFingerprint`. `MCBackground`: weak fairness of
`ScheduledStep`, a sync that is due is begun and goes on, which is what the
scheduler of `ConnectorSync` does, and a SIEM goes on polling; none for the alerts, the correlation or anything
that happens outside. `MCRequests` has safety properties only.

**Mutants.** Every property of a passing run has a changed definition in its
module, named after a plausible mistake (a claim kept for too short a time, a
write without the claim's condition, an exclusive bound taken as inclusive, no
lock), under which TLC finds that property violated.

## What the violations say

* `sync_overlap`: `run_scheduled_scans` reads the clock once and scans up to
  three connectors with it (`connector_schedule.py:88`, `:104`). The second
  claim can be almost stale before its scan begins. The scans overlap; the
  cursor is still safe, as `CursorNeverRegresses` shows in the other run and in
  general by its theorem, and `OverlapNeedsAnOldStamp` says that this is the
  only way scheduled scans can overlap.
* `slack_rescan`: through the Discovery API a page without human messages leaves
  the watermark behind and its gap is read again by every sync.
* `graph_backlog`: a drive whose budget runs out keeps its old link and loses its
  place, so a drive with more changed files than one sync may read is read up to
  the same file every time and never to its end.
* `finding_review`: an answer that loaded the finding open commits after a
  dismissal and turns it into `triaged`, with the dismissal's reviewer and
  reason left in place.

## Proofs

`ConnectorSyncProofs` proves, for any finite set of connectors, any processes
and requests, and any times that satisfy `TimesAssumption` (a claim lasts longer
than a scan, an interval is at least the catch-up pause):

* `TypeCorrect`: `Spec => []TypeOK`
* `HolderCorrect`: `Spec => []HolderIsCurrent`
* `OverlapCorrect`: `Spec => []OverlapNeedsAnOldStamp`
* `CursorMonotone`: `Spec => CursorNeverRegresses`
* `ScansAreSpaced`: `Spec => NoHammering`

None of these is inductive as it stands. `HolderIsCurrent` needs the types and
a job behind every worker (`WorkersHaveJobs`): then a finish that writes is the
holder's own, and takes its claim with it. `OverlapNeedsAnOldStamp` needs to know
that a worker's claim is lost only by going stale (`LostClaimsAreStale`), for
which clocks must have been read in the past (`StampsArePast`), and that a scan
ends in time (`ScansEndInTime`): of two scans of one connector at most one holds
the claim, and the other one's is at least `ClaimSecs` old. `NoHammering` needs
that what was recorded as the last scan's time is not older than the pause
allows (`FinishesAreStamped`), together with `StampsArePast`, since a tick may
use an old clock. Their conjunction is `IInv`. One lemma per conjunct shows that
every action preserves it, `InductiveInvariant` puts them together, and the two
action properties follow from `IInv` in a single step. `StampBounds` is where the
arithmetic of `_stamp_for` and `TimesAssumption` meet.

`FindingFoldProofs` proves, for any finite set of analyses, any reviewers, and
any number of events, reviews, purges and deaths:

* `TypeCorrect`: `Spec => []TypeOK`
* `OneFindingCorrect`: `Spec => []OneFinding`
* `CountsCorrect`: `Spec => []RepeatsCounted`
* `AlertsCorrect`: `Spec => []AlertsAreEarned`

The lock makes the insertion after an empty lookup safe: `LockHeld` says that
whoever looks up or writes holds it, and `LookupHolds` that what the lookup
found is still so at the write, since reviewers never touch the count and
retention only empties the table. Then a row is inserted only when there is
none, and a fold adds one to what is stored and not to an older value.
`AlertsAreEarned` alone is not inductive: an analysis owes its alert from the
commit to the sinks, and a stored dismissal is worth one more. `AlertsBacked`
counts both, and a reopen spends the dismissal for the alert. The proofs follow
three kinds of step, those that write no row, those that edit one (`EditOf`,
whoever reviews), and fold, insertion and deletion.

`GraphDeltasProofs` proves, for any number of drives, any budget, any set of
notified scans and any bounds:

* `TypeCorrect`: `Spec => []TypeOK`
* `CoverageCorrect`: `Spec => CoverageSpec`, that is `Spec => Coverage!Spec`

Coverage of the saved links is not inductive: a scan will save its copy later, and
a sync that fails what its session has loaded. `IInv` says of all three, of every
scan, that they pass only changes that exist and were handled, and it is enough
that `handled` never shrinks: a copy may be old, it is never wrong. `ScanKeeps` is
the one place where a link advances; `SaveKeeps` and `StartKeeps` say that copying
links about keeps the invariant. For the refinement a change is a `Post`, a scan a
`Read` and every save a `Rewind`, for which the invariant is needed on both sides
of the step: what one set of links passes and the other does not was handled. The
bound on `spent` rests on `WithinRoom`, a counting argument: the files a scan reads
map to different numbers of files before them, so by the pigeonhole principle
there are at most as many as the room it has.

`SlackCursorProofs` proves, for any conversations, messages, page size, budget and
bounds, for the bot's scan and for Discovery's:

* `TypeCorrect`: `Spec => []TypeOK`
* `GapsCorrect`: `Spec => []GapsInOrder`, when the scan is the bot's
* `TurnsCorrect`: `Spec => []FairTurns`
* `MarksCorrect`: `Spec => MarksAdvance`, when the scan is Discovery's
* `CoverageCorrect`: `Spec => CoverageSpec`

There are three copies of the cursor: the saved one, the one a sync works on, and
the one an events worker has read and will write back. They may differ in every
mark and gap, but they owe the same messages, apart from those that were scanned
since; that, and the order of the gaps in all three, is the invariant for
`CoverageCorrect` and `GapsCorrect`. The refinement maps a `Post` to a `Post`, the two
reads to `Read`, `Save` to `Settle` or `Rewind`, `LearnWorkspace` to `Rewind`, `AgeOut`
to `Expire`, and everything else to a stutter. For `FairTurns` the conversations
stand on a ring that `resume` cuts open: how long one has waited is bounded by the
number of those between the cut and it, and a round that was cut moved the cut.

The next three modules are about `MCRequests`. Each has an invariant per part, which
the part's own steps keep; one theorem per module puts them together over `part`.

`RequestsProofs` proves, for any organisations, tokens, requests, subscriptions and
events:

* `ClaimsCorrect`: `Spec => []ClaimIsItsOwn`
* `KeysCorrect`: `Spec => []KeysHold`
* `PlansCorrect`: `Spec => []PlanSettles`

Each rests on what a handler has read and not yet written. Domains: a verification
that is about to write has proven the token of the claim it loaded, a takeover loaded
a claim that was not verified, and a claim that was written by both is `crossed`.
Keys: a session that sees a key sees the row's, once the first minters are done
(`calm`), and a request that is past its lookup still holds the lock. Plans: the
events of a subscription are numbered, the newest says its status, what a handler
read of the row or was told by Stripe still holds, and the row follows the newest
event that was answered. The last had not been so in an earlier form of `Billing`: a
checkout asks Stripe about the current subscription and hears that it is not live
(`billing.py:256`), the subscription is paid again and the event that says so is
answered, and then the checkout replaces it (`:279`); when the new one is deleted, the
plan is free and the old one is still paid. It takes five events, more than the run
has; with them TLC finds it too. `raced` now says that it happened.

`AccountsProofs` goes on from there:

* `AccountsCorrect`: `Spec => []AccountsHold`
* `AccessCorrect`: `Spec => []AccessEnds`
* `TurnsCorrect`: `Spec => []TurnsAreHeld`

`AccountsHold`. A removal that has written holds the organisation's
lock (or SQLite's), and has left an admin who is not the one it removes: its own
count after the write says so, and nobody else can write before it commits. What it
loaded before the lock may be stale, and those are the removals the property excuses.
Guesses: what is being tested counts as wrong until it is recorded, so that the wrong
ones and those in flight stay within the limit and one for each other guess. Second
factors: a secret or a set of codes is new when it is made, and what a request
loaded differs from the row only in what a crossing commit changed.

`AccessEnds`. A grant's pairs are one line, in which each pair has at most one heir;
a handler that has read a pair has read one of the line, and whoever wins the
conditional update owns its end (`GrantInv`; all pairs are within the consent they
came from, and an end reaches every pair that was made before it). Sessions: `SessionInv` counts
versions: unless a request raced, the present version is later than that of every
ending that is finished, and no session or challenge carries a later one. Capture keys: the last key handed out
is an active one, every active key carries the person's address unless it is `astray`, and there
is one unless a connect was doubled (`CaptureInv`). Enrolment: who holds the token's
row is alone and found it claimable, and at most one use is counted without its key.

`TurnsAreHeld`. Turns: `seen` holds only texts that were judged harmless or that a
history excuses (`SeenAreJudged`), and what a turn has read and did not scan was seen;
every turn knows whether the stance or the role was off since it began (`LaxIsKnown`),
and that decides what may be let through. Prompts: a denial that has not run out has
its row unless it is `slipped` (`DenialsLast`); two handlers of one id make it doubled, so
that otherwise the first answer is the one recalled (`FirstIsRecalled`), and a handler that found nothing
was the first (`RecallFits`). Sends: what makes `JustifiedGoesThrough` inductive is
where a justification is that waited when its message was sent. Until the worker attaches
the grant it is the stored one, since whatever takes its place marks it
replaced (`GrantIsStored`); from then on it is the send's own; and as its hash is
that of the message (`ReasonsFit`, for which the dialog's message has to be the last of its
finding, `DialogFits`), the server honours it. `OfferFits` says so at each step. A message that is
stopped at once by the page is of a confirmed leak (`RecentFits`) and no
justification is for it.

`DeliveriesProofs` proves, for any deliveries, workers, subscriptions, admins, events,
slots, flows, lifetimes and bounds:

* `NotificationsCorrect`: `Spec => []NotificationsHold`
* `CountsCorrect`: `Spec => []CountsAddUp`

`NotificationsHold`. Pushes: what is ignored is pending or was read, and a delivery is
pending at most once unless a hold was outlived. Subscriptions: no copy of
the state, the stored one or one that a sync has loaded, promises a later end than Graph granted,
and a sync that is to save has one that lasts far enough. Weekly reports: the list of
those whom a report missed is on the row or with the worker who loaded it
(`ListsStand`), everybody who is owed a mail is on one (`OwedAreListed`), and a retry
is mailed by whoever claimed it (`RetriedOnce`).

`CountsAddUp`. The property counts; the invariant says the same of elements: every
event that is finished is in exactly one of the archive's places, batches do not meet, and
the slots of the pool are the free ones and those of jobs (`ArchiveInv`). After `flush_all` whatever is buffered or on its
way came late, and the day's counter is the number admitted unless a later day has
admitted something (`DaysCounted`). Sensors (`SensorInv`): the claims that flows hold
are apart, what a flow has read of the tally is the file, one for its own failure and
the claims it folds back, and row, file and the claims that live add up to the failures,
unless a flow `slipped` between another's reading and writing. `Total` is the sum of
a function over a finite set, by a recursive function on its subsets; `TotalSplits`,
`TotalJoins` and their like say that it adds up in any order, by taking a least
counterexample (`ByElements`).

`BackgroundProofs` proves, for the constants of `MCBackground`:

* `AlertsCorrect`: `Spec => []AlertsArrive`
* `PassedCorrect`: `Spec => []OnlyReadIsPassed`
* `ChainsCorrect`: `Spec => []ChainRecorded`
* `TypesCorrect`: `Spec => []TypeOK`

Digests: the windows that workers
have claimed or delivered end by the last digest and do not meet (`WindowsApart`),
because a claim moves `alert_digest_last` from the value the worker loaded, and a
release puts it back only while it is still the worker's own; and every stored event
of a window that counts as sent was told, is excused, or is of a window somebody has
(`NothingEaten`), who finds it when he asks. Sensors: a silence has one page, or one
sweep that will send it, and none while it is not marked.

What a watermark has passed needs, beside itself, what a sync is about to pass
(`PassedInvariant`). Commits (`ListIsWhole`): a sync that reads has on its list, or has
settled, every commit from the watermark on, apart from those pushed since that are
later than the whole list, so that the last commit it read in a row is a safe
watermark. Files: the cursor is an index into a list that may have changed; the
unread files before it are at most as many as were removed, and during a pass also
those removed from under the list count (`FilesInv`, by counting the places below a
path). Marks (`GoodMark`): all that a mark passes was scanned, grew old or has the
date of an item that was scanned, and what appears later is beyond it or ties with
it; a first scan begins where everything left out has grown old (`FirstScans`). A
page read oldest first gives a good mark wherever it stops, one read newest first
only when it was read to its end. Exports: the property is inductive.

Chains: it is enough that every chain among the findings looked at (`Looked`), not
only the whole of them, has a row or an analysis on its way that will write one
(`LookedIsOnRecord`): a lookup that is not cut by its limit sees all that were looked
at before, so that its own stages cover every chain it is part of, and a chain it is
not part of was on record already. That the row found still has those stages, and that
without overlap nobody inserted one since, are `RowFound` and `OneOpenRow`.

`TypeOK` bounds counters as well, and what bounds one is not always where it is
changed (`TypesInv`): files are removed only by edits of the tree, which are bounded;
the row a correlation goes on with is one of those there are; a sync scans no more items
than its budget, since the first items of a page that a budget covers are at most as many
(`FirstFew`, a counting argument); and no mark is later than the last date.

The instances of `MCRequests` and `MCBackground` take what these proofs generalise
over from constants, whose assumptions are the instances' own (`Assumptions`): finite
sets of people and requests, bounds and limits that are natural numbers, a lifetime
or a page that is not zero, at least one address, finitely many events and slots; dates of
commits and items, which are in order. The detectors' verdict of a text, the
conversations, the transcripts and the findings that messages fold into are any.
What else the parts of `MCRequests` are on is fixed in that module.

Only model-checked: the liveness properties (`OrphanRecovers`, `EventuallyScanned`,
`EventuallyHandled`, `AnalysesEnd`, `CatchesUp`), which the prover cannot do under
fairness; the types of all parts of `requests` together (`TypeOK` of `MCRequests`; the
proofs above contain the types they need); and `ContentIsKept`, which is about what
computations over data give: the reversal of tokens is a recursion over a text, and a
verdict a fold over signals, one step each.

## Not modelled

What the detectors recognise and everything else that only computes, the other clients, the
console and deployment (see `components`). Within the modelled parts: message
deletion, channel joins, the files attached to messages and Salesforce records,
evidence context, content-origin severity, SQLite in `FindingFold` (its lack of the
advisory lock is the mutant `LockNothing`), an administrator editing a connector's
credentials during a scan; the pages about revoked keys; GitHub's other branches and what a push's scan reads; join
requests of a domain; the limit of guesses per address; counts and severities of a
chain; the debouncing of Graph's notifications; the residual count of the archive;
the eviction of remembered verdicts; globs and the enforcement stance of overrides,
allow lists and redaction; the export of a whole organisation, the chain of the audit log; the hook's tool calls; the
extension's other wrappers, windows of a long message, and the copy with what was found
removed; the rest of the gateway
(routing, upstreams, formats) and of the proxy (its breaker, what it intercepts);
what Slack's events do beside the cursor; scopes and expiry of keys; metering, trials and licences, which are
single statements.

Two observations outside the models, from reading: a trial's notices are marked once
and the mark is never reset, so that a second trial gets none (`trial.py`), and a
denied tool result of an inference hook has no hash and passes in later transcripts
(`main.py:1906-1926`).

## Plan

1. Done: claims with their proofs, the Slack cursor with its abstract
   specification, SharePoint's delta links with the proof that they implement
   the same specification, findings with their proofs.
2. Done: the watermarks, Graph subscriptions, digests and fleet alerts, the OAuth
   provider, correlation, GitHub, delivery, accounts; then the gateway, the
   inference hook, the proxy's tally, billing and data keys; verdicts and exports; the second
   factor and the weekly report.
3. Done: the proofs about the Slack cursor and its refinement, the accounts, domains,
   keys, plans and alerts, watermarks and chains; then those about grants, sessions and
   capture keys, the deliveries and counts, and turns, prompts and sends.
4. Left: `ContentIsKept` for any detectors and texts, for which `Verdicts` would need its
   fusion of signals without folds.
