# TLA+ models of the Mother API

These modules model `iron-burrow-mother-api-rs`: an axum service that answers
on-chain balance, transfer, asset and workspace requests, protects them with API
keys kept in PostgreSQL, and asks two upstream services (Bigwig for chain data,
the price indexer for quotes). File names below are relative to the repository.

## The system

### Parts and where their state lives

| Part | Code | State that changes | Modelled by |
|---|---|---|---|
| API-key admission middleware | `src/adapters/http/auth.rs` | one future per request | `ApiKeyAdmission` |
| Minute limiter | `src/adapters/http/rate_limit.rs` | mutex-protected map, lost in a restart | `MinuteLimiter`, `ApiKeyAdmission` |
| Capability authorization | `src/domain/capabilities.rs` | none (a decision) | `Authorization` |
| API-key tables | `src/adapters/postgres/api_keys.rs` | keys, policies, grants, account status | `ApiKeyAdmission` |
| Daily usage counters | `src/adapters/postgres/api_keys.rs`, `migrations/0008` | `api_key_usage_daily` rows | `DailyUsage`, `UsageCounters` |
| Administration commands | `src/admin/mod.rs` | through the API-key tables | `ApiKeyAdmission`, `BrowserAccounts` |
| Start, shutdown, restart | `src/infra/server.rs`, `src/bootstrap/http.rs` | the process | `ApiKeyAdmission` (Restart), `ReadRequest` (Boot) |
| Accounts, sessions, demo keys | `src/adapters/postgres/accounts.rs`, `src/adapters/http/web.rs` | accounts, identities, sessions, intents, cookies | `BrowserAccounts` |
| Workspaces | `src/adapters/postgres/workspaces.rs`, `src/application/workspaces/mod.rs`, `src/adapters/http/workspaces.rs` | workspaces, members, labels, activity events, snapshots | `Workspaces` |
| Asynchronous reports | `src/adapters/http/routes/reports.rs`, `src/adapters/postgres/async_reports.rs` | report rows | `AsyncReports`, `ReportLedger` |
| Balances | `src/adapters/http/routes/balances.rs`, `src/application/balances` | one future per request and per Bigwig call | `Balances`, `BalanceService` |
| Workspace portfolio | `src/application/workspaces/portfolio.rs` | one future | `Portfolio`, `BalanceService` |
| ERC-20 transfers | `src/adapters/http/routes/erc20_transfers.rs`, `src/application/erc20_transfers` | one future | `Transfers` |
| Assets and resolution | `src/adapters/http/routes/{assets,resolve}.rs`, `src/application/assets` | one future | `Assets` |
| Portfolio simulation, realized yield | `src/application/{portfolio_simulation,defi_realized_yield}.rs`, `src/adapters/aave_v3`, `src/adapters/http/data_lab.rs` | one future, a cache of blocks | `Simulation`, `RealizedYield`, `AaveEvidence` |
| Bigwig and price-indexer clients | `src/adapters/bigwig`, `src/adapters/price_indexer` | none | `Bigwig`, `PriceIndexer`, `BalanceUpstream` |
| Canonical and protocol registries | `src/domain/{canonical,verified_protocol}_registry.rs` | none after the start | `Registry`, `Protocols` |
| Request checks, decimals, time | `src/adapters/http/{validation,json_body}.rs`, `src/adapters/http/dto`, `src/application/balances/decimal.rs`, `src/common` | none | `Requests`, `Decimals`, `Calendar` |
| Router, OpenAPI, configuration, migrations | `src/adapters/http/router.rs`, `src/openapi.rs`, `src/config`, `src/cli.rs` | none | not modelled |

`PROJECT.json` lists every part with its status, and under `hazards` what can go
wrong in this code at which line, with the properties that would notice.

### How the modelled parts interact

`require_api_key_for` takes a request through a fixed sequence: look the key up,
read its policy, read the grants of its owner, client and of the key itself,
reserve a slot in the process-wide minute limiter, run the daily-quota statement,
run the route handler, count the response. Every arrow of the sequence is an
await: other requests, the administrator, the clock and a crash get in between.
Nothing is locked across two steps.

The workspace pages are reached with a browser session instead of a key. They
look a workspace up by its owner, decide on what they read, and open a transaction
that changes rows and appends the activity event of the change. Between lookup and
transaction other requests commit; what protects a change is either in the
transaction (a `where` clause, a row lock, a unique index) or a stale check. The
sessions themselves come from the sign-up, login and logout pages, and an
operator who suspends an account ends them while such pages are in flight.

A report is stored, handed off to Bigwig and marked running by the request that
submits it; Bigwig calls back with the outcome, perhaps twice and perhaps before
Mother has seen its reply to the handoff. A retry under the same idempotency key
continues where an earlier submission stopped.

The reading handlers keep nothing. A balance request plans one Bigwig call for
each network and runs them concurrently, then asks for prices; the portfolio of a
workspace runs the same service command by command; transfers, assets, the
simulation and realized yield call their upstreams one or two at a time. Every
call may be lost, refused or answered with something malformed, and the grants a
handler checks may be revoked after the middleware has looked at them.

## The modules

**`Authorization`** – grants, network scopes and `evaluate_authorization` as
operators. An `Option` is a set of at most one element.

**`MinuteLimiter`** – the critical sections `reserve_at` and `release` as
functions of the window map and of the instant the caller sampled. A caller
samples `Instant::now()` *before* it takes the mutex, so instants reach the map
out of order; `ApiKeyAdmission` lets a sample be up to `LockDelay` ticks old.

**`ApiKeyAdmission`** – the middleware, the limiter and the tables together.

| Variable | Code |
|---|---|
| `key_status`, `expired`, `owner_status`, `policies`, `grants` | `api_key`, `api_consumer` / `ib_account` / `ib_client`, `api_key_policy`, the grant tables |
| `usage` | `api_key_usage_daily` (a missing row counts 0) |
| `windows` | `ApiKeyMinuteLimiter.windows` |
| `now`, `booted_at`, `restarts`, `today` | monotonic clock, process, UTC date of the database |
| `pc`, `presented`, `capability`, `outcome`, `slot`, `accepted_on`, `answer` | the locals of a request's future and the answer it was given |
| `handled` | history: the requests whose handler ran |

| Action | Code |
|---|---|
| `Arrive`, `Authenticate`, `FindPolicy`, `FindGrants` | route layers, `authenticate` with `principal_from_lookup`, the two lookups |
| `Reserve` | `reserve` |
| `IncrementDailyAccepted`, then `Settle` | the statement takes effect; later its result (or a lost reply) is acted on, with `release` on every refusal |
| `RecordRateLimited`, `Respond`, `RecordResponseClass` | the remaining statements and the handler |
| `Disconnect` | the client goes away: the future is dropped at an await and nothing is undone |
| `IssueApiKey`, `IssueAccountApiKey`, `RevokeByPrefix`, `SetAccountStatus` | the administrator's transactions |
| `KeyExpires`, `GrantExpires`, `PolicyDisappears`, `Tick`, `Midnight`, `Restart` | time, an operator's delete that the middleware has an arm for, a crash or an ordinary restart |

Decisions worth knowing:

- A database call is the step in which its statement takes effect; the code that
  uses the result is a later step. A statement may fail without effect, and a
  writing statement may take effect and still be reported as failed.
- `find_authorization_grants` runs several queries; they are one step. The
  owner's grants are read first, and those of the client and of an issued key only
  shrink, so every outcome of the separate queries is an outcome of a single read
  at the first or at the last of them.
- A key that does not exist yet has the status `unissued`. Issuing is one
  transaction per attempt: the retry after a prefix collision repeats a
  transaction that left nothing behind, and is not visible in the model.
- Issuing a second key to a legacy consumer inserts the consumer's missing
  unscoped grants. A capability the consumer had only for one network can
  therefore come back after it expired; an unscoped row, whatever its status,
  is never touched. `Lost` states exactly this.
- A graceful shutdown is a `Restart` with no request in flight.
- The browser sessions that `set_account_status` ends admit no API request;
  `BrowserAccounts` has them.

**`DailyUsage`** – the three counter statements one level down. `now()` is fixed
when a statement starts and sets the row's date and timestamps; the upsert takes
effect later, on the latest version of the row; the table's check constraint may
reject the new version. **`UsageCounters`** is what the counters promise, and
`DailyUsage` is shown to implement it.

**`Workspaces`** – the handlers, the service and the tables of workspaces.

| Variable | Code |
|---|---|
| `workspaces`, `members` | `workspace` rows; `workspace_member_address` with the labels of each |
| `log`, `snapshots` | `workspace_activity_event`, `workspace_treasury_snapshot` (with history fields: commit rank, status at the insert) |
| `now`, `began` | the database clock, and `now()` of each open transaction |
| `pc`, `op`, `found`, `captured`, `answer` | a request: its place, what it asks for, the status and members it read, its answer |
| `reader` | a client that follows `next_before` through the timeline, with what it was shown |

| Action | Code |
|---|---|
| `Arrive`, `Refuse` | session, CSRF token, form and repository checks of every handler |
| `Find`, `FindMember` | `find_owned`, `find_owned_member` and the service's decisions on their rows |
| `Permit`, `ReadMembers`, `Resolve`, `StoreSnapshot` | `capture_treasury_snapshot`, `balance_view` and `transfer_view` up to what they store |
| `Begin`, then `Create`, `Rename`, `SetArchived`, `AddMember`, `AddLabel`, `RemoveLabel`, `AppendObservation` | the transactions of the repository with `append_event` |
| `Abort`, `Drop` | a call fails without effect; a client leaves |
| `FirstPage`, `NextPage` | `list_activity` and `activity_events` |

A transaction takes effect in one step after it began, because each decides on a
row it has locked by then, on a row that never changes, or on a unique index. The
capability checks and the balance and transfer services may answer anything.
An event's `at` is the time its transaction began and its `id` is arbitrary, so the
order of the timeline differs from the order of commits. The id of a new workspace
is any unused one, so an instance allows as many creations as it has spare ids.

**`BrowserAccounts`** – the pages of the site, the session middleware, and the
transactions behind them.

| Variable | Code |
|---|---|
| `account`, `identity`, `workspace`, `session`, `intent` | `ib_account`, `account_identity`, initial workspaces, `browser_session`, `anonymous_demo_issuance_intent` with the keys issued from each |
| `jar`, `seen` | the cookies of each browser, and the form tokens in pages it has loaded |
| `req`, `op`, `now` | requests with their locals, the operator's calls, the database clock |

| Action | Code |
|---|---|
| `Send`, `AttachBrowserContext`, `FindSession` | a browser's request; `attach_browser_context`, where the `update` of `find_session` begins with its `now()`, and where it takes effect and moves the idle deadline |
| `EntryPage`, `LabView`, `Access`, `Logout` | the pages that need no transaction |
| `SignupSubmit`, `SignupBegin`, `SignupCommit` | `signup_submit`, `signup_and_create_session` |
| `LoginSubmit`, `LoginLookup`, `LoginRehash`, `LoginBegin`, `LoginCommit` | `login_submit` with its three calls of the repository |
| `DemoBegin`, `DemoSelect`, `DemoIssue` | `issue_demo`, the transaction of `consume_demo_intent_and_issue_key` |
| `Deliver`, `Drop` | the response sets cookies in the browser, or the connection is lost |
| `OperatorBegin`, `SetAccountStatus`, `Tick` | suspension and closing; time |

A token is random in the code and is named here by the request that made it, so it
is fresh by construction and never guessed. Hashing is a comparison of the hashed
value. Two requests of one browser are two tabs: they share its cookies. A transaction,
and a statement that compares a row with the clock, begins in one step, which fixes its
`now()`, and takes effect in a later one, when the clock may have moved on.

**`AsyncReports`** – `create_report`, `complete_report` and `fail_report` statement
by statement, with Bigwig as an environment that takes what was posted to it and
delivers outcomes, any of them more than once. A row's `state` is its status, and
for a final row the digest of its report. The catalog of reports is a constant,
because the code's (`REPORTS`, `src/application/async_reports.rs:12`) is empty in
this version: every submission is refused today, and the module describes what
the handlers do once an entry is added. **`ReportLedger`** is what Mother promises
about reports; `AsyncReports` is shown to implement it.

**The reading handlers.** `Reads` is the union of six handlers over the frame of
`ReadRequest`: a process starts on a catalog and a protocol registry (`Boot`, which
refuses inconsistent ones), one request arrives, and its handler runs step by step
while grants may be revoked. `input` is what a behaviour starts from, `local` holds
the locals of the handler and `answer` what it responds. One request at a time is
enough: the handlers share no memory.

| Module | Handler | Steps |
|---|---|---|
| `Balances` | `/v1/balances`, `/v1/balances/bulk` | body, scopes, plan, the replies of concurrent Bigwig calls in any order (a task may also die), assembly, prices, presentation |
| `Transfers` | `/v1/erc20-transfers/search` | body and window, scopes, token filters, extraction, labels, rows |
| `Assets` | list, detail, signals, resolve | prices chunk by chunk, signals one by one |
| `Portfolio` | `resolve_workspace_portfolio` | networks the account may read, plan, one balance command after the other, contributions and totals |
| `Simulation` | the Lab's simulation form | prices, blocks and indexes of each boundary, calculation, the stored run |
| `RealizedYield` | the Lab's yield form | protocol, finality, two concurrent indexes, two concurrent times, the rate |

They are written with operators of modules that hold no state: `Requests` (checks
of a body, in the code's order), `Registry` and `Protocols` (validation and lookups),
`BalanceService` (planning, validation of replies, assembly, quotes), `Bigwig` and
`PriceIndexer` (what each reply becomes), `BalanceUpstream` (the replies there can
be), `AaveEvidence` (the block search and the index), `Decimals` (digit strings),
`Calendar` (timestamps and civil dates) and `Lists` (helpers on sequences). Amounts
are digit sequences and timestamps
are fields with offsets, because properties are about digits, scales and instants;
names, symbols and payloads are single values. `resolve_workspace_portfolio` has no
route yet; it is modelled as its callers will see it.

The modules named `..MC` give the instances for TLC, those named `..Proofs` hold the
proofs. Operators marked "Mutant" are plausible mistakes in the definition that
follows them; the specifications never use them. They show that each property can
fail.

## Model checking

Run, for instance, `tlc -config ApiKeyAdmission.cfg ApiKeyAdmissionMC`.

| Run (cfg) | Instance | Checks |
|---|---|---|
| admission (`ApiKeyAdmission.cfg`) | 3 requests of one key, from its issuance on, with limits 2 and 2; windows of 2 ticks, 4 instants, samples up to 1 tick old, 2 dates, one restart, lost replies, disconnects; 396 k states | `WindowAccounting`, `MinuteQuota`, `DailyQuota`, `RefusedUncharged`, `NoDoubleCounting`, `MinuteRejectionJustified` |
| lifecycle (`Lifecycle.cfg`) | 2 requests, an agent key and a demo key; revocation, key and grant expiry, account suspension and closing, failing lookups; 37 k states | `RevocationIsFinal`, `GrantLossIsFinal` |
| liveness (`Liveness.cfg`) | 2 requests, a legacy consumer whose two keys are issued meanwhile, scoped and unscoped grants expiring, a vanishing policy, a counted and an uncounted response class, one restart, 2 instants; 133 k states | `GrantLossIsFinal`, `RequestAnswered` |
| daily_usage (`DailyUsage.cfg`) | 4 statements on any counters over 2 dates; 252 k states | `CountersExact`, `RefusalJustified`, `ImplementsUsageCounters` |
| workspaces (`Workspaces.cfg`) | 3 requests of the owner and of another account on one workspace with one member and room for one more; 613 k states | `MemberLimit`, `OwnerOnly`, `LogReplays`, `AnswersTruthful`, `ArchivedIsFrozen` |
| activity (`Activity.cfg`) | 3 requests adding and removing labels that differ in case only, an archive, a client reading pages of one event, 2 instants; 1.6 M states | `LabelsDistinct`, `LogReplays`, `TimelineComplete` |
| accounts (`BrowserAccounts.cfg`) | 2 tabs of a browser, an operator, an email that may or may not be registered, 2 passwords, every statement may fail, 4 instants over which sessions and intents expire; 1.5 M states | `SignupAtomic`, `SessionsRotate`, `OneKeyPerIntent`, `SessionDeathIsFinal`, `PasswordKept` |
| reports (`AsyncReports.cfg`) | 2 submissions under one key with equal or different requests, 2 deliveries of any outcomes, lost replies, drops; 837 k states | `ReceiptMeansHandedOff`, `CompletionConflictJustified`, `ImplementsLedger` |
| reads (`Reads.cfg`) | every handler on lists of valid and invalid requests, catalogs, configurations and grants, against every combination of replies; 43 k states | `BalancesAnswered`, `StatusHonest`, `CatalogPlansSoundly`, `DeniedNetworksNotRead`, `TransfersLabelled`, `WindowsOrdered`, `FailuresStayLocal`, `PortfolioAddsUp`, `BlocksAtOrBefore`, `SimulationHonest`, `YieldOfFinalBlocks` |
| spurious_failure, label_limit, archived_read_only | see Disagreements | one property each, violated |

Why these bounds are enough to be interesting: three requests are one more than
the limits, so one is refused while two hold slots, and one can release into a
window that a later one reopened; four instants hold two windows and a restart;
two dates let a request be accepted before midnight and answered after. Three
further bounds are named in the configurations: `Failing` and `Dropping` say at
which stages a call may fail or a client leave in a run, and `MaxRestarts` how
often the process dies. Requests, statements, submissions and deliveries are
interchangeable, and the large runs use that symmetry (no liveness property is
checked under symmetry). The lifecycle run leaves the clock at 0, and the liveness run
gives it the one tick that a restart takes: windows play no part in them. In the workspace runs three requests are enough for
two to decide on the same rows while a third archives or restores; the clock
matters only to the timeline and stands still in the others.

Two tabs and an operator are three concurrent transactions on one account, which
is what the row locks of `accounts.rs` order; a session reaches its idle deadline
and its absolute one within the four instants, and a lookup may begin before a
deadline and take effect after it. Two submissions and two deliveries
let a retry meet the first attempt at every stage, and a redelivery meet the
statement of the first delivery. In the reads run the limits are small (3 accounts,
3 tokens, 9 items, batches of 3) but keep the relations of the code's, so that
lists end before, at and after the edge of a chunk. `ReadsMC` lists the inputs: two
networks, catalogs that are valid, flawed in one place each, with retired entries
and larger than a chunk; requests that break one rule each; timestamps around leap
days with offsets and fractions; chains with equal timestamps, shorter than the
confirmations, and ending before the last boundary.

Deadlock is checked in the reads run, where a request must reach an answer or the
process must have refused to start. Elsewhere requests and statements are finite in
number, and a run rightly ends when all of them are answered and the bounds are
reached.

**Fairness.** `FairSpec` asks weak fairness of each request's own steps: the
runtime polls a future that can proceed, and every call returns. The calls that
handlers make to upstream services have timeouts. Those to the database have none
(`src/infra/db.rs` leaves sqlx's default bound on the wait for a connection, and sets
no statement timeout): for them fairness assumes that PostgreSQL answers or the
connection breaks. Nothing is asked of clients, the administrator, clocks or crashes.
`RequestAnswered` follows only because every outcome of every call has an arm that
answers.

### What the properties say

- `WindowAccounting`: a live window's `used` is exactly the number of requests
  holding a slot of that window. A release after the window was replaced, after a
  restart, or by a dropped request neither frees a foreign slot nor loses one.
- `MinuteQuota`, `DailyQuota`: the handler runs at most as often as the limits
  allow per window and per date; lost replies can only lower the number.
- `RefusedUncharged`: whatever step refuses a request, no slot stays behind.
- `NoDoubleCounting`: over all dates no request is counted twice, in admission or
  in response counters.
- `MinuteRejectionJustified`: a minute-limit refusal is caused by slots still held
  in a window open at a recent instant, never by released or expired ones.
- `RevocationIsFinal`, `GrantLossIsFinal`: what commits before a request's lookup
  binds that request for good, also across restarts and newly issued keys.
- `CountersExact`, `RefusalJustified`: no interleaving of upserts, around midnight
  or not, loses or invents a count or refuses below the limit.
- `LogReplays`: replaying a workspace's events in commit order gives its name,
  status, members and labels, and every event is possible where it stands: each
  change is logged once and nothing else is.
- `MemberLimit`, `ArchivedIsFrozen`, `LabelsDistinct`: stale lookups never get
  past the lock, the `where` clause or the index that the transaction ends at.
- `OwnerOnly`, `AnswersTruthful`: events and snapshots are in workspaces of the
  requester; a redirect after a lifecycle change means it is logged, a refusal
  means nothing was written.
- `TimelineComplete`: paging shows all events there were at the first page, in
  order and once, although older ones may still be committed.

- `SignupAtomic`: however sign-ups race, every account has one identity and its
  initial workspace, although `select .. for update` locks nothing while the row
  does not exist.
- `SessionsRotate`: an account has at most one unrevoked session, and none unless it
  is active, also when a login that has checked its password overlaps another login
  or a suspension.
- `SessionDeathIsFinal`: a session that is revoked, or past a deadline with no lookup
  under way that began before it, is over for good, and nothing ever moves the absolute
  expiry. The lookups under way are not a detail: the `update` of `find_session`
  compares and writes with the `now()` of its start, so one that waited may refresh
  a session whose idle deadline has passed meanwhile.
- `PasswordKept`: the rehash, which overwrites a row it does not look at, never
  changes which password opens an account.
- `OneKeyPerIntent`: submitting a form twice gives one demo key.
- `ReceiptMeansHandedOff`: 202 is only told for a report Bigwig has accepted, also to
  a client that retried after its first attempt stopped halfway.
- `CompletionConflictJustified`: a redelivered completion is acknowledged even when it
  races the first. It says nothing of failures: `fail_report` decides on the row it
  read before its update, so of two concurrent identical failures one is answered
  409. No document promises otherwise for failures.
- `ImplementsLedger`: rows are immutable once final, keys name one report for ever,
  and receipts and acknowledgements agree with the table.
- `BalancesAnswered`, `StatusHonest`, `CatalogPlansSoundly`: each requested token of
  each account is answered once, from its own network's reply, whatever became of the
  other calls; statuses promise no more than is there; a catalog that passed
  validation never makes a plan fail.
- `DeniedNetworksNotRead`: the middleware admits a key that is granted any network;
  nothing is then read on a network that is not granted when the handler checks.
- `TransfersLabelled`, `WindowsOrdered`: filters become exactly their contracts, rows
  keep their order, label and amount; a window is accepted exactly when its ends are
  in order in real time (compared with a day-by-day calendar).
- `FailuresStayLocal`: a failed price chunk or signal costs only itself.
- `PortfolioAddsUp`: each member counts once for each mapped asset, and totals are
  exact sums, however the work falls into commands and whichever of them fail.
- `BlocksAtOrBefore`: the interpolating search finds the last block not after a
  boundary, whatever the cache holds, and until then probes strictly inside a bracket
  around the boundary, so that no probe is in vain and the search ends. (The comment at `at_or_before` speaks of a
  binary refinement; the loop always interpolates, and what it returns is proved to
  be the right block on every chain.)
- `SimulationHonest`, `YieldOfFinalBlocks`: a run is complete only with all its days,
  and claims a drawdown only then; a yield is computed between final blocks only.

### Disagreements between documents and code

- **spurious_failure.** When the first two statements of a date race, the one that
  started first may update the row the other inserted, and its older `now()`
  breaks the constraint `updated_at >= created_at`. The request is answered 503
  although the database works and the limit is not reached; SPEC-010:449 reserves
  that answer for an unavailable database.
- **label_limit.** `MAX_ADDRESS_LABELS` (20) is checked on labels read before the
  transaction; two concurrent additions exceed it. The member limit next to it is
  checked under a lock and has a concurrency test.
- **archived_read_only.** SPEC-015:82 calls an archived workspace
  read-only. The label operations test a status that may be stale, and a treasury
  snapshot is stored whatever the status.

Two more were read and have no run of their own. SPEC-010:149 dates usage by request
time, but the response counter is dated when the response is recorded
(`NoDoubleCounting` is therefore stated over all dates). SPEC-018:18 describes a daily
ceiling per account, but only the key's own policy is read.

## Proofs

`tlapm M.tla` checks the proofs of each of these modules:

| Module | About |
|---|---|
| `ApiKeyAdmissionProofs` | the middleware and the minute limiter of `ApiKeyAdmission` |
| `ApiKeyUsageProofs` | its daily counters, revocation and loss of grants |
| `DailyUsageProofs` | `DailyUsage`, and that it implements `UsageCounters` |
| `WorkspacesProofs` | `Workspaces`: rows, answers, the log as a history, the timeline |
| `BrowserAccountsProofs` | `BrowserAccounts` |
| `AsyncReportsProofs` | `AsyncReports`, and that it implements `ReportLedger` |
| `EvidenceProofs` | the steps of `Simulation` and `RealizedYield` |
| `ReadsProofs` | the steps of `Balances`, `Transfers` and `Portfolio`, and the theorems about `Reads` |

They hold for every number of requests, keys, owners, statements, dates, workspaces,
addresses, labels, events, browsers, emails, submissions, deliveries and reports, for
all limits, page sizes, lifetimes, window lengths and grants, and, for the reading
handlers, for every catalog, protocol registry, chain, request and combination of
replies.

Assumptions (named, evaluated by TLC on every instance): `WindowAssumption`
(a window lasts at least one tick), `AdmissionAssumption` (types of the
constants; finitely many requests; a sample waits less than a window for the
mutex), `IssuanceAssumption` (keys and owners are different rows; exactly the
legacy keys belong to consumers), `UsageAssumption` (types),
`WorkspacesAssumption` (types; every account has its own initial workspace with at
most one member; labels equal up to ASCII case are equal up to `lower()`),
`AccountsAssumption` (lifetimes are positive; there is a browser; the values that
stand for nothing are none of the others), `ReportsAssumption` (the catalog is part
of the definitions; the two statuses, a failure, a malformed text and the reports
are different values), and for the reading handlers `GrantsAssumption` (the grants of
a key are rows of the grant tables), the `AccountsAssumption` of `Balances` (the
accounts of a body are a list), `ChainAssumption` (a chain has a block, and block times
never fall), `DaysAssumption` and `DatesAssumption` (limits and dates are numbers) and
`StudyAssumption` (a block number is one or none).

| Theorem | Argument |
|---|---|
| `TypeCorrect` | `TypeInv`: types, and past authentication the credential is a known key |
| `RefusalsLeaveNoTrace` | `Flow` says what a request owns at each stage: nothing before the reservation, a slot until it is refused, slot and date once the handler ran |
| `WindowAccountingHolds`, `MinuteQuotaHolds` | `WindowInv`. The accounting alone is not inductive: a fresh window could start at an instant at which requests already hold slots of an older window. `WindowInv` adds that slots are no younger than the clock, that slots of a dead window are older than any window that can still be opened, and the quota for every window ever opened |
| `MinuteRejectionIsJustified` | from `WindowInv`, one case per action |
| `DailyQuotaHolds` | `DailyInv`: the accepted counter is the number of requests accepted on that date, including those whose reply was lost |
| `NoDoubleCountingHolds` | `CountInv`: over all dates the accepted counter is the number of requests whose increment took effect, and the others count no more requests than were answered so. A step adds at most one to one counter, for a request that was not counted. The sum over dates is the size of a set (`Tally`), so that it needs no induction |
| `RevocationHolds`, `GrantLossHolds` | a barred key stays barred and a lost grant stays lost (`BarredForGood`, `LostForGood`, one case per administrative action), and a request that meets it stays away from the handler (`RejectedStep`, `UngrantedStep`) |
| `UsageTypeCorrect`, `CountersExactHolds`, `RefusalsJustified` | `UsageInv`: the three properties together with the progress of statements |
| `UsageRefinement` | initial states map to initial states, and each step of `DailyUsage` is an increment or a stutter of `UsageCounters` |
| `MemberLimitHolds` | `MembersInv`: members are finite sets within the limit; `add_member` adds one to a set that is smaller |
| `ArchivedFrozen` | from `BaseInv`, by cases over the writing steps. `BaseInv` says that a request past its lookup works on a workspace of its own account, and that rows keep their owners |
| `OwnerOnlyHolds` | `TraceInv`: what a request wrote, it wrote in the step that answered it, in its account's workspace |
| `AnswersTruthfulHolds` | `TruthInv` with `TraceInv`: an unanswered request has left nothing, so its answer is judged by one step, and later steps of others never touch its records |
| `LabelsDistinctHolds` | `LabelsInv`: adding needs an index without the label, removing only shrinks |
| `LogReplaysHolds` | `HistoryInv`: events are numbered within the length of the log, a label or observation request past its lookup names a member that is there, a workspace that does not exist has no members. Then each writing step appends the last event of one workspace and changes that workspace as the event says. `Replay` is a fold; `ReplayAdd` gives its value on one more event, from the fact that its recursive equation has a solution on the subsets of every finite log, which is shown by a least counterexample (`LeastSubset`) |
| `TimelineCompleteHolds` | `ReaderInv` with `DatesInv`: all a client is owed is shown or older than its cursor, and its pages are in order. A page of any size is a prefix of what is older than the cursor (`Remaining`); events committed later are never owed |
| `AccountsTypeCorrect`, `SignupsAtomic`, `SessionsRotated`, `IntentsGiveOneKey` | `IInv` of the accounts: what the tables say of each other (`RowsOK`), and what a request between two awaits still knows of them (`RequestOK`: no row under its token before it is answered, the identity and password a login checked, the intent a demo form selected). A step changes the tables in one of eight ways (`DbStep`); each keeps `RowsOK` and what the other requests know. `RowsOK` alone is not inductive: a login commits on the strength of an earlier check |
| `PasswordsKept`, `DeadSessionsStayDead` | from the same invariant, one case for each of the eight ways: a rehash writes the password it checked; rows under a fresh token replace nothing. A refresh writes deadlines later than the start of its lookup only to a session that was alive then: a session can come back only while such a lookup is under way (`DeadStay`), and a lookup that begins later finds it dead (`EndedStays`) |
| `ReportsTypeCorrect`, `ReceiptsHandedOff`, `ConflictsJustified` | `IInv` of the reports: an identifier names one row, a row past accepted was handed off (`RowsInv`), and what a submission and a delivery know of their row at each stage (`SubOK`, `DelOK`). A final row never changes, so what a delivery reread stays true |
| `ReportsImplementLedger` | initial states map to initial states, and each step, by its effect on the table and on the answers, is a step or a stutter of `ReportLedger` |
| `DeniedNetworksAreNotRead` | `GrantsInv` (grants are revoked, never added), and for each handler what it has established past its check: `BalancesInv`, `TransfersInv` and `PortfolioInv`. The networks of the groups, plans, chunks and commands are those of the requested accounts, whatever is planned of them |
| `BlocksAreAtOrBefore` | `SearchInv`. That the search ends at the right block is not inductive: while it probes, its bounds must be blocks of the chain on both sides of the boundary, and the cache must hold blocks of the chain only. A cached block may then narrow the bracket or end the search, and never misleads it. The search returns when the bracket is two neighbours; otherwise the clamped estimate lies strictly between its ends (`Between`) |
| `YieldIsOfFinalBlocks` | `YieldInv`: past the head the two blocks are final and in order, past the indexes both are known, and a result is made from nothing else |

The theorems about `Reads` rest on `ReadsInv`, the conjunction of these invariants,
with one case for each step of the six handlers.

Only model-checked:

- `RequestAnswered`: liveness is out of the prover's reach.
- `BalancesAnswered`, `StatusHonest`, `CatalogPlansSoundly`, `TransfersLabelled`,
  `FailuresStayLocal`, `PortfolioAddsUp`: what a fold over accounts, tokens, chunks or
  digits computes for every input, which needs an induction that the prover cannot be
  given. (The least-counterexample argument for `Replay` would have to be repeated for
  every fold.)
- `WindowsOrdered`, `SimulationHonest`: arithmetic of calendars and of products, beyond
  the solver.

The type invariants of `ApiKeyAdmission`, `DailyUsage`, `AsyncReports` and
`BrowserAccounts` are proved; that of `Workspaces` holds on the instance of its run.

## Not modelled, and why

- Text and layout of answers, logging, the OpenAPI document, configuration,
  argument parsing and the migration commands: no state over time.
- The router: a table of routes and layers fixed at the start. The layers are
  modelled where they run; that each route has the right one is a matter of reading.
- Grants given while a request runs: only losses of grants are modelled, which is the
  direction in which a stale decision would matter.
- A price of zero and prices with other statuses than observed, carried and missing in
  a simulation: the decimal library's quotients by zero are not modelled. Nor is the
  boundary that ends 9999-12-31, whose year the simulation cannot read back.
- URLs, headers and the decoding of JSON. A reply is what is left of it after
  decoding, or is malformed. Checks on a single text are one Boolean.
- Hashing, random tokens and prefix lookup: a credential is its key, or none. The
  retry after a prefix collision repeats a transaction that left nothing behind.
- Handlers that show stored rows (`get_report`, listings, the Lab's asset and result
  pages, usage reports): they read once and change nothing.
- Powers with fractional exponents: the annualised rates are computed by the decimal
  library, and the models keep only whether a rate is claimed.
- The database's own recovery is trusted: a committed statement stays committed.
  Sessions and reports are not composed with the admission model: they share no
  table with it except the account's status, which both change by the same
  transaction.
