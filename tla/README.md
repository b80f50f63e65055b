# A TLA+ verification of the stock-prediction API

The repository serves price forecasts whose inputs must be reproducible: every
price is versioned, every forecast is archived with the exact inputs it saw,
and every evaluation of a forecast is fixed before its outcome is known.  Almost
all of that rests on protocols between database transactions (advisory locks,
triggers, unique constraints, post-commit receipts), which unit tests exercise
one client at a time.  This project models those protocols, checks them with TLC
over all interleavings of small instances, and proves the most important
properties with TLAPS for every size.

## 1. Inventory

| Component | State it keeps | Operations | Interacts with | What is hard |
|---|---|---|---|---|
| Bar ingestion (`ingestion/upsert.py`, `ingestion/tasks/ingest_prices.py`, `ingest_forecast_closes.py`, migrations 0006, 0008, 0011) | `bars`, `bars_revisions`, `bar_version_availability`, advisory locks | fetch, plan, upsert, commit, finalize receipts | snapshot builder (lane lock), outcome resolution (receipts) | two transactions per batch, crash between them, direct SQL writers, clock ticks |
| Fetch windows and schedule (same tasks, `ingestion/locks.py`) | watermark, gaps, vendor lock | scheduled and manual runs | vendor guards, campaigns (vendor lock) | outages longer than a window, late vendor bars, a busy lock |
| Snapshot builder (`app/services/forecast_snapshot_builder.py`, `ingestion/tasks/build_forecast_snapshots.py`, migration 0005) | `forecast_input_snapshots` | build, replay, defer | bar store, forecast archive | reads must be reproducible for ever; retries keep a frozen cutoff |
| Forecast archive (`app/services/forecast_run_store.py`, `forecast_runs.py`, `forecast_serving.py`, migration 0009) | `forecast_runs` | execute with an idempotency key, replay, reconcile after an unknown commit | snapshots, scheduled evaluation | two requests with one key, commits whose outcome is unknown |
| Scheduled evaluation, cohorts (`scheduled_evaluation.py`, `forecast_cohort_store.py`, migration 0010) | cohort manifests, members, availability | claim an opportunity, seal a cohort | archive, outcomes | sealing before the first target is known |
| Outcome resolution, publication, collection (`forecast_outcome_*.py`, migrations 0010, 0011) | realized outcomes, publications | resolve, publish, collect | bar receipts (fence), cohorts | publication races late bar versions |
| Policy registration (`forecast_outcome_policy_store.py`, `forecast_selection_policies.py`, `..._store.py`, migrations 0010, 0016) | outcome and selection policies | register | cohorts, calibration | two registrations of one content, unknown commits |
| Calibration evidence, sets, releases (`forecast_calibration_*.py`, `ml/calibration`, migration 0015) | fitted sets, coverage releases, receipts | fit, measure, publish, read | cohorts, outcomes, policies | evidence that changes under a publication; order statistics at the edge of the sample |
| Corporate actions, adjustment factors, adjusted snapshots (`corporate_action*.py`, `adjustment_factor*.py`, `adjusted_*.py`, migrations 0012, 0013) | collections, action versions, factor sets, receipts | publish, plan, seal | bar store, snapshots | several versioned inputs read at one cutoff; a kernel implemented twice |
| API rate limiter (`app/core/rate_limit.py`) | counters per identity and window | hit | Redis or memory | window index and clock read before an await |
| Vendor cost and rate guards (`data_sources/guards.py`) | budget spent, window start, calls | acquire | providers | many waiters on one fixed window |
| Vendor acquisition campaigns (`scripts/vendor_acquisition.py`, `scripts/vendor_backfill.py`, `vendor_acquisition_campaign_store.py`, `ingestion/locks.py`, migration 0014) | two append-only ledgers, an anchor in the database, the vendor lock | plan, grant, execute, repair | bar store, corporate actions | crash and resume with a spent budget, lost replies, a restored file |
| Prices and indicator API (`app/services/prices.py`, `indicators.py`, `ml/features/technical.py`) | none (reads `bars`) | page, compute | ingestion | pages read while bars are stored; warm-up and alignment |
| Models, evaluation (`ml/models`, `ml/evaluation`, `app/services/forecasting.py`) | none | fit, forecast, evaluate | snapshots | look-ahead, quantiles that cross |
| AI dispatcher (`ai_dispatcher/`) | run directory, verdicts, sentinels, charged merges, git | plan, gate, execute, verify, control, publish | git remote | loop bounds, half-done publications, stale files of earlier dispatches |
| Roles and privileges (migrations, `scripts/db-init`) | grants | grant, revoke | all tables | who may bypass a trigger |

## 2. Plan

Modules, in the order of their importance; all of them exist:

1. `BarStore`, `BarStoreProofs` - the versioned bar store of one lane with its
   snapshots: ingestion workers, direct writers and builders.
2. `ForecastArchive`, `IdempotentArchive`, `ForecastArchiveProofs` - execution
   with retries and unknown commits, as a refinement of an abstract write-once
   archive (`Promise == INSTANCE IdempotentArchive WITH ...`).
3. `RateLimiter`, `VendorGuard`, `RequestLimitProofs` - the quotas towards clients
   and towards vendors.
4. `Cohorts`, `CohortsProofs` - cohorts sealed before their first target.
5. `Outcomes`, `OutcomesProofs` - resolution and publication of realized
   outcomes behind the bar fence, next to the receipts of `BarStore` and the seals
   of `Cohorts`.
6. `PolicyRegistry`, `Conformal`, `Calibration`, `CalibrationProofs` - policies, and the
   evidence built on them; `Calibration` composes the registry with the release store.
7. `Campaign` - the acquisition ledgers across crashes, under the vendor lock; its proofs are
   in `RequestLimitProofs` too, since a campaign rations the vendor's requests.
8. `AdjustedSnapshots`, `AdjustedSnapshotsProofs` - corporate actions and factor sets selected at one cutoff.
9. `CloseLane` with `Indicators`, `WalkForward`, `Adjustment`, `Sums` - a lane from day to
   day and what is computed from its bars; its proofs are in the second half of
   `CalibrationProofs`, because the evaluation takes its order statistics from `Conformal`.
10. `Dispatcher`, `DispatcherProofs` - the AI dispatcher and its publisher.

What is left, in this order:

- abstract specifications of outcome publication (a write-once function from member
  to outcome) and of a campaign (a budget that only decreases), with `Outcomes` and
  `Campaign` shown to implement them;
- the backtesting engine, the training entry point, and the privileges.

## 3. Modules and the code they model

Each definition that models code is listed with its lines in `PROJECT.json`
("map").  In every module a step is what the code does between two points where
another client can be scheduled: a statement of a transaction, an `await`, a
commit.  The `MC*` modules only choose small instances.  Definitions whose
comment starts with *Mutant* are plausible bugs of the definition after them;
they are no part of any specification and exist to show that the runs would
notice.

### BarStore

One lane, that is one (symbol, source, timespan); lanes share nothing.  A client
is an ingestion worker, a direct SQL writer or a snapshot builder.

| State | Code |
|---|---|
| `bars`, `revisions`, `receipts`, `snap` | tables `bars`, `bars_revisions`, `bar_version_availability`, `forecast_input_snapshots` |
| `fence` | the lane's transaction-level advisory lock |
| `rowLock` | row locks and pending inserts of `bars` |
| `newBars`, `newRevs`, `newRcpts` | uncommitted writes, visible to their transaction only (READ COMMITTED) |
| `clock` | `clock_timestamp()`, in microseconds as far as order goes; monotone |
| `seen` | history: the rows the first completed build at a cutoff read |

- *Workers*: `Fetch`, `BeginUpsert` (lane lock), `LoadAndPlan` (`SELECT .. FOR
  UPDATE`, which cannot lock rows that do not exist), `UpsertBatch` with the
  trigger `version_bar_write` (`WriteBars`), `CommitUpsert`, then a second
  transaction `BeginFinalize`, `Finalize`, `CommitFinalize`.
- *Direct writers*: `DirectWrite` and `DirectReceipt` under the triggers of 0006,
  0008 and the fence of 0011, in any order and number.
- *Builders*: `BuildLock`, `BuildFuture`, `BuildRead`, `BuildFinish`; the
  point-in-time read is `PointInTime(c)`, the verification `Suffix`, `TooShort`,
  `Trusted`, and `Verdict` what the build reports.
- `Rollback` is a crash, an exception, a lock timeout or the deadlock detector.

Abstractions: `as_of` equals `fetched_at` wherever the ingestion code writes it,
and is one field; the bars come from the open-close provider, whose timestamp is
the session's close; the per-key advisory locks are implied by the lane lock and
left out; a builder's transaction takes at least one microsecond between its
clock read and its end.

### ForecastArchive, IdempotentArchive

`IdempotentArchive` is the promise: a write-once set of runs, in which a key or a
scheduled opportunity names at most one run, and answers that never contradict
the set.  `ForecastArchive` is `SqlForecastRunStore.execute` with its
transactions.  An attempt is one call of `execute()`; its number is also the
forecast id it computes and the name of its transaction, whose server side (`txn`)
lives on when the client has lost the connection.  A client's retry is another
attempt with the same call.

`Execute`, `Preflight` (lookup without the lock), `Produce` (the computation,
outside any transaction), `LockRetry` or `LockRefused`
(`pg_try_advisory_xact_lock`), `CheckRetry`, `Flush` or `FlushRejected` (unique
indexes; an INSERT waits for a transaction that holds a clashing row),
`SendCommit`, `Committed`, `CommitRolledBack`, `CommitUnclear`, `ReconcileUnknownCommit`,
`HandleIntegrityError`, `Replay`.  Faults: `DatabaseError`, `OutcomeUnknown`,
`ReconcileFails`, `Crash`; a commit that is in doubt is decided later by
`ServerCommit` or `ServerAbort`.  The refinement mapping is the identity on
`runs`, `call` and `reply`.

Abstractions: two keys with the same 64-bit lock prefix would only cause a
spurious "in progress"; replaying validates the stored JSON, which never fails for
the immutable rows the code wrote.

### RateLimiter

`Hit` reads the host's clock (off by up to `MaxSkew`) and picks the bucket;
`Increment` is the Redis script or the memory backend (both create, count and
expire the same way); `StoreFails` is a timeout, after which `LateIncrement` may
still be executed; `Tick` moves the store's clock and expires counters.

### VendorGuard

`Begin`, `Admit`, `Sleep`, `RefuseForBudget`, `RefuseForRate`, `RefuseAdmission` are
one pass of `acquire()` under its lock; `Respond`, `Fail` and `Retry` the HTTP
attempt and the retry loop of the provider.  Time is relative (age of the window,
what is left of each sleep), so the model needs no clock bound; `recent` and
`sent` record the attempts of the last window and of all time.  `paced`, fixed at the start, selects
between `AsyncPacingCostRateGuard` and `InMemoryCostRateGuard`.

### Cohorts

A publication is one call of `publish()`: a transaction that stamps, validates and
inserts the manifest and its members one by one in canonical order, then one that
stamps and inserts the seal, then the read of the proof.  A step that inserts
waits while another transaction holds a row with the same key or a clashing
member.  Every commit may be lost; the client then looks once whether it happened.
`ArchiveRun`, `RegisterPolicy` and `Tick` are the rest of the system: the run of an
opportunity gets archived, a policy registered, time passes.

`committed` records when a manifest was committed, which the database does not
store; it is what `SealedInTime` is about.  Checks that depend on nothing but the
manifest's own text (hashes, epoch, run fields) cannot race and are left out, and
the exclusion of two purposes for one opportunity is enforced by the database as
an index, here as part of `Clash`.  "taken" is the integrity answer given for a
unique violation on a member, "integrity" the same code for anything else.

### Outcomes

One lane, as in `BarStore`.  A *key* is a semantic identity: an outcome policy and a
bar.  Several cohort members, of one cohort or of many, can share a key.  A call is
either one `collect()`, which resolves in a first transaction and publishes in a
second, or another caller of `publish()` or of the SQL function, who brings a
well-formed payload of its own.

| State | Code |
|---|---|
| `versions`, `receipts` | recordings and receipts of each target bar (`bars`, `bars_revisions`, `bar_version_availability`) |
| `stamping` | uncommitted receipts of a finalizing transaction |
| `fence` | the lane's transaction-level advisory lock |
| `sealed` | when a member's cohort was sealed |
| `outcomes`, `publications` | `forecast_realized_outcomes`, `forecast_realized_outcome_publications` |
| `txn` | the transaction a call has in the server: what it has inserted and when it read the clock |
| `pc`, `member`, `got`, `reply` | the call: its step, its member, the evidence resolved or brought, its answer |

- *Collection*: `Collect`, `ReadCohort`, `TakeFence`, `ReadClock` (the cutoff is
  compared with the clock only under the lock), `Resolve` (the newest version whose
  receipt is not after the cutoff).
- *Publication*: `Preflight`, `TakeFence`, `FindPrepared` (all three lookups are
  `Lookup`), `InsertOutcome` and `LinkMember` (the two halves of
  `publish_forecast_realized_outcome` with its triggers), `SendCommit`,
  `ReadCommitted`, and `Reconcile` after an unknown commit.
- *Faults*: `DatabaseError`, `OutcomeUnknown`, `ReconcileFails`, `Crash`; a doomed or
  undecided transaction holds the lane lock until `ServerCommit` or `ServerAbort`.
- *Surroundings*: `Tick`, `Seal`, `Revise`, `LockLane`, `StampReceipt`,
  `EndFinalize`: what `BarStore` and `Cohorts` do to the state that outcomes depend
  on, with fewer conditions than there.

Abstractions: policies are registered already; between a clock read and the end of
its transaction the microsecond clock advances at least once (`Later`, as in
`BarStore`); "evidence_missing" and "not_member" are kept apart although the store
reports both (23503) with the same code as "source_unavailable", so that the
properties can tell them from the resolver's own answer.

### PolicyRegistry, Conformal, Calibration

`PolicyRegistry` is `register()` of the outcome and the selection policy store, which
run the same protocol: look, insert under the content hash as primary key, read
back, and read again when a duplicate key or an unknown commit leaves the outcome
open.  A policy stands for its hash.  `RegisterDirectly` is another client of the
database function.

`Conformal` holds the scores, the rank and the order statistic of
`ml/calibration/conformal.py`, over whole numbers; `DatabaseRank` is the rank as
migration 0015 computes it.

`Calibration` extends both.  A call is a registration, or one `publish()` or
`read_validated()` of the release store:

| State | Code |
|---|---|
| `sealed`, `published` | sealed cohorts and the outcomes published for their members (`Cohorts`, `Outcomes`) |
| `sets`, `releases`, `receipts` | fitted calibration sets, held-out coverage releases, their receipts |
| `seen` | the two datasets the call has reloaded |
| `txn`, `step`, `reply` | the server's transaction, the call's step, its answer and the stage that gave it |

`Reload` reads one source cohort, `Prepare` refits and remeasures and compares,
`PublishSet` and `PublishRelease` are the two functions of migration 0015 with their
triggers (each recomputes what the database can: rank, sign, counts, horizons,
disjointness), `ReceiptAtOnce` a client that issues content and receipt in
one transaction, which the trigger refuses.  Reading a proof repeats the reload and the
comparison.  Faults: a database error, an unknown commit, a crash; a failed match
after the content committed is always possible (`MatchFails`).

Abstractions: sets and releases are identified by content; observations are whole
numbers; the adaptive recurrence (`aci_transition`) and the Wilson bounds, which are a
function of the stored counts, are left out; cohorts and outcomes appear as their
own modules allow, in one step each.

### Campaign

One action is one step of an operator's script: planning, the owner's grant, the
re-check under the vendor lock, and for every record (authorization, reservation,
outcome) the check of the anchor, the append and fsync, the publication of the new
digest, and the read-back.  `legacy` fixes which operators run the older backfill
script, whose ledger has no anchor.

| State | Code |
|---|---|
| `file`, `torn` | `data/vendor_acquisition_attempts.jsonl` and `vendor_backfill_attempts.jsonl`; a line cut by a crash |
| `anchor`, `mark` | the newest high-water row, and the newest of each campaign (migration 0014) |
| `floating` | publications whose client gave up and whose transaction is undecided (`Land` or never) |
| `evidence` | what the database holds for each call: nothing, content, content with its receipt |
| `lock` | the session-level vendor lock |
| `op` | each operator's process: step, reviewed plan, calls to do, record on its way |
| `vendor` | history: every request that was sent |

A digest of a ledger is the ledger itself.  Faults: a crash at any step (between
append and publication, or inside an append), the loss of the lock's connection while the operation
goes on, a lost reply, a failed call that may or may not have stored its content, a file
restored from an older copy.  Database errors while reading and unexpected
exceptions end the process as a crash does.

The state of a campaign is read off its ledger as sets of positions (`OfWindow`,
`OfType`): the base is the first header's, the total the last one's, the reservations are
counted.  The order of a plan's calls is their place in the window, which the scripts
require to be unique and ordered (`vendor_acquisition.py:351`, `:602`).

Abstractions: the smoke run that seeds the first anchor has happened; an action page
yields one collection; files are restored only between operations.  The backfill never
reads the acquisition's ledger, so `NoBlindRetry` says nothing of a backfill after an
acquisition; it is a claim about a lock that lives.

`BudgetHolds` and `AnchorExtends` are claims about *orderly* runs: the lock may be lost or
the file replaced, not both (`Orderly`).  With both they are false, with three operators
and four faults: three operations start one after the other, the first two in one window
and the third in the next, because each time the lock is lost; all check the anchor before
any of them appends, and the third publishes the ledger with the three headers, whose reply
is lost.  The file is rolled back, and a fourth operation in a third window is
authorized, reserves a call and sends it; its ledger has two records.  Now the lost
publication commits: it has one record more than the newest row and one more of its
own campaign, so the database accepts it, and the newest row no longer covers the
request.  No budget is gained by it, since the file and the newest row differ and every
operation is refused, and the third campaign's own row still counts the call.

### AdjustedSnapshots

One symbol, coverage and session; two series (splits, dividends) and clients that
publish a collection or run `seal_once`.  A publication is a transaction for the
content and a later one for the receipt; a seal plans a factor set, publishes it and
stores the snapshot of the time of its receipt.

| State | Code |
|---|---|
| `stored` | all committed rows: contents, action versions, receipts, snapshots, each with its stamp |
| `now` | the database clock, which ticks at every stamp |
| `doc`, `inputs`, `chosen` | the collection or factor set a client publishes, what `prepare()` has read, the set it selected |
| `txn` | fences held and rows inserted, uncommitted |

`ReadSeries` and `Prepared` are the plan, `LockFence` takes the fences in lock order,
`StillNewest` is the check of `publish_adjustment_factor_set` under them,
`InsertVersion` inserts one action of a collection (`ON CONFLICT DO NOTHING`),
waiting for another transaction's row, `SelectFactors` and `BuildSnapshot` are the
builder, `CheckLineage` its final comparison.  Faults: a database error, a commit whose
outcome is unknown, a crash.

Abstractions: a seal's plan is read in one go (its calls, not its reads, are what
races); the rollover of the session and lock timeouts count as faults; only seals build
adjusted snapshots.

### CloseLane, Indicators, WalkForward, Adjustment

`CloseLane` follows one lane, of closes (`ingest_forecast_closes.py`: one request per
session, missing sessions repaired) or of prices (`ingest_prices.py`: one request per
window, from the watermark), from day to day.

| State | Code |
|---|---|
| `day`, `closed` | the date, and whether the day's session is over |
| `offered` | sessions the vendor can answer for, which may lag |
| `stored` | sessions with a bar |
| `task`, `lock` | the running ingestion with its window and batch; the vendor lock (also held by others) |
| `reader` | a client that walks the pages of the prices endpoint |

`Scheduled` and `Manual` resolve a window, `Ask` is one pass over the vendor,
`Unanswered` a batch that fails because one session has no answer, `Store` the upsert
(whose transactions are `BarStore`), `TaskFails` a crash or failed request; `StartWalk` and
`FollowWalk` read pages.

`Indicators`, `WalkForward` and `Adjustment` are the computations on stored bars, as
operators over whole numbers: the technical indicators; the baselines with their
residual quantiles, the expanding-window evaluation with its scores for each horizon
step and the served distribution;
the adjustment factors, once as the client derives them with `decimal` and once as the
functions of migration 0013 do, digit by digit.  They have no steps.  The properties of
`CloseLane` evaluate them for every assignment of three shapes of bars to a window as
long as the one stored: what matters is which observations a value depends on.
Coverages are in thousandths and quantile levels in halves of them, so that both ends of
every central interval are whole.

Abstractions: bars of a session that is still open, manual windows that end in the
future and binary64 rounding (modelled as the same decimals) are left out; so are
logarithmic returns, RMSE and the means of scores over steps and levels.

### Dispatcher

`run_dispatch` and the publisher: `Begin`, `Preflight`, `PlanTask` (which may be sent back,
`Gate`), `Execute`, `CheckScope`, `Correct`, `Verify`, `Control`, `Decide`, then the
git steps `CreateBranch`, `CommitExact`, `OpenPr`, `FetchMain`, `CheckoutMain`,
`FastForward`, `PushMain`, `RecordMerge`.  What a model answers is
nondeterministic.  A branch is a sequence of commits, so fast-forwarding is
extending a prefix.

| State | Code |
|---|---|
| `origin`, `tracked`, `main`, `branches`, `head`, `dirty` | the server's main, the local remote-tracking and local branches, the checkout |
| `moved`, `indexed` | the renames among the changes in the working tree, and those of them that are staged |
| `merges` | `merges.jsonl`, the authorizations charged |
| `failures`, `stopped` | the failure counter and the stop and halt sentinels (one flag) |
| `packet`, `verdict` | newest execution packet and control verdict files, which outlive a dispatch |
| `lost`, `blind` | history: merges that reached the server without a charge; a failed git command was read as a clean answer |

Faults: a crash at any step, a push that is reported as failed and reached the server,
a git command that fails and prints nothing, files that a verification run leaves
behind.  Others push to origin/main (`PushTheirs`), and an operator tidies the checkout
(`Tidy`).

An execution writes files and renames them, with `git mv` or without (`Edit`).  What git
then lists is not the set of changed paths (`Listings`): of a file it takes for renamed,
`git status` (if the rename is staged) and `git diff --cached --name-only` (after
`git add -A`, of any rename) give the code the new path alone.  Whether git takes a pair
for a rename depends on how similar the contents are, and is left open.  A commit
(`ThisCommit`) records every path it changes and the renames among them, and
`MainOnlyGranted` speaks of all of them: it lets an unauthorized path go only as the old
path of a rename to an authorized one.  The comment in the code does not make that
exception (section 7).

Abstractions: the set of live authorizations is any subset of those recorded (`Live`)
and its order is free; a pull request has no effect on main; two dispatchers in one
checkout and the wording of packets are left out; so is that git status lists a new
directory by its name alone, which only makes `_commit_exact` refuse.

## 4. Runs

| Run | Instance | What it shows |
|---|---|---|
| `versions` | one worker, one direct writer, one builder, one bar, two values, two cutoffs, clock to 2, three transactions each | versions are totally ordered and receipts follow commits; history only grows; the past is frozen and builds, sealed or deferred, are reproducible; a finalize repairs receipts left out |
| `archive_retries` | three attempts, API or scheduled, one key or none, two requests, one fault, with fairness | the archive implements its promise; failures are final; losers find winners; every execution is answered |
| `limiter_quota` | three keyless or invalid requests of one address and one with a valid key, limit 2, window 2, time to 5, skew 1, delay 1 | quota per window; 429 only at the limit |
| `guard_shared` | three requesters, pacing or raising guard, two calls per window of three ticks, budget 5, two attempts, with fairness | rate over any window, budget, and termination |
| `cohorts_overlap` | two publications of cohorts that overlap in two opportunities, for one purpose or two, or against the policy; one fault, with fairness | sealing order, single use, answers that stay right; every publication is answered although transactions wait for each other's rows |
| `cohorts_deadline` | two publications, no fault | violated: the deadline answer is not final (section 7) |
| `outcomes_published` | one collection and one other publication for either of two members with one key, one finalizer, clock to 4 with the cutoff at 3, one fault, with fairness | stored outcomes remain the policy's choice, "unavailable" is final, collections never meet a dispute, proofs and links are justified, both calls are answered |
| `calibration_published` | two callers of the registry or the release store, a fit cohort, a held-out one and one of another policy that overlaps, seven kinds of call including forged and stale evidence, one fault, with fairness | what is recorded is what the complete cohorts give; honest publishers never collide; availability follows visibility; every call is answered |
| `campaign_operators` | two operators, acquisition or backfill, two windows of one action page each and a price they share, first limit 3, recovery 1, two faults, with fairness | in orderly runs requests sent are covered by anchored reservations and these by the budget, and anchors form one history; no blind retry while the lock lives; every campaign comes to rest |
| `adjusted_sealed` | three clients that collect or seal in four combinations, one fault, with fairness | a factor set names the newest inputs of its cutoff for good; snapshots look at nothing later; a repeated seal finds its own snapshot; nobody waits for ever |
| `close_lane` | seven days with one without trading (6), ingestion from day 5, look-back 4, overlap 2, pages of 2, one fault, with fairness | every session owed is stored in the end; page walks lose nothing; computations are causal; client and database derive the same factors |
| `dispatcher_publishing` | two tasks, two dispatches, two faults, one rename out of a protected path, one foreign push | only granted merges whose paths are in scope, or renamed into it, reach origin/main; grants are not used more often than allowed, up to charges lost; both unless a failed git command was read as a clean answer |

Why the bounds are enough: every race modelled is between two clients of the same
row, key, member, lock or window, plus one that arrives afterwards; the instances have
two or three clients that may be of any kind.  Clients that are interchangeable start in one
order only (`MCInit` of `Calibration`, symmetry elsewhere).  Three transactions per client
allow a retry after a failure.  Three clock ticks give a time before, at and after a
cutoff or deadline.  One fault is one lost commit, whose late decision can meet
all later steps; campaigns and dispatches, which run again after a fault, have two.
The archive's and the outcomes' reconciling read may fail on top of that, as a call does it once.
In the campaign a budget with one recovery call is exhausted within the instance, and the
second window starts a second campaign that shares a price with the first.  The calls of
`calibration_published` include a fit made before all outcomes were in, one with a forged
correction, an evaluation that overlaps with its fit, and two fits of one cohort by different
methods; ranks and order statistics of larger samples are section 5's.
Safety is proved without any of these bounds (section 5) except where section 6 says so.

Larger instances, too long for regular use, passed as well: `versions` with a host
skew of one (3.3M states) and with two workers and one value (2.4M); the campaign with
two acquisition operators (693k), with three grants for either lane (635k) and with three
faults (3.9M); `close_lane` ingested from day 1 of a week of four sessions.

The limiter's instance satisfies `MaxDelay + MaxSkew <= Window`.  That is an
assumption about the deployment: nothing in the code relates
`rate_limit_storage_timeout_seconds` (up to 10, default 1) to the window (down to
one second) or bounds the skew of the hosts.

Fairness.  Faults are never fair.

- *Archive, cohorts, calibration, adjusted snapshots*: weak fairness of each client's
  step (the event loop schedules every coroutine, and a statement that can proceed
  does) and of the server's decision on a transaction that was told to commit or lost
  its client.
- *Outcomes*: the same, and strong fairness of taking the lane lock, because
  PostgreSQL hands a lock to its waiters in the order of their arrival; time advances
  and a finalizing transaction ends.
- *Guard*: weak fairness of time and of each request's continuation; nothing forces a
  sleeper to win the window, and `RequestEnds` holds only because the budget bounds how
  often it can be overtaken.  In ingestion a `total_budget` of 0 means "unlimited",
  and then the code gives no such bound.
- *Campaign*: weak fairness of each operator, that is, operators keep planning,
  granting and finishing what they start.
- *Close lane*: days pass, the vendor answers for every session in the end, a running task goes
  on and others release the vendor lock; strong fairness of the scheduled run, because a run
  that finds the lock busy is skipped and the schedule comes back.

`CHECK_DEADLOCK FALSE` is set where a bound (clock, transactions, attempts, calls)
makes the instance end; the guard has no such bound and is checked for deadlock.

## 5. Proofs

All theorems hold for every value of the constants that satisfies the named
assumptions of the modules; the assumptions are only types, disjointness,
`SessionClose` increasing, the cohort's canonical order being total, a window's calls
being distinct and the operators finite, the
limiter's `MaxDelay + MaxSkew <= Window`, that a scope is never empty (`TASK` packets
declare one), and that the collections stored at the start of `AdjustedSnapshots`
are stamped in order and have their content (`FoundedAssumption`); and, for `CloseLane`,
that the first day is a session, that stored prices are positive and a close lies between
low and high, as the bars' constraints say, and that the terms of an action are positive
(`LaneAssumption`, `WindowAssumption`), and that the configurations are ones that
`IndicatorConfig`, `WalkForwardConfig` and the constructors of the baselines accept: positive periods,
MACD's fast period below its slow one, a volatility period of two at least, coverages strictly between
zero and one (`AnalysisAssumption`).

- **BarStoreProofs.**  `IInv` says: what a client has written is protected by row
  locks, carries its transaction id and extends the committed history
  (`PendingInv`); uncommitted receipts exist only under the lane lock
  (`PhaseInv`); a builder's rows are still what its cutoff returns (`ReadInv`); a
  cutoff at which a build completed lies in the past and no receipt in flight can
  become visible at it (`SeenInv`).  `PointInTimeStable` is not inductive without
  the last two: a receipt stamped before the cutoff could commit after the read.
  From it follow the theorems on receipts and versions (`HistorySound`), freshness, the
  frozen past, reproducible builds (with `TrustInv`, `SealInv`), deferral and the growing history.
  `RepairsLane` needs two facts more: while a finalization works through the lane
  nobody adds a version behind its back (`LaneInv`, the lane lock), and what it has
  passed has a receipt, committed or its own (`RepairInv`).
- **ForecastArchiveProofs.**  `IInv` relates control and transaction state, says
  that no two rows *that are or may still be committed* clash (`UniqueInv`), that
  lookups return winners and that answers agree with the table.  The "may still"
  is what makes it inductive: a commit in doubt is a row for everybody else.
  `ArchiveKeepsPromise` is the refinement: each step is one of
  `IdempotentArchive` or a stutter.
  `AnswersHold` joins the finality of failures and the winner that every loser finds.
- **RequestLimitProofs.**  Of the API limiter: counters outlive every request of
  their window (`ExpiryInv`, which needs the doubled ttl and the assumption on delay and
  skew), hence count every admitted request as long as the window can be hit
  (`CountInv`), hence `QuotaPerWindow`; and a counter never exceeds the requests that
  were executed (`SpentInv`), hence `RefusedOnlyAtLimit`.  Of the vendor guard: every
  attempt was charged, so the budget bounds the attempts sent, and no sleep outlasts
  its window; and what is still in sight was admitted by two windows at most, each within
  its limit (`RateInv`), hence `SlidingWindowBound`.  `RateInv` is inductive because a
  window that begins on demand begins at least a window's length after the one before.
  Of the campaign, `CampaignInv` says: which status and which calls go with which step
  (`ControlInv`); a record on its way is in the file it was appended to and in the ledger
  whose digest was sent (`RecordInv`); a running operation finds all its earlier
  reservations in the file (`RequestInv`), hence sends no call twice under one
  authorization; while the file was never replaced, every ledger that anybody sent and the
  newest row's begin it (`PrefixInv`); and while the lock lives one operation runs, and
  whatever may still be committed extends the newest row or is too short to be accepted
  (`LockInv`).  Either of the last two makes a row extend the one before
  (`AnchorAdvances`), although the database compares numbers only; this is
  `AnchorExtends`, and with it the newest row counts the records of every campaign as that
  campaign's own row does and covers every request (`BudgetInv`).  Each request has an
  attempt of its own there, hence `BudgetHolds`.  A request whose outcome is unknown is in
  a ledger that a later plan reads, and the plan is refused (`RetryInv`), hence `NoBlindRetry`.
- **CohortsProofs.**  `IInv` says what the rows of an unfinished transaction would
  be worth if it committed (`Evidence`, `Compatible`), that no two transactions
  hold the same row or clashing members (`Pair`), what the tables hold (`Table`),
  and that answers are right.  From it follow `SealedInTime`, `ForecastUsedOnce`,
  `ProofHolds`, `EvidenceIsComplete` and `TakenIsFinal`, the parts of `AnswersHold`.
- **OutcomesProofs.**  `IInv` says: whoever has a transaction or uncommitted
  receipts holds the lane lock (`LaneInv`); receipts are of committed versions, one
  for each (`ReceiptInv`); what is stored is right and its cutoff is *settled*, that
  is past, with no earlier receipt in flight (`TableInv`); what an open transaction
  has inserted or read is right already, because nobody else can commit a receipt
  while it holds the lock (`PendingInv`, `ReadInv`); and a collection that publishes
  does so for a settled cutoff and a sealed member (`CollectorInv`).  "Settled" is
  what makes it inductive: a correct selection alone could be undone by a receipt
  stamped before the cutoff and committed after it.  `Persistence` shows that a
  settled selection never changes; from there follow `CutoffIsFinal`, `NeverDisputed`
  and `EvidenceJustified`.
- **CalibrationProofs.**  `RanksAgree`: the client's rounded-up rank and the ceiling of
  the database are one number for every sample size and coverage.
  `FiniteSampleGuarantee`: what `finite_sample_quantile` returns is a score of the
  sample that at least the nominal share of (n + 1) observations does not exceed.  The order
  statistic is defined by two counts (scores below it, scores up to it); that it exists
  (`OrderStatisticExists`) is proved from the least score whose upper count
  reaches the rank (`LeastElement`), because the two counts of neighbouring scores
  meet (`Counts`).
  For the release store, `IInv` says: a policy that waits for its commit is valid,
  alone and not yet registered (`RegistryInv`, `PendingInv`); the tables hold only what
  complete and disjoint cohorts give, and receipts only of releases (`TableInv`); what a
  call has read, prepared and inserted is right for its place in the protocol (`CallInv`,
  `TxnInv`), and so is what it has answered (`AnswerInv`).  It is inductive because
  honest publishers of the same cohorts make the same record (`SameFitSameSet`,
  `SameAnalysisSameRelease`), and what a client prepares the database accepts
  (`SoundSetAccepted`, `SoundReleaseAccepted`, which rest on `RanksAgree`).  From it
  follow `RegistryHolds`, `RecordedIsReproducible` and `AnswersHold`;
  `AvailableAfterVisible` is a step property under the same invariant.
  The second half is about `CloseLane` and the computations.  `WalksAreComplete`: between
  two pages the bars still owed all lie before the cursor, which is the oldest bar received
  (`WalkInv`); a page is everything stored between its end and the cursor, so what is stored
  meanwhile can neither push a bar out nor repeat one.
  `KernelsAgree`: both sides compute the decimal *nearest* to a quotient.  For the
  client that is the definition of rounding half to even; for the database it is shown
  from the whole division and its remainder (`NearestByDivision`, after the estimated
  exponent is corrected at most once, `DecadeOfRatio`), and from the digits after the cut
  (`RoundingsAgree`).  A number has one normal form without trailing zeros
  (`NormalFormUnique`), so the results are equal and not only equal in value.
  `AdjustmentsAgree`: with the kernels equal, a turn of the client's recursion is one
  of the database's loop (`TurnsAgree`), and both leave the same factors
  (`FactorsDerived`); rounding is monotone (`RoundingKeepsOrder`), so an adjusted bar keeps
  low <= close <= high.  The cardinality test of the client and the per-session test of the
  database are the same condition (`SameActionsAdmitted`).
  `AnalysisCausal`: for every window, every assignment of values to its bars and every
  configuration.  *Indicators*: each is compared with itself on the series without its last
  bar (`Continues`), so that, by dropping one bar after the other, no value depends on a later
  one; windows of the two series are equal (`WindowsAgree`), the averages of
  Wilder and the exponential ones agree step by step (`WilderAgrees`, `EMASteps`,
  `EMAContinues`), and MACD's signal is the second kind of average over a series that is itself
  continued (`MACDContinues`); the last output has a value from its own first length on, and
  the greatest of these is `RequiredObservations` (`EnoughObservations`).
  *Forecasts*: order statistics rise with their rank and interpolation keeps that
  (`OrderedRises`, `QuantilesRise`), so quantiles do not cross, and the recentred median is the point
  forecast (`DistributionsHold`); a forecast is a function of its training prefix alone
  (`ForecastsAreCausal`).  *Scores*: levels move outwards with the coverage, so a wider interval covers no
  less, and the median's loss is a multiple of the absolute error, term by term and hence in the sum
  (`ScoresHold`, `TotalOfMultiples`).
  A recursive function is defined by `CHOOSE`; that the function chosen has the recursive
  equation is proved for functions on intervals (`Iteration`, `FiniteIteration`), by
  induction written as the least element of a set of numbers (`NatInduct`), because the
  library's induction theorem cannot be instantiated here.

- **AdjustedSnapshotsProofs.**  A time is *settled* for a series when it is past and no
  uncommitted receipt is stamped before it.  `IInv` says what rows and versions may look
  like and that stored ones are unique (`RowsInv`, `KeysInv`), that recorded content
  precedes its receipt (`RecordedInv`), that uncommitted receipts are held under the
  fence of their series (`FenceInv`), that stored sets and snapshots name the newest inputs
  of a settled time (`SetsInv`, `SnapshotsInv`), and what each call knows and has
  answered (`CallInv`, `AnswerInv`).  Under the fences of both series what is newest is
  settled for good (`NewestIsSettled`), and the fence of the factors makes their
  receipts visible in the order of their stamps, so the set selected at the time of a
  receipt is final (`SelectionIsFinal`) and passes the builder's verification
  (`EvidenceFound`).
- **DispatcherProofs.**  Until it commits, a dispatch that is past its preflight has
  checked out exactly what it fetched last, and that is a part of origin/main
  (`HistoryInv`); what the scope guard saw is in scope and what is to be merged was
  decided so (`DecisionInv`); a branch on its way to main is a part of origin/main with
  one admissible commit on top (`BranchInv`: a changed path is authorized because it was
  listed, and what was listed is in the change set that was checked; or it was left out of the
  listing, `ListingCovers`, and so renamed to a path that was listed), so a push that fast-forwards adds one
  commit or none (`NothingBetween`); and the charges, the merge that waits to be charged
  and what was lost account for every merge (`CountInv`, `ChargeInv`).  All but types and
  charges are claimed only while `blind` is false: once a failed command was
  read as a clean answer, an earlier commit may ride along.

## 6. What is only model-checked

- Liveness (`AttemptAnswered`, `RequestEnds`, `PublicationAnswered`,
  `CollectionAnswered`, `CampaignSettles`, both `CallsAnswered`, `LaneCatchesUp`): out of
  the prover's reach.
- The builder's input is too short in the instance only for lack of any
  receipted bar; gaps between sessions are covered by the theorem
  `DeferralIsFinal`, which holds for any number of sessions.


## 7. Findings and remarks

*Finding.*  `_integrity_error` (`forecast_cohort_store.py:462`, `:479`) tells a late
publication, as not retryable, that the cohort "can no longer be recorded"
("sealed") before its first target.  It does not look whether another publication of the
same cohort has stamped in time and is still uncommitted or already committed; the
run `cohorts_deadline` shows a cohort sealed in time after such an answer, whose
proof a retry would get.

*Remarks*, not counted as defects:

- A batch of snapshot builds that deferred is retried with the same frozen cutoff
  (`build_forecast_snapshots.py:115`).  `DeferredIsFinal` shows that the retry can
  never find more input for a series that a completed build deferred.
- The "could not be reconciled" answers of the archive are dead code
  (`ConflictFindsWinner`), and so are the `SnapshotSemanticConflict` and
  availability errors of the builder (`BuildNeverDisputed`) and the
  missing-evidence answers of the cohort store (`EvidenceIsComplete`): useful as
  assertions, unreachable as behaviour.
- Overlapping cohorts do not deadlock only because members are inserted in
  canonical order; the database's deadlock detector is not needed.
- `forecast_cohort_store.py:469` answers a foreign-key error (23503) of the manifest with "A
  scheduled forecast referenced by the cohort is unavailable.", but since migration
  0016 the first such error is an unregistered policy
  (`0016_selection_policy_fence.py:786`), and a missing run raises 23000 instead.
- `forecast_outcome_store.py:559` maps the check constraint of the outcome's time
  order to "not ready", retryable.  Since migration 0011 its trigger raises an
  unnamed 23514 first (`0011_outcome_policy_fence.py:415`), so a caller that
  publishes before the cutoff gets the integrity failure, not retryable.
  A collection never gets that far too early (`NeverDisputed`).
- For the same reason another caller whose cohort is not sealed yet is told that the
  *bar evidence* is unavailable, not retryable (`forecast_outcome_store.py:566`,
  `0011_outcome_policy_fence.py:658`), and succeeds after the seal.
- A collection never gets as far as the lost race behind an outcome's unique index
  (`pc # "c_race"` in `CollectorInv`): the lane lock and the trigger decide before.

*Remarks on the newer modules:*

- *Campaign.*  What `scripts/README.md:107` promises, that truncation or rollback
  cannot manufacture fresh budget, and at most five recovery calls, is
  `BudgetHolds`; that a consumed reservation has no clear switch is `NoBlindRetry`.
  Both survive every fault modelled, except that a lost lock connection lets two
  operators repeat a call (never beyond the budget), and that a lost lock together with a
  replaced file can leave a newest row that does not cover a request (section 3); the
  next operation is then refused.
- *Calibration.*  A rank rounded down in the client would let a fit through that the
  database then refuses as a conflict.  `EvidenceNeverConflicts` shows that this answer and
  the "corrupt" one are out of reach for honest evidence.
- *Adjusted snapshots.*  Two collections with common actions do not deadlock because
  the actions are inserted in the order of (date, provider id); in the order of the
  vendor's page they could.
- *Prices lane.*  The trailing overlap is measured from the end of the window, not from
  the watermark (`ingest_prices.py:330`), so a bar that the vendor publishes late, just
  before an outage longer than the overlap, is never fetched again.  `LaneCatchesUp`
  therefore promises that lane only the sessions of the overlap.
- *Closes lane.*  One session that the vendor never answers fails the whole batch
  (`polygon_open_close.py:85`) and, being the earliest one missing, blocks the lane until
  it has left the look-back of 420 days.  `LaneCatchesUp` assumes that the vendor
  answers in the end.  A scheduled run that finds the vendor lock busy is skipped, not retried.
- *Dispatcher, renames.*  `_commit_exact` (`ai_dispatcher/publish.py:304`) says that
  "even if the loop miscomputed the change set, we never commit an unauthorized file".
  The code does less: of a staged rename `parse_status_porcelain` (`scope_guard.py:55`)
  keeps the new path, and the names `_commit_exact` compares (`publish.py:309`) are the
  new paths too, so the removal of the old one is committed, and may be merged to
  origin/main, although no check has looked at it.  In the instance the protected `guard` is
  renamed into the scope; without its clause `RenamedInto`, `MainOnlyGranted` is violated
  by one dispatch without any fault.  With both paths listed (`--no-renames` for the
  diff, both sides of an `R` entry for the status; `Listings` is then `{dirty}`), the
  property holds without the clause in the same instance.
- *Dispatcher.*  `max_merges` is exceeded by one for each crash or killed push
  between the merge and its charge (`ai_dispatcher/publish.py:243`, `cli.py:136`), which is
  `lost` in `GrantsBounded`.  A git command that fails prints nothing and is read as a clean
  answer (`loop.py:66`, `publish.py:309`).  A failed status leads to no merge, but after
  a failed `git rev-list` or `git diff --cached` an earlier commit, or files left behind,
  may reach origin/main: both properties are about behaviours without that (`~blind`).  The commit is not checked against the change set when that is empty.
  Files of earlier dispatches are believed: a passing verdict of the same round when the
  controller ends without a message (`codex_agent.py:77`), and an execution packet
  (`loop.py:286`); a crash while the failure counter is written resets it
  (`sentinels.py:22`).  After a branch or pull request the checkout stays on its branch, and
  the next preflight refuses until an operator tidies it.

*Not modelled.*  Canonical JSON and hashing (identity by content everywhere), and the
reads that only validate stored rows (`read_validated` of cohorts), which change no
state; roles and privileges, which are static; the operator demos and the smoke run,
single-shot tools around the services above; configuration, security headers and
observability, which have no protocol; fundamentals, caching headers and float
formatting of the API; the backtesting engine and the training entry point, which are
numerical and sequential; Celery's beat and the automation switches, represented by a
schedule that comes back.
