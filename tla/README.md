# Formal models of the intelligence platform

TLA+ modules, TLC configurations and TLAPS proofs for the parts of the platform where concurrent
processes, crashes and lost answers decide whether it is correct. Every definition is translated
from the source; `PROJECT.json` maps each one to the lines it stands for.

Run a configuration with `tlc -workers 2 -config X.cfg M` and the proofs of a module with
`tlapm M.tla`; the modules whose names end in `Proofs` hold them.

## 1. The system

A customer's events enter through the API, are kept in Postgres, and are normalized by a worker.
Platform work (provider syncs, market and source normalization, creator extraction, recomputation)
goes through a second outbox. There are two transports over the same two outboxes:

- **continuous**: publishers move rows to a BullMQ queue in Redis and workers take jobs from it
  (local development, CI, and hosted during a metered window);
- **scheduled**: a hosted worker claims rows in Postgres, in batches at fixed wall-clock slots.

Postgres is the only shared state of the scheduled transport; the continuous one adds Redis. No
component shares memory with another process. Within a process, the event loop interleaves
promises: a timeout abandons a promise, it does not cancel it.

### Components

| Component | State it keeps | Operations | Hard behaviour | What makes it correct |
|---|---|---|---|---|
| Scheduled worker (`apps/worker/src/scheduled-worker.ts`) | the current run and job, `status`, `stopping`, handlers still running | start, cycle, stop | timeouts that do not cancel, errors of calls in `catch` and `finally`, kills | batches never overlap; no job is restarted beside itself; every batch ends |
| Admission and claims (`0036_worker_resource_schedule.sql`, `platform/worker-resources.ts`) | settings, runs, claims, outbox rows | `claim_scheduled_run`, `claim_scheduled_job`, `finish_scheduled_job`, `finish_scheduled_run`, owner's close and settings | crashes between calls, lost answers, an owner closing a run beside a live worker | claims stay visible; counters add up; final states are final |
| Platform outbox (`providers/outbox.ts`) | `platform_outbox` | enqueue, publish marks, process marks, admin retry | two transports, unconditional marks | handled means committed; neither transport replays the other's job |
| Tenant ingest (`apps/api/src/ingest.ts`) | `source_event`, `outbox_job`, usage | accept | equal idempotency keys at once, quota races | one event per key, event and row together |
| Publisher and sweep (`packages/queue/src/publisher.ts`, `dispatcher.ts`) | rows in flight | publish, sweep | crash between add and mark; several publishers | nothing is lost |
| BullMQ worker (`apps/worker/src/worker.ts`) | job state in Redis, attempts | process, retry, fail, sweep, heartbeat | stalls, deadlines, forgotten completed jobs | every event settles |
| Tenant handler (`packages/queue/src/process.ts`, `normalize.ts`, `repos/source-event.ts`) | event status, observation | process, mark permanently failed | concurrent executions, unlocked read before update | normalized once; terminal status |
| Metered window (`packages/queue/src/redis-permission.ts`) | permitted environments, connections | open, revoke | settings changed meanwhile, two clocks | no Redis after the deadline |
| Provider sync, discovery, monitoring (`providers/`, `creator/list.ts`, `creator/seed.ts`) | lease, day budgets, next visits, creator states | sync, look up follows and seeds, promote, visit, search, persist, decide | lease expiry, budgets under concurrency, an operator's decision in between | one sync per provider, budget kept, decisions stand |
| Billing (`packages/billing/src`) | `tenant_billing`, claimed Stripe events | webhook, checkout | claim before apply, reordering | the newest state wins, none is dropped |
| Metering (`ingest.ts`, `commercial.ts`, `repos/usage.ts`, `usage-warning.ts`) | usage, month counter, warnings | record a unit, judge quota and thresholds | read before record under READ COMMITTED | bounded overrun, no warning missed |
| API keys (`auth/src/api-key.ts`, `web/app/key-actions.ts`) | keys | create, revoke, rotate | count and create in two transactions, a rotation of a revoked key | the plan's limit |
| E-mail (`notifications/delivery.ts`) | queued rows | enqueue, sweep | sent before marked, two workers | sent once |
| Outgoing webhooks (`webhooks/deliver.ts`) | deliveries, endpoint failures | enqueue, batch, retry, disable | rows read without a lock, posts before the commit | bounded posts, final verdicts |
| Source content (`source/`) | run rows with checkpoints, claims, budgets | feed and podcast checks, site and YouTube backfill, transcripts, TikTok listings | crashes between store and checkpoint, leases that expire under a live helper | nothing skipped, budgets kept |
| Price history (`providers/tcc-price-history.ts`) | check rows, reference prices | plan, request, store | remembered ranges against windows found later | what counts as fetched is stored |
| Creator calls, TCG catalogues, resolution, scoring, prediction, analytics | revisions, identities, outcomes, scores | single transactions over data | late evidence, floating point | not modelled |
| Auth sessions, other routes, web, contracts, shared, schema and migrations | - | - | little of their own | not modelled |

`PROJECT.json` lists the same parts with their files, and 40 hazards with the line where each one
bites and the properties that would catch it. One has no property: the webhook event id of an alert
is fixed per rule (`dispatch.ts:246`), so a rule's second firing is dropped in every behaviour.

## 2. Modules

| Module | What it is |
|---|---|
| `ScheduledBatch` | the scheduled transport: processes, admission, claims, handlers, timeouts, crashes, the owner |
| `JobDelivery` | the abstract promise: a job waits, executes a bounded number of times and ends handled, buried or unresolved |
| `IngestQueue` | the continuous transport of tenant events: publishers, Redis job, executions, event status |
| `JobTransports` | both transports over one platform outbox, the metered window, a change of mode between batches |
| `StripeBilling` | Stripe webhooks and checkouts on one tenant's billing row |
| `TenantMetering` | idempotency, quota, usage and warnings of one tenant's concurrent requests |
| `ApiKeys` | creating, revoking and rotating a tenant's keys under the plan's limit |
| `WebhookDeliveries`, `EmailDeliveries` | the two outgoing queues with their batches |
| `ProviderSync` | a discovery provider: lease, budget, monitoring visits, discovery, operator |
| `FeedReading` | websites and podcasts: checks and the sitemap backfill |
| `YoutubeBackfill`, `TranscriptChecks`, `LocalTranscripts`, `TikTokListing` | the other source pipelines |
| `PriceHistory` | which prices are asked for, stored and remembered as fetched |
| `ScheduledBatchProofs`, `IngestQueueProofs`, `JobTransportsProofs`, `StripeBillingProofs`, `WebhookDeliveriesProofs` | theorems about one module and their proofs |
| `TenantProofs` | theorems about `MCTenant`: the properties of its run |
| `SourceProofs`, `BackfillProofs` | theorems about `MCSources`: the properties of its run. `BackfillProofs` extends the other with the YouTube backfill, the feeds and the price history |
| `MCScheduledBatch`, `MCIngestQueue`, `MCJobTransports`, `MCPriceGap` | instances of one module for TLC |
| `MCTenant` | `TenantMetering` (extended, so that its properties are checked as they are proved) beside `StripeBilling`, `ApiKeys`, `WebhookDeliveries` and `EmailDeliveries` |
| `MCSources` | `ProviderSync`, `FeedReading`, `YoutubeBackfill`, `LocalTranscripts`, `TranscriptChecks`, `TikTokListing` and `PriceHistory` |

The modules `MCTenant` and `MCSources` put side by side share no state in the code either (different
tables, no calls between them that matter here). Their runs check a disjoint union: a variable `part`
says which module moves, so the states add up instead of multiplying. `JobTransports` composes the
two transports, which do share state.

### ScheduledBatch and the code

One action is one database transaction or one step of the event loop of a worker.

| Code | Model |
|---|---|
| `worker_resource_settings`, `scheduled_worker_run`, `scheduled_job_claim`, the two outboxes | `settings`, `runs`, `claim`, `outbox`, `availableAt` |
| the variables of `executeScheduledCycle` | `pc`, `mine`, `job`, `attempt`, `status`; `fin` and `inTry` are the state a pending `finishJob` call records and whether it stands inside the inner `try` |
| a promise that lost the race with the timer | a member of `live[w]` |
| `claim_scheduled_run` | `RunAdmissible`, `ClaimRun` |
| `deps.metered`, `deps.prepare` | `Metered`, `Prepare` |
| `claim_scheduled_job` | `MayClaimJob`, `Due`, `ClaimJob`, `ClaimJobLost`, `LeaveLoop` |
| the envelope check | `StartHandler`, `RejectEnvelope` |
| `processNormalizeJob`, `markJobPermanentlyFailed` | `HandlerSettles`, `LateSettle`, by `Outcome` |
| the 90 s timer | `TimeOut` |
| `finish_scheduled_job` and the two places that catch its errors | `FinishJob`, `FinishScheduledJob`, `Recorded`, `FinishError` |
| `finish_scheduled_run` | `CloseRun` |
| `stop()`, the shutdown latch, a crash, a restart | `Stop`, `Exit`, `Kill`, `Start` |
| `closeInterruptedScheduledRun`, `updateWorkerResources`, `retryFailedPlatformJob` | `OwnerClose`, `ChangeSettings`, `AdminRetry` |
| `insertOutboxJob`, `enqueuePlatformJob` | `Submit`, `Prepare` |

A database call of a worker has three outcomes (`Answer`): it succeeds, it fails without effect, or
it commits and its answer is lost. `MaxFaults` bounds the last two together.

Jobs come in three kinds, by what their handler commits: a `TenantJob` leaves its outbox row to
`finish_scheduled_job`; a `NormalizeJob` commits its work and its row in one transaction
(`process.ts:71-76`, `105-110`); a `WorkJob` commits its work first and its row in a second
transaction (`process.ts:139-148`, `160-161`, `173-179`).

Abstractions:

- A run is identified by its slot (the column is UNIQUE), a slot by its first tick. The wall-clock
  rule itself (quiet hours, interval) is not modelled.
- Rows are claimed in any order. The code takes the oldest row that no other transaction has
  locked, which may be any due row.
- The timer and a handler may take any time, and an iteration may overrun the run's deadline, as in
  the code, which looks at the clock between iterations only.
- The owner's close carries the confirmation "WORKER STOPPED" and is documented as "only after
  verifying the previous process is stopped"; the model lets the owner close a run only when the
  process that admitted it since its last start is gone (`hosted`). `SingleBatch` and
  `CompletedRunIsSettled` rest on this duty of the operator; no check of the code enforces it.
- `afterBatch` and the heartbeat row are left out: neither reads nor writes the state above.

### IngestQueue and the code

Transactions run under READ COMMITTED, so a handler is not one action: `Read`, `Check`, `Lock`,
`Look` and `Commit` are its statements, and `lock` is the row lock its status update keeps until the
end. The publisher's marking transaction is `MarkPublished` and `MarkQueued`, for the same reason.

| Code | Model |
|---|---|
| `acceptIngestEvent` | `Accept` |
| `POST /v1/events` and `dispatchPendingOutbox` | `Pick` and the steps of `Publish` |
| `publishOutboxJob` | `ReadRow`, `Add`, `MarkPublished`, `MarkQueued`, `MarkFails`, `PublishFailed`, `PublisherDies` |
| BullMQ (external, from its options and use) | `AddJob`, `Take`, `Conclude`, `AttemptFailed`, `Stalled`, `Evict` |
| the processor and `withDeadline` | `TimeOut`, `Report`, `ExecGone`, `Settle` |
| `processNormalizeJob` for tenant events, `normalizeSourceEvent` | `Read`, `Check`, `Lock`, `Look`, `Commit`, `HandlerFails` |
| `markJobPermanentlyFailed` | `FailRead`, `FailUpdate`, `FailureUnrecorded` |

A job of Redis belongs to the execution that holds its lock token (`runner`); the result of any
other execution is discarded, but its transaction is not. Retry delays are left out: a row or a job
that waits may be taken at any later time, which includes every delay.

### JobTransports and the code

| Code | Model |
|---|---|
| `worker_resource_settings.mode`, the current run, `platform_outbox`, `scheduled_job_claim` | `mode`; `batch`, `deadline`; `row`, `fails`; `claim`, `tries` |
| the job in BullMQ | `redis`, `made`; the executions of both transports are `exec` |
| `withMeteredRedisPermission`, its expiry and revocation | `OpenWindow` under `WindowValid`, `Revoke`; `opened` is when the window opened |
| the two clocks | `now` is the database's, `WorkerNow` = `now + skew` the worker's |
| `listPendingPlatformOutbox`: the function `list_pending_platform_outbox`, and the scan by status after any error of it | `Listed`, `Scanned`, `StartSweep` |
| the publisher | `ReadRow`, `Add`, `MarkPublished`, `PublishFailed`, `Publish` |
| `claim_scheduled_job` and the batch's end | `Due`, `ClaimJob`, `Finish`, `BatchSettles`, `BatchTimesOut`, `CloseBatch`, `OwnerClose` |
| the BullMQ processor, its errors, `recordTerminalPlatformFailure` | `Take`, `RedisDone`, `RedisError`, `AfterError`, `RecordTerminal`, `LateEnd`, `Stalled` |
| `retryFailedPlatformJob` | `AdminRetry` |

Permission and connections belong to one window, so an execution of an earlier window finds its
connection closed (`Disconnected`, `closedRedis`). BullMQ keeps failed jobs under their id, so the
re-add of a retried row does nothing. `scheduledClaimAllowsRedis` would keep Redis from replaying a
claimed job, but nothing calls it; the properties ask whether that matters. Retry delays are left
out, `available_at` with them.

`listPendingPlatformOutbox` catches every error of the function and scans the table by status, which
sees no claims (`outbox.ts:50-57`). The sweep calls it outside a transaction, so after a lost connection
or a timeout the scan does run: an error of the listing is one of `MaxFaults`, and a row found by the scan
alone is marked `scan`. Finding 6 is what follows; the two transport properties hold for the rows the
function lists. `Finish` adds to `fails`, as `finish_scheduled_job` adds to `platform_outbox.attempts`,
the column the publisher dead-letters on, so failed batch attempts bring the dead letter nearer.

The ghost `stray` holds the rows that are in Redis while nothing keeps the scheduled path from them: the
mark was lost, came after the window, was undone by an admin retry, or followed a scan.
`ExclusiveTransport` has that exception.

### The tenant's modules and the code

One action is one transaction or one statement of it, wherever another transaction can come between.
Uncommitted writes live in the request's own record; a unique index or a row lock makes others wait.

| Code | Model |
|---|---|
| `processStripeWebhook`: customer lookup, `claimStripeEvent`, the applying transaction's start, its reads, its commit | `Deliver`, `Claim` (`Duplicate`, `Ignore`), `Begin`, `Read` (`Stale`), `Apply`, `HandlerFails` |
| `shouldApplyStripeEvent`, `billingPatchFromStripeEvent` | `ShouldApply` (the last audited event, the newest by `now()` of its transaction), `Patch` |
| `createCheckoutSession` | `CheckoutRead`, `CheckoutCreate` (Stripe makes the customer), `CheckoutCommit` (the row as read, with the customer) |
| `acceptIngestEvent` | `IngestKnown`, `IngestChecked`, `IngestInsert`, `IngestCollides`, `IngestCount`, `IngestCommit` |
| the meter of `commercial.ts`, `evaluateUsageWarnings` | `ReadChecked`, `ReadCount`, `ReadCommit` |
| key actions of the console | `CountKeys` then `CreateKey`; `RevokeKey`; `RotateKey` |
| `processDueWebhookDeliveries`, `attemptWebhookDelivery` | `StartBatch` (the selection), `Post`, `Answered`/`Rejected`/`Unanswered`, `Refuse`, `CommitBatch` |
| `processQueuedEmailDeliveries` | `StartSweep`, `SendEmail`, `CommitSweep` |

Ghosts name what the code cannot exclude, so that the properties say exactly how far it goes:
`overlapped` (tenants on whom two transactions overlapped: a handler's counts from its start, because its
audit row carries that time and orders the later events), `died` and `unmapped` (claimed
events whose handler died, or whose customer no tenant had), `highest` and `replanned` (limits of the
month), `raced` and `excess` (requests beside whose count another key came in, and the keys such requests or
rotations of revoked keys added), `shared` (deliveries two
batches held), `lost` (posts whose record rolled back), `unsure` (e-mails two sweeps held, or whose
sweep died). `applied`, `answers`, `posts` and `mails` count what happened.

### The source modules and the code

| Code | Model |
|---|---|
| `syncProvider`, `tryAcquireProviderLease`, `releaseProviderLease` | `TakeLease`, `Overlap`, `ReleaseLease` (unconditional, as in the code) |
| `resolvePendingCreatorFollows`, `resolvePendingInfluencerSeeds`, `ensureRequestedCreatorMonitored` | `ListHandles`, `LookupReserve`/`Send`/`Idle`, `ResolveRead`, `ResolveWrite`, `ListDone` |
| `promoteFollowedCreators`, `runCreatorMonitoring`, `runSocialDiscovery`, `persistDiscoveryFromRecords`, `setDiscoveredCreatorState`, `setProviderControl` | `PromoteRead`/`Write`, `ClaimVisit`, `VisitReserve`/`Send`, `SearchReserve`/`Send`, `PersistRead`/`Write`, `Decide`, `Distrust`, `Pause` |
| `reserveDiscoveryRequest` and the request after its commit | `Reserve` under `WithinBudget`, `Send` |
| feed and podcast checks, site backfill (`provider_sync_run` with limit and checkpoint) | `SelectCheck`, `ClaimSiteCheck`/`ClaimFeedCheck`, `ReadFeed`, `IngestPost`/`IngestEpisode`, `SaveCheck`; `SelectBackfill`, `ClaimBackfill`, `ReadRobots`, `ReadSitemaps`, `FetchPost`, `RateLimited`, `GiveUpPost`, ... |
| `youtube-backfill.ts` | `SelectChannel`, `ClaimChannelRun`, `FindUploads`, `ReadPage`, `ReadDetails`, `StoreVideo`, `SavePage`, `EndRun`; `RequestRefused` (nothing sent), `RequestFails` (sent and counted), `StoreFails` |
| `transcript-ingest.ts` | `StartBatch`, `ClaimCheck`, `Fetch`, `GiveBack`, `Store`, `FinishCheck` |
| `local-transcripts.ts` | `SelectEpisode` and `ClaimEpisode` (the SELECT and the upsert of a claim, under one advisory lock) and a helper's four answers, which take the row lock only and name the episode, not the claim |
| `tiktok-ingest.ts` | `ClaimProfile`, `Submit`, `StoreVideo`/`SkipVideo`, `FinishListing`; `SubmitError` and `FailListing` (two transactions) |
| `tcc-price-history.ts` | `CallWindows`, `StartRun`, `PlanTarget` (one target per step, in the order of the sort), `Request`, `HistoryOk`, `HistoryDeferred`, `HistoryNotOk`, `SaveCheck` |

What a worker selected may be arbitrarily old when it claims: selection and claim are separate
actions. A worker may die at any point. Helpers are outside the platform (external): they answer
late, twice or never. A price history run is one transaction under a try-lock, so the world moves
between two runs only; of a doubtful point (`Doubtful`) the market ingest may make a row without a usable
price, an unprocessed row, or none, and the range counts as fetched all the same. A discovery request
reserved before midnight may be sent after it: it counts for the day of its reservation. Left out: the
bucket of a sync's id, the states of follows and seed rows, scoring of discovery candidates, the
`page_cap` outcome of the YouTube backfill, pauses and exclusions in the transcript selection.

Ghosts: `sent`, `extra` (requests of a YouTube run beyond what its row still reserves), `given` (posts given
up after a failed ingest, pages that need not be read), `holder` and `outlived` (leases taken from a running
sync), `visits`, `decided`, `raced` (decisions overwritten by a transaction that had read the row before),
`requested` (creators monitored since for a follow or the seed list), `claims`, `releases`, `transcripts`,
`late` (answers that ended another's claim), `reopened` (claims that wrote over an answer they had not
seen), `asked`, `owed`, `refused` (days the market ingest made no usable price of).

## 3. Runs

| Run | Question | Result |
|---|---|---|
| `scheduled_batch` | Do two processes, a fault, a kill, timeouts and operators ever break the batch protocol? | all properties hold, 1.9 M states |
| `scheduled_batch_live` | Does every batch end, and does a stopped process leave, in every mode? | holds, 0.37 M states |
| `scheduled_overlap` | Does a worker never start overlapping work? | violated (finding 1) |
| `scheduled_retry` | Can the admin retry bring back a failed platform job? | violated (finding 2) |
| `ingest_queue` | Is an event normalized by one transaction, never lost, and does it settle? | holds, 0.29 M states |
| `ingest_terminal` | Are `processed` and `failed` terminal? | violated (finding 3) |
| `ingest_exhausted` | Is an exhausted job recorded in Postgres? | violated (finding 4) |
| `job_transports` | Does a change of transport replay a job, and is Redis used outside its window? | holds, 2.5 M states |
| `transport_replay` | Does Redis dispatch never replay what the scheduled path handled or left unresolved? | violated (finding 6) |
| `tenant` | What is a tenant billed, counted, allowed and told under concurrent requests, redeliveries and crashes? | holds, 0.89 M states |
| `sources` | Are budgets, claims and cursors of the source pipelines kept with overlapping workers, crashes and late helpers? | holds, 0.62 M states |
| `price_gap` | Is a range of prices called fetched complete for the calls inside it? | violated (finding 5) |

### Properties

`ScheduledBatch`:

- `SingleBatch`: at most one process is in a batch.
- `NeverRestartedWhileLive`: no attempt of a job starts while an execution of it is still running in
  any process, a timed-out one included.
- `RunningClaimHasOpenRun`: a claim left running belongs to a run the owner still sees as open.
- `CompletedRunIsSettled`: a run recorded as completed left no unresolved claim and no handler.
- `HandledWasCommitted`: nothing is recorded as handled before its work was committed.
- `CountersAddUp`: attempts are processed, failures, or the claim that is running.
- `OncePerBatch`: at most `MaxAttempts` attempts, and one batch executes a job once. For a `WorkJob`
  there is an exception that TLC found: its timed-out handler may mark the row failed while
  recording the timeout fails too, and an operator may requeue the row within the batch.
- `DeliversJobs`: read through `PhaseOf`, the claims implement `JobDelivery`.
- `BatchEnds`, `StopCompletes`: liveness.

`IngestQueue`:

- `NormalizedOnce`: one transaction writes an event's observation, under concurrent executions.
- `NothingLost`: an accepted event is normalized, in the outbox, or known to Redis.
- `CompletedWasNormalized`: BullMQ forgets completed jobs, so a completed one must have been normalized.
- `Settles`: an accepted event is normalized, or ends in the failed set or as a dead-lettered row.

`JobTransports`:

- `ExclusiveTransport`: Redis offers no job that the scheduled path has in hand, handled or left
  unresolved, but for a `stray` row.
- `NoReplayIntoRedis`: no step puts a job into Redis while its claim is anything but absent or
  waiting for a retry, but for a sweep whose listing failed and became a scan.
- `WindowIsShort`: a window is open no longer than the run's length, whatever the two clocks say.
- `ProcessedIsKept`: a processed row is taken back only by the failed publication that reaches the limit of
  attempts (those of the batches count too) or by a second execution's permanent error.

The tenant's modules:

- `NewestWins`: the billing row shows an event as new as every one applied, in any order of arrival,
  unless transactions of the tenant overlapped, from their start on. `EventsAccountedFor`: an event is applied once at most, and
  a claimed one that was not applied is stale, unmapped or died with its handler.
- `AnswersAgree`: whoever is told that a key was accepted sent what is stored, and its job is in the
  outbox. `OverrunIsBounded`: the month passes the limit by at most the other requests in progress.
  `WarningsKeepUp`: no reached threshold is without its warning in a month without a change of plan.
- `KeysWithinLimit`: a request that counts and creates with no other key coming in between stays within
  the plan's limit: the active keys pass it by one for each raced creation and each rotation of a revoked key.
- `PostsBounded`, `SettledIsFinal`: a delivery is posted at most `MaxAttempts` times beyond its lost
  posts, and a verdict is final, unless two batches held it. `MailedOnce`: the same for an e-mail.

The source modules (one name may stand for the same promise of several modules):

- `WithinDailyBudget`: requests of a day stay within the budget (discovery with its lookups
  and visits, sites and podcasts,
  YouTube backfill beyond `extra`, transcripts), whatever workers overlap or die.
- `ClaimsOverlap`: two syncs, helpers or workers hold one lease or claim only where the first outlived it.
- `MonitoredHourly`: two visits of a creator are an interval apart. `DecisionStands`: an operator's
  decision stands (or the creator is excluded), whichever state it names, unless a transaction had read the
  row before it, or the creator was put back among the candidates and a workspace follows it or the seed
  list names it.
- `PostsAccountedFor`, `VideosStored`, `TranscriptStands`: what a cursor is past is stored or was given
  up; a completed transcript exists, and a second one only by a claim that wrote over an answer.
- `FetchedIsStored`: every price an answer held inside a window of the time is stored, or was refused by the
  market ingest; a range called fetched was asked for without a hole.

### Bounds and why they are enough

- `ScheduledBatch`: two processes, because the conflicts are between the process of a batch and the
  next one, in one process or in two; one is enough for liveness, which is stated for each process. Two
  jobs, one of each shape that differs in the run's properties; the live run has a malformed one.
- Time keeps the order of the real lengths: a window (180 s) is one tick, the owner's grace
  (10 minutes) one, a retry's delay (15 minutes) two, the distance of two slots three; in the live
  run one, one, one and two, so that both slots' deadlines pass within the horizon. Two slots fit the
  horizon: a batch, the next one, and everything that is carried over.
- `MaxAttempts = 2` stands for 3 (and 5 in BullMQ): one retry, then the last attempt.
- `MaxFaults = 1` and `MaxKills = 1` in `scheduled_batch`: one lost call or answer and one crash in
  any two places; a second fault makes the instance too large for TLC, the theorems cover any number.
- `MaxTrouble = 2` in `ingest_queue`: two mishaps of any kind, at any two places, on one event that is valid
  or not, with liveness in the same run; its three safety properties are theorems for any number of mishaps,
  events, publishers and executions.
- `Setting`, `Malformed`: each run has the settings and rows its question needs; together they fire
  every action.
- `job_transports`: one job (rows do not interact), two sweeps, two batches (one of each mode, in either
  order), clocks that agree or differ by a window's length, one fault, `MaxPublish = 2` for 20. Three
  batches were checked once with an earlier version of the module. The theorems have no such bounds.
- `tenant`: one tenant; two customers and checkouts; three Stripe events, two of one second; two
  requests, three keys and two fingerprints, limits 1 and 2; four API keys against a limit of two;
  two deliveries, two batches, two attempts, an endpoint disabled after two failures; two e-mails and
  two sweeps; one lost batch or sweep. Each is the least number at which two actors meet on one row and a
  third step follows.
- `sources`: two syncs, and three helpers (a claim, the one that takes it over, and the one after), two
  workers elsewhere; budgets of one to seven requests, so that the last unit is contended; a day of one
  or two ticks and a horizon beyond it; two or three runs per channel, site or profile; two printings whose
  calls begin a day apart and end on the last day, one doubtful day per printing. A transcript check is claimed again within the horizon but
  not a third time: that its attempts stay within their limit is the theorem `SourceTypes`.
- `price_gap`: one printing, two calls and eight days: a call, its fetched range, and a call found later.

`MaxJobs`, `MaxAttempts`, `RunWindow`, `CloseGrace`, `RetryDelay`, `SlotPeriod`, `DayLength`,
`DayWindows`, `MaxStalls`, `MaxPublish`, `Lease`, `Interval`, `Budget`, `Reserve`, `PerSite`, `MaxPages`,
`MaxListed`, `DisableAfter`, `MaxPoints`, `BatchSize` and the day ranges of `PriceHistory` are limits of
the code, scaled; `Horizon`, `LastTick`, `LastDay`, `MaxFaults`, `MaxKills`, `MaxTrouble`, `MaxBatches`,
`MaxRollbacks`, `MaxReleases`, `MaxRuns`, `MaxPost`, `MaxVideo` and `MaxActs` are bounds of the model only.

Symmetry: processes, publishers, executions, sweeps, batches, syncs and helpers are interchangeable,
and only in runs without liveness properties. Deadlock is checked in the runs of `ScheduledBatch` and
`IngestQueue`; the others stop when a bound (time, faults, keys, events) is used up.

### Fairness

`ScheduledBatch`: time passes (`Tick`), and the steps of a cycle and the exit of a stopped process
are taken (`Runs`, `Exit`): the event loop runs and its timers fire. A metered window is not assumed
to break off: it ends at its deadline. No handler is assumed to settle, nobody is assumed to restart
a process or to act on a run.

`IngestQueue`: the sweep picks a pending row (`worker.ts:871`), publishers and executions take their
next step, workers take waiting jobs, and the check for stalled jobs (every 30 s) finds a job whose
execution is gone. Nothing obliges a mishap, and a stall of a healthy execution is not assumed.

The other modules state safety only: what they could promise eventually depends on slots, helpers,
Stripe's redeliveries and operators, none of which the code obliges to come.

## 4. Findings

1. **A timed-out batch can go on** (`scheduled_overlap`). The call that records a timeout stands
   inside the `try` whose `catch` handles handler errors. If it fails, the catch records a retry
   (`scheduled-worker.ts:71`) and the loop claims the next job beside the running handler, against
   the comment on line 67, "Never start overlapping work". `NeverRestartedWhileLive` still holds: the retry's
   delay keeps the same job out of this batch.
2. **The admin retry of a job that the scheduled worker failed has no effect** (`scheduled_retry`).
   `retryFailedPlatformJob` (`providers/outbox.ts:108`) resets the row, not its claim, and both
   transports exclude rows with a failed claim. `docs/PHASE_25.md:30` says such jobs "can still be
   retried by the existing admin retry helper".
3. **`processed` is not terminal** (`ingest_terminal`). The publisher's `updateSourceEventStatus`
   (`source-event.ts:121`) may overwrite the status a worker committed after the publisher read it.
   `docs/PHASE_05.md:139` says the two states are terminal. The observation is not affected.
4. **An exhausted tenant job is not recorded in Postgres** (`ingest_exhausted`).
   `recordTerminalPlatformFailure` (`failure-observation.ts:65`) skips tenant jobs, and
   `markJobPermanentlyFailed` runs for permanent errors only. `docs/PHASE_05.md:152-153` says that
   Postgres stores `processing_status=failed` for failed jobs.
5. **A price inside a range called fetched stays missing** (`price_gap`). `listPriceHistoryTargets`
   skips a printing whose windows lie in `covered_from..covered_to`, with the comment
   (`tcc-price-history.ts:370`) "A range fetched successfully has nothing new until a window outside it
   appears." But `saveCheck` (679-680) marks the range of the whole request, while `usableHistoryPoints`
   (606) keeps the days inside the windows known at the time. A call found later inside the range is
   never asked for. Printings of the chart universe are stored whole and escape.

6. **A sweep whose listing fails replays claimed jobs into Redis** (`transport_replay`).
   `listPendingPlatformOutbox` catches any error of `app.list_pending_platform_outbox` and scans the table
   by status (`providers/outbox.ts:50-57`), which sees no claims, although its own comment (45-46) and
   `0036_worker_resource_schedule.sql:291-292` ("Redis dispatch must not replay a job the scheduled path
   already handled or left unresolved") say why it must not. A job a batch left indeterminate is replayed.

What the models show beside the findings, where the code disagrees with a document in a way that a
property states as its exception, or is plainly visible:

- `docs/PHASE_33.md:8` says out-of-order Stripe events are ignored; two handlers (or a handler and a
  checkout) that overlap both pass the check at `webhooks.ts:129` and the later commit wins; and since an audit row carries
  the start of its transaction, one that started first and committed last is not the latest audit row, so a
  later stale event may still pass (`overlapped`).
- `docs/PHASE_09.md:101` caps the YouTube backfill at 60 requests a day; `saveRun` gives a reservation
  back while its run goes on (`extra`).
- `docs/SOURCE_OF_TRUTH_ACCEPTANCE.md:15` protects an operator's decision, and `creator/list.ts:254-255`
  says "without ever overriding the operator". A discovery, a lookup or a promotion that read the row
  before the decision overwrites it (`raced`), and a decision "candidate" is overwritten without any race
  when a workspace follows the creator or the seed list names it (`list.ts:279`, `323-338`; `requested`).
- A claim of a local transcript is a SELECT and an upsert without a condition: an answer that completes the
  job in between is written over, and the episode is transcribed again (`local-transcripts.ts:98-139`, `reopened`).
- A price that the market ingest refuses or quarantines leaves its day without a price in a range that counts as
  fetched (`tcc-price-history.ts:890-911`, `refused`).
- `docs/PHASE_33.md:10`: a revoked key can be rotated into an active one (`excess`).
- `docs/PHASE_16.md:40`: a post without an answer does not count towards disabling an endpoint.
- `checkout.session.completed` carries no price, so its patch says plan "free" until the subscription's
  event; usage recorded by an ingest never evaluates warnings; an unreachable `robots.txt` ends a site's
  backfill (`web-backfill.ts:300`).

## 5. Proofs

Eight modules of theorems, for every number of processes, jobs, requests, events and mishaps. An
invariant is seldom inductive as it stands; the table says what had to be added and why.

| Module | Theorem | States | Argument |
|---|---|---|---|
| `ScheduledBatchProofs` | `TypeCorrect` | `TypeOK` | inductive as it stands |
| | `OneBatchAtATime` | `SingleBatch` | `BatchInv`: a process in a batch holds a run that is open, at most one run is open, and a run was admitted by one process. That a second process is refused depends on the first one's run being open. |
| | `RunningClaimsAreVisible` | `RunningClaimHasOpenRun` | `ClaimInv`: a process in an iteration owns the claim of its job, and a running claim names a run. The process records the claim before it closes the run, or closes it as indeterminate. |
| | `HandledIsCommitted` | `HandledWasCommitted` | `CommitInv`: a process about to record "processed" has seen the work committed. |
| | `CompletedRunsAreSettled`, `CountersAreExact`, `NeverBesideItself`, `AttemptsAreBounded` | the four remaining invariants and action properties | `JobsInv`: an execution belongs to an open run that its process admitted, or is one the process left behind and will report for review; a retried row waits past that run's deadline, because `RetryDelay >= RunWindow`; there is one running claim at a time. |
| | `DeliveryImplemented` | `DeliversJobs` | every step maps, through `PhaseOf`, to a step of `JobDelivery` or a stutter |
| `IngestQueueProofs` | `TypeCorrect`, `NormalizedByOneTransaction`, `CompletedIsNormalized`, `NoEventIsLost` | the safety properties of the run | the row lock is held from the status update to the end; "processed", a successful execution and a completed job each imply that the event is normalized; a publisher marks a row only after its add. |
| `JobTransportsProofs` | `TypeCorrect`, `WindowsAreShort`, `TransportsAreExclusive`, `NothingIsReplayed`, `ProcessedStays` | all properties of the run | no claim moves while a window is open; a marked job in the queue is not pending in the outbox, but for the `stray` ones; a row in flight that no scan found was listed with a claim that lets it pass; the worker's deadline is at most the opening time plus the skew and the run's length. |
| `StripeBillingProofs` | `TypeCorrect`, `EventsAreAccountedFor`, `NewestIsShown` | `TypeOK`, `EventsAccountedFor`, `NewestWins` of `StripeBilling` | a customer's row, handlers and checkout are its owner's; on a tenant never overlapped there is one transaction, what it read is still there, it started later than the audited one, and the audit row is the newest event. |
| `WebhookDeliveriesProofs` | `TypeCorrect`, `PostsAreBounded`, `SettledStaysSettled` | `TypeOK`, `PostsBounded`, `SettledIsFinal` of `WebhookDeliveries` | a delivery never shared is held by one batch that knows its committed row; posts are committed attempts, the batch's own one, and the lost ones. |
| `TenantProofs` | `TypeCorrect`, `AcceptedIsStored`, `QuotaHolds`, `WarningsAreComplete` | `TypeOK`, `AnswersAgree`, `OverrunIsBounded`, `WarningsKeepUp` of `TenantMetering` | one request holds a key, and only while no event of it is committed; the month plus the requests that passed the check (a cardinality) stays within the limit plus the other requests. |
| | `TypesCorrect` | `TypesOK` | the type invariants of the five modules, each carried through the part that moves |
| | `NewestEventIsShown`, `NoEventIsForgotten`, `PostsStayBounded`, `SettledDeliveriesStay` | `NewestWins`, `EventsAccountedFor`, `PostsBounded`, `SettledIsFinal` | from the theorems of `StripeBillingProofs` and `WebhookDeliveriesProofs`, through a lemma per operator that an instance defines anew |
| | `KeysStayWithinLimit` | `KeysWithinLimit` | `KeyInv`: the active keys are finitely many, at most the limit plus `excess`, and below the limit while a request that has counted is not raced: what it counted has not grown since. A rotation replaces an active key, or adds one where the old key was revoked, which races every counted request. |
| | `MailsGoOutOnce` | `MailedOnce` | an e-mail not `unsure` is held by one sweep, which writes what it sent |
| `SourceProofs` | `ClaimsOverlapBoundedly` | `ClaimsOverlap` | `HelperInv`: a helper within its lease whose claim is not the episode's latest open one was left behind by a late answer, and `late` counts those; `SyncInv`: the syncs without the lease number at most `outlived`; `CheckInv`: who checks a video has its row started within the day. |
| | `CompletedHasTranscript` | `TranscriptStands` | `HelperInv`, `CheckInv`: the transcript is stored before the row says completed; a claim selected a row that does not say completed, unless an answer came since (`raced`), and then its upsert is one that `reopened` counts |
| | `OperatorDecisionStands`, `VisitsWait` | `DecisionStands`, `MonitoredHourly` | `SyncInv`: a row an operator decided says so (or excluded, or monitored where the decision was "candidate" and the creator is requested), and a snapshot that disagrees with the row's decision will be `raced` when it is written; a visit is at least an interval before the row's next one. |
| `BackfillProofs` | `BudgetsHold` | `WithinDailyBudget` | `CheckInv`, `FeedInv`, `BackfillInv`: rows are sets of requests, so that a sum is a cardinality. What a row sent is below its limit, the limits of a day's rows are within the budget, and a row is written by the one worker that executes it, so only a claim adds to them. A sync holds at most one reservation it has not sent, so what was sent and may still be is within the reservations. In the backfill a sent request above its row's limit is one the ghost `extra` names. |
| | `PublishedIsAccountedFor` | `PostsAccountedFor` | `FeedInv`: what a worker or a row carries to a later run (validators, a queue) leaves out only posts that are settled, and settled posts stay so; `ListingInv`: a completed claim ends where all videos below are accounted for, and the next one starts there. |
| | `PagesPastAreStored` | `VideosStored` | `BackfillInv`: the state of a run, and of the batch that executes it, is past stored pages only, and the page under way is stored but for the batch's `todo`. |
| | `FetchedDaysAreStored` | `FetchedIsStored` | `PriceInv`: what is stored or refused, owed, asked and checked agrees now and in the state the run would be rolled back to, and what the run has stored it can still undo. A check row is written in the step that stores its days, and its range grows only over a range that meets it. |
| | `RequestsFitTheFeed` | `PlanFits`, which only this module states: a planned request holds a target and is within the feed's limits | `PriceInv`: the range of every target fits by itself, and a target joins a request only if the joined range does |
| | `SourceTypes` | `TypesOK` | the type invariants are conjuncts of the seven inductive invariants, or follow from them |

The proof of `JobTransports` found a gap in an earlier form of the model: permission was not tied to one
window, so an execution of an earlier window could use a later one's connection.

For the proofs of the source modules the sums of `limit_count` and of requests are written as the number of
pairs of a row and a request of it (`Limits`, `Requests`, `ReservedOn`, `Reserved`), and requests beyond a
limit (`extra`, `sent`) as such pairs: a fold has no induction here, a cardinality has the theorems of finite
sets. `MCSources` takes the sizes of its modules as constants, so that its theorems hold for every number of
helpers, workers, creators, episodes, videos, sites and channels, and every budget, reserve, lease and limit
that satisfies `SourceAssumptions`.

Assumptions: `SettingAssumption`, `BoundAssumption`, `RetryAssumption` and `JobAssumption`,
`EventAssumption` and `LimitAssumption`, `TransportAssumption` are evaluated by the runs of their modules.
`Assumptions` of each module of the tenant and of the sources is a hypothesis of the theorems about it;
`Assumptions` of `PriceHistory` says that a year's chart fits into one request (`ChartDays <= MaxDays + 1`:
the code has 365 days, and 399 days between the ends of a request) and that the printings are finitely many.
`TenantAssumptions` of `MCTenant` and `SourceAssumptions` of `MCSources` state them of the instances, and
their runs evaluate them.

Only model-checked, and why:

- liveness (`BatchEnds`, `StopCompletes`, `Settles`): fairness and ENABLED are out of the prover's reach.

Every safety invariant and every action property of a passing run is a theorem.

## 6. Plan

What is left, in this order:

1. **`WorkerSchedule`**: the slot rule of SQL and of `@isp/shared` against one reference.
2. **`GracefulStop`** and `VerificationLimiter`: the parts of the worker's end and of the API's limiter
   that keep state.
3. **Pure algorithms**: market revisions, creator outcomes, the prediction lifecycle, against a reference
   over bounded inputs.
4. `afterBatch` of the scheduled worker and the order of its steps.

## 7. Not modelled

Third-party data and its parsing, floating-point scores and indicators, HTTP and HTML, DDL and
migrations, Redis connection options, logging and heartbeats. Postgres row-level security is taken as
given. BullMQ is modelled from the options the code passes to it and the events it handles, Stripe and the
helpers from how the code uses them. Creator calls, TCG catalogues, resolution, scoring, prediction and
analytics are functions of stored data, recomputed in single transactions under unique keys or an advisory
lock: little of them depends on an order of steps. Pages, routes that only read and the schema make up most
of the repository; they hold no state of their own to check.
