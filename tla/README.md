# File-Converter: TLA+ models, model checking and proofs

File-Converter is a Django application with Celery workers. A user uploads a
file; the web process stores it, admits a *conversion job* under a quota and
enqueues it; a worker claims the job, converts the file and publishes the
output; periodic tasks repair stuck jobs, expire outputs, collect orphaned
blobs and relay webhooks from an outbox table. This directory holds TLA+
modules translated from that code, TLC configurations, and TLAPS proofs.

Paths below are relative to the repository (`src/` here); `services.py` without
a directory is `src/apps/conversions/services.py`.

## 1. Inventory

| Part | State | Operations | Correct when |
|---|---|---|---|
| Submission (`services.py` 91-370) | input bytes, `FileBlob`, `ConversionJob`, `QuotaDecision` rows | `submit_conversion_job`, `_persist_input_blob`, `_discard_blob` | one job per idempotency key; the answer is a job for the uploaded content; losers and denied requests leave nothing behind |
| Quota (`apps/quotas`) | `UsageQuota` row lock, decisions | `reserve_quota`, `record_quota_denial` | concurrent submissions never exceed `max_active_jobs` |
| Job lifecycle (`services.py` 373-880) | the job row: status, `claim_generation`, `attempt_count`, `cancel_requested`, `output_file`, heartbeat; `UsageLedger`; outbox rows | `claim_job`, `run_conversion`, `promote_output`, `terminal_transition`, `retry_transition`, dead letters | fenced workers are inert; billed once; the outbox agrees with the row; every job ends |
| Reaper (`services.py` 877-977) | a snapshot of stale rows | `requeue_stale_jobs` | acts only on rows that are still stale; respects the attempt budget |
| Cancellation (`services.py` 455-525) | `cancel_requested` | `request_cancel`, `_immediate_cancel` | a cancellation before the promotion wins |
| Retention (`services.py` 979-1110) | `expires_at`, files | `expire_due_outputs`, `purge_terminal_input_files`, `garbage_collect_blobs` | downloads have bytes; expired bytes are gone; inputs outlive attempts; orphans are reclaimed |
| Outbox relay (`apps/audit/services.py`) | `OutboxEvent` rows, row locks | `enqueue_outbox`, `deliver_outbox_events`, purges | delivered means received; no row is lost between retrying and failing; every event settles |
| Beat lock (`apps/conversions/tasks.py` 18-40) | a cache key with an expiry | `single_instance` | a periodic task has one instance, and starts again after a death |
| Cache gates (`fileconverter/ratelimit.py`, `organizations/auth.py`, `ops/flags.py`) | counters and a flag value with timeouts, the `FeatureFlag` row | `increment_counter`, peek and commit, the throttled login, `flag_enabled` | attempts are bounded; blocks end; a kill switch takes effect |
| Progress cache | a cache entry per job | throttled writes | staleness is bounded |
| Account deletion (`apps/organizations/lifecycle.py`) | the rows and files of the user's organizations, one transaction | `delete_user_account`, `delete_organization`, the scrub of shared organizations | no reference to a deleted row; nothing of the user is left behind |
| Access (`organizations/services.py`, `permissions.py`, `rls.py`, `middleware.py`, `conversions/views.py`) | organizations, workspaces, memberships, access lists, sessions, the settings of a database connection | the access middlewares, workspace resolution, personal organizations, the views' checks, the row policy | no rows without membership; the separate checks agree; no account starts afresh |
| Converters, file utilities, forms, probes, metrics | none of their own | pure functions and I/O | - |

**Interactions.** Submission, workers, reaper, cancellation and retention share
the job row and communicate through conditional updates on it. Submission,
retries and the reaper send broker messages *after* their commit. Terminal
transitions write outbox rows in their transaction, and the relay posts them
later. All periodic tasks start through the beat lock. Every web request passes
the access middlewares and shares its database connection with the requests
before and after it; logins and uploads share cache entries.

**Hard behaviours.** Messages are acknowledged late and redelivered; a worker
may pause past the stale threshold and wake up superseded; the reaper and
`request_cancel` act on earlier reads; file deletions are not transactional;
commits and enqueues are separate; the webhook's answer may be lost; the beat
lock has no owner and expires by itself; counters are read and raised in
separate cache calls while they expire; the row-level scope of a request is set
and cleared by single statements on a connection that outlives it. `PROJECT.json` lists these under
"hazards", each at its line.

## 2. Modules

| Module | Content |
|---|---|
| `JobLifecycle` | job rows, workers, broker, reaper, cancellation, retention |
| `JobContract` | abstract specification of a job: one outcome, billing and announcement |
| `JobLifecycleProofs` | the invariant of `JobLifecycle`, its theorems and the refinement of `JobContract` |
| `Submission`, `SubmissionProofs` | concurrent `submit_conversion_job` calls of one user in one workspace |
| `Outbox` | the outbox table, concurrent relays, dead letters |
| `OutboxContract` | abstract specification of an event: at-least-once delivery or a dead letter |
| `OutboxProofs` | the invariant of `Outbox`, its theorems and the refinement of `OutboxContract` |
| `BeatLock`, `BeatLockProofs` | the `single_instance` lock |
| `Deletion`, `DeletionProofs` | `delete_user_account` racing memberships, submissions and workers |
| `Access`, `AccessProofs` | web requests on one connection: middlewares, access checks, row policy |
| `Gates`, `GatesProofs` | login throttle, upload rate and kill switch over the shared cache |
| `MC...` | one per module: its instances for TLC |

Actions carry the names of the functions they model; `PROJECT.json` ("map")
gives the lines of each definition. Throughout, **an action is one database
statement, one transaction, or one storage, cache or broker call**, so that
everything may happen between two of them. Definitions commented *Mutant* are
plausible mistakes; they are not used by the specifications.

### JobLifecycle

*State.* The columns of the job row keep their names. `output_file` is the
generation whose blob is linked. Time is reduced to the facts the code tests:
`stale` holds the rows whose heartbeat is older than `STALE_PROCESSING_AFTER`,
`overdue` those still older than the threshold the reaper's current pass
computed, `due` those past `expires_at`. `files` and `blobs` are output bytes and
`FileBlob` rows. A worker is a program counter `pc` over the steps of
`run_conversion` and the `claim` that `claim_job` returned.

*Actions.* `claim_job` (a waiting row, or a stale `PROCESSING` one),
`claim_cancelled`, `claim_refused`; `Work`, `Progress`, `raise_if_cancelled`,
`create_output_blob` (bytes, then row), `promote_output` (update, then the re-read
that picks the exception), `discard_output`; `Finish`/`FinishFenced` for
`terminal_transition`; `retry_transition`, `retry_enqueue`, `emit_dead_letter`;
`ConverterRaises`, `Raises`; `requeue_stale_jobs`, `ReapRow`, `reap_enqueue`;
`request_cancel`, `immediate_cancel`, `announce_cancel`, `flag_cancel`;
`expire_due_outputs`, `purge_terminal_input_files`, `garbage_collect_blobs`.
Faults: `WorkerDies` (message redelivered, or acknowledged), `Redeliver`,
`WorkerStalls`, `ReaperDies`, `CancelRequestDies`, `ExpiryRollsBack`.

*Abstractions.*
- `Init` is a committed and enqueued row; how it got there is `Submission`.
- `Raises` stands for every exception that is not transient, including Celery's
  `SoftTimeLimitExceeded`. The hard limit and exceptions raised by handlers
  acknowledge the message; a lost process returns it.
- `claim_job` never returns a flagged row, so the in-memory `cancel_requested` is
  always false and the first branch of `retry_transition` is dead.
- One cancellation request is in flight per job, and the `is_terminal` test and
  the refresh of `request_cancel` are one read. The flag is written whatever the
  status became since.
- One reaper pass at a time, which is what `BeatLock` establishes.
- `garbage_collect_blobs` takes a blob only when no attempt may still link it:
  its minimum age is longer than an attempt's time limit.
- The retention `TtlHours` is chosen at each completion, since an administrator
  may edit it while the job runs.
- `JobEvent` and audit rows, percentages and `celery_task_id` are left out.

`JobContract` is what a user relies on. `JobLifecycle` implements it with
`outcome` mapped to the terminal status and every active status to `OPEN`.

### Submission

`gate`, `lookup` (the idempotency fast path), `reuse`, `peek` and `count` (rate
counter), `store` and `row` (`_persist_input_blob`), `reserve` (transaction up to
the quota lock), `insert` (the rest of it, commit included), `enqueue`
(`on_commit`), `denied`, `raced`, and the three clean-up steps. A job, a blob and a
decision are named by the request that made them. `TransactionFails`,
`EnqueueFails` and `Crash` are the faults; the first two lead to the exception
handler. `JobMoves` lets a job progress as `JobLifecycle` allows. A `DONE` job past
`expires_at` counts as `EXPIRED`.

### Outbox

Rows are an event and its possible dead letter. A relay selects the oldest
pending row under `select_for_update(skip_locked=True)` (PostgreSQL), posts it,
and commits what the answer means; a pass ends at the first failure. The
response may be an acceptance, a refusal of something received, or a failure
before reception. `except Exception` also catches the soft time limit, which is
thus a refusal. A relay that dies rolls its transaction back. With delivery
disabled or no URL the code changes nothing, which is a stutter.

`OutboxContract` is what the consumer of the webhook relies on. It knows neither
relays nor attempts: an event is accepted, received any number of times while it
is pending, and then delivered (only if it was received) or given up together
with the acceptance of its dead letter. `Outbox` implements it with `outcome` mapped
to `state`.

### BeatLock

A run starts, calls `cache.add`, and if it got the lock runs its body and
deletes the key in `finally`. The key expires by itself after `LockTimeout` ticks;
a run is over `TimeLimit` ticks after it started (the Celery soft time limit).
The lock carries no owner, as in the code.

### Deletion

`delete_user_account` is one transaction of many statements on PostgreSQL at READ
COMMITTED: a statement sees what others have committed by then. `tx` holds what
the transaction has written (rows deleted, blobs marked, jobs redacted) and
`commit` applies it; a rollback drops `tx` but does not bring back deleted bytes.
Statements of others that need a row in `tx` wait (`Free`, `FreeJob`, `FreePerson`).
Steps: `find_shared` (one membership), `scrub_blobs`, `redact`, `survey` (one
membership), then for an organization nobody else belongs to `delete_files`,
`delete_jobs`, `delete_blobs` and `delete_org`, and last `delete_user`. The loops over
blobs are one step each, in which any of the files may fail to be deleted
(`unlink`), as the code logs the exception and goes on. `Protected` is
`on_delete=PROTECT` of `ConversionJob.input_file`: the deletion raises and everything
is rolled back. The query of the deletion and its `DELETE` are one step; errors
that only the database would raise at a later point are covered by `Fails`.

A conversion is reduced to the moments that matter here: its bytes, its rows,
and the commits that need somebody else's row. Retries, the expiry of outputs
and the collector are left out; a workspace counts as part of its organization,
and every membership as one that allows uploads. `scope` records the user's
organizations at the start of an undisturbed run of the command.

### Access

Requests follow one another on one connection, which `CONN_MAX_AGE` keeps open:
`begin`, `login_access`, `read_org_ids`, `apply_scope` and `apply_ids`, the view, then
`clear_scope` and `clear_ids` and the end. Web threads share nothing but the tables,
so everything another thread, an operator or an administrator does is one of the
`edit_*` actions or `new_organization`, between any two steps. The views are
reduced to the order of their checks and to what they answer: the job views
(`fetch_job`, `check_acl`, `serve_job`), the switch of the workspace, and the views
of the active workspace (`session_workspace`, `session_access`,
`ensure_personal_workspace`, `any_membership`, `create_personal`, `use_workspace`,
`insert_job`). The access checks keep their names and are operators over the
tables; the queries of one check are one step. `tenant_isolation` is the policy of
migration 0005, for reads and writes alike.

*Abstractions.* An organization has one workspace and one job that matters; the
oldest of several memberships is any of them. Invited and disabled memberships
are one value, as are the access lists that admit a user or do not. `fault` is a
failed statement: before the view nothing clears the scope, in the view the
`finally` clause does, and in that clause nothing is left to; `submit_fails` is one
that the upload view catches. `joined`, `alive`, `quiet` and `clean` record what the
properties speak of: where the account was a member, and what was active, at
some moment of the request, whether the tables changed meanwhile, and whether a
failed statement is behind the answer. SQLite (`site.postgres` false) has no row
policy. `create_personal` may fail where another request took the slug.

### Gates

Each cache call is a step: `counter_add`, `counter_incr`, `counter_set` are the three
calls of `increment_counter`. `key` is the counter a request is incrementing; a
failed login raises the user's and then the address's. `flag_cached`, `flag_read`,
`flag_unavailable` and `flag_fill` are `flag_enabled` for `upload_enabled`, whose default
is on. `timed` holds the keys whose entry has a timeout, and only those expire.
`seen` counts the attempts since the entry was last absent, which the code cannot
know: `counter_set` restarts `count`, not `seen`. One client address, and one user's
upload counter, stand for all, as keys do not interact. The cache is shared
(Redis); with the per-process cache each process is an instance of its own, as
the comment in `auth.py` says. Evicting an entry early is an expiry.

## 3. Runs

| Run | Checks | Instance |
|---|---|---|
| `job_safety` | fencing, billing, announcements, downloads, retention, retries, cancellation, no message consumed that a waiting job needs, refinement of `JobContract` | 1 job, 2 workers, 2 attempts, 2 faults, 1 lost enqueue, retention 0 or 24 |
| `job_progress` | every job ends; unpromoted outputs are collected | as above with 1 fault, no lost enqueue |
| `submission` | quota, idempotency, answers, clean-up; every request ends; orphaned inputs are collected | 2 requests, 2 keys, 2 contents, quota 1, rate limit 1, reuse, 1 fault |
| `outbox_safety` | deliveries are real, duplicates accounted for, no limbo, dead letters exactly for failures, refinement of `OutboxContract` | 2 events with dead letters, 2 relays, 2 attempts, 1 crash |
| `outbox_progress` | every event settles | as above, 1 relay |
| `beat_lock` | exclusion, and the task runs again | 3 processes, timeout 4, limit 3 |
| `deletion` | no dangling references, refused submissions leave nothing, an undisturbed deletion erases everything | 2 organizations, 2 people, 1 conversion, 1 fault |
| `access` | rows only of the user's organizations; undisturbed requests get the answer the roles grant; no fresh start | 2 organizations, 3 roles, 3 visitors, 1 table change or failed statement |
| `gates` | attempts are bounded, blocks end, the kill switch takes effect | 2 requests, 1 user, limits 1 (user, uploads) and 2 (address), 1 flip, 1 failed lookup |

Three further runs (expected to fail) show where the code departs from what the
repository says of it; section 5.

**Why the bounds suffice.** Jobs share only workers and the reaper's pass, and
every update names one row, so one job meets all the races; two workers are the
holder and the one it superseded, and with two attempts a job meets the first,
the last and the exhausted claim. Two faults give a stall followed by a crash or
a redelivery. Two submissions are a winner and a loser (or a denied one) of one
key. Two events show a failing one ahead of another. Two organizations and two
people make one organization shared and the other not, or either change under
the command; the initial memberships and the owner of the conversion are
arbitrary, and one fault is a failed attempt followed by a second one. In `access`
every membership and access list is an initial state, the second organization
is the one that may be created, requests of all accounts alternate on the
connection, and one upset may fall between any two steps of any of them; the
role `admin` is treated like `owner` by every check. In `gates` two requests suffice
for one to overwrite what the other counted, and the bound is reached (with a
limit raised by one it is violated). All the safety properties of the
passing runs, refinements and action properties included, are in addition proved
for every value of the constants. Deadlock is not checked for jobs,
submissions and deletions: they really end.

**Fairness.** In `job_progress`: weak fairness of delivery (Celery hands a
message to an idle worker), of each worker's steps, of the ageing of an
unattended heartbeat, of a cancellation request once begun, of the passing of
retention, and of the beat tasks (reaper, expiry, collector). Nothing obliges a
fault, a cancellation, the operator's command or the purge of inputs. In
`submission`: strong fairness of a request's steps, because waiters for the quota
row are queued by the database while other requests take and release it, and
weak fairness of the collector. In `outbox_progress`: weak fairness of the relay,
which beat starts again and again. In `beat_lock`: time passes and runs take their
steps. In `gates`: weak fairness of each request's steps once it has begun, and of
the expiry of each entry that has a timeout; nobody is obliged to log in or to
upload. `EveryJobEnds` needs `MaxLost = 0`, see finding 1. `access` states no
fairness.

## 4. Proofs

All theorems hold for any jobs, workers, requests, keys, events and bounds that
satisfy the `ASSUME`s (`ConstantsOK`, `SubmissionConstants` and their
counterparts); the fault bounds may be arbitrarily large.

- **`JobLifecycleProofs`**: `Safety` (`Spec => []SafetyInv`) and from it `TypeCorrect`,
  `Fencing`, `RetryBudget`, `FencedPromotion`, `DownloadIntegrity`, `ExactBilling`,
  `TruthfulOutbox`, `ExpiryDeletes`, `InputsOutliveAttempts`, the action properties
  `ZombiesAreInert` and `CancellationWins`, and the refinement `ImplementsContract`. None of the properties is inductive by
  itself. `SafetyInv` adds that generations of running claims are distinct and at
  most the row's, and that the newest claim carries the row's attempt number
  (`ClaimsFenced`), that a job is not completed while its newest attempt runs and
  links that attempt's output at the finish line (`NewestAttempt`), that the
  reaper's snapshot of a row that is still overdue has its attempt count
  (`SnapshotAccurate`), that an attempt past `create_output_blob` has its
  output (`AttemptOutputStored`), and that pending announcements belong to
  cancelled rows (`AnnouncesCancelled`). `SnapshotAccurate` is what justifies the
  reaper's re-check of the heartbeat only: the row may be claimed after the
  snapshot, but a claim writes the heartbeat.
  Two theorems have an invariant of their own on top. `DeadLettersHaveCause`:
  `GivesUpForCause` says that an attempt on its way to the dead letter saw the
  budget used up or the cancellation, neither of which is ever revoked
  (`CauseRemains`), although the letter is a commit after the failure.
  `OnlyLossStrands`: every action either adds no row to `Stranded` or is a death on
  the way to an enqueue, which adds one and is counted (`StrandsNone`, `StrandsOne`).
  It is the safety half of `EveryJobEnds` and holds for any number of losses, where
  the liveness property needs there to be none.
- **`SubmissionProofs`**: `SubmissionSafe` (`[]SubmissionInv`) and the six safety
  properties. The key conjunct is `Reserved`: between its count and its insert a
  request holds the quota row, and there still is room.
- **`OutboxProofs`**: `OutboxSafe` (`[]OutboxInv`), the four invariants and the
  refinement `ImplementsContract`. The key conjunct is `Holding`: a row selected by a
  relay is still pending with the attempts the relay read, and no other relay has
  it; so what a relay records is a step of the contract. `FailureRefines` also needs
  `DeadLetterIffFailed`: the dead letter it creates did not exist.
- **`BeatLockProofs`**: `SingleInstance`, under the assumption
  `TimeLimit < LockTimeout`. `LockOutlivesRun` says that while a run holds the lock
  the key has more time left than the run.

- **`DeletionProofs`**: `ReferentialIntegrity` (`NothingDangles`), `CleanRefusals`
  (`RefusedLeavesNothing`) and `AccountErased` (`QuietErasure`). The first
  property says nothing of the open transaction and is not inductive: `DeletionInv`
  adds `TxClosed`, that what the transaction leaves does not refer to what it
  deletes and what it marks exists, which is what makes the commit safe, and
  `InProgress`, that a submission under way has no job and no output row.
  `UnprotectedIsEmpty` is the step where `PROTECT` matters: an organization that
  passes the test has no job left. `RefusalInv` adds `RowOrGone`, that a submission
  past its insertion keeps its row unless the organization goes, and that the
  transaction deletes jobs only with their organization. `ErasureInv` adds what the
  command has achieved by each step: which bytes can exist without a row
  (`BytesHaveRows`), what the transaction holds (`TxProgress`), and, while nobody has
  disturbed it, which organizations are erased and which are still to come
  (`QuietProgress`).

- **`AccessProofs`**: `TypeCorrect`, `TenureOnlyHolds`, `NoFreshStartHolds`,
  `WritersCanAccess` and `QuietOutcomeHolds`. `TenureOnly` is about the policy while a view runs, which
  depends on a list read long before: `ScopeInTenure` follows it from the tables
  into the request and into the connection, `RowsInTenure` follows each checked
  organization to the rows handed out, and `KeepsUp` says that the bookkeeping
  contains what holds now. Nothing is assumed of the connection a request starts
  with, which is why a failed `clear_scope` cannot hurt a user's request.
  `QuietOutcome` does need something of it: `CleanConnection` says that where no
  statement failed the scope is off between requests. `Informed` says what a quiet
  request knows at each step (`Knows`), `ChecksGrant` that the checks it passed add up
  to what the roles grant, and `AnswerRight` that a view answers accordingly.
- **`GatesProofs`**: `TypeCorrect`, `AttemptsBoundedHolds` and `EveryEntryExpires`, for
  any number `N` of requests and any limits. `KeyInv` counts, for each key, the requests past its
  check (`Past`) and those about to overwrite it (`Pend`): the counter plus `Past`
  stays below the limit plus those not pending, and what the counter has
  forgotten is bounded by `Slack`, which shrinks by one overshoot per pending
  request. The arithmetic (`Good...`) is apart from the steps (`...Key`, `Inv_...`).
  `EntriesTimed` (a cache entry has a timeout, and only an entry has one) is the
  safety part of `BlocksEnd` and `KillSwitchTakesEffect`.

Only model-checked: the liveness properties (`EveryJobEnds`, `OrphansCollected`,
`EveryRequestEnds`, `OrphanInputsCollected`, `EveryEventSettles`, `RunsAgain`,
`BlocksEnd`, `KillSwitchTakesEffect`): the prover has no rules for fairness.

## 5. Where code and documentation disagree

1. `lost_enqueue`: the reaper and `retry_transition` commit `RETRYING` before they
   enqueue; a crash or a broker error in between strands the job, because nothing
   scans `RETRYING` rows.
2. `output_leak`: an output linked by an attempt that then fails or is cancelled is
   never reclaimed: expiry selects `DONE` rows, the collector unreferenced blobs.
3. `enqueue_failure`: a broker error in the `on_commit` hook of a submission reaches
   a handler that deletes the input of the job just committed.

Seen while modelling, without a run of its own.

*Jobs.* `requeue_stale_jobs` cancels a stale, cancel-requested job without an
outbox event, where ADR 0003 says that terminal transitions write one in the same
transaction; a cancellation requested during an attempt that fails transiently
makes `retry_transition` match no row, and the job is failed and dead-lettered with
attempts left (`DeadLetterHasCause` allows exactly that); `_immediate_cancel` from the web
commits the status before the outbox event; a redelivered message may take over
a stale row whatever its attempt count; of two simultaneous submissions with one
key the second may be denied by the quota the first one filled; a crash between
the write of an input and its `FileBlob` row leaves bytes nobody finds; and
`monitor_queue_backlog` takes the beat lock for 60 seconds although it may run
for 540, so that `TimeLimit < LockTimeout` does not hold for it. 

*Account deletion.* The bytes of a blob registered between the listing of files and the
deletion of rows lose their row; a person who joins after the second look at the
memberships loses the organization; blobs whose `deleted_at` is already set keep
their `original_name`; what the user made in a former organization is not scrubbed;
and a rollback leaves rows whose bytes are gone.

*Access.* `dashboard` never binds `form` when `get_active_workspace` returns None
(`views.py` 42-83), so that the page with "No active organization" which it and the
template intend is a server error; `use_workspace` models what happens. An upload
in the request that creates the personal organization is refused by the row
policy, whose list was read before. `get_active_workspace` falls back to a
workspace without consulting its access list. `user_may_download_job` admits
auditors, but `user_can_access_workspace` lets them reach a job only through an
access list. `accessible_workspaces` says "excluding suspended orgs" and includes
them for a superuser. Two simultaneous first requests of an account may create
two organizations.

*Gates.* `increment_counter` says "Atomically increment", but its fallback
overwrites; a lookup that read the flag's row before a flip may cache the old
value after it, for another 30 seconds.

## 6. Not modelled

- Converters, the registry, file utilities and forms: pure functions of large
  inputs, or calls of libraries and subprocesses. `JobLifecycle` knows only that a
  converter may succeed, fail transiently or fail permanently.
- Rendering, request ids, CSP headers, slow-query logging, probes, metrics, settings
  checks and observability: read-only or declarations.
- Progress percentages and their cache, which no decision of the code reads.
- Data export, which only reads; the purge of old quota decisions, which nothing
  refers to; `output_ttl_hours` is the retention chosen in `JobLifecycle`.
- Databases other than PostgreSQL for the outbox (where `skip_locked` has no
  effect) and for deletions.

## 7. Plan

1. `Deletion`: the expiry of outputs and the collector as further actors.
2. `Service`: `Submission`, `JobLifecycle` and `Outbox` composed, so that "a job the
   user was told about is eventually announced" becomes one statement.
3. An abstract specification of submission (one job per key within the quota),
   refined by `Submission`.
4. `Progress`: `ProgressReporter`'s throttle and the unfenced cache.
