# EventHub: a verification project in TLA+

EventHub (`src/`) is a Go backend: an HTTP API over PostgreSQL for events,
registrations and sessions, and a worker that consumes a job table in the same
database. These modules model the parts of it that several goroutines,
processes or transactions share. TLC checks them on small instances, and TLAPS
proves their safety for every instance.

## 1. The system

| Part | State it keeps | Operations | Used by / uses |
|---|---|---|---|
| Job queue (`repo/postgres/jobs_repo.go`, `domain/job`) | table `jobs`: status, attempts, run_at, locked_at/by, idempotency key | Create(Tx), ClaimNext, MarkDone, MarkFailed, Reschedule, RequeueStaleProcessing, Retry, RetryManyFailed | API enqueues, worker consumes, admin retries |
| Worker (`queue/worker`) | claimed job in the producer, one job per goroutine, readiness flag | Run, runWorker, execute, handleFailure, requeueLoop, shutdown | job queue, deliveries, notifier, events, exports |
| Admin job endpoints (`handlers/admin_jobs.go`) | none | Retry, ReprocessDead, List, GetByID | job queue |
| Delivery gate (`notification_deliveries_repo.go`) | one row per registration: sending, sent or failed | TryStartRegistration, MarkRegistrationConfirmationSent / Failed | confirmation branch of execute |
| Circuit breaker (`notifications/protected_notifier.go`) | state, consecutive failures, openedAt, half-open calls, under a mutex | allowRequest, afterRequest | in front of the provider |
| Registration (`registrations_repo.go`, `handlers/registrations.go`) | table `registrations` | Register, Cancel, CheckIn, lists | locks the event row; enqueues the confirmation in its transaction |
| Events (`events_repo.go`, `handlers/events.go`) | table `events`, in-process list cache | Create, Update, Delete (soft), Restore, MarkPublished, lists | registrations, publish jobs |
| Publish and export endpoints (`handlers/jobs.go`) | none | PublishEvent, Export, Download | job queue with an idempotency key |
| CSV exports (`registration_csv_exports_repo.go`) | one file per job | Save, GetByJobID | export branch of execute |
| Sessions (`handlers/auth.go`, `refresh_tokens.go`, `auth/jwt.go`) | table `refresh_tokens` | Login, Refresh (rotation under a row lock), Logout | |
| Lists and cursors (`utils/cursor.go`, the three `ListCursor` queries) | none; the client holds the cursor | ListForEvent, ListEvents, List of jobs | read tables that change between pages |
| Rate limiter, ETag, backoff, audit, config, metrics | per-process maps, or none | | |

The parts meet in the database. A registration is committed together with its
confirmation job; the worker claims the job, passes the delivery gate, calls the
provider through the breaker and writes the outcome to the delivery and to the
job. An admin edits events and puts dead letters back at any time.

What is hard here, and what makes each part correct:

* **Job queue and worker.** Writes name the row by id alone, so everything rests
  on the lease: one holder per job, a row that matches its holder's copy, no
  job lost when a process dies, stops or loses a write, every job settled in the
  end, a dead letter touched only by an admin.
* **Delivery gate.** Executions of one job overlap and are repeated; a
  confirmation is sent once at most, and a job is done only if it was sent.
* **Breaker.** Calls end in another state than they began in; it must open at
  the threshold, not before and not later, and never get stuck half-open.
* **Registration.** Statements of concurrent transactions interleave at READ
  COMMITTED: one registration per email, capacity, the outbox, truthful
  answers, deleted events.
* **Events.** A page may be computed before a write and cached after it, a write
  may be applied without an answer, a publish job executed twice: lists are stale
  for a bounded time only, an event is published once and a request to publish
  takes effect or ends where an admin can see it.
* **The pipeline.** What the gate promises must survive the queue around it, whose
  writes are not fenced: a job the table calls done has had its confirmation
  sent, once, whatever was requeued, retried, lost or overwritten.
* **Check-in and cancel.** Two statements each, without a transaction: one scan
  of a ticket succeeds, one cancellation, and no refusal is made up.
* **Exports.** A file is made by a job that may be executed several times while
  the registrations change: it shows one moment, it is final, and a job is done
  only if it is there.
* **Lists.** A client walks a list while rows enter, leave and move, and its first
  page may be a cached one: what stays put from the moment that page was computed is
  shown exactly once.
* **Sessions.** A token may be presented again, late or twice at once: it is
  exchanged once, a session has one usable token and keeps it when a rotation
  fails.

`PROJECT.json` lists every hazard with its line and the properties aimed at it.

## 2. Modules

| Module | Models | Composition |
|---|---|---|
| `JobQueue` | jobs table, worker processes, admin retries | `MCJobQueue` instantiates it |
| `JobLife` | abstract: what the queue promises of a job | implemented by `JobQueue` |
| `JobQueue_proofs` | theorems about it, a refinement included | extends `JobQueue`; `Life == INSTANCE JobLife WITH ...` |
| `SendOnce` | abstract: what the gate promises | implemented by `ConfirmationDelivery` |
| `ConfirmationDelivery` | the confirmation branch of execute and `notification_deliveries` | `Abstract == INSTANCE SendOnce WITH ...` |
| `ConfirmationDelivery_proofs` | theorems, refinement included | extends it |
| `ConfirmationPipeline` | queue, workers and gate together | extends `JobQueue`; `Gate == INSTANCE ConfirmationDelivery WITH ...`; `EndToEnd == INSTANCE SendOnce WITH ...` |
| `CircuitBreaker` | ProtectedNotifier | `MCCircuitBreaker` |
| `CircuitBreaker_proofs` | theorems | extends it |
| `Registration` | Register and Cancel against Update, Delete, Restore of the event | `MCRegistration` |
| `Registration_proofs` | theorems | extends it |
| `RefreshTokens` | Login, Refresh and Logout on `refresh_tokens` | `MCRefreshTokens` |
| `RefreshTokens_proofs` | theorems | extends it |
| `EventLifecycle` | event writes, the list cache, publishing | `MCEventLifecycle` |
| `EventLifecycle_proofs` | theorems | extends it |
| `Attendance` | check-in and cancel of registrations, the event's delete | used by `RegistrationExport` |
| `RegistrationExport` | the export branch of execute, its file, its endpoints | extends `JobQueue` and `Attendance`; `MCRegistrationExport` |
| `Executions_proofs` | theorems about the two compositions and about `Attendance`, four refinements | extends `ConfirmationPipeline`, `RegistrationExport` and `JobQueue_proofs`, instantiates `ConfirmationDelivery_proofs` |
| `KeysetPages` | the three cursor lists over changing tables | `MCKeysetPages` |
| `KeysetPages_proofs` | theorems | extends it |

Definitions ending in a description of a bug (`ClaimableIgnoringStatus`,
`FlipAnyUnsent`, `CapacityLockOffByOne`, ...) are deliberate mutations of the
definition that follows them; no specification uses them. Each property has one
that breaks it, listed in `PROJECT.json`.

### JobQueue

One SQL statement is one action. `jobs[j]` is the row of an idempotency key;
`due` stands for `run_at <= NOW()`, `stale` for `locked_at < NOW() - LockTTL`,
the only comparisons the statements make. `task[<<p, s>>]` is what the producer
or a goroutine of process `p` is doing, with the *copy* of the job that
ClaimNext returned. Correspondence:

* `Claim`, `HandOver`, `DropClaim`: the producer loop of `Run`, its unbuffered
  channel and the `ctx.Done()` branch that drops a claimed job.
* `Execute`, `MarkDone`, `Reschedule`, `MarkFailed`: `runWorker` and
  `handleFailure`, with both fallbacks to MarkFailed. `AfterFailure` looks at the
  copy; `RescheduledRow` increments the row.
* `RequeueStale`: `requeueLoop`. `Signal`, `Exit`: SIGTERM cancels the context
  from which every write derives its own, so writes are refused from then on.
* `RetryCheck`, `RetryManyPick`, `RetryApply`: the admin endpoints, split where
  the code reads first and updates later. Any number of admins may be between the
  two. `overtaken` is history: jobs that a `RetryApply` put back although they were
  not dead letters any more, because another request had put them back and a worker
  had claimed, or finished, them since (`AwaitsWorker` is the harmless case of a job
  that is still waiting).

A write has an outcome: `ok`, `lost` (not applied, error returned) or `unacked`
(applied, error returned). `LeaseOutlived` says whether a lock may expire while
its holder still works: nothing renews a lease and nothing fences a write, so
this is the assumption under which the queue is exclusive. `job_queue` and the
theorems about exclusiveness exclude it, `confirmation_pipeline`,
`job_queue_exhausted`, `LockConsistent` and `AttemptsAreBounded` allow it.

`JobLife` is the same life of a job without the mechanism: a worker takes a pending
job, only the one who holds it says what becomes of it, a worker may be gone, an
abandoned job goes back to the queue, and an admin's `Retry` puts back what has failed.
The promise has a hole where the code has one: a retry that comes late overtakes a job
that is being worked on or done, and about such a job nothing more is promised. Its
`holder` is the process of the goroutine, or of the producer, that has a copy.

`QueueStep` is everything but the beginning, the course and the end of an
execution. A module that says what execute does for one type of job takes
`QueueStep` as it is and puts its own steps in the place of `Execute`.

### ConfirmationDelivery

The three statements of TryStartRegistration are the actions `Insert`, `Flip` and
`Look`; then `Send`, and `MarkSent` or `MarkFailed`. Each of the five statements may
fail or lose its answer (`AtDatabase`); the notifier's error is an answer like any
other and no fault. An execution can begin for
any registration at any time, which is more than the queue allows: outlived
leases, retried dead letters and restarts are all included. `sends` and `acked`
are the two variables of `SendOnce`.

The provider answers as `LogNotifier` does: nil means sent, an error means not
sent. A provider that delivers and then reports a timeout would be sent to again;
that is outside what this gate can see.

### ConfirmationPipeline

A registration is committed with its job, so one name stands for both. A
goroutine of a process *is* an execution of the gate: `Start` is HandOver and the
gate's Begin in one step, `Run` is one step of the gate and, when execute
returns, JobQueue's Execute with what it returned; `End` ends a process and its
executions together. A cancelled context refuses the statements of the gate, the
SELECT of `Look` included, as it does those of the queue (`GateOutcome`). Begin, the
statements
and Stop of the gate are used unchanged; only its faults are counted apart, so
that one bound does not use up the other.

### CircuitBreaker

allowRequest and afterRequest are atomic under the mutex; the provider's call
between them is not. Of `openedAt` only "has the cooldown passed" is kept. The
production worker runs one goroutine (`Concurrency: 1`); the breaker is written
for more, and so is the model.

### Registration

One action per statement of the transaction. The capacity statement is two
steps. PostgreSQL evaluates it on the snapshot taken when it starts; if the event
row is locked it waits, and then reads the row's newest version (capacity,
deleted_at), but the sub-select that counts the registrations keeps the
snapshot. `CapacitySnapshot` records the count, `CapacityLock` takes the lock.
Admin changes of the event are UPDATEs and wait for the row. A transaction can
end at any point (`Abort`): timeout, error or crash.

### RefreshTokens

A session begins with a login (or sign-up); the tokens that descend from its
first one carry its name, which the code does not store: `session`, `parent` and
`loggedOut` are history. `GetForUpdate` waits for the row lock and looks at the
row it then finds; what `Rotate` writes is seen from `Commit` on. Logout's
UPDATE waits for the lock too but does not look at the row, so it can revoke a
token that was just rotated, whose successor stays usable: the properties say
what holds in spite of that. `Expire` makes VerifyRefreshToken (the token's own
expiry) and Refresh refuse the token.

### EventLifecycle

`version` counts the changes of the table, so a page is the version it was read
from. A write is one statement and then Clear; if the statement's answer is lost
the Clear is skipped (`Wrote`). ListEvents is Get (`Hit`, `Miss`, `Expired`), the
late delete of Get (`Evict`), the query and Set (`Store`); a page in hand at a
Clear is marked (`clear = "missed"`, history). Time is relative: an entry's time
left, a page's age, a query's timer, all moved by `Tick`, which waits for a query
at its deadline and for a page about to be stored. Reading the clock and the entry
in Get is one step, where the code reads the clock just before it takes the lock. One
cache key is modelled: Clear drops all of them and nothing else relates them. The
worker's MarkPublished changes the row without dropping the API's cache.

Of the queue a publish job keeps its status and attempts, an execution the attempts
its claim returned: ClaimNext's guard (`Claim`), Reschedule or the dead letter
(`HandleFailure`), and the MarkFailed that follows a MarkDone or Reschedule whose
write failed (`MarkFailed`). Leases have no length here, so a job may be requeued and
claimed again under its holder (`Requeue`), which is more than LockTTL allows and
includes two executions at once. `RetryCheck` and `RetryApply` are an admin's retry,
with `retrying` the jobs that some request has found failed.

### Attendance

A registration is not yet there, registered, checked in or cancelled (its row is
deleted). CheckInByToken is `CheckInUpdate` and, if that changed no row,
`CheckInExists`; Cancel is `CancelLoad` (GetByID and the ownership check) and
`CancelDelete`. Nothing locks the row in between. `Edit` is the soft delete of
the event, which neither operation looks at and the export does. An attendee who
got no answer and tries again is another caller.

### RegistrationExport

The export branch of execute is two statements, `List` and `Save`, on top of
`QueueStep`; `StartExport` and `EndExport` begin it and end its process. `file[j]` is the row of `registration_csv_exports`, whose primary key
is the job: Save is a plain INSERT, so an execution that follows a saved file fails
for good. `shown[j]` is history: what the table has shown since the request, from
which ExportIsOneMoment takes its reference (`Truth`, stated apart from the query).
The event exists; the endpoint does not check that, and an export of an unknown
event would fail on the foreign key at every attempt.

### KeysetPages

The three queries are one algorithm with two orders: compare (key, id) with the
cursor, order by the same pair, fetch limit + 1 rows, return limit and make the
last one the cursor. `list` chooses what may change meanwhile: registrations keep
their created_at, events get a new start_at from an admin, jobs a new updated_at
with every write. created_at and updated_at are read before the statement takes
effect, so a row may enter behind the cursor (`Stamp`).

The first page of events may come from the cache (`Hit`), as it was when a request of
anybody computed it (`Fill`), with the cursor computed then; every further page is
read from the table. How old an entry may be is EventLifecycle's subject, here it may
have any age. `moved` is history and counts from the moment the client's first page
was computed: an event that moved between then and the client's arrival can be shown
twice, or missed, and the properties say so. Timestamps start below zero: a request
without a cursor begins at the epoch (`FirstCursor`), while `start_at` is only
required, so an event dated before 1970 is on no page. WalkComplete states that too.

## 3. Runs

| Run | Instance | Result |
|---|---|---|
| `job_queue` | 2 processes, 2 jobs with 2 attempts, 1 fault, 2 admins whose retries overlap, leases honoured | ClaimExclusive, NeverStuckPending, ReexecutionNeedsFault, SettledStays, EventuallySettled hold |
| `job_queue_exhausted` | 1 job, leases outlived, unacknowledged writes, 2 admins | violated: a job ends pending with no attempts left, invisible to ClaimNext and to reprocess-dead |
| `confirmation_pipeline` | 1 registration, 2 processes, leases outlived, 2 faults of the queue, 1 of the gate, 1 admin retry | LockedIffProcessing, AttemptsBounded, DoneMeansConfirmed hold; the pipeline implements SendOnce |
| `confirmation_delivery` | 2 registrations, 3 executions, 2 faults | the gate implements SendOnce; without faults `sending` always resolves |
| `confirmation_delivery_stuck` | 1 crash | violated: the row stays in `sending` for ever while attempts keep coming |
| `circuit_breaker` | 4 calls, threshold 2, 1 half-open call, 3 changes of the provider's health | holds; closes for good once the provider is back |
| `registration` | 4 requests (two with one email), 2 connections, capacities 1 and 2, 2 admin changes | holds; overbooking by at most PoolSize - 1 |
| `registration_full` | same | violated: two requests counted before either inserted |
| `refresh_tokens` | 2 sessions, 4 tokens, 2 requests at once, 1 failed transaction | holds |
| `event_lifecycle` | 1 event, 1 list, 1 admin with 2 writes, a publish job with 2 attempts and 2 goroutines, 2 faults, retries without bound, lifetime and deadline 1 | holds; a list is stale for TTL + QueryTimeout at most (12 s in the code), and a publish request ends with the event published, found deleted, or the job given up |
| `registration_export` | 1 export with 2 attempts, 1 process, 2 tickets, 2 callers (an admin, the owner of one ticket), 1 delete of the event, 1 fault each of the queue and of execute, 1 admin retry | OneWinner, RefusalsExplained, DoneMeansExported, DeadLetterNeedsFault, ExportStays, ExportIsOneMoment hold |
| `keyset_pages` | each of the three lists, 4 ids, sort keys -1, 0 (the epoch) and 1, page sizes 1 and 2, 2 changes, a cached first page of events | RepeatedOnlyIfMoved, WalkComplete hold |

Three more disagreements were met while modelling and show in the properties that
hold in spite of them. `handlers/admin_jobs.go:159` says "Only failed jobs can be
retried": that is true of the check and not of the UPDATE, and two requests that both
passed the check put back a job that a worker has claimed or finished. `SettledStays`
says that this is the only way and that it takes two; the other properties of the
queue except the job from then on. The comment on HalfOpenMaxCalls, "allow N trial
calls in half-open" (`protected_notifier.go:16`), is exceeded by one: the call that
ends the cooldown is not counted (`AllowAfterCooldown`); what has to hold with the
miscount is `HalfOpenAwaitsTrial`. And an event dated before 1970 is never listed
(`WalkComplete`).

Bounds. Two processes are the least in which one takes over another's job, two
attempts the least with a reschedule and a dead letter, two jobs let one
process hold a claim while another job moves. Three executions let one send, one
wait at the gate and one arrive after. Four calls fill half-open (two) and leave
late answers of earlier calls. Four requests on two connections let a third
request begin after the first two overlapped, which the overbooking bound is
about. Four tokens for two sessions allow a session that is rotated twice and two
sessions side by side; two requests at once contend for one row, and finished
requests are followed by new ones. Two admins are the least whose checks both come
before either UPDATE. A page is computed by a list while the admin writes and the
worker publishes; two goroutines with two faults are the least that use up a job's
two attempts at once and leave it pending for good. In the pipeline two
processes with an outlived lease run the same confirmation at once, and the retry
comes on top. Two callers are the least that contend for a ticket; with one fault
each, an export is saved and not marked done, or executed again after a crash. Four
ids with three sort keys make ties, on a page and across its end, and one key below
the epoch; two changes let a row move while another leaves or enters. `MaxFaults`, `MaxRetries`, `MaxOutages`, `MaxEdits`, `MaxVersion`,
`MaxGateFaults`, `MaxExportFaults`, `MaxChanges` bound what the
environment does; `MaxFailures` saturates a counter that is only compared with
the threshold, so it hides nothing. The theorems are for every value of these
constants.

Deadlock is not checked where the system may stop: all jobs settled, all
requests answered, all pages read.

Fairness. `JobQueue`: goroutines run and their statements return (ClaimNext and the
requeue by their deadline; MarkDone, Reschedule, MarkFailed and execute have none, so
this takes Postgres to answer or the connection to break), the tickers of Run and requeueLoop fire, time passes, a stopping process exits within
ShutdownGrace and is started again (`restart: unless-stopped` in
`docker-compose.yml`). `ConfirmationDelivery`: an execution that runs goes on;
nothing makes a job begin. `CircuitBreaker`: calls end (each has a timeout), the
cooldown passes, there are calls to make; nothing is assumed of the provider.
`Registration`: a request's goroutine goes on; timeouts are not needed for the
property. `EventLifecycle`: handlers and executions go on, a claimable job is claimed, a
lease that has run out is requeued, time passes; no admin has to retry; EventuallyCurrent is about the time after the bounded writes. No fairness is assumed of clients, admins or faults anywhere.

## 4. Proofs

All proofs are checked by tlapm (SMT, Zenon, LS4), for arbitrary constants under
the named assumptions of each module.

* **JobQueue.** `LockConsistent` (a row is processing exactly when locked) is
  inductive with the types and needs no assumption on leases. `ClaimsAreExclusive`,
  `PendingIsClaimable` and `SettledJobsStay` assume `Honest`: failed writes were
  not applied and leases are not outlived. They hold for any number of admins,
  whose requests may overlap, and except the jobs in `overtaken`. Their
  invariant `HonestInv` says that the row of a held job is processing, locked by
  the holder's process, not stale and has the attempts of the copy (`HeldRow`),
  that a job is held once (`HeldOnce`), that a goroutine about to reschedule has an
  attempt left (`PcConsistent`) and that every row has one (`AttemptsLeft`). Each part
  is needed for another: without `stale = FALSE` in HeldRow a requeue breaks
  exclusiveness. A job can be overtaken only by the UPDATE of a request that had picked
  it (`OvertakenByRetry`), and by then a second request has been made
  (`RequestsCounted`). The same
  invariant carries `QueueImplementsJobLife`: every statement by id alone is a report
  by the holder, because a held row is the one its holder claimed, or a retry.
  `AttemptsAreBounded` assumes nothing of leases or outcomes. `AttemptsCounted` adds to
  a row's attempts one for every copy that can still lead to a Reschedule of it
  (`MayReschedule`): a claim, possible only below max_attempts, adds a copy, a
  Reschedule trades a copy for an attempt, everything else only drops copies.
  `RescheduleChosen` says that a goroutine about to reschedule found an attempt left on
  its copy. It needs finitely many tasks, at least one (`DeploymentAssumption`).
  `ReexecutionIsPaidFor` (under `Honest`): `SuccessCounted` says that every success of
  a job is paid by a fault already counted, but for one that is still being reported
  (`Finishing`) or has been marked done; work of a process that is already stopping
  (`Doomed`) has its fault in the signal. A retry that overtakes nobody repeats
  nothing, since a dead letter that had succeeded got there by a failed write.
* **ConfirmationDelivery.** `GateInv` ties the number of confirmations sent to the
  row and to its holder: none for a missing or failed row, one for a sent row, and
  for a row in `sending` what its holder has done. A row in `sending` without a
  holder may have either, which is why it must never be reopened, and why it stays
  stuck. From it follow exclusiveness, at most one send, and the refinement of
  SendOnce.
* **ConfirmationPipeline** (in `Executions_proofs`). `PipelineImplementsQueue`: every step of the pipeline is a
  step of JobQueue or leaves the queue alone, so what is proved of the queue holds
  of the pipeline. `PipelineInv` is GateInv of the gate, instantiated for goroutines,
  with `Coupled` (a goroutine executes exactly while the gate has it executing, for
  its own job) and `SuccessIsSent` (whoever is about to mark a job done, and every job
  that ever succeeded, has had its confirmation sent). Only MarkDone makes a row done,
  which gives `DoneIsConfirmed`; the same invariant gives the refinement of SendOnce
  with `acked` taken from the queue. No assumption on leases, outcomes or retries is
  needed: the gate makes up for what the queue does not fence.
* **Attendance** (in `Executions_proofs`). `AttendanceInv`: a call between its statements
  has no answer and its row has left the state that sent it there (`UnansweredCalls`);
  who was told ok has moved the row and is alone in that (`Winners`); a row that moved
  was moved by a call, acknowledged or not (`MovedByCall`), which is what a refusal
  refers to (`RefusalsRefer`). Rows only go forward, so none of this is undone. One
  lemma, `CallStep`, covers the four statements through what they have in common
  (`CallMove`).
* **RegistrationExport** (in `Executions_proofs`). The export implements JobQueue and
  Attendance, so their theorems hold of it. `ExportInv`: a goroutine has a draft exactly
  while it executes (`Drafted`), whoever is about to mark a job done has its file
  (`Exported`), and what the table shows, or showed a goroutine that has yet to save,
  it has shown since the request (`Witnessed`). This gives `DoneIsExported`, `FilesStay`
  and `FilesShowOneMoment` without any assumption on leases, outcomes or retries.
  `DeadLettersHaveFaults` assumes that no lease is outlived: as long as no fault has
  happened (`FaultFree`) all processes run, HonestInv holds, nobody has a failure to
  report, and a file belongs to a job that is done or to a goroutine about to say so
  (`Calm`). Then an INSERT that meets the unique key would need a second holder. With
  outlived leases it is false: two executions save, the second one fails for good.
* **CircuitBreaker.** In half-open every admitted call is still out, and the
  counter is one less than their number (`TrialsCounted`).
* **Registration.** `TxInv`: the lock holder is the request between lock and end,
  the event is not deleted meanwhile, nothing of an unanswered request is
  visible, and the email found free stays free. `SeatInv`: for *every* level h
  from the highest capacity up, once there are h rows, the rows and the requests
  that counted fewer than h are together at most h + PoolSize - 1. A commit at
  h - 1 rows starts the count with the other open transactions; every later commit
  moves one of them from pending to rows; a raised capacity only drops levels.
  `OverbookingIsBounded` is the case h = highest. With `MaxConns = 5`
  (`db/db.go`) one API process overbooks by four at most.
* **RefreshTokens.** `SessionInv` adds to the properties that a row is locked exactly
  by the request between its lock and its end (`Holder`), that a request rotates
  only a live token (`TokenKnown`), that a chosen successor is new and nobody
  else's (`SuccessorUnused`) and that an exchanged token is revoked (`Ancestry`).
  The lock makes the "live" found by GetForUpdate still true at the commit; with
  Ancestry a second exchange of the same token is impossible.
* **EventLifecycle.** `AgesBounded`: an entry's age and the time it has left make up
  TTL + QueryTimeout at most, because a page is stored at most a deadline after it
  was read. `PagesCurrent`: a page that missed no Clear, stored or in hand, was read
  after the newest Clear. `JobsKnown`: an execution about to acknowledge has
  published the event or found it deleted. `WriteFacts` and `EndingFacts` say once what
  the writes of an admin and the writes of a job have in common.
* **KeysetPages.** `Progress` says where the walk stands, row by row: a row that has not
  moved was shown once if the cursor is past it and it is not before the epoch, and not
  at all otherwise. `AnswerFacts` is the order argument: the rows of a page are exactly
  those its cursor is past and the old one was not. A cached page is an answer computed
  with the first cursor from the rows that have not moved since, so that `FirstShown`
  lets the walk begin with it as with one read from the table.

Every safety property that a passing run checks is a theorem. Only model-checked: the
liveness properties (EventuallySettled, FaultFreeSendingResolves, Recovers,
RequestsAnswered, PublishTakesEffect, EventuallyCurrent), since TLAPS does not reason
about fairness here. The type invariants are theorems of every module that has proofs.

## 5. What is not modelled

* **Rate limiter.** A counter per client under one mutex, which nothing else reads.
  Around a window's end twice the limit passes, as with any fixed window.
* **Backoff.** Floating point with a cap and a random jitter; the queue only needs a
  run_at in the future.
* **The keys of the list cache.** One key is modelled. The key lowercases the city and
  the query does not, so two filters can share an entry; the modules do not tell
  pages of different filters apart.
* **A confirmation for a cancelled registration.** The worker never looks at the
  registration, so it is sent all the same; no document says otherwise.
* **An unbounded crash loop.** A requeue costs no attempt. The liveness properties
  speak of finitely many faults.
* **The client's cookie.** SessionKept is about the table; an answer that is lost after
  a rotation leaves the client with a revoked token.

Left out for good: routing, request validation, JWT cryptography, password hashing,
metrics, tracing, health servers, the audit log written after the response,
configuration, the in-memory repository used by tests, and read-only endpoints as far
as they only format rows. The order in which ClaimNext prefers jobs is left out: SKIP
LOCKED promises none.

## 6. Plan

Done: all modules of section 2 with their runs, and the proofs of their safety. Next,
in this order:

1. The breaker inside the pipeline, in the place of the nondeterministic answer of
   `Send`.
2. Cache keys as a relation between filters, to state which filters share a page.
