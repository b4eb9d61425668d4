# VapourVault in TLA+

Specifications, model-checking configurations and machine-checked proofs for
VapourVault, an anonymous "drop and share" file service: a NestJS API and a
worker over PostgreSQL (Prisma), MinIO and Redis (BullMQ, ioredis). A file is
uploaded, processed in the background with checkpoints, offered for download,
and deleted by its user or after 24 hours.

Paths below are relative to the repository. Line numbers of every modelled
definition are in `PROJECT.json` ("map").

## The system

| Component | State it keeps | Operations | Talks to |
|---|---|---|---|
| File service (`src/file/file.service.ts`) | none of its own | `uploadFile`, `presignUpload`, `completeUpload`, `deleteFile`, reads | tables, buckets, queue |
| Job queue (`src/queue/queue.service.ts`, `queue.module.ts`) | BullMQ entries in Redis: state, attempts, stalls, lock | add; BullMQ hands out, retries, stalls | worker, recovery |
| File processor (`src/worker/worker.processor.ts`) | the local variables of one `process` call per process | `process`, `updateJobStatus`, `saveCheckpoint` | tables, buckets |
| Job recovery (`src/queue/job-recovery.service.ts`) | the snapshot it loops over | `recoverInterruptedJobs` at every start, retry/removal of dead entries | Job table, queue |
| Cleanup (`src/tasks/cleanup.service.ts`) | the snapshot it loops over | `handleCleanup`, hourly | tables, buckets |
| Idempotency (`src/common/idempotency.service.ts`, `interceptors/`) | per request id: a response, a lock | `intercept` around two POST routes | Redis |
| Storage (`src/storage/storage.service.ts`) | retry policy and circuit breaker per process | put, get, delete, stat, presign | MinIO |
| Tables (`prisma/schema.prisma`) | `File`, `Job` (cascade, unique `fileId`) | single statements, no transaction anywhere | everyone |

Both processes run recovery and a BullMQ worker: `AppModule` imports
`WorkerModule`. Components share nothing but the tables, the buckets and Redis,
and nothing synchronizes them except the lock of a BullMQ entry and the lock of
a request id. There are no transactions and no compensation.

What is hard, and what makes each part correct:

- *File processor*: it is interrupted anywhere, resumed from a checkpoint saved
  by another execution, and may overlap with another execution of the same file.
  Correct: no status and no checkpoint promises an object that is not stored;
  checkpoints do not go back; a queued job is decided; a failure that is reported
  can be retried.
- *File service*: four effects without a transaction; the queue entry precedes
  the Job row; deletion races everything. Correct: what is offered for download
  exists; an upload whose worker came too early is not lost without a trace.
- *Recovery*: two steps per job, run by each starting process. Correct: a crash
  loses no job, and live jobs are left alone.
- *Cleanup*: a snapshot of rows, storage that fails. Correct: expired files go,
  and a row does not go before its upload object.
- *Idempotency*: check, lock, handle, cache, release are five Redis round trips.
  Correct: one handler at a time, an answer is not forgotten, a request is not
  handled twice, a retrying client is answered.
- *Storage*: one circuit breaker, shared by all callers of a process, whose
  half-open test others wait for while failures of earlier calls still come in.
  Correct: it opens only for as many failures as documented, nobody waits for a
  test that is over, an outage is overcome, and a starting process comes up
  whatever another one does to the buckets.

The hazards of the code, each at its line and with the properties that watch
it, are listed in `PROJECT.json` ("hazards").

## Modules

| Module | Models | Uses |
|---|---|---|
| `VaultStore` | tables, buckets, single statements, calls that fail or lose their reply | |
| `JobQueue` | the queue as configured: attempts, stalls, locks | `VaultStore` |
| `FileProcessor` | `process`, per process, one step per await | `JobQueue` |
| `JobRecovery` | `recoverInterruptedJobs`, dead letter operations | `JobQueue` |
| `FileService` | the requests that change state, the client's PUT | `JobQueue` |
| `CleanupService` | `handleCleanup`, expiry | `VaultStore` |
| `VaporVault` | the composition, crashes, restarts, fairness, properties | the above |
| `FileLifecycle` | what the service promises of a file: no processes, queues or requests | |
| `VaporVaultLifecycle` | the refinement mapping from `VaporVault` to `FileLifecycle` | both |
| `Idempotency` | `intercept` over `IdempotencyService` | |
| `StorageService` | bucket creation at startup; retry policy inside the circuit breaker | |
| `MCVaporVault`, `MCIdempotency`, `MCStorageService` | model values for TLC | |
| `VaporVaultTypes`, `VaporVaultSafety`, `CheckpointProofs`, `CrashProofs`, `CleanupProofs`, `LifecycleProofs` | proofs about the pipeline | |
| `IdempotencyProofs`, `StorageServiceProofs` | proofs about those components | |

### State

`file[f]` and `job[f]` are the two rows of an upload, with the columns that
some other step reads: status, `processedKey`, checkpoint, and the
`processedKey` inside `checkpointData`. The Job id, timestamps, messages,
metadata and `retryCount` are never read by the pipeline and are left out.
`uploads` and `processed` are the buckets; a key is a function of the file id.
`queue[e]` is a BullMQ entry, `exec[p]` what the worker of process `p` is doing,
`rec[p]` its recovery loop, `req[r]` a request being served, `pass[p]` a cleanup
pass. `doomed` is a history variable: files whose deletion has begun; `repairs`
and `crashes` count against their bounds.

### Steps

A step is what happens between two awaits: `pc` names the call about to be
made. With a service in `Faulty`, a call also fails without effect, or has its
effect and loses the reply; `After`, `Throw`, `ReqFails` and `VisitFails` say
where the code goes then. Four simplifications:

- `updateJobStatus` reads the row and updates it; both calls fail in the same
  case (the row is gone), so they are one step.
- Waiting entries are taken in any order: retries are delayed by a backoff.
- A stop is a crash: no process enables shutdown hooks. Crashes lose local
  state and keep tables, buckets and Redis. A process also ends when the
  `findMany` of its recovery fails (`ScanFails`): no `try` surrounds it, so
  `onModuleInit` rejects.
- A dead letter operation is one step on one entry; `retryAllFailedJobs` and
  `cleanupOldJobs` are repetitions of it. A removed or purged entry is never
  taken again.

HTTP and cron start after every `onModuleInit` has returned, hence `Ready`; the
worker may take entries earlier.

In `Idempotency` a call is at one Redis command or in its handler, which is one
step with an outcome. The client has its answer before `cacheResponse` runs
(`tap` does not await). `mishaps` is a history of what the code has no defence
against: a handler slower than the 300 s lock, a `DEL` that ioredis repeats, a
response that could not be saved.

In `StorageService`, `circuit`, `fails` and `call[c]` are the breaker, the count
of its `ConsecutiveBreaker`, and what a call is doing: an attempt, or waiting for
the test of a half-open circuit. The two policies are cockatiel's: what the
service relies on is modelled, and marked external. The code between two
awaits, the library included, runs at once; only `Reenter` is a step of its own,
and `CoolDown` (a timer) waits for it. `fails` is capped at `Threshold`, with
which alone it is compared. Signing a URL may succeed during an outage, because
the client only asks MinIO for the region of a bucket it does not know yet. The
worker may call before the startup is over, requests may not. A storage call of
the pipeline (`GetObject`, `PutObject`, `DelUpload`, ...) is one whole execution
of this module: it succeeds or throws, be it because MinIO failed four times or
because the circuit was open; `"storage" \in Faulty` stands for both.

### The abstract lifecycle

`FileLifecycle` has no processes. A file is absent, held, listed (its download
URL would be signed) or gone; it may be published, its upload and result may be
stored, someone may be closing it, its processing may be over. It promises that
a listed file has its upload, a file is published only with its result stored
and stays so until it is deleted, processing is over only for a published file,
results and rows go only when the file is being closed, and a deleted file never
comes back. `VaporVaultLifecycle` reads this off the rows and buckets, and
`ImplementsLifecycle` says that no interleaving of requests, executions,
recoveries, cleanup passes, faults and crashes makes a step that is not one step
of one file there. What the code does *not* promise is visible in the abstract
module: a listed file may be held again, a processing that was over may be
reopened, and objects may be stored for a file that is gone (see
`stuck_file` and `orphan_object`).

## Runs

All runs have `CHECK_DEADLOCK FALSE`: requests, crashes and expiries are
bounded, so behaviours end.

| Run | Bounds | Shows |
|---|---|---|
| `pipeline` | 1 file, 2 processes, locks that expire during an execution, 3 attempts, 2 entries | `TypeOK`, `CompletedIsPublished`, `JobCompletedIsPublished`, `CheckpointBacked`, `ImplementsLifecycle`, with executions of one entry and of two overlapping |
| `faults` | 1 file, 1 process, every service faulty, 1 crash, 1 manual repair | the three publication invariants and `ImplementsLifecycle` with failing calls and lost replies; `FailedCanBeRetried`, `SoloCheckpointMonotone` |
| `lifecycle` | 1 file, 1 process, presign/complete/delete by 3 requests, expiry, faulty storage, 1 crash | `DownloadServesObject`, `CleanupRemovesUpload`, `ImplementsLifecycle` |
| `live` | 1 file, 1 process, 1 crash, expiry, faulty storage | `CrashLosesNoJob`, `QueuedJobSettles`, `ExpiredFileIsDeleted` |
| `breaker` | 3 calls, threshold 2, 1 retry, 2 outages, missing objects or crashes in all | `TypeOK`, `ReadyMeansBuckets`, `WaitersHaveATest`, `OpensForCause`, `OutageIsOvercome`, `EveryCallReturns` |
| `idempotency` | 3 calls under one id, 2 processes, 1 error, 1 crash | `OneHandler`, `AnsweredIsRemembered`, `RetriedIsAnswered` |

Six runs refute what a document or comment of the repository says:

| Run | Property | What happens |
|---|---|---|
| `stuck_file` | `SettledFileMatchesJob` | an execution resumed from `METADATA_UPDATED` or `COMPLETED` sets the file to `PROCESSING` and skips the update that would set it to `COMPLETED`: the job is done, the file is stuck and cannot be downloaded |
| `lost_job` | `InterruptedJobsResume` | the process dies in the recovery, between the reset to `PENDING` and `queue.add`, while it is executing the stalled entry for the second time: no entry, no `PROCESSING` row, nobody looks again |
| `orphan_object` | `DeletedLeavesNothing` | a file deleted by its user while an execution is about to put the processed object: the object stays, and no row refers to it |
| `live_job` | `RecoverySparesLiveJobs` | a starting process resets and queues again the job that another process is executing |
| `duplicate_request` | `HandledOnce` | a duplicate reads the cache before the first call fills it and takes the lock after the first call released it |
| `probe_closes` | `ClosesOnRecovery` | in an outage, the first call after the cool-down signs a URL: it succeeds without MinIO and closes the circuit, so the next calls run into the outage again |

### Why the bounds are enough

Files interact only through the processes that serve them and the loops of
recovery and cleanup, so one file shows the races of its own executions,
requests and passes. Two processes are
the deployment of `docker-compose.yml`. In `pipeline` they overlap in both ways
the code allows: a lock expires while its owner goes on (`LiveStalls`), so the
other process takes the same entry; or the recovery of a process that starts
late takes the running job for interrupted and adds a second entry. Crashes would
make that instance too large and are in the three others. The second entry of
`lifecycle` is a repeated `completeUpload`, or the recovery after a crash. With
`MaxStalls = 1` (BullMQ's default) one crash reaches the first stall, and a
second one the limit. `MaxAttempts` is 3 in the code; where retries are not
the point, 2 keeps the run small and still has one retry and one final failure.
`CrashLosesNoJob` and `QueuedJobSettles` are checked for one crash of one
process: with more, `lost_job` is the counterexample, and *Crashes* below says
under which conditions no other is. Three calls at the breaker are the
one that tests, one that waits for it and a late one from before the circuit
opened; a threshold of 2 and one retry keep calls and attempts apart (the code
has 5 and 3). Request ids do not
interact, so one is enough; three calls let a third profit from a lock that two
others fought over. The safety properties proved below hold for all bounds.

Each property of a passing run is violated when a plausible bug is put into a
mapped definition (`PROJECT.json`, "mutants"; the mutated operators stand next
to the originals).

### Fairness

Weak fairness of each component's own steps: Node resumes an await once it is
settled; BullMQ gives waiting entries to idle workers and checks for stalled
ones; `restart: unless-stopped` restarts a container; cron fires every hour;
Redis drops expired keys. Nothing is assumed of users or operators, except in
`RetriedIsAnswered`, which is a statement about a client that keeps trying
(`Client`). That an outage ends is assumed where a property needs it: in `live`
MinIO may fail at every call, and strong fairness of the two deletions of a
cleanup visit (`Deletes`) says that one which is tried in pass after pass
succeeds some time; an execution may fail at all its attempts, and the job is
then decided as `FAILED`. PostgreSQL and Redis answer in `live`. Errors are bounded
in `idempotency`.
In `StorageService`: a process goes on with what it began, docker restarts it,
the timer of the circuit fires, a call under way ends, and some call is made
again and again (cron, BullMQ's retries, clients), for otherwise nothing would
test the circuit. MinIO need not ever come back; `OutageIsOvercome` assumes it
in its statement, and `EveryCallReturns` does not.

## Proofs

TLAPS proves, for every number of files, processes, requests, entries, crashes
and repairs, and every set of faulty services, except where the table says what
is assumed:

| Theorem | Module |
|---|---|
| `TypeCorrect` : `Spec => []TypeOK` | `VaporVaultTypes` |
| `Invariance` : `Spec => []Inv` | `VaporVaultSafety` |
| `CompletedIsPublishedHolds`, `JobCompletedIsPublishedHolds`, `CheckpointBackedHolds` | `VaporVaultSafety` |
| `DownloadServesObjectHolds` | `VaporVaultSafety` |
| `FailedCanBeRetriedHolds`, assuming `LiveStalls = FALSE` | `CrashProofs` |
| `CrashesLoseNoJob`, assuming `LiveStalls = FALSE`, `Faulty \subseteq {"storage"}`, `MaxCrashes <= MaxStalls`, and of the behaviour `CrashesSpareHandOvers` and `NobodyRemovesEntries` | `CrashProofs` |
| `OneCrashLosesNoJob`, assuming one process, `LiveStalls = FALSE`, `Faulty \subseteq {"storage"}`, no `complete` requests, `MaxCrashes <= 1`, `MaxStalls >= 1`, `MaxRepairs = 0` | `CrashProofs` |
| `PipelineImplementsLifecycle` : `Spec => ImplementsLifecycle` | `LifecycleProofs` |
| `CleanupRemovesUploadHolds` | `CleanupProofs` |
| `SoloCheckpointMonotoneHolds`, assuming `LiveStalls = FALSE` | `CheckpointProofs` |
| `TypeCorrect`, `ReadyProcessHasBuckets`, `NobodyWaitsForNothing`, `CircuitOpensForCause` | `StorageServiceProofs` |
| `TypeCorrect`, `Invariance`, `OneHandlerHolds`, `AnsweredIsRememberedHolds` | `IdempotencyProofs` |

They rest on the named assumptions on the constants (`NilAssumption`,
`QueueAssumption`, `IdempotencyAssumption`, ...), which say what kinds of values
they are.

*Pipeline.* `CheckpointBacked` alone is not inductive: an execution about to
save `UPLOADED_TO_STORAGE` must already have stored the object, and two
executions of one file move its checkpoint independently. `Inv` therefore says
what each actor may rely on: rows (`RowsOK`, `FilesOK`, `JobsOK`), queue entries
(`QueueOK`), executions (`ExecOK`: the key in memory stands for a stored object,
the checkpoint it resumed from for what that promised), the recovery loop, the
requests and the cleanup passes. All these are facts about a file that no step
of anybody makes false again (row created, object stored or doomed, key
published or row deleted). `Grow` states that monotonicity once for every step;
with it, a step only has to re-establish the part of the actor that moved, and
everybody else's part follows (`ExecWaits`, `ReqWaits`, ...). That is the
argument why overlapping executions are harmless although they overwrite each
other's checkpoints.

*Locks.* Three of the theorems below need that an execution is alone with its
entry, for as long as locks are renewed (`LiveStalls = FALSE`). `LockOK` says so:
whoever executes an entry owns it in the queue. It is a lemma about the model of
BullMQ, and no claim about the application.

*Failures.* `FailedCanBeRetried` also speaks of quiet files, and a quiet file
shows only that its entries are at rest. `FailedOK` says of every row that reads
`FAILED` which entry answers for it: one that is dead, or one that is still tried
and whose executor, if there is one, has not yet reached the update of that row
with which a new attempt takes the failure back, or is itself in the catch block.
`FilePcs` and `JobPcs` are those calls; they differ by `startFile`, because an
attempt updates the Job row first. So a report of success never comes from the
entry that answers for a failure (`ReportFails`), and a report of failure leaves
it dead or waiting. No fault is excluded: a lost reply sends the execution to the
catch block, a lost report leaves the entry active, and a row the catch block
could not write does not read `FAILED`. With locks that expire under their owner
the property is false, and TLC shows how: the execution that lost its lock fails
after the other one has set the job `COMPLETED`, writes `FAILED` on the Job row,
and its report has no effect; the other one completes the entry. The job then
reads `FAILED`, its result is stored and published, and no entry is left to
retry.

*Refinement.* Each step of `VaporVault` is mapped, component by component, to a
step of `FileLifecycle` or a stutter. `Inv` supplies the guards that the code
does not check: that an execution which publishes has its result stored, that
one which completes a job has published, that whoever deletes a row has begun
to close the file.

*Cleanup.* That a row goes after its upload is a race between a pass, which
deleted the object some steps ago, and everyone who may still put it. `WritersOK`
says why nobody can: an upload is put only by the one request that creates the
file, while the row does not exist yet (`KnownOK`, `CreatingOK`, `AloneOK`), or
with a presigned URL, which expires before the row does (`ExpiredOK`);
`PassesOK` then carries "no upload" from the deletion of the object to that of
the row.

*Checkpoints.* While a file has one entry and locks are renewed, `LockOK` makes
its executor unique, so the checkpoint it found is the one the row still holds
or one it saved itself: `FoundOK` lists, per program counter, which checkpoints
the row may hold (`MayFind`), and every save is at or above all of them. A
second entry brings a second executor, which saves over the first one's
checkpoints; `SoloCheckpointMonotone` excludes it by name.

*Crashes.* `CrashLosesNoJob` speaks of quiet files; its inductive form,
`JobsKept`, speaks of all: for every job that is not decided there is someone
who will decide it. That is a live queue entry whose execution, if it has one,
can still write an outcome (`Open`), or a recovery between the reset and
`queue.add`, or a request about to add the entry; or the file is `FAILED`. A step
that ends an entry must therefore have decided the job, and the one that could
fail to is a second stall. `StallsOK` counts: an entry has stalled no more often
than there were crashes, and strictly less often while it is active with nobody
executing it, so its next stall is not yet one too many. `LockOK` and `TakenOK`
make the executor of an entry unique, so that no other process closes it.
Each hypothesis keeps out a way in which the code does lose jobs. A crash between
the two halves of a hand-over is `lost_job`. With more crashes than stalls
allowed (BullMQ's default is one) TLC finds a worker that dies twice after taking
an entry and before `updateJobStatus`: the second stall fails the entry, the row
is `PENDING`, and `recoverInterruptedJobs` only looks for `PROCESSING`. A removed
entry decides nothing. If PostgreSQL fails, the catch block cannot write
`FAILED`; if Redis does, the entry is never added. An execution that outlives its
lock uses up a stall without a crash.
`OneCrashLosesNoJob` needs no hypothesis about behaviours, because with a
single process they follow from two more invariants: before the first crash
recovery finds no rows, since requests are accepted only after it (`FreshOK`),
and an upload adds its entry before the job has a row (`UploadsOK`). It covers
the instance of `live`, with any number of files, requests and attempts.

*Storage.* `PassedExist`: the buckets a starting process has passed exist.
`WaitersHaveATest` is inductive as it stands. `OpensForCause` needs
`MissesCoverFailures`: without an outage, the count of the breaker and the calls
that are still going to fail are no more than the calls for missing objects.

*Idempotency.* `LockOK`: while the lock of an id was never taken from its
holder, the holder is unique and the lock set. `AnswerOK`: an answer is cached
or being saved by a call that holds the lock.

Only model-checked: the liveness properties (TLAPS has no rule for `ENABLED`
here) and the refutations. Every invariant and every action property of a
passing run is the property of a theorem, `CrashLosesNoJob` under the hypotheses
above.

## Not modelled

- `objectExists` and `listObjects` of `StorageService` have no step in that
  module: they use neither policy and keep no state (`StatObject` of
  `FileService` is the call of the former). The stream `getObject` returns is
  read outside both policies; its errors are errors of `GetObject`.
- Controllers, validation, error formatting: they keep no state. Throttling is a
  counter of `@nestjs/throttler`.
- Health checks: stateless probes, on whose answer nothing in the repository acts.
- Metrics, logs, tracing: nothing depends on them.
- Authentication helpers: no route uses them.
- Migrations in `docker-entrypoint.sh`: they run before the program starts.
- Generated Prisma code (`src/generated`), about five eighths of the
  implementation's lines: a client for single statements, modelled as the atomic
  updates of `VaultStore`. It has no behaviour of its own to specify.
- Loss of Redis or PostgreSQL data; one request id used on two routes; the
  contents of files and of the processing result.

## Plan

1. What would make the refuted properties hold, as theorems with a hypothesis:
   `HandledOnce` if the cache is read again under the lock, `ClosesOnRecovery`
   if no presigned URL is the half-open test, `SettledFileMatchesJob` if no
   execution starts from `METADATA_UPDATED` or `COMPLETED`.
2. Compose `Idempotency` with `FileService`, so that a duplicate is a second
   upload or a second queue entry.
3. Refine the storage calls of `FileProcessor` by `StorageService`, to see an
   open circuit use up the three attempts of a job.
