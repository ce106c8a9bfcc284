# A TLA+ model of the Deterministic Execution Layer

The Deterministic Execution Layer (DEL) is a TypeScript library for running
pipelines of tasks: queues, schedulers, email, storage, database and crypto
services, and pipelines and tools built on them. This directory holds
specifications of the parts of it whose correctness depends on interleaving,
retries, timers, transactions or the order of calls, the TLC runs that check them
on small instances, and the TLAPS proofs that carry their safety properties over to
every instance.
Paths below are relative to `src/src/`.

## 1. Inventory

Node runs one callback at a time: a stretch of code between two `await`s is
atomic, and everything else that is going on may happen at an `await`. Nothing
is persisted except through PostgreSQL, so a crash simply loses the in-memory
services. The difficulties are in what is suspended, what is scheduled, and what
was read before an `await` and is used after it.

| Component | State | Operations | Hard behaviour | What makes it correct |
|---|---|---|---|---|
| Task queue `services/queue/taskQueue.ts` | jobs map, priority list of ids, handlers, running counter, scheduled `setImmediate` callbacks | registerHandler, enqueue, processNext | handlers settle in any order; listeners throw inside `emit`; callbacks must keep up with work | list and statuses agree; counter is exact and bounded; attempt budget; what returned is not run again; no lost wake-up; every job settles |
| Retry queue `services/queue/retryQueue.ts` | items map, handlers, interval timer | registerHandler, schedule, cancel, stop, processDue | passes overlap; items change under a suspended pass | budget; what left stays away; everything leaves |
| Event queue `services/queue/eventQueue.ts` | queue and subscriber arrays for each topic, one processing flag | enqueue, subscribe, unsubscribe, clearTopic | arrays are replaced or extended during a delivery; several subscribers reject | order of first deliveries; nothing undelivered is lost; redeliveries bounded; flag released |
| Dead letter queue `services/queue/deadLetterQueue.ts` | messages map | enqueue, acknowledge, replay, purgeAcknowledged | replay acknowledges before the work is done again; hourly purge | nothing is purged that was neither acknowledged nor replayed; the oldest unhandled messages are shown and all are counted; what is acknowledged is purged in the end |
| Dependency scheduler `services/scheduler/dependencyScheduler.ts` | local to a call | topologicalSort, executeDependencyPipeline | handler races a timer; retries beside an attempt that timed out | topological order; dependents wait; failures propagate; it ends |
| Job scheduler, cron tasks `services/scheduler/jobScheduler.ts`, `cronTasks.ts` | jobs, tasks, cron instances | scheduleCronJob, scheduleOneTimeTask, pauseJob, resumeJob, stopAll | runs overlap; jobs created disabled or stopped have no instance to resume; long delays overflow the timer | what ticks can be stopped; a pending task has its one timer |
| Recurring tasks `services/scheduler/recurringTasks.ts` | tasks, intervals | create, pause, resume, remove | resuming twice leaks an interval | one interval for each enabled task |
| Email queue, sending `services/email/queueEmail.ts`, `sendEmail.ts` | map of emails, isProcessing, transporter | queueEmail, processQueue, initializeEmailService, sendEmailWithRetry | queueing during a pass; lost answers; nested retries; sends before the service is initialised | budget; no email sent again after it was sent; passes end |
| Email verification `services/email/verifyEmail.ts` | token store | generate, validate, send, revoke | expiry; token valid although its email failed | a token is used at most once |
| PostgreSQL service, migrations `services/database/postgresService.ts`, `migrations.ts` | pool; schema and version table in the database | initializePool, query, withTransaction, closePool, runMigrations, rollbackMigrations | two instances migrate at once; lost connections; failing rollbacks; the pool replaced during a call | a version is recorded exactly if its change is applied; connections come back |
| Vector store `services/database/vectorStore.ts` | rows in the database | upsert, batch upsert, search, delete, clear | overlapping batches, deadlocks, deletes beside inserts | a batch is visible as a whole or not at all |
| Backup and restore `services/database/backupRestore.ts` | files | createBackup, restoreBackup, listBackups, pruneOldBackups | exit status of a pipe; formats; a prune that throws half way | what is reported can be restored; only old backups go |
| Key management `services/crypto/keyManagement.ts` | key versions for each purpose | storeKey, getActiveKey, rotateKey | the active key expires | the newest key or none |
| Encryption, hashing, tokens `services/crypto/` | token configuration | sign and verify tokens; wrappers around libraries | the configuration changes between signing and verifying; options override it on both sides | a token is valid, while its time is, for who asks for the claims it was signed with, and without its secret for nobody |
| Loggers, error handler `services/logger/` | bounded event history, audit log, process handlers | logEvent, subscribe, recordAuditEvent, queries | listeners log and throw inside `emit`; the handler keeps the process alive after operational errors | history and queries return the newest; every event reaches its listeners, nested ones first, or was cut off |
| Storage adapters `services/storage/` | file system, S3, GCS | save, read, delete, list | none of their own | I/O |
| Pipelines `pipelines/` | customer store, interactions, payments | CRM, billing, coding, documents, media | update bypasses the uniqueness check; imports are suspended between rows; rounding | emails unique; counters add up; invoice totals add up |
| Templates `services/email/emailTemplates.ts`, `helpers/templateHelpers.ts` | registered templates, cached files | register, load, render, clear | passes run over each other's output; tags are stripped with what lies in them; stale files | what was passed is filled in, once; a text part shows what its HTML does outside of tags |
| Tools, other helpers | none | converters, formatters, linters, validators | none | text processing |

Interaction: in the code as it stands the services are singletons that
applications compose. Events reach listeners synchronously through `emit`, which
is why a throwing listener is part of the models that emit inside their
bookkeeping. Only two services call another: `cronTasks` purges the dead letter
queue, and the email queue calls `sendEmailWithRetry`. The retry queue does
not feed the task queue, and neither the task queue nor the retry queue nor the
event queue ever puts anything in the dead letter queue; the models say so by
having no such action.

The hazards that follow from this are listed, each at its line, in
`PROJECT.json`, with the properties that would notice them.

## 2. Modules

| Module | Models | Notes |
|---|---|---|
| `JobPool` | what the task queue and the email queue promise | abstract: submit, reject, dispatch, succeed, retry, give up |
| `RetryPromise` | what the retry queue promises | abstract: accept, withdraw, begin, conclude, fail |
| `TopicLog` | what the event queue promises about first deliveries | abstract: publish, publish and deliver, clear |
| `TaskQueue` | `taskQueue.ts` | refines `JobPool` |
| `RetryQueue` | `retryQueue.ts` | refines `RetryPromise` |
| `EventQueue` | `eventQueue.ts` | refines `TopicLog` |
| `DependencyScheduler` | `dependencyScheduler.ts` | the sort and the loop as actions |
| `EmailQueue` | `queueEmail.ts` and `sendEmail.ts` with its retry loop | refines `JobPool` with one worker |
| `Migrations` | `migrations.ts` over `withTransaction` | several callers, one database |
| `PostgresService` | `postgresService.ts` | calls on the pool of one process |
| `VectorStore` | `vectorStore.ts` | rows and their locks |
| `JobScheduler`, `DeadLetterQueue` | `jobScheduler.ts`, `deadLetterQueue.ts` | composed by `Maintenance` |
| `Maintenance` | `cronTasks.ts` | its purge job calls the dead letter queue |
| `RecurringTasks` | `recurringTasks.ts` | |
| `VerifyEmail`, `KeyManagement`, `TokenSigner` | `verifyEmail.ts`, `keyManagement.ts`, `tokenSigner.ts` | |
| `ErrorHandler`, `EventLogger` | `errorHandler.ts` with `toAppError`; `eventLogger.ts` and `auditLogger.ts` | `EventLogger` extends `ErrorHandler` |
| `CustomerStore`, `Billing` | `pipelines/crm`, `pipelines/billing` | |
| `BackupRestore`, `Templates` | `backupRestore.ts`; `emailTemplates.ts` and `templateHelpers.ts` | |
| `Database`, `Services` | compositions of the modules above | one service at a time |
| `MC...` | small instances | constants only |
| `...Proofs` | theorems about the module of that name | TLAPS, section 4 |
| `SharedLemmas` | lemmas about sequences, copies in them, and sums | used by the proofs |

Operators whose comment begins with "Mutant" are deliberate errors. No
specification uses them; each stands beside the definition it distorts, and TLC
finds the property named in `PROJECT.json` violated when it takes its place.

### TaskQueue

`status` and `attempts` are the fields of the jobs in `this.jobs`, `queue` is
`this.queue`, `running` is `this.running`. `ticks` counts the `setImmediate`
callbacks that are scheduled and `executing` the invocations of `processNext`
that are suspended at `await handler(job)`. `Enqueue` is the whole of `enqueue`
with `insertByPriority`. `processNext` up to its `await` is `NothingToDo`,
`RejectNext` (no handler) or `StartNext`; the rest of it is `Complete`,
`RetryLater` or `FailForGood`, all of which run the finally block
(`ReleaseSlot`). `ListenerFaults` says which events have a listener that may
throw: `job:enqueued` (no callback is scheduled) and `job:started` (the slot
leaks). A listener of `job:completed` that throws leads into the catch block as a
failing handler does (`CatchEntered`); `finished`, which is `job.result` in the code,
tells the two apart: its jobs have a handler that has returned. `AttemptBudget` says
that such a job is completed for good as long as no such listener throws; otherwise the
code runs it again. `taskqueue_safety` leaves this fault out, so that the promise is
checked; `taskqueue_live` has it, and the reruns cost no wake-up and come to an end.

Callers that register a handler late are in the model; handlers are never
removed, as in the code. `getJob` and `getStats` only read. Node's default for
an unhandled rejection is to exit; the faults matter because
`registerGlobalErrorHandlers` keeps the process alive after operational errors.

### RetryQueue

`items` is the key order of the map. The pass (`processDue`) is a process: it is
free, looking for its next item, or awaiting the handler of one. Time is
abstract: an item ripens, and `due` keeps what a pass with its own fixed `now`
would still visit. Several passes may be suspended; the constant `Passes` bounds
how many. `stop` does not end passes, `cancel` does not reach a handler, and a
handler that rejects afterwards only touches an object that is no longer in the
map.

### EventQueue

A delivery keeps references to the queue array and the subscriber array of its
topic. `subsHeld` and `queueHeld` say whether these are still the arrays in the
maps: `unsubscribe` replaces every subscriber array, also for an unknown id, and
`clearTopic` the queue array, also an empty one, so that what the delivery under way
pushes back to it is lost. Subscribing while the array is held adds to the delivery under way, as
iterating over a growing array does. `enqueue` is one action up to the first
`await` of a handler: either the message is only kept (`EnqueueOnly`) or the
head of its topic is taken and given to the first subscriber
(`EnqueueAndDeliver`). `FaultyListener` lets a listener of `message` throw
before the queue is processed.

### DependencyScheduler

The sort is Kahn's algorithm as a state machine: `Link` builds the graph and queues
the tasks without dependencies, `Round` is one turn of the while loop, `SortEnds`
returns or throws. In-degrees count a dependency as often as it is listed, and
`Visits` gives the tasks of a set in the order in which a loop over the map comes to
them. The pipeline's loop then takes the tasks in order. An attempt
either settles at once, is overtaken by `Promise.resolve(undefined)` (no
timeout), or races a timer. `live` counts handlers that still run after losing
their race. The dependency lists are inputs, chosen in the initial state.

### EmailQueue

One pass at a time. `due` is what the pass will still visit given the `now` it
took. `stage` says at which `await` it is suspended. `SendFails` may have
delivered the email, as a lost answer does. `transporter` says whether
`initializeEmailService` has been called; until then every send fails, and an
email queued too early uses up its attempts. `processQueue` is exported and can
be called by anyone (`CallProcessQueue`), which no fairness is assumed of.

### Migrations, PostgresService, VectorStore

`Migrations` has one action for each statement a caller of the runner sends, so
that callers interleave as sessions do. `tables` and `recorded` are the committed
schema and the committed rows of `schema_migrations`, `tx` what an open
transaction has changed; `Locked` lets a statement wait for the transaction that
has made the same change, and `RecordVersion` runs into the primary key when
another caller was faster. `StatementFails` leads to the catch block
(`Rollback`), `ConnectionLost` may strike anywhere, and at the `COMMIT` either
way. `PostgresService` has the same functions seen from the pool: a request waits
for a connection, works, perhaps rolls back, and releases it; `mine` is the pool a
request took from the module's variable before its `await`. `VectorStore` writes
batches row by row under row locks, aborts one of those that wait for each other,
and lets `clearNamespace` delete the rows it saw when it started.

Three history variables name the cases in which the promise does not hold, and the
properties exempt just those. `overlapped`: a run and a rollback were under way
together (a run finds the table there, the rollback drops it, and the run records
the version). `clashed`: `initializePool` was called although there was a pool,
which is then left open. `disturbed`: a call that ended after a
batch was committed has overwritten or deleted some of its ids, or the batch was
committed while `clearNamespace` ran. `leaks`
counts the connections that `initializePool` loses when its test query fails.

### The services

`JobScheduler` keeps apart what the module knows (`cronInstances`) from what
ticks (`ticking`), since a job created disabled has no instance. `FarTasks` are
one-time tasks whose delay overflows the timer. `Maintenance` gives one of the cron
jobs the handler that purges the dead letter queue, and no other step of the
queue's owner is assumed. `DeadLetterQueue` keeps the order of death: `dead` is
everything ever put there, `aged` how much of it is older than the time to live of
the purge, and `GetMessages` takes the limit of its caller (100 unless given).
`RecurringTasks` keeps handles that were
overwritten: `doubled` records the tasks that were resumed while running, which
the property exempts. `EventLogger` has a stack of `logEvent` calls in progress,
because listeners run inside `emit`; an exception cuts off the calls it passes
through and, if nobody catches it, meets the global handlers of `ErrorHandler`. Of an
error only its class and its flag `isOperational` are kept, in any combination that a
constructor allows, since nothing else decides whether the process ends; no property
is stated about the handlers themselves.
`CustomerStore` keeps interactions as counts by customer and type, and has
`importContacts` suspended between its rows; `rewritten`
records that an update has changed an email, after which uniqueness is not
promised. `Billing` computes in cents, with the rounding of the code; payments are
recorded with any amount, and reports list the customers with the highest revenue
(`MaxTop` of them, five in the code; of equals those who paid first).
`BackupRestore` models a file by its format, its compression and whether it is
complete, and the tools by what they accept: a compressed plain dump is not
compressed, and the failure of `pg_dump` is hidden by `gzip`. `TokenSigner`
models `jsonwebtoken` by its option checks: `sign` refuses an undefined issuer or
audience, so that access tokens without options need both configured, while refresh
tokens carry no audience of their own and are refused as soon as one is configured.
The options of callers are spread after the defaults when signing and when verifying
(`SpreadAfter`), and may override issuer, audience, `notBefore` and the algorithm,
or have the expiry ignored. In `Templates` a text is a sequence of pieces: plain
text, placeholders, block markers, and the brackets of tags. The three passes of
`renderTemplate` run over each other's output, and `HtmlToPlainText` strips a tag with
whatever lies in it, as the link of the built-in password reset.

## 3. Runs

| Run | Instance | Distinct states | Shows |
|---|---|---|---|
| `taskqueue_safety` | 4 jobs, 2 types, 3 priorities, budgets 3, 2, 1, 0, two workers, one handler registered late, `job:enqueued` and `job:started` listeners that may throw | 23,700 | type invariant, list and status agree, slot accounting, budgets, priority of untried jobs, refinement of `JobPool` |
| `taskqueue_live` | the same jobs, handlers first, `job:completed` listeners that may throw | 19,303 | no lost wake-up, refinement of the fair pool, in which every job settles |
| `taskqueue_stall` | one worker, one type without a handler | - | **violation**, see below |
| `retryqueue` | 3 items, budgets 2, 1, 0, two overlapping passes | 33,622 | budget under overlap, refinement of `RetryPromise` (nothing comes back), everything leaves |
| `retryqueue_overlap` | the same | - | **violation** |
| `eventqueue` | 4 messages, 2 topics, 3 subscriptions, one scheduled message | 547,942 | refinement of `TopicLog` (order), retention, redelivery bound, flag released |
| `dependency_scheduler` | 6,561 graphs of 4 tasks | 79,371 | sort, waiting, propagation, termination |
| `dependency_output` | the same | - | **violation** |
| `emailqueue` | 3 emails, budgets 2, 1, 0, one scheduled, the service initialised at any time | 26,256 | send budget, finality, refinement of `JobPool`, passes end, idle queue serves |
| `emailqueue_stranded` | the same | - | **violation** |
| `database` | 3 versions, 2 callers, 1 rollback, 1 fault; 3 calls, 2 pools of 1 connection; 3 batches on 3 ids, 2 deletes | 78,492 | record and schema agree; connections and pools accounted for; batches atomic; migrations and `closePool` end |
| `services` | see `Services.cfg` | 557,792 | timers, credentials, logs, stores, outputs; acknowledged dead letters are purged |

Why the bounds are enough. Two workers and four jobs let slots run out with jobs
waiting on both sides of a priority; a budget of three lets a job be retried
behind fresh ones twice. Two passes are what it takes for an item to be attempted
twice at once, and a third item lets one pass be ahead of the other. Two
subscribers on one topic multiply copies, and three messages on it allow a
redelivery to be delivered and a later message to be pulled by it. Four tasks
are enough for chains, joins, cycles of up to four tasks, self-loops, duplicate
and unknown dependencies; each task chooses among nine dependency lists. Three
emails let one be queued before, one during and one after a pass. Two callers and
three versions allow a rollback into the middle of a run; one connection in a pool
is the case in which a leak shows; two batches name the same two ids in opposite
orders. A history of two events and four events logged lets it overflow while
listeners nest. One signed token is enough, since tokens do not interact, and a report
that lists one of two customers is cut off as one of five is. Two pruners and two backups let one prune find a file gone that it
has listed. Budgets of zero are included because callers may pass them. All counters are bounded by the
inputs: no state constraint is used, and deadlock is not an error because the
services come to rest when their inputs are used up.

The two compositions. The services of `Database` and of `Services` share no
variable: interleaving them would multiply the states and show nothing new. The
variable `service` therefore chooses, in the initial state, the one that a
behaviour runs; only `JobScheduler` and `DeadLetterQueue`, which interact through
`Maintenance`, run together. A property of a composition is a conjunction of
properties of the modules that belong together, each stated and commented in its
module:

| Property of `Services` | Conjuncts |
|---|---|
| `SchedulersConsistent` | `CronTimersMatch`, `OnceTimersMatch`, `IntervalsMatch`, `UnhandledStay` |
| `CredentialsStayDead` | `TokensSpentOnce`, `NewestKeyOnly`, `SignedTokensVerify` |
| `LogsFaithful` | `HistoryIsNewest`, `EmittedOnce`, `NestedFirst` |
| `StoresConsistent` | `EmailsUnique`, `ImportAccounted`, `BooksBalance` (which is `InvoicesAddUp`, `ReportsAgree`, `ReportCountsAll`), `BackupsSound`, `CacheIsRecent` |
| `OutputsSound` | `QueriesReturnNewest`, `FilesRendered`, `EmailsRendered` |

The abstract specifications. Four of the queues implement one, with the
refinement mapping next to the `INSTANCE` in its module: `TaskQueue` maps its slots
to the workers of `JobPool`; `EmailQueue` maps its pass to the only worker and
`sending` and `sent` to `running` and `completed`; `RetryQueue` hides its passes,
timer and due times and shows how many attempts of each item are under way;
`EventQueue` shows the messages sent and those that are queued and were never
delivered. `RetryPromise` implies `GoneForGood`, and `TopicLog` implies
`FirstDeliveryInOrder`; the runs therefore check the refinements, and section 4
proves both properties as well.

Fairness. Node runs the callbacks and timers that are scheduled, time passes, and
promise continuations run: weak fairness of `ProcessNext`, of the interval, of
the steps of a pass. A handler (or the mail server, through its connection
timeout) is assumed to settle, where the property needs it; nothing is assumed of
handlers in `DependencyScheduler`, nor of callers anywhere but in `Migrations`. There
the statements of a caller are answered (weak fairness), and one caller is relied
on: whoever deploys starts a failed run again (strong fairness of `RunAgain`, since it
may be failing and being repeated in turn); faults are bounded, so one of the
repetitions succeeds. The runner itself never retries. In
`PostgresService` connections are granted or time out and queries settle. In
`Maintenance` messages age and the cron job of the purge, once registered and as
long as it is not paused, runs.

### Disagreements between code and documents

Four runs check a sentence of the documentation and find it violated:

* `taskqueue_stall`: the dispatcher "pulls all currently-ready Tasks"
  (`docs/architecture/pipelines.md`), but a job without a handler uses up a
  callback without scheduling another, and a ready job may never start.
* `retryqueue_overlap`: the retry delay "is enforced in this queue"
  (`docs/reference/glossary.md`), but a handler that takes longer than a second
  is called again for the same item.
* `dependency_output`: "Step A must complete and provide its output before Step B
  can begin", but without a timeout a pending handler loses to `undefined`.
* `emailqueue_stranded`: "Processes all pending emails in the queue", but emails
  queued during a pass and emails that failed once wait for the next
  `queueEmail`.

Others need no run: the documents say that all queues are backed by Redis and
that exhausted tasks move to the dead letter queue, of which the code has
nothing; `queue.maxRetries` and its companions in the default configuration are
read by no code; a task that "has already completed" "will not be enqueued again"
(`docs/architecture/determinism-and-reproducibility.md`), which a throwing listener of
`job:completed` falsifies. What the `database` and `services` runs exempt is of the
same kind, without a sentence in the documents that says otherwise: a rollback beside a
run, a pool that is initialised twice, a job resumed without an instance, a task
resumed twice, an audit query with the limit 0, compressed backups that cannot be
restored, prunes that stop at a directory, refresh tokens under an audience, the
text part of an email made from its HTML. `PROJECT.json` notes with each hazard
whether a property excludes it, exempts it, or only states what the code does; of a
letter that was replayed and then not processed nothing can be said, since the dead
letter queue is not told.

## 4. Proofs

The theorems hold for every value of the constants that satisfies the assumptions
named below. Each proof module has one inductive invariant, `IInv`, the lemmas that
every step preserves it, and the theorems drawn from it.

| Module | Theorem | Statement |
|---|---|---|
| `TaskQueueProofs` | `TypeCorrect` | `Spec => []TypeOK` |
| | `QueueMatchesStatus` | `Spec => []QueueIsPending` |
| | `SlotsAccounted` | `Spec => []SlotAccounting` |
| | `BudgetRespected` | `Spec => []AttemptBudget` |
| | `FreshFirst` | `Spec => []FreshJobsByPriority` |
| | `NoLostWakeup` | `Spec => []WorkConserving`, given that every type has its handler from the start and that no `job:enqueued` listener throws |
| | `Refinement` | `Spec => ImplementsJobPool` |
| `RetryQueueProofs` | `TypeCorrect` | `Spec => []TypeOK` |
| | `BudgetRespected` | `Spec => []SettledBelowBudget` |
| | `LeavingIsFinal` | `Spec => GoneForGood` |
| | `Refinement` | `Spec => ImplementsRetryPromise` |
| `EventQueueProofs` | `TypeCorrect` | `Spec => []TypeOK` |
| | `FirstDeliveries` | `Spec => []FirstDeliveryInOrder` |
| | `UndeliveredKept` | `Spec => []UndeliveredStayQueued` |
| | `BoundedRedelivery` | `Spec => []RedeliveryBound` |
| | `Refinement` | `Spec => ImplementsTopicLog` |
| `DependencySchedulerProofs` | `TypeCorrect` | `Spec => []TypeOK` |
| | `SortCorrect` | `Spec => []SortIsTopological` |
| | `DependentsAlwaysWait` | `Spec => []DependentsWait` |
| | `FailuresPropagate` | `Spec => []FailurePropagates` |
| | `TimeoutsSecureOutputs` | `Spec => []OutputBeforeDependents`, given that every task of the map has a timeout |
| `EmailQueueProofs` | `TypeCorrect` | `Spec => []TypeOK` |
| | `BudgetOfSends` | `Spec => []SendBudget` |
| | `SettlingIsFinal` | `Spec => SettledIsFinal` |
| | `Refinement` | `Spec => ImplementsJobPool` |
| `DatabaseProofs` | `TypeCorrect` | `Spec => []DatabaseTypeOK` |
| | `RecordsAgree` | `Spec => []RecordMatchesSchema` |
| | `NothingLeaks` | `Spec => []PoolsAccounted` |
| | `BatchesAreAtomic` | `Spec => []BatchAllOrNothing` |
| `ServicesProofs` | `ServicesTyped` | `Spec => []ServicesTypeOK` |
| | `TimersMatch` | `Spec => []SchedulersConsistent` |
| | `CredentialsDie` | `Spec => []CredentialsStayDead` |
| | `LogsAreFaithful` | `Spec => []LogsFaithful` |
| | `StoresAgree` | `Spec => []StoresConsistent` |
| | `BooksAreBalanced` | `Spec => []BooksBalance` |
| | `OutputsAreSound` | `Spec => []OutputsSound` |

### The arguments

*Task queue.* The invariants are not inductive one by one: that a started job was
not running (slots) needs the agreement of list and statuses; that a retried job is
not taken for a fresh one (priorities), and that a job is only attempted below its
budget, need to know that absent jobs have no attempts and running ones have at
least one (`AttemptsMatchStatus`); that a job with an initial handler is never
rejected needs that handlers stay (`HandlersStay`). `InsertOpensOneGap` shows that
`insertByPriority` opens one gap and moves nothing else. `NoLostWakeup` is inductive
relative to `IInv`; its two hypotheses are needed, as `taskqueue_stall` shows of the
first. `Refinement` maps every step to a step of `JobPool` or a stutter.

*Retry queue.* A pass never attempts an item that is not in the map: its `due` set
stays within the ripe items, and those within the map, which is part of the type
invariant. The budget needs besides that an item never scheduled is untried
(`UnscheduledUntried`). An attempt that settles moves one attempt from those
awaited to those settled; other passes settle nothing of it. `GoneForGood` follows
step by step from the types. For the refinement, a pass that takes an item up or has
its outcome changes the number of attempts under way of that item by one and of no
other (`OneMoreUnderWay`, `OneLessUnderWay`).

*Email queue.* `SendBudget` multiplies two loops. `Counted` says what the counters
of an email are for each status: a pending email has cost a whole budget for each
pass it went through, one that is being sent that of its earlier passes and one
send for each `try` of this one. The products are why the lemmas hide their factors.
In the refinement the worker is free when the pass takes an email up, since between
two sends no email is `sending` (`NothingRuns`), and a pass that ends in failure is a
retry or the end of the job by the same comparison that the pool makes
(`FailureIsSettled`).

*Event queue.* `TopicsInOrder` is stated for four values, so that pushing, taking,
putting back and clearing are each one lemma: the undelivered messages of a queue
lie in the order they were enqueued in, each once, and none is missing that was not
cleared. `RedeliveryBound` is not inductive, since a copy is put back only when its
subscriber has rejected: `WithinBound` adds to the copies made and queued those that
the delivery in progress may still put back, one for each subscriber that it has
still to await or that may still join it. `Refinement` is drawn from
`TopicsInOrder`: the head of a queue, if it was never delivered, was sent before
every other undelivered message of the topic (`HeadIsForemost`), and what a delivery
takes and a rejection puts back besides is not unseen.

*Dependency scheduler.* In the sort, the in-degree of a task is the number of its
listed dependencies that are not sorted yet (`Counted`), the tasks sorted or queued
are those for which it is zero (`QueueOfFree`), so that every dependency comes
before its dependents (`DependenciesFirst`). If the sort ends without all tasks,
those left depend on one another, so there is a cycle (`UnsortedIsCyclic`); if
it ends with all of them there is none (`SortedIsAcyclic`). In the run, the tasks
before `position` have been judged by what their dependencies came to, the one at it
is accounted for by `AtCurrent`, and those behind it are untouched. The proof of
`SortIsTopological` is why the sort is a state machine and not a recursive operator.
`TimeoutsSecureOutputs` says that tasks without a timeout are the whole of the
violation found by `dependency_output`.

*Migrations.* `RecordMatchesSchema` needs, of every caller in its loop, where the
versions it still has to handle lie among the recorded ones (`WorkLeft`), and that
its transaction holds all that has to be published together, unless that is the case
already (`TxComplete`). Both are preserved only while no run overlaps a rollback;
the invariant is conditioned on that, as the property is.

*Pool, vector store.* A call under way has a pool that was created, and no two close
the same one. For batches: every row of a batch has an id of it, and a batch that is
undisturbed is stored, and seen by a `clearNamespace` in progress, as a whole or not
at all (`StoredWhole`); `BatchAllOrNothing` says this only of what a search sees.

*Services.* Each module has its own invariant and induction, and `StepsOfEach` says
that a step of the composition is a step or a stutter of each module. Some
properties are inductive with their types (`VerifyInv`, `SchedulerInv`). Those that
are not: the keys of a purpose are numbered and only the last is active (`KeyInv`);
a letter that has left the dead letter queue was acknowledged and old (`DlqInv`), and
the rank of one among the unhandled decides whether it is shown (`RankInOrder`); the `logEvent` calls in progress are of ever newer events inwards
(`LoggerInv`), so that an exception cuts off each event once, and no event in progress
lies between two that a listener was given, the newer of them first (`NestingInv`); a
running prune still
has before it every backup it may delete, and a directory as long as it has a later
one (`BackupInv`); the amounts of an invoice were rounded from the same exact
subtotal, or computed from its discounted one (`BillingInv`). `InvoicesAddUp` then
is arithmetic of rounding, for any items, rates and discounts; two of its
conditions, that the subtotal is not negative and the tax not above 100 percent,
are ones that this proof asked for. What the properties say of tokens follows from
their types and the options of the call (`TokensVerify`), and of the customers a
report lists from `Ahead` being a strict order (`TopIsListed`).

*Sums.* `BooksAreBalanced` proves the books apart from the other stores.
`ReportsAgree` and `ReportCountsAll` compare sums taken in different orders.
The library defines them by recursion over a set, and tlapm cannot apply induction
to them by a rule. `SharedLemmas` proves what they need from the definitions
instead: a set without a sum would have a smallest one without (`SmallestSet`), and
from that existence, uniqueness and the rules for unions, sums of sums and exchange
of summation (`SumExists`, `SumIsUnique`, `SumRules`, `SumUnion`, `SumSwap`,
`SumByKey`).

*Sequences.* A recursive function on `0 .. n` is, to the provers, any function that
satisfies its equation. That there is one is proved by counting up to the least
length for which there would be none (`CountingUp`, `IteratesExist`); from it
follow what `FlattenSeq` returns (`FlattensStepwise`), that it is a homomorphism
(`FlattenConcat`), and the rules for replacing each element of a sequence by a
sequence: on concatenations (`SpreadConcat`), twice in a row (`SpreadFuses`), with
what selects some elements as a special case (`SpreadSelects`). The models filter and
substitute with `FlattenSeq` for this reason, and `Blocks` is a recursive function.

*Outputs.* A query returns the tail of the matching entries. `AuditsNumbered` (the
ids of the audit log are its positions) and `SpreadSelects` make them exactly the
matching ones in their order, and `NewestAreLast` counts those that are newer. The
passes of `renderTemplate` are spreads of one another's results; what a text without
nested blocks renders to follows from a second induction, over the pieces of the text,
in which the state of the block pass is known after each one (`BlocksOfFlat`); a third
does the same for the tags of a text (`TextOutsideTags`).
`ShownRendered` is the part of the invariant that ties what the last step has
shown to the template and the variables it was called with.

### Assumptions

The constants are assumed to be what a caller can pass. Finite: jobs, retry items
and passes, emails, messages and subscriptions, versions, requests, customers,
interaction types. Priorities and budgets are integers, zero and negative ones
included (but retries of pipeline tasks are natural numbers, and so are the bounds
`Max...`); the ids of a task map differ, dependency lists are arbitrary; a batch has
at least one vector; line items have integer quantities, prices and discounts; tax
rates and discounts of invoices are natural numbers; `PurgeTask` is a cron job.
A
report lists at least one customer; the options of callers who sign or verify tokens
name the keys modelled, with claims that are configured or not, and the secret the
code starts with is one of `Secrets`. `"free"` and `"looking"` are no retry items, and the values that stand for nothing
(`NoVector`, `NoCustomer`) are none of what they stand beside. Templates are
non-empty texts, since the empty one stands for a missing one in the model, and the
variables passed give a value, maybe an undefined one, to every key. TLC evaluates every
assumption on the instances of section 3.

### What stays model-checked

* The liveness properties (`EveryItemLeaves`, `FlagReleased`,
  `PassesEnd`, `IdleQueueServesDueEmails`, `EveryRunEnds`, `StartedCallsEnd`,
  `AcknowledgedArePurged`) and the refinement of the fair pool
  (`ImplementsFairJobPool`): liveness under fairness and `ENABLED` are out of the
  prover's reach.
* The four violations of section 3, which are single counterexamples.

## 5. Not modelled, and the plan

Not modelled because there is nothing a model checker would add:

* Local storage is a map of files whose operations are synchronous, S3 one call of
  its client each, GCS a stub that logs.
* Encryption, hashing and RSA key generation are stateless calls of a library;
  `decodeToken` only parses.
* `logger.ts`, `apiHelpers.ts`, `validationHelpers.ts`, the tools, and the coding,
  documents and media pipelines write, build, check or convert one value, or call
  a compiler or a library once.
* `batchInsert` builds the text of one `INSERT` for `query`; `verifyConnection`
  and the `getStats` functions only read; `sendInvoiceEmail` is one call of
  `sendEmail`, and `syncWithExternalCRM` only logs.

Plan, in order:

1. Done: all modules of section 2, their runs, and the proofs of section 4: every
   invariant that a run checks, the action property `SettledIsFinal`, and the
   refinements of `JobPool` (twice), `RetryPromise` and `TopicLog`.
2. An abstract specification of migrations, a schema that moves from version to
   version, for runs that do not overlap a rollback.
3. That what the history variables exempt is all that goes wrong: for a
   migration run, that one started after an overlap was repaired keeps record and
   schema together again.
