# Verification of rivo

rivo is a job queue and workflow engine in Go on top of PostgreSQL. This directory
holds TLA+ models of it, TLC configurations that check them on small instances, and
TLAPS proofs that hold for all instances: of every safety property and every action
property that the configurations check.

    tlc -workers 2 -config MCPipeline_clients.cfg MCPipeline
    tlapm PipelineProofs.tla

## The system

| Part | State | Operations | Correct when |
|---|---|---|---|
| Job table (`internal/db/db.go`, migration 001) | rows of `rivo_jobs` | InsertJob, FetchJobs, CompleteJob, FailJob, PromoteScheduledJobs, CancelJob | one live job per idempotency key; a job that ended stays ended; error history exact |
| Enqueue (`enqueue.go`) | none of its own; the caller's transaction | Enqueue, EnqueueTx, EnqueueMany | no key is live twice; what the caller is told stays true; a transaction is all or nothing |
| Producer (`internal/executor/producer.go`) | channel `jobs`, the fetched batch | poll, fetch, send, stop | never holds more than the channel takes |
| Executor (`executor.go`) | worker goroutines, channel `results` | take, run handler, report, stop | a job is with one worker |
| Completer (`completer.go`) | the result being written | shouldRetry, calculateBackoff, CompleteJob, FailJob, stop | attempts bounded, waits as the policy says, every result applied once |
| Job handling (`client.go` handleJob, `context.go`, `logger.go`) | rows of `rivo_job_logs`, a logger per attempt | CreateJobLog, CompleteJobLog, FailJobLog | the log of an attempt agrees with the job |
| Client (`client.go`) | goroutines, `started`, `shutdown`, `done`, the pool | NewClient, Start, Shutdown, Close, runScheduler | one pipeline; a stop ends and loses nothing |
| Worker registry (`db.go`, `client.go`) | row of `rivo_workers` | RegisterWorker, runHeartbeat, DeregisterWorker, CleanupStaleWorkers, GetWorkers | a working client is listed, a dead one is not |
| Migrations (`internal/migration`) | schema, `rivo_migrations`, an advisory lock | Migrate | every migration once and in order; no client on half a schema |
| Workflow engine (`internal/workflow/engine.go`) | row of `rivo_workflow_runs`, in-memory step states | ExecuteRun and one executor per kind of step | a run ends; steps that succeeded are not repeated |
| Workflow builder and registration (`workflow.go`, `client.go`, `engine.go`) | `Workflow.steps`, the engine's tables of functions, row of `rivo_workflow_definitions` | Step, Parallel, If, Map, Reduce, HandlerStep, RegisterWorkflow, serialization | a stored step meets the function it was built with |
| Workflow calls (`client.go`) | rows of runs | StartWorkflow, CancelWorkflowRun, RerunWorkflowStep | one execution per run |
| HTTP API (`api/http`) | none | enqueue, cancel, rerun, views | a caller of the above |
| Queue table (`db.go`) | `rivo_queues` | UpsertQueue, PauseQueue | nothing acts on it |
| Periodic jobs (`scheduler.go`) | none | all return ErrNotImplemented | nothing to model |
| Dashboard, examples | none shared | views, example programs | not modelled |

The parts interact through the database and three channels:

    rivo_jobs --> producer --jobs--> workers --results--> completer --> rivo_jobs

Every client process has one such pipeline, a scheduler loop and a heartbeat; any
number of clients share the tables. A goroutine of `Client.Start` waits for
`c.shutdown`, stops and awaits producer, executor and completer in this order, and
deregisters the worker. The context given to Start reaches all goroutines and may be
cancelled at any time. Workflow runs do not use the job table: StartWorkflow and
RerunWorkflowStep start a goroutine that executes the whole run.

What is hard here: the row is copied at the fetch and judged by its copy when the
handler has returned; the room of a channel is read before a query and used after
it; none of the statements that end a job has a condition on its state; every
`select` lets stop and cancellation win against a send; errors of statements are
ignored; an idempotency key is looked up in one statement and used in the next; the
log of an attempt and its job are settled by different goroutines; a lock of a
session is used through a pool; a run can have several executions, which overwrite
each other's step states. `PROJECT.json` lists these hazards by line with the
properties that cover them.

## Modules

| Module | Models |
|---|---|
| `JobStore` | the job table and each statement on it as an atomic action, and the store under the most general client (`StoreSpec`) |
| `Pipeline` | any number of clients on one store: producer, workers, completer, scheduler, shutdown, crash, cancelled context, failing statements |
| `JobDelivery` | abstract specification: a job is absent, waiting, held by one client, lost or done |
| `JobAttempts` | one job through its attempts: handler, job log, backoff |
| `Enqueueing` | concurrent callers of Enqueue, EnqueueMany and EnqueueTx, statement by statement |
| `ClientLifecycle` | Start, Shutdown, Close, heartbeat and worker row of a client whose methods several goroutines call |
| `Migrator` | NewClient with Migrate in several processes, connection by connection |
| `WorkflowEngine` | one workflow run with its executions, cancellation, reruns, crash |
| `WorkflowDefinition` | a workflow from the builder calls to the lookups of an execution, in several processes that share the stored definition |
| `PipelineDelivery` | the refinement mapping from `Pipeline` to `JobDelivery` |
| `MC...` | instances for TLC |
| `PipelineProofs` | theorems about `JobStore`, `Pipeline` and `PipelineDelivery` in four parts, each building on the one before |
| `EnqueueingProofs`, `MigratorProofs`, `LifecycleProofs`, `AttemptsProofs`, `WorkflowProofs`, `DefinitionProofs` | theorems about `Enqueueing`, `Migrator`, `ClientLifecycle`, `JobAttempts`, `WorkflowEngine`, `WorkflowDefinition` |
| `PlaceLemmas` | what the last three need: induction over numbers, and where FlattenSeq puts what |

`Pipeline` extends `JobStore` and implements `JobDelivery` under the mapping of
`PipelineDelivery`: a job is held while a copy of its row is in flight, and lost when
its row is running and there is no copy. The other modules look
closer at one part that `Pipeline` has in one step or not at all: `Enqueueing` at
InsertJob, `JobAttempts` at a worker and its handler, `ClientLifecycle` at the
goroutine that takes the client down, `Migrator` at what is before Start. They keep
what they share with it simple: a row is `live` or `ended` for `Enqueueing`, the
pipeline runs or is drained for `ClientLifecycle`.

**JobStore.** `jobs[j]` is the row of job `j`: `state`, `attempt`, `by`
(attempted_by), `due` (scheduled_at has passed) and `errors` (of each entry, the
attempt number). A statement is one action because PostgreSQL runs it as one
transaction; SKIP LOCKED makes a fetch behave as if it ran after the statements
whose rows it skips. `NextJobs` gives every result that ORDER BY priority LIMIT
may have. FetchJobs fails as a whole when SMALLINT `attempt` would overflow. The
column max_attempts is left out: no statement and no component reads it.

**Pipeline.** The goroutines are program counters (`prodPc`, `workPc`, `compPc`,
`schedPc`), the channels are sequences with the capacities of `Client.Start`
(`BufferSize`, `ResultsSize`), and `stage` is the position of the goroutine that
takes the client down. `fetchAndSend` is three actions: the read of the room
(`ProducerTick`), the query (`ProducerFetch`, `FetchError`) and each send
(`SendJob`, or `AbandonBatch` when stop or cancellation wins the select).
`FetchError` with a non-empty set is the case where the UPDATE took effect and
reading its rows failed. `HandleResultError` is a failing CompleteJob or FailJob,
whose error handleResult drops; it also covers a FailJob that the server rejects.
`Crash` loses the memory of a client for good: a restarted process draws a new
worker id and is another client. `Budget` bounds crashes, failing statements,
shutdowns, cancelled contexts and cancelled jobs; everything else is unbounded in
the specification.

**JobAttempts.** `pc` is the place of the worker in executeJob and handleJob. Its
clock counts ticks while the job waits; `wait` is the distance to scheduled_at,
`rested` what has passed. A backoff is any value between the delay and the delay
with the most jitter. `trouble[n]` remembers what happened to attempt `n`, so that
LogExplained can say why a log is missing or was left running. An expired context
makes every later statement of handleJob fail, also the one that closes the log. A
statement that fails may have taken effect. One worker has the job at a time, which
is what ExclusiveDelivery of `Pipeline` says. JobLogger.Clear is left out.

**Enqueueing.** `pc[c]` is `look` before the SELECT of an item and `insert` between
SELECT and INSERT. A row of an open transaction is `inserted`: the others do not see
it, but an INSERT of its key waits for it (`Blockers`). A cycle of such waits ends
by the server's choice of a victim. A transaction with an error is `aborted` and its
rows are gone; its COMMIT is then a rollback that returns an error. The isolation
level is READ COMMITTED. Of a lost answer nobody knows whether the statement, or the
COMMIT, was carried out. Requests are made by goroutines of any process, the handler
of `POST /api/v1/jobs` among them. That a cancelled job can become live again is in
`JobStore`, where UniqueLiveKey is proved with it.

**ClientLifecycle.** `callPc[g]` is where goroutine `g` is in Start, Shutdown or
Close, `pipe` the state of the pipeline with the goroutine that ends it. Time is
counted in the 10 s of the heartbeat's ticker; a row that is 30 s old is not listed.
A heartbeat that is outstanding for a whole period is an event of its own (`Late`);
smaller delays are not told apart, no period passes between the registration and the
goroutines of Start, and the clocks of client and server agree. `unwaited` remembers
that a Close went on to the pool without c.done, by its timeout or because Start had
not been called yet.
CleanupStaleWorkers is called by nobody in the repository but is exported by the
database layer; its threshold is assumed to be at least two periods, since with a
shorter one it stops workers that are on time, and their heartbeats do not make them
active again. After Close the pool is closed and every statement fails.

**Migrator.** The advisory lock belongs to a session, `lock` is the pair of client
and connection that has it. Any statement may take any idle connection, or a new one
if none is idle: the lock is usually released on the connection that took it because
it is the only idle one, and stays behind when the health check of the pool holds
that connection at the moment of the unlock. A cancelled context in flight closes
the connection. The unlock uses the context of NewClient, which may be over, and
nobody looks at its result; when NewClient fails it closes the pool, which releases
the lock. A migration and its row in `rivo_migrations` are one transaction, which
waits for another one at the same version. These facts about pool and server are
marked external.

**WorkflowEngine.** `run` is the row, `local[e]` and `outs[e]` are the maps
stepStates and state of execution `e`, and `pc[e]`, `idx[e]`, `child[e]` say where
it is. An output is abstracted to whether there is one. A crash also stands for a
panicking step handler (the engine does not recover) and for the abort of the Go
runtime when two children of a parallel step write the unlocked map at once; this
second cause has a disjunct of its own. `succ` is a history variable: the
successful handler calls of a step since a rerun last reset it. `Budget` bounds each
kind of event and `MaxEvents` all of them together.

**WorkflowDefinition.** `steps[c]` is the Workflow value of process `c`, `table[c]`
the maps of functions of its engine, `def` the shared definition column, and
`exec[r]` the call of StartWorkflow for run `r` and the execution it starts. A
function is named by the builder call that supplied it, so that calling the wrong
one shows; functions succeed, since failures of steps are in `WorkflowEngine`.
Builder calls may come after RegisterWorkflow, which keeps a pointer (`late` records
this). The ids that the builder formats are given by the constant `AutoId`, and a
program may use one of them itself. Two tables relate types of steps to maps of
functions, as two switches of the code do: `Entered` is what RegisterWorkflow fills,
`Consulted` where the executors look. A definition has its steps and whether the
workflow has a timeout (`timed[c]`); StartWorkflow writes it over the one that is
there (`Upsert`), whichever process stored that. A timeout, of a step or of the
workflow, is stored as text and read as a number (`Parses`). `Load` reads row and
definition, `MarkRunning` is the update that follows. `Interrupted` is the failure of
any statement, carried out or not, at which StartWorkflow or ExecuteRun returns, and
the death of the process; `hurt` remembers the runs it met. A missing row and
unreadable step states need no action: nothing deletes rows, and only the program
writes step states. A process that is started anew is another process.

## Runs

| Run | Properties | Bounds |
|---|---|---|
| `pipeline_clients` | ExclusiveDelivery, CopyIsCurrent, AttemptsBounded, ErrorHistory, SettledForGood, ImplementsDelivery | 2 clients, 2 jobs, 2 attempts, a crash, a failing statement, a cancellation |
| `pipeline_client` | TypeOK, SendNeverBlocks, NoSilentLoss, UniqueLiveKey | 1 client, 3 jobs, room for 2 in the jobs and 1 in the results channel, discardable and retryable errors, a kind without a handler, a shutdown, a cancellation |
| `pipeline_live` | EventuallySettled, ShutdownCompletes | 1 client, 2 workers, 2 jobs, channels of 1, a shutdown, a cancelled context, fair |
| `attempts` | LogAgrees, LogExplained, WaitsAsDue | 3 attempts, delays of 4 and 5 (the second one cut), jitter of 1, 2 log entries, a failing statement, a cancellation, a worker that goes |
| `enqueue` | UniqueLiveKey, AnswersHold, TxAllOrNothing, PartialBatch, RefusedForTwin, RequestEnds | 2 callers, 3 requests, 2 keys in both orders, a failing statement, a job that ends, fair |
| `lifecycle` | OnePipeline, DoneIsDeregistered, WorkerIsListed, StopReturns, DeadIsUnlisted | 2 callers, 2 late heartbeats, 2 failing statements, every other event once, fair |
| `migrate` | AppliedInOrder, OpenHasSchema, OneMigrator, LeakExplained | 2 processes, 2 connections each, 3 migrations, every event once |
| `workflow_run` | SingleExecution, DurablePrefix, ReplayedOnce, MapOutputKept, RunEnds | every kind of step, 2 executions, a cancellation or a crash or a failing statement, fair |
| `definition_build` | OwnFunctions, RefusesOnlyReduce, CompletedCalledAll, KeysCoverPlan, RunsAsStored | all workflows of up to 3 steps over 8 builder calls, with and without a timeout, 1 process, 1 run |

The bounds are the smallest at which the cases happen: two clients so that rows can
be fetched across clients, three jobs so that a channel with two places is full
while a third job waits and a key can be reused while its first job is in flight,
two attempts so that a first, a repeated and a last attempt differ, three attempts so
that one delay grows and one is cut, two executions so that the second replays what
the first one did, three requests so that a refused batch can be repeated next to a
transaction, two connections so that a statement can run on another one than the
lock, three migrations so that one is first, one last and one in between, three steps
so that two steps of the same kind and a step between a map and a reduce step occur.
`definition_build` has one process and one run, whose workflow may be extended after it
was stored; RunsAsStored for two processes that overwrite the definition of each other,
before and after it was read, is checked with `MCDefinition_versions.cfg` (2 processes,
2 runs, 1 step) by hand, and proved for any number of them.
Symmetry is used only where all properties are safety properties. Deadlock is not
checked: in every instance all jobs, requests or runs can be over. Every module
states the types of its variables in TypeOK, which is checked by `pipeline_client` and
proved for all of them.

Three runs show where the code does something else than its documentation says; each
is a finding in `PROJECT.json`.

| Run | Property | What happens |
|---|---|---|
| `pipeline_cancelled` | CancelledStaysEnded | the failure of a cancelled running job makes it retryable |
| `pipeline_atleastonce` | AtLeastOnce | the jobs of a crashed client are never given to another one |
| `lifecycle_close` | CloseIsSafe | Shutdown and then Close, as in the examples, closes a closed channel and ends the process |

### Conditions in the properties

Some properties hold only under a condition, which they state, because the code does
something else without it.

- SingleExecution: one caller of RerunWorkflowStep and no cancellation. Two callers
  both pass the check at client.go:906 and start an execution each, since the reset
  at client.go:954 has no condition on the state; and the execution of a cancelled
  run goes on (CancelWorkflowRun tells no execution) while a rerun starts another
  one.
- ReplayedOnce: not for the children of a parallel step. executeParallelSteps
  (engine.go:501) calls executeSequentialStep without the replay check of executeStep
  (engine.go:371), so that a rerun of a later step executes completed children again.
- OwnFunctions, RefusesOnlyReduce, CompletedCalledAll: the ids given by the program are
  distinct, none of them is one that the builder made for a step of the same workflow
  ("parallel_1" may be given, unless the second step is a parallel one), workflows are
  complete when they are registered, and processes agree on the definition.
  KeysCoverPlan needs the last two only. Within these conditions RefusesOnlyReduce names
  the cases that go wrong: a Reduce after Parallel, If or a step without an output
  always or sometimes fails ("source step output not found"), because its source is the
  id of the step before it; so does a handler step whose kind has no handler, which only
  its execution notices.
- RunsAsStored: which definition a run meets has no condition. InsertWorkflowDefinition
  (db.go:764) never sets the version and overwrites the row of the name, so that a run
  may execute a definition that another process stored after it was started, but never
  an older one. Why a run is not settled is said for runs without a failed statement:
  with one it may stay pending or running, since ExecuteRun returns and nothing takes
  the run up again. Without one, it stays pending only if a timeout was stored with the
  run or later.
- RequestEnds needs the deadlock detection of the server: two transactions with the
  same keys in opposite orders do wait for each other.
- RefusedForTwin: two concurrent calls with one key need not both succeed. The second
  one gets a unique violation as an error, not Duplicate, and a transaction is
  aborted by it.
- OneMigrator: no connection was lost. A migrator whose connection is lost goes on
  without the lock; AppliedInOrder holds nevertheless, because the primary key of
  `rivo_migrations` lets one of two equal migrations fail.
- LeakExplained: a client that is open may keep the lock for ever if the unlock ran
  on another connection, or its context was over, or its connection or statement
  failed; every later NewClient with AutoMigrate then fails with "another migration is
  in progress".
- DoneIsDeregistered: no failed statement, and no Close that went on without c.done,
  because its 30 s were over or Start had not been called yet: it closes the pool under
  the goroutine that still has to mark the row.
- WorkerIsListed: no failed statement, and no heartbeat later than a period. A late
  worker is missing until its next heartbeat, and for good if CleanupStaleWorkers came
  first, because WorkerHeartbeat (db.go:358) does not set the status. A client whose
  RegisterWorker failed (its error is dropped, client.go:243) is never in the list.
- LogExplained: a log stays `running` for ever after a panic and after a timeout, since
  the statement that closes it is skipped or has the expired context.
- WaitsAsDue: the jitter is added after the limit (completer.go:163), so that a
  delay may exceed MaxBackoff by 30 %.

Other differences met while reading, for which no run is kept: a workflow in which
anything has a timeout is never executed, and its runs stay pending, because the timeout
is stored as text (client.go:701 and 755), read as a number (engine.go:112 and 122), and
ExecuteRun returns at the error, which StartWorkflow drops. `EnqueueParams.MaxAttempts`
("overrides the default maximum attempts", enqueue.go:34) is stored and never read,
and `HandlerOptions.Retry` (handler.go:24, readme.md) is used by nothing: the completer
always has DefaultRetryPolicy with 25 attempts. The kinds of handlers registered after
Start may have queues that nobody polls. An execution overwrites the state of a
cancelled run with completed or failed (engine.go:353). Shutdown leaves claimed rows
running that nobody works on (producer.go:130). The rerun of a failed step is logged
with the attempt number of the failed one (client.go:945, engine.go:341). Retry
policies of steps and workflows are stored nowhere. `StartWorkflowParams.IdempotencyKey`
is ignored. PauseQueue sets a flag that FetchJobs does not read. duration_ms of a job log is
taken with EXTRACT(MILLISECONDS), which starts again at every minute (db.go:443).
FailJob (db.go:270) uses its parameter 4 only as an argument of jsonb_build_object; the
models take this statement to work, and its rejection is the case of a failing
statement.

### Fairness

Goroutines are scheduled and handlers return, so the producer, each worker, the
completer, the scheduler, the shutdown goroutine and each execution of a workflow
are weakly fair, and so is the passing of a job's scheduled time. `ProducerExit` is
strongly fair: in a running client it is enabled again and again between ticks, and
Go's select chooses among ready cases at random. No fairness is assumed of Shutdown,
CancelCtx, Crash, Cancel, Enqueue, a failing statement, or of anything a user calls.
EventuallySettled is stated for the time without stops, crashes and failing
statements, because with them it is false (`pipeline_atleastonce`).

In `ClientLifecycle` the goroutines, the ticker and the calls that were begun are
weakly fair; timeouts are not, because the context of Shutdown need not have one, so
that StopReturns holds without them. In `Enqueueing` the statements of a request are
weakly fair, and so is the end of its transaction: callers commit or roll back.
RunEnds excepts runs whose process died or whose statement failed, which nothing takes
up again.

## Proofs

All theorems hold for any sets of jobs, clients, workers, callers and processes, any
capacities, policies, numbers of attempts, versions, steps and failures. The
assumptions are the named ones of the modules: the kinds of the constants, positive
capacities, finitely many jobs, a policy that fits SMALLINT, a plan that is a sequence
of steps, and that the ids the builder formats ("parallel_%d", "conditional_%d") tell
the kind and the place of their step. Two further hypotheses are stated with the
theorems that need them.

| Theorem | Says |
|---|---|
| *PipelineProofs*: table and channels | |
| `StoreKeepsKeysUnique` | under any sequence of statements at most one live job has a given key |
| `TypeCorrect` | `[]TypeOK`, with the capacities of the channels |
| `PipelineKeepsKeysUnique` | every step of the pipeline is a step of the store, so keys stay unique |
| `ProducerNeverBlocks` | `[]SendNeverBlocks` for all batch and buffer sizes |
| *PipelineProofs*: copies in flight | |
| `ExclusivelyDelivered`, `CopiesStayCurrent`, `AttemptsStayBounded` | `[]ExclusiveDelivery`, `[]CopyIsCurrent`, `[]AttemptsBounded` |
| `SettledStaysSettled` | the action property `SettledForGood` |
| *PipelineProofs*: whole jobs | |
| `ErrorsNumberAttempts`, `NothingForgotten` | `[]ErrorHistory`, `[]NoSilentLoss` |
| `PipelineImplementsDelivery` | `Spec => Delivery!Spec`: the pipeline implements `JobDelivery` |
| *EnqueueingProofs* | |
| `EnqueueingTypes`, `KeysStayUnique` | `[]TypeOK`, `[]UniqueLiveKey` |
| `ResultsHold`, `TransactionsAreAtomic` | `[]AnswersHold`, `[]TxAllOrNothing` |
| `BatchesStopAtTheError`, `RefusedOnlyForTwin` | `[]PartialBatch`, `[]RefusedForTwin` |
| *MigratorProofs* | |
| `MigratorTypes`, `MigrationsInOrder`, `ClientsFindTheirSchema` | `[]TypeOK`, `[]AppliedInOrder`, `[]OpenHasSchema` |
| `MigratorsExclude`, `LockLeaksExplained` | `[]OneMigrator`, `[]LeakExplained` |
| *LifecycleProofs* | |
| `LifecycleTypes`, `PipelineIsMadeOnce` | `[]TypeOK`, `[]OnePipeline` |
| `DoneMeansDeregistered`, `WorkersAreListed` | `[]DoneIsDeregistered`, `[]WorkerIsListed` |
| *AttemptsProofs* | |
| `AttemptTypes`, `LogsAgree`, `LogsAreExplained` | `[]TypeOK`, `[]LogAgrees`, `[]LogExplained` |
| `AttemptsWaitAsDue` | the action property `WaitsAsDue` |
| *WorkflowProofs* | |
| `WorkflowTypes` | `[]TypeOK` |
| `RunIsExecutedOnce`, `PrefixesAreDurable`, `StepsAreReplayed` | `[]SingleExecution`, `[]DurablePrefix`, `[]ReplayedOnce`, if `OneCaller` |
| `MapOutputsAreKept` | `[]MapOutputKept`, if `OwnMapIds` |
| *DefinitionProofs* | |
| `DefinitionTypes`, `KeysAreThere` | `[]TypeOK`, `[]KeysCoverPlan` |
| `ExecutedAsStored` | `[]RunsAsStored` |
| `StepsFindTheirFunctions`, `OnlyReduceIsRefused`, `CompletedRunsCalledAll` | `[]OwnFunctions`, `[]RefusesOnlyReduce`, `[]CompletedCalledAll` |

Each inductive invariant was checked with TLC, as an invariant of the run of its
module, before it was proved.

### The job pipeline

- *Types.* TypeOK is not inductive: that the completer writes a result, and that
  SendJob has something to send, needs `ControlOK`, which ties what a goroutine holds
  to where it is. `TypeInv == TypeOK /\ ControlOK` is.
- *Unique keys.* A statement either creates no live row or creates one whose key was
  free (`NoNewLiveRow`, `OneNewLiveRow`). `StepIsStatement` carries this to the
  pipeline.
- *Room.* ControlOK also says that the limit of a fetch in progress still fits the
  channel: between the read of the room and the send only workers touch the channel,
  and they make room.
- *Delivery.* `DeliveryInv` joins two facts that need each other. `Local(c)`: the
  copies of a client are spread over batch, jobs channel, workers, results channel
  and completer without repetition. `CopyIsCurrent`: the row of each copy has its
  attempt, names the client, and is running or cancelled. The second keeps a fetch,
  which takes available rows only, from claiming a job in flight, and makes copies of
  different clients different; the first keeps the write of a result from invalidating
  another copy.
- *Rows.* `RowStep` says what a step can do to a row, with the guards that CompleteJob
  and FailJob lack supplied by CopyIsCurrent. Bounded attempts and SettledForGood
  follow by cases.
- *Whole jobs.* `Seen` is the same for what the clients hold: a step is a claim, a
  claim whose answer is lost, the dropping of copies, a verdict on one copy, or
  changes only the table. `WholeInv` adds to DeliveryInv the error history and that no
  running row of an undisturbed client is without a copy. Each of the five kinds is
  then one step of `JobDelivery`, or none: this is `PipelineImplementsDelivery`. The
  attempt to prove it showed that the arms of the CASE in `StatusOf` overlapped for a
  cancelled job that is still with a worker, so that its value was the one TLC happens
  to choose; "held" now comes first explicitly.

### The other parts

- *Enqueueing.* `EnqInv` says of each caller how its rows, answers and outcome agree
  with where its request is; rows of an open transaction belong to the request of
  their caller. The others can do only two things to what a request stored or saw:
  nothing, or end its jobs (`Apart`). So each request is followed through its own steps
  alone.
- *Migrator.* `SchemaInv` and `LockInv` are independent, which is the point: order and
  completeness of the schema rest on the rows of `rivo_migrations` (what a migrator has
  seen is a prefix of what is applied, no two open transactions are at one version),
  and need nothing of the lock. The lock excludes as long as no connection was lost,
  and `QuietOK` is why it is given back: without an event of the environment a client
  uses one connection only.
- *ClientLifecycle.* `LifeInv` ties the goroutine between `started = true` and the
  start of the pipeline to the pipeline, the end of the pipeline to the row of the
  worker, and the heartbeat to the age of the row: as long as it is on time it is never
  more than one tick behind, hence younger than any threshold the configuration allows;
  only a late one meets CleanupStaleWorkers. `WaitedFor` says that whoever closes the
  pool, or has closed it, came after c.done or did not wait, so that a pool that is
  closed when the row is to be marked has that one reason.
- *JobAttempts.* `AttInv` says what handleJob knows of its row at each point; a step
  inside an attempt leaves the logs of the other attempts alone (`SameAttempt`). The
  delay of calculateBackoff is a recursive function. That it equals the documented
  formula (`GrowthIsReference`) is proved by the least counterexample, which exists
  because the numbers are well founded (`Least`, `Upwards`): an induction on sets needs
  none of the library's theorems that take an operator. WaitsAsDue then follows from
  `WaitInv`, which compares what was rested with the distance to scheduled_at.
- *WorkflowEngine.* `WorkInv` says where each execution is and that its place is in the
  plan. `MapInv` carries the output of a map step from the execution that made it,
  through the row, to the one that replays it. `RunInv` has `OneAtATime` (whoever may
  still write has a run that is not over, and a rerun finds it failed), `PrefixOver` and
  `Recorded` (what an execution has behind it is in the row). What the steps before a
  place in the plan are, children included, is again shown by the least counterexample
  (`FlattenContents`, `FlattenedSteps`).
- *WorkflowDefinition.* `DefInv` says that three copies agree: the tables of a
  registered process are those of its workflow as long as nothing was added later
  (`TablesFit`), the stored definition, the keys of the row and the plan of the
  execution are the workflow of the process that started the run as long as there is
  one version (`OwnKept`), and every step passed was executed with its own function
  and left its output (`Passed`). That a table answers with the right function needs
  that a step, and every child of a parallel one, has an id that no other unit has
  (`UnitIdsApart`): an id was given by the program, at one place only, or was made by
  the builder of the place itself. Which element of a flattened sequence comes from
  where (`FlattenPlaces`) is the induction that this rests on. That registration and
  look-up agree is `ConsultedEntered`: of every type, what its executor consults is
  what its registration entered. The conditions OneVersion and Clean are part of the
  properties ("Conditions in the properties").
- *Versions.* `StoredInv` needs no condition: once there is a run, the definition column
  has the definition of the youngest one, and what an execution loaded is one of those
  stored since its run (`StoredSince`, which only grows). A run that ended unsettled and
  unhurt was refused by Load, hence is pending, and the definition that could not be
  parsed is one of these too.
- *Hypotheses.* `OneCaller`: at most one caller of RerunWorkflowStep at a time. With
  two, the properties are false ("Conditions in the properties"). The caller may repeat
  reruns; crashes, cancellations and failing statements are restricted by nothing but
  the conditions that the properties state themselves. `OwnMapIds`: the id of a map step is not the id of a step of another
  kind or of a child of a parallel step, whose output would replace the one of the map
  step in the maps; nothing in the builder prevents it. It holds for all ids the
  builder makes itself.

### Model-checked only

Liveness under fairness, which is out of reach of the prover: EventuallySettled,
ShutdownCompletes, RequestEnds, StopReturns, DeadIsUnlisted and RunEnds. The
refinement of `JobDelivery` is one of safety: the abstract specification states no
fairness. The induction theorems of the library take an operator and cannot be used;
the inductions above are over sets of numbers instead. No module declares a RECURSIVE
operator.

## Plan

1. Done: all parts above but those under "Not modelled"; proofs of every safety
   property and every action property that the runs check; the refinement of
   `JobDelivery`.
2. Next: an abstract specification of a workflow run (steps done once and in order,
   however often it is started), to be implemented by `WorkflowEngine`, as
   `JobDelivery` is by `Pipeline`; weaker hypotheses than `OneCaller`, by a condition
   on the callers that are between read and reset.

## Not modelled

Payloads, metadata, timestamps, namespaces (one namespace is one instance of the
table) and log lines. Fan-out steps (engine.go 560-722): no builder call makes one.
Reruns of a run whose workflow has changed in between. The queue table, whose flag and
numbers nothing acts on. The backoff functions of handler.go and internal/retry,
which nothing calls. Periodic jobs, which are not implemented; the tables of
migrations 002, 004 and 005, which no code uses. The views of the HTTP API and the
dashboard, which only read. The examples. A handler that never returns is excluded by
the fairness of workers.
