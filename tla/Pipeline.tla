------------------------------ MODULE Pipeline ------------------------------
(***************************************************************************)
(* Several clients working on one job table.  A started client runs a      *)
(* producer, a pool of workers, a completer, a scheduler and a goroutine   *)
(* that takes them down in order:                                          *)
(*                                                                         *)
(*   rivo_jobs --> producer --jobsCh--> workers --resultsCh--> completer   *)
(*       ^                                                         |       *)
(*       +---------------------------------------------------------+       *)
(*                                                                         *)
(* internal/executor/{producer,executor,completer}.go, with the wiring of  *)
(* Client.Start and Client.Shutdown (client.go).  Every channel operation  *)
(* and every SQL statement is an action of its own; a select whose cases   *)
(* are ready picks any of them.                                            *)
(***************************************************************************)
EXTENDS JobStore, Functions, FiniteSetsExt

CONSTANTS
  Worker,          \* the executor goroutines of a client
  BufferSize,      \* cap(producer.jobs), Workers * 10 in Client.Start
  ResultsSize,     \* cap(executor.results), Workers * 2
  BatchSize,       \* the producer's batch size, 100 in Client.Start
  PolicyMax,       \* RetryPolicy.MaxAttempts of the completer
  Error,           \* the errors a handler can return, panics included
  NotFound,        \* ErrHandlerNotFound
  DiscardErrors,   \* RetryPolicy.DiscardErrors
  RetryableErrors, \* RetryPolicy.RetryableErrors
  Polls,           \* Polls[c]: the jobs in a queue that c polls
  Handles,         \* Handles[c]: the jobs whose kind has a handler at c
  NoCopy,          \* an idle worker's or completer's work
  Budget           \* how often each event of the environment may happen

(* What the environment does to the clients.  "dbError" is a statement of  *)
(* a client that fails, or whose answer is lost after it took effect.      *)
Event == {"cancelJob", "shutdown", "cancelCtx", "crash", "dbError"}

ASSUME PipelineAssumption ==
  /\ {BufferSize, ResultsSize, BatchSize, PolicyMax} \subseteq Nat \ {0}
  /\ PolicyMax <= SmallIntMax
  /\ NotFound \in Error
  /\ "ok" \notin Error
  /\ Polls \in [Client -> SUBSET Job]
  /\ Handles \in [Client -> SUBSET Job]
  /\ Budget \in [Event -> Nat]
  /\ IsFiniteSet(Job)

VARIABLES
  stage,      \* how far Start and the shutdown goroutine of a client are
  ctxDone,    \* the context given to Start is cancelled
  prodPc,     \* the producer goroutine
  limit,      \* the local variable limit of fetchAndSend
  batch,      \* the fetched rows it has not sent yet
  jobsCh,     \* the channel producer.jobs
  workPc,     \* the worker goroutines
  workOn,     \* the row a worker holds, with its error once handled
  resultsCh,  \* the channel executor.results
  compPc,     \* the completer goroutine
  settling,   \* the result it is writing to the database
  schedPc,    \* the scheduler goroutine
  left        \* events of the environment that can still happen

clientVars == <<stage, ctxDone, schedPc>>
prodVars   == <<prodPc, limit, batch>>
workVars   == <<workPc, workOn>>
compVars   == <<compPc, settling>>
vars == <<jobs, clientVars, prodVars, jobsCh, workVars, resultsCh, compVars,
          left>>

(* A *db.JobRow in memory is a copy of the row as FetchJobs returned it.   *)
Copy   == [job : Job, attempt : Nat]
Result == [job : Job, attempt : Nat, err : Error \cup {"ok"}]

Stage == {"created", "running", "stoppingProducer", "stoppingExecutor",
          "stoppingCompleter", "done", "crashed"}

MemoryTypeOK ==
  /\ stage \in [Client -> Stage]
  /\ ctxDone \in [Client -> BOOLEAN]
  /\ prodPc \in [Client -> {"idle", "fetching", "sending", "exited"}]
  /\ limit \in [Client -> Nat]
  /\ batch \in [Client -> Seq(Copy)]
  /\ jobsCh \in [Client -> Seq(Copy)]
  /\ workPc \in [Client -> [Worker -> {"idle", "busy", "reporting", "exited"}]]
  /\ workOn \in [Client -> [Worker -> Copy \cup Result \cup {NoCopy}]]
  /\ resultsCh \in [Client -> Seq(Result)]
  /\ compPc \in [Client -> {"idle", "settling", "exited"}]
  /\ settling \in [Client -> Result \cup {NoCopy}]
  /\ schedPc \in [Client -> {"on", "off"}]
  /\ left \in [Event -> Nat]
  /\ \A c \in Client : /\ Len(jobsCh[c]) <= BufferSize
                       /\ Len(resultsCh[c]) <= ResultsSize

TypeOK == StoreTypeOK /\ MemoryTypeOK

Init ==
  /\ StoreInit
  /\ stage = [c \in Client |-> "created"]
  /\ ctxDone = [c \in Client |-> FALSE]
  /\ prodPc = [c \in Client |-> "idle"]
  /\ limit = [c \in Client |-> 0]
  /\ batch = [c \in Client |-> << >>]
  /\ jobsCh = [c \in Client |-> << >>]
  /\ workPc = [c \in Client |-> [w \in Worker |-> "idle"]]
  /\ workOn = [c \in Client |-> [w \in Worker |-> NoCopy]]
  /\ resultsCh = [c \in Client |-> << >>]
  /\ compPc = [c \in Client |-> "idle"]
  /\ settling = [c \in Client |-> NoCopy]
  /\ schedPc = [c \in Client |-> "on"]
  /\ left = Budget

-----------------------------------------------------------------------------
(* The goroutines of c exist and the process is alive.                     *)
Up(c) == stage[c] \notin {"created", "crashed"}

(* producer.shutdown, executor.shutdown and completer.shutdown are closed. *)
ProducerStopped(c)  == Up(c) /\ stage[c] # "running"
ExecutorStopped(c)  == stage[c] \in {"stoppingExecutor", "stoppingCompleter", "done"}
CompleterStopped(c) == stage[c] \in {"stoppingCompleter", "done"}

Spend(e) == left[e] > 0 /\ left' = [left EXCEPT ![e] = @ - 1]

(* A statement of c fails: its context is cancelled, or the database or    *)
(* the connection fails.                                                   *)
StatementFails(c) == \/ ctxDone[c] /\ UNCHANGED left
                     \/ Spend("dbError")

-----------------------------------------------------------------------------
(* The producer.                                                           *)

RoomMut(c) == BufferSize

(* The free space of the channel, read before the fetch.                   *)
Room(c) == BufferSize - Len(jobsCh[c])

(* fetchAndSend, up to the query: nothing is fetched into a full channel.  *)
ProducerTick(c) ==
  /\ Up(c) /\ prodPc[c] = "idle"
  /\ Room(c) > 0
  /\ prodPc' = [prodPc EXCEPT ![c] = "fetching"]
  /\ limit' = [limit EXCEPT ![c] = Min({BatchSize, Room(c)})]
  /\ UNCHANGED <<jobs, clientVars, batch, jobsCh, workVars, resultsCh,
                 compVars, left>>

(* The rows of S in the order RETURNING happens to give them.              *)
Batches(S) ==
  {[i \in 1..Cardinality(S) |->
      [job |-> order[i], attempt |-> jobs[order[i]].attempt + 1]] :
   order \in Bijection(1..Cardinality(S), S)}

ProducerFetch(c) ==
  /\ Up(c) /\ prodPc[c] = "fetching"
  /\ \E S \in NextJobs(Polls[c], limit[c]) :
       /\ FetchJobs(c, S)
       /\ \E b \in Batches(S) : batch' = [batch EXCEPT ![c] = b]
       /\ prodPc' = [prodPc EXCEPT ![c] = IF S = {} THEN "idle" ELSE "sending"]
  /\ limit' = [limit EXCEPT ![c] = 0]
  /\ UNCHANGED <<clientVars, jobsCh, workVars, resultsCh, compVars, left>>

(* FetchJobs returns an error: before the statement took effect (S = {}),  *)
(* or while the rows of a statement that did were read.                    *)
FetchError(c) ==
  /\ Up(c) /\ prodPc[c] = "fetching"
  /\ StatementFails(c)
  /\ \E S \in NextJobs(Polls[c], limit[c]) \cup {{}} : FetchJobs(c, S)
  /\ prodPc' = [prodPc EXCEPT ![c] = "idle"]
  /\ limit' = [limit EXCEPT ![c] = 0]
  /\ UNCHANGED <<clientVars, batch, jobsCh, workVars, resultsCh, compVars>>

SendJobMut(c) ==
  /\ Up(c) /\ prodPc[c] = "sending"
  /\ Len(jobsCh[c]) < BufferSize
  /\ jobsCh' = [jobsCh EXCEPT ![c] = Append(@, Head(batch[c]))]
  /\ batch' = [batch EXCEPT ![c] = << >>]
  /\ prodPc' = [prodPc EXCEPT ![c] = "idle"]
  /\ UNCHANGED <<jobs, clientVars, limit, workVars, resultsCh, compVars, left>>

SendJob(c) ==
  /\ Up(c) /\ prodPc[c] = "sending"
  /\ Len(jobsCh[c]) < BufferSize
  /\ jobsCh' = [jobsCh EXCEPT ![c] = Append(@, Head(batch[c]))]
  /\ batch' = [batch EXCEPT ![c] = Tail(@)]
  /\ prodPc' = [prodPc EXCEPT ![c] = IF Len(batch[c]) = 1 THEN "idle" ELSE @]
  /\ UNCHANGED <<jobs, clientVars, limit, workVars, resultsCh, compVars, left>>

(* fetchAndSend returns with rows it has claimed and not sent.             *)
AbandonBatch(c) ==
  /\ prodPc[c] = "sending"
  /\ Up(c) /\ (ctxDone[c] \/ ProducerStopped(c))
  /\ batch' = [batch EXCEPT ![c] = << >>]
  /\ prodPc' = [prodPc EXCEPT ![c] = "idle"]
  /\ UNCHANGED <<jobs, clientVars, limit, jobsCh, workVars, resultsCh,
                 compVars, left>>

ProducerExitMut(c) ==
  /\ prodPc[c] = "idle"
  /\ Up(c) /\ ctxDone[c]
  /\ prodPc' = [prodPc EXCEPT ![c] = "exited"]
  /\ UNCHANGED <<jobs, clientVars, limit, batch, jobsCh, workVars, resultsCh,
                 compVars, left>>

(* The producer closes the jobs channel as it exits.                       *)
ProducerExit(c) ==
  /\ prodPc[c] = "idle"
  /\ Up(c) /\ (ctxDone[c] \/ ProducerStopped(c))
  /\ prodPc' = [prodPc EXCEPT ![c] = "exited"]
  /\ UNCHANGED <<jobs, clientVars, limit, batch, jobsCh, workVars, resultsCh,
                 compVars, left>>

-----------------------------------------------------------------------------
(* The workers.                                                            *)
TakeJob(c, w) ==
  /\ Up(c) /\ workPc[c][w] = "idle"
  /\ jobsCh[c] # << >>
  /\ jobsCh' = [jobsCh EXCEPT ![c] = Tail(@)]
  /\ workOn' = [workOn EXCEPT ![c][w] = Head(jobsCh[c])]
  /\ workPc' = [workPc EXCEPT ![c][w] = "busy"]
  /\ UNCHANGED <<jobs, clientVars, prodVars, resultsCh, compVars, left>>

(* What handleJob can return for a job.  A panic becomes an error.         *)
Outcomes(c, j) == IF j \in Handles[c] THEN Error \cup {"ok"} ELSE {NotFound}

ExecuteJob(c, w) ==
  /\ Up(c) /\ workPc[c][w] = "busy"
  /\ \E err \in Outcomes(c, workOn[c][w].job) :
       workOn' = [workOn EXCEPT ![c][w] =
                    [job |-> @.job, attempt |-> @.attempt, err |-> err]]
  /\ workPc' = [workPc EXCEPT ![c][w] = "reporting"]
  /\ UNCHANGED <<jobs, clientVars, prodVars, jobsCh, resultsCh, compVars, left>>

ReportResultMut(c, w) ==
  /\ Up(c) /\ workPc[c][w] = "reporting"
  /\ resultsCh' = [resultsCh EXCEPT ![c] = Append(@, workOn[c][w])]
  /\ workOn' = [workOn EXCEPT ![c][w] = NoCopy]
  /\ workPc' = [workPc EXCEPT ![c][w] = "idle"]
  /\ UNCHANGED <<jobs, clientVars, prodVars, jobsCh, compVars, left>>

ReportResult(c, w) ==
  /\ Up(c) /\ workPc[c][w] = "reporting"
  /\ Len(resultsCh[c]) < ResultsSize
  /\ resultsCh' = [resultsCh EXCEPT ![c] = Append(@, workOn[c][w])]
  /\ workOn' = [workOn EXCEPT ![c][w] = NoCopy]
  /\ workPc' = [workPc EXCEPT ![c][w] = "idle"]
  /\ UNCHANGED <<jobs, clientVars, prodVars, jobsCh, compVars, left>>

(* The second select of worker: the result of a handled job is dropped.    *)
DropResult(c, w) ==
  /\ workPc[c][w] = "reporting"
  /\ Up(c) /\ (ctxDone[c] \/ ExecutorStopped(c))
  /\ workOn' = [workOn EXCEPT ![c][w] = NoCopy]
  /\ workPc' = [workPc EXCEPT ![c][w] = "exited"]
  /\ UNCHANGED <<jobs, clientVars, prodVars, jobsCh, resultsCh, compVars, left>>

WorkerExit(c, w) ==
  /\ workPc[c][w] = "idle"
  /\ Up(c)
  /\ \/ ctxDone[c]
     \/ ExecutorStopped(c)
     \/ prodPc[c] = "exited" /\ jobsCh[c] = << >>
  /\ workPc' = [workPc EXCEPT ![c][w] = "exited"]
  /\ UNCHANGED <<jobs, clientVars, prodVars, jobsCh, workOn, resultsCh,
                 compVars, left>>

-----------------------------------------------------------------------------
(* The completer.                                                          *)
TakeResult(c) ==
  /\ Up(c) /\ compPc[c] = "idle"
  /\ resultsCh[c] # << >>
  /\ resultsCh' = [resultsCh EXCEPT ![c] = Tail(@)]
  /\ settling' = [settling EXCEPT ![c] = Head(resultsCh[c])]
  /\ compPc' = [compPc EXCEPT ![c] = "settling"]
  /\ UNCHANGED <<jobs, clientVars, prodVars, jobsCh, workVars, left>>

ShouldRetryMut(r) ==
  /\ r.err \notin DiscardErrors
  /\ r.attempt <= PolicyMax
  /\ RetryableErrors # {} => r.err \in RetryableErrors

(* shouldRetry reads the attempt of the copy, and not max_attempts.        *)
ShouldRetry(r) ==
  /\ r.err \notin DiscardErrors
  /\ r.attempt < PolicyMax
  /\ RetryableErrors # {} => r.err \in RetryableErrors

Settled(c) ==
  /\ settling' = [settling EXCEPT ![c] = NoCopy]
  /\ compPc' = [compPc EXCEPT ![c] = "idle"]

HandleResult(c) ==
  /\ Up(c) /\ compPc[c] = "settling"
  /\ LET r == settling[c]
     IN IF r.err = "ok" THEN CompleteJob(r.job)
                        ELSE FailJob(r.job, ShouldRetry(r))
  /\ Settled(c)
  /\ UNCHANGED <<clientVars, prodVars, jobsCh, workVars, resultsCh, left>>

(* The statement fails; handleResult ignores the error.                    *)
HandleResultError(c) ==
  /\ Up(c) /\ compPc[c] = "settling"
  /\ StatementFails(c)
  /\ Settled(c)
  /\ UNCHANGED <<jobs, clientVars, prodVars, jobsCh, workVars, resultsCh>>

(* executor.Wait closes the results channel, then the completer is told.   *)
CompleterExit(c) ==
  /\ compPc[c] = "idle"
  /\ Up(c) /\ (ctxDone[c] \/ CompleterStopped(c))
  /\ compPc' = [compPc EXCEPT ![c] = "exited"]
  /\ UNCHANGED <<jobs, clientVars, prodVars, jobsCh, workVars, resultsCh,
                 settling, left>>

-----------------------------------------------------------------------------
(* The scheduler: Shutdown does not wait for it.                           *)
SchedulerTick(c) ==
  /\ Up(c) /\ schedPc[c] = "on"
  /\ PromoteScheduledJobs
  /\ UNCHANGED <<clientVars, prodVars, jobsCh, workVars, resultsCh, compVars,
                 left>>

SchedulerExit(c) ==
  /\ schedPc[c] = "on"
  /\ Up(c) /\ (ctxDone[c] \/ stage[c] # "running")
  /\ schedPc' = [schedPc EXCEPT ![c] = "off"]
  /\ UNCHANGED <<jobs, stage, ctxDone, prodVars, jobsCh, workVars, resultsCh,
                 compVars, left>>

-----------------------------------------------------------------------------
(* Start, and the goroutine it leaves behind to shut the client down.      *)
Advance(c, from, to) ==
  /\ stage[c] = from
  /\ stage' = [stage EXCEPT ![c] = to]
  /\ UNCHANGED <<jobs, ctxDone, schedPc, prodVars, jobsCh, workVars,
                 resultsCh, compVars>>

Start(c) == Advance(c, "created", "running") /\ UNCHANGED left

(* Shutdown closes c.shutdown, upon which producer.Stop is called.         *)
Shutdown(c) == Advance(c, "running", "stoppingProducer") /\ Spend("shutdown")

(* producer.Wait returned; exec.Stop.                                      *)
StopExecutor(c) ==
  /\ prodPc[c] = "exited"
  /\ Advance(c, "stoppingProducer", "stoppingExecutor")
  /\ UNCHANGED left

(* exec.Wait returned and closed the results channel; completer.Stop.      *)
StopCompleter(c) ==
  /\ \A w \in Worker : workPc[c][w] = "exited"
  /\ Advance(c, "stoppingExecutor", "stoppingCompleter")
  /\ UNCHANGED left

(* completer.Wait returned; the worker is deregistered and c.done closed.  *)
Finish(c) ==
  /\ compPc[c] = "exited"
  /\ Advance(c, "stoppingCompleter", "done")
  /\ UNCHANGED left

-----------------------------------------------------------------------------
(* The environment.                                                        *)
CancelCtx(c) ==
  /\ Up(c) /\ ~ctxDone[c]
  /\ Spend("cancelCtx")
  /\ ctxDone' = [ctxDone EXCEPT ![c] = TRUE]
  /\ UNCHANGED <<jobs, stage, schedPc, prodVars, jobsCh, workVars, resultsCh,
                 compVars>>

(* The process dies with everything it holds in memory.  A restarted       *)
(* process is another client.                                              *)
Crash(c) ==
  /\ Up(c) /\ stage[c] # "done"
  /\ Spend("crash")
  /\ stage' = [stage EXCEPT ![c] = "crashed"]
  /\ batch' = [batch EXCEPT ![c] = << >>]
  /\ jobsCh' = [jobsCh EXCEPT ![c] = << >>]
  /\ workOn' = [workOn EXCEPT ![c] = [w \in Worker |-> NoCopy]]
  /\ resultsCh' = [resultsCh EXCEPT ![c] = << >>]
  /\ settling' = [settling EXCEPT ![c] = NoCopy]
  /\ ctxDone' = [ctxDone EXCEPT ![c] = FALSE]
  /\ schedPc' = [schedPc EXCEPT ![c] = "off"]
  /\ prodPc' = [prodPc EXCEPT ![c] = "exited"]
  /\ limit' = [limit EXCEPT ![c] = 0]
  /\ workPc' = [workPc EXCEPT ![c] = [w \in Worker |-> "exited"]]
  /\ compPc' = [compPc EXCEPT ![c] = "exited"]
  /\ UNCHANGED jobs

Enqueue(j) ==
  /\ \E st \in {"available", "scheduled"} : InsertJob(j, st)
  /\ UNCHANGED <<clientVars, prodVars, jobsCh, workVars, resultsCh, compVars,
                 left>>

BecomeDue(j) ==
  /\ TimePasses(j)
  /\ UNCHANGED <<clientVars, prodVars, jobsCh, workVars, resultsCh, compVars,
                 left>>

Cancel(j) ==
  /\ CancelJob(j)
  /\ Spend("cancelJob")
  /\ UNCHANGED <<clientVars, prodVars, jobsCh, workVars, resultsCh, compVars>>

-----------------------------------------------------------------------------
Producer(c) ==
  ProducerTick(c) \/ ProducerFetch(c) \/ SendJob(c) \/ AbandonBatch(c)
  \/ ProducerExit(c) \/ FetchError(c)

WorkerStep(c, w) ==
  TakeJob(c, w) \/ ExecuteJob(c, w) \/ ReportResult(c, w)
  \/ DropResult(c, w) \/ WorkerExit(c, w)

Completer(c) ==
  TakeResult(c) \/ HandleResult(c) \/ HandleResultError(c) \/ CompleterExit(c)

Coordinator(c) == StopExecutor(c) \/ StopCompleter(c) \/ Finish(c)

Next ==
  \/ \E c \in Client :
       \/ Start(c) \/ Shutdown(c) \/ CancelCtx(c) \/ Crash(c)
       \/ Producer(c) \/ Completer(c) \/ Coordinator(c)
       \/ SchedulerTick(c) \/ SchedulerExit(c)
       \/ \E w \in Worker : WorkerStep(c, w)
  \/ \E j \in Job : Enqueue(j) \/ BecomeDue(j) \/ Cancel(j)

Spec == Init /\ [][Next]_vars

(***************************************************************************)
(* Goroutines are scheduled, handlers return and time passes.  Go's select *)
(* chooses among its ready cases at random, so a case that is ready again  *)
(* and again is taken: the exits are strongly fair.                        *)
(***************************************************************************)
Fairness ==
  /\ \A c \in Client :
       /\ WF_vars(Start(c))
       /\ WF_vars(Producer(c)) /\ SF_vars(ProducerExit(c))
       /\ WF_vars(Completer(c))
       /\ WF_vars(Coordinator(c))
       /\ WF_vars(SchedulerTick(c))
       /\ \A w \in Worker : WF_vars(WorkerStep(c, w))
  /\ \A j \in Job : WF_vars(BecomeDue(j))

FairSpec == Spec /\ Fairness

-----------------------------------------------------------------------------
(* The copies of rows a client holds in memory.                            *)
HoldingWorkers(c) == {w \in Worker : workPc[c][w] \in {"busy", "reporting"}}

InBatch(c)    == Range(batch[c])
InJobsCh(c)   == Range(jobsCh[c])
InWork(c)     == {workOn[c][w] : w \in HoldingWorkers(c)}
InResults(c)  == Range(resultsCh[c])
InSettling(c) == IF compPc[c] = "settling" THEN {settling[c]} ELSE {}

Held(c) == <<InBatch(c), InJobsCh(c), InWork(c), InResults(c), InSettling(c)>>

Copies(c) == UNION {InBatch(c), InJobsCh(c), InWork(c), InResults(c),
                    InSettling(c)}

JobsIn(S) == {x.job : x \in S}

Holds(c, j) ==
  \/ \E i \in DOMAIN batch[c] : batch[c][i].job = j
  \/ \E i \in DOMAIN jobsCh[c] : jobsCh[c][i].job = j
  \/ \E w \in HoldingWorkers(c) : workOn[c][w].job = j
  \/ \E i \in DOMAIN resultsCh[c] : resultsCh[c][i].job = j
  \/ compPc[c] = "settling" /\ settling[c].job = j

-----------------------------------------------------------------------------
(* Properties.                                                             *)

(* FOR UPDATE SKIP LOCKED is to give a job to one worker at a time.  No    *)
(* job is twice in a channel, in two of the places of a client, with two   *)
(* workers, or with two clients, whatever was cancelled, retried, lost or  *)
(* fetched with a stale limit in between.                                  *)
Distinct(s) == \A i, k \in DOMAIN s : s[i].job = s[k].job => i = k

ExclusiveDelivery ==
  /\ \A c \in Client :
       /\ Distinct(batch[c]) /\ Distinct(jobsCh[c]) /\ Distinct(resultsCh[c])
       /\ \A v, w \in HoldingWorkers(c) :
            workOn[c][v].job = workOn[c][w].job => v = w
       /\ \A m, n \in 1..5 :
            m # n => JobsIn(Held(c)[m]) \cap JobsIn(Held(c)[n]) = {}
  /\ \A c, d \in Client, j \in Job : Holds(c, j) /\ Holds(d, j) => c = d

Current(c, x) ==
  /\ jobs[x.job].attempt = x.attempt
  /\ jobs[x.job].by = c
  /\ jobs[x.job].state \in {"running", "cancelled"}

(* The completer decides on a retry from the copy that was fetched, and    *)
(* FailJob logs the attempt of the row: they must agree until the result   *)
(* is written, and the row must still be this client's.                    *)
CopyIsCurrent == \A c \in Client : \A x \in Copies(c) : Current(c, x)

(* A claimed job is never forgotten while its client runs: a running row   *)
(* of a client that was not told to stop, and to which no statement was    *)
(* lost, is in one of the client's channels or goroutines.                 *)
NoSilentLoss ==
  left["dbError"] = Budget["dbError"] =>
    \A c \in Client : stage[c] = "running" /\ ~ctxDone[c] =>
      \A j \in Job : jobs[j].state = "running" /\ jobs[j].by = c
                       => Holds(c, j)

(* shouldRetry bounds the attempts of a job by MaxAttempts of the policy:  *)
(* a job that can be claimed again has an attempt left.                    *)
AttemptsBounded ==
  \A j \in Job : /\ jobs[j].attempt <= PolicyMax
                 /\ jobs[j].state \in Offerable => jobs[j].attempt < PolicyMax

(* What a goroutine holds fits where it is: the producer holds rows only   *)
(* while it sends, a worker has a row while it handles it and a result     *)
(* while it reports, the completer a result while it writes it.            *)
ControlOK ==
  \A c \in Client :
    /\ prodPc[c] = "sending" <=> batch[c] # << >>
    /\ prodPc[c] = "fetching" => limit[c] + Len(jobsCh[c]) <= BufferSize
    /\ \A w \in Worker : /\ workPc[c][w] = "busy" => workOn[c][w] \in Copy
                         /\ workPc[c][w] = "reporting" => workOn[c][w] \in Result
    /\ compPc[c] = "settling" => settling[c] \in Result

(* The channel always has room for what fetchAndSend still has to send,    *)
(* although the room was read before the query: the producer never holds   *)
(* claimed jobs back because the channel is full.                          *)
SendNeverBlocks ==
  \A c \in Client : Len(batch[c]) + Len(jobsCh[c]) <= BufferSize

(* FailJob appends one entry for every failed attempt: the errors of a row *)
(* number its attempts, without a gap or a repetition, up to the current   *)
(* one.                                                                    *)
ErrorHistory ==
  \A j \in Job :
    LET failed == CASE jobs[j].state \in {"running", "completed"} ->
                         {jobs[j].attempt - 1}
                    [] jobs[j].state = "cancelled" ->
                         {jobs[j].attempt - 1, jobs[j].attempt}
                    [] OTHER -> {jobs[j].attempt}
    IN \E n \in failed : jobs[j].errors = [i \in 1..n |-> i]

(* CompleteJob and FailJob have no condition on the state of the row, yet  *)
(* a completed or discarded job is never touched again.                    *)
SettledForGood ==
  [][\A j \in Job : jobs[j].state \in {"completed", "discarded"} =>
       /\ jobs'[j].state = jobs[j].state
       /\ jobs'[j].attempt = jobs[j].attempt
       /\ jobs'[j].errors = jobs[j].errors]_vars

Undisturbed == \A e \in Event \ {"cancelJob"} : left[e] = Budget[e]

(* Every job that is enqueued while a client polls its queue ends, as long *)
(* as clients are neither stopped nor crash and no statement is lost.      *)
EventuallySettled ==
  \A j \in Job :
    (jobs[j].state # "none" /\ \E c \in Client : j \in Polls[c] /\ Up(c))
      ~> (jobs[j].state \in Terminal \/ ~Undisturbed)

(* Shutdown comes to an end: no goroutine waits forever for a channel that *)
(* the goroutine at its other end has left.                                *)
ShutdownCompletes ==
  \A c \in Client :
    stage[c] = "stoppingProducer" ~> stage[c] \in {"done", "crashed"}

-----------------------------------------------------------------------------
(* What the documentation says and the code does not do.                   *)

(* "CancelJob cancels a pending or running job", and a cancelled job is    *)
(* terminal (Job.IsTerminal): it does not come back to be run again.       *)
CancelledStaysEnded ==
  [][\A j \in Job : jobs[j].state = "cancelled"
                      => jobs'[j].state \notin Live]_vars

(* "At-least-once delivery": an enqueued job is brought to an end by the   *)
(* clients that stay up, even if the one that claimed it crashes.          *)
AtLeastOnce ==
  \A j \in Job : jobs[j].state # "none" ~> jobs[j].state \in Terminal
=============================================================================
