--------------------------- MODULE PipelineProofs ---------------------------
(* Theorems about the job table under any sequence of statements, and      *)
(* about the pipeline, for any number of clients, workers, jobs and        *)
(* failures, and any size of its channels.                                 *)
EXTENDS PipelineDelivery, SequenceTheorems, FiniteSetTheorems, TLAPS

-----------------------------------------------------------------------------
(* The job table.                                                          *)

(* Every statement keeps the type of the table.                            *)
LEMMA StoreTypeStep ==
  ASSUME StoreTypeOK, [StoreNext]_jobs
  PROVE  StoreTypeOK'
<1> USE DEF StoreTypeOK, Row, JobState, Live, Terminal, Offerable
<1>1. ASSUME NEW j \in Job, NEW st \in {"available", "scheduled"},
             InsertJob(j, st)
      PROVE  StoreTypeOK'
  BY <1>1 DEF InsertJob
<1>2. ASSUME NEW j \in Job, TimePasses(j)
      PROVE  StoreTypeOK'
  BY <1>2 DEF TimePasses
<1>3. ASSUME NEW c \in Client, NEW S \in SUBSET Job, FetchJobs(c, S)
      PROVE  StoreTypeOK'
  <2>1. \A j \in S : /\ jobs[j] \in Row
                     /\ jobs[j].attempt + 1 \in Nat
    OBVIOUS
  <2>2. \A j \in S : [jobs[j] EXCEPT !.state = "running",
                                     !.attempt = @ + 1,
                                     !.by = c] \in Row
    BY <2>1
  <2> QED BY <1>3, <2>2 DEF FetchJobs
<1>4. ASSUME NEW j \in Job, CompleteJob(j)
      PROVE  StoreTypeOK'
  BY <1>4 DEF CompleteJob
<1>5. ASSUME NEW j \in Job, NEW retry \in BOOLEAN, FailJob(j, retry)
      PROVE  StoreTypeOK'
  <2>1. CASE UNCHANGED jobs
    BY <2>1
  <2>2. CASE jobs' = [jobs EXCEPT
                ![j].state  = IF retry THEN "retryable" ELSE "discarded",
                ![j].due    = IF retry THEN FALSE ELSE @,
                ![j].errors = Append(@, jobs[j].attempt)]
    <3>1. Append(jobs[j].errors, jobs[j].attempt) \in Seq(Nat)
      OBVIOUS
    <3> QED BY <2>2, <3>1
  <2> QED BY <1>5, <2>1, <2>2 DEF FailJob
<1>6. ASSUME PromoteScheduledJobs
      PROVE  StoreTypeOK'
  BY <1>6 DEF PromoteScheduledJobs
<1>7. ASSUME NEW j \in Job, CancelJob(j)
      PROVE  StoreTypeOK'
  BY <1>7 DEF CancelJob
<1>8. ASSUME UNCHANGED jobs
      PROVE  StoreTypeOK'
  BY <1>8
<1>9. ASSUME NEW c \in Client, NEW queued \in SUBSET Job, NEW most \in Nat,
             NEW S \in NextJobs(queued, most), FetchJobs(c, S)
      PROVE  StoreTypeOK'
  BY <1>3, <1>9 DEF NextJobs, Eligible
<1> QED BY <1>1, <1>2, <1>4, <1>5, <1>6, <1>7, <1>8, <1>9 DEF StoreNext

-----------------------------------------------------------------------------
(* A step that makes no row live that was not, keeps live keys unique.     *)
LEMMA NoNewLiveRow ==
  ASSUME UniqueLiveKey,
         \A j \in Job : jobs'[j].state \in Live => jobs[j].state \in Live
  PROVE  UniqueLiveKey'
BY DEF UniqueLiveKey

(* So does a step that makes one row live whose key is not taken.          *)
LEMMA OneNewLiveRow ==
  ASSUME UniqueLiveKey, NEW j \in Job, ~KeyTaken(j),
         \A k \in Job \ {j} : jobs'[k].state = jobs[k].state
  PROVE  UniqueLiveKey'
BY DEF UniqueLiveKey, KeyTaken

(* One statement keeps live keys unique.                                   *)
LEMMA UniqueLiveKeyStep ==
  ASSUME StoreTypeOK, UniqueLiveKey, [StoreNext]_jobs
  PROVE  UniqueLiveKey'
<1> USE DEF StoreTypeOK, Row
<1>1. ASSUME NEW j \in Job, NEW st \in {"available", "scheduled"},
             InsertJob(j, st)
      PROVE  UniqueLiveKey'
  BY <1>1, OneNewLiveRow DEF InsertJob
<1>2. ASSUME NEW j \in Job, TimePasses(j)
      PROVE  UniqueLiveKey'
  BY <1>2, NoNewLiveRow DEF TimePasses
<1>3. ASSUME NEW c \in Client, NEW queued \in SUBSET Job, NEW most \in Nat,
             NEW S \in NextJobs(queued, most), FetchJobs(c, S)
      PROVE  UniqueLiveKey'
  <2>1. \A j \in S : j \in Job /\ jobs[j].state = "available"
    BY DEF NextJobs, Eligible
  <2>2. \A j \in Job : jobs'[j].state \in Live => jobs[j].state \in Live
    BY <1>3, <2>1 DEF FetchJobs, Live, Offerable
  <2> QED BY <2>2, NoNewLiveRow
<1>4. ASSUME NEW j \in Job, CompleteJob(j)
      PROVE  UniqueLiveKey'
  BY <1>4, NoNewLiveRow DEF CompleteJob, Live, Offerable
<1>5. ASSUME NEW j \in Job, NEW retry \in BOOLEAN, FailJob(j, retry)
      PROVE  UniqueLiveKey'
  <2>1. CASE retry /\ KeyTaken(j)
    BY <1>5, <2>1, NoNewLiveRow DEF FailJob
  <2>2. CASE retry /\ ~KeyTaken(j)
    BY <1>5, <2>2, OneNewLiveRow DEF FailJob
  <2>3. CASE ~retry
    BY <1>5, <2>3, NoNewLiveRow DEF FailJob, Live, Offerable
  <2> QED BY <2>1, <2>2, <2>3
<1>6. ASSUME PromoteScheduledJobs
      PROVE  UniqueLiveKey'
  BY <1>6, NoNewLiveRow DEF PromoteScheduledJobs, PromotableStates, Live, Offerable
<1>7. ASSUME NEW j \in Job, CancelJob(j)
      PROVE  UniqueLiveKey'
  BY <1>7, NoNewLiveRow DEF CancelJob, Live, Offerable
<1>8. ASSUME UNCHANGED jobs
      PROVE  UniqueLiveKey'
  BY <1>8 DEF UniqueLiveKey
<1> QED BY <1>1, <1>2, <1>3, <1>4, <1>5, <1>6, <1>7, <1>8 DEF StoreNext

(* Whatever statements are run and in whatever order, at most one live job *)
(* carries a given idempotency key: the SELECT of InsertJob, the unique    *)
(* index and the unconditional UPDATEs of CompleteJob and FailJob together *)
(* never leave two.                                                        *)
THEOREM StoreKeepsKeysUnique == StoreSpec => []UniqueLiveKey
<1>1. StoreInit => StoreTypeOK /\ UniqueLiveKey
  <2> SUFFICES ASSUME StoreInit PROVE StoreTypeOK /\ UniqueLiveKey
    OBVIOUS
  <2>1. << >> \in Seq(Nat)
    OBVIOUS
  <2>2. StoreTypeOK
    BY <2>1 DEF StoreInit, StoreTypeOK, Row, NoRow
  <2>3. UniqueLiveKey
    BY DEF StoreInit, NoRow, UniqueLiveKey, Live, Offerable
  <2> QED BY <2>2, <2>3
<1>2. StoreTypeOK /\ UniqueLiveKey /\ [StoreNext]_jobs
        => (StoreTypeOK /\ UniqueLiveKey)'
  BY StoreTypeStep, UniqueLiveKeyStep
<1> QED BY <1>1, <1>2, PTL DEF StoreSpec

-----------------------------------------------------------------------------
(* What the operators on finite sets return.                               *)
LEMMA MinOfTwo ==
  ASSUME NEW a \in Int, NEW b \in Int
  PROVE  Min({a, b}) \in {a, b} /\ Min({a, b}) <= a /\ Min({a, b}) <= b
<1>1. \E x \in {a, b} : \A y \in {a, b} : x <= y
  <2>1. CASE a <= b BY <2>1
  <2>2. CASE b <= a BY <2>2
  <2> QED BY <2>1, <2>2
<1> QED BY <1>1 DEF Min

(* The queued jobs a fetch can claim.                                      *)
LEMMA FetchedAreEligible ==
  ASSUME NEW q \in SUBSET Job, NEW n, NEW S \in NextJobs(q, n)
  PROVE  /\ S \subseteq q
         /\ Cardinality(S) <= n
         /\ \A j \in S : jobs[j].state = "available"
BY DEF NextJobs, Eligible

(* A batch lists every fetched job once, with the attempt it is now in.    *)
LEMMA BatchOfFetched ==
  ASSUME StoreTypeOK, NEW S \in SUBSET Job, NEW b \in Batches(S)
  PROVE  /\ b \in Seq(Copy)
         /\ Len(b) = Cardinality(S)
         /\ \A i \in DOMAIN b : b[i].job \in S
                                /\ b[i].attempt = jobs[b[i].job].attempt + 1
         /\ \A i, k \in DOMAIN b : b[i].job = b[k].job => i = k
         /\ \A j \in S : \E i \in DOMAIN b : b[i].job = j
<1>1. IsFiniteSet(S) /\ Cardinality(S) \in Nat
  BY PipelineAssumption, FS_Subset, FS_CardinalityType
<1>2. PICK order \in Bijection(1..Cardinality(S), S) :
        b = [i \in 1..Cardinality(S) |->
               [job |-> order[i], attempt |-> jobs[order[i]].attempt + 1]]
  BY DEF Batches
<1>3. /\ order \in [1..Cardinality(S) -> S]
      /\ \A i, k \in 1..Cardinality(S) : order[i] = order[k] => i = k
      /\ \A j \in S : \E i \in 1..Cardinality(S) : order[i] = j
  BY <1>2 DEF Bijection, Injection, Surjection, IsInjective
<1>4. \A j \in S : jobs[j].attempt \in Nat
  BY DEF StoreTypeOK, Row
<1>5. /\ DOMAIN b = 1..Cardinality(S)
      /\ \A i \in 1..Cardinality(S) :
           b[i] \in Copy /\ b[i].job = order[i]
           /\ b[i].attempt = jobs[order[i]].attempt + 1
  BY <1>2, <1>3, <1>4 DEF Copy
<1>6. b \in Seq(Copy) /\ Len(b) = Cardinality(S)
  BY <1>1, <1>2, <1>5
<1> QED BY <1>3, <1>5, <1>6

-----------------------------------------------------------------------------
(* Types.  An invariant about what goroutines hold is part of the proof:   *)
(* TypeOK alone does not say that the completer has a result to write.     *)
TypeInv == TypeOK /\ ControlOK

LEMMA TypeInit == Init => TypeInv
<1> SUFFICES ASSUME Init PROVE TypeInv
  OBVIOUS
<1> USE PipelineAssumption
<1>1. StoreTypeOK
  BY DEF Init, StoreInit, StoreTypeOK, Row, NoRow
<1>2. \A S : << >> \in Seq(S) /\ Len(<< >>) = 0
  OBVIOUS
<1>3. MemoryTypeOK
  BY <1>2 DEF Init, MemoryTypeOK, Stage
<1>4. ControlOK
  BY DEF Init, ControlOK
<1> QED BY <1>1, <1>3, <1>4 DEF TypeInv, TypeOK

(* Every step of the pipeline runs one statement on the table, or none.    *)
LEMMA StepIsStatement ==
  ASSUME TypeInv, [Next]_vars
  PROVE  [StoreNext]_jobs
<1> USE DEF TypeInv, TypeOK, MemoryTypeOK, vars
<1>1. ASSUME NEW c \in Client, ProducerFetch(c)
      PROVE  [StoreNext]_jobs
  BY <1>1, PipelineAssumption DEF ProducerFetch, StoreNext
<1>2. ASSUME NEW c \in Client, FetchError(c)
      PROVE  [StoreNext]_jobs
  <2>1. PICK S \in NextJobs(Polls[c], limit[c]) \cup {{}} : FetchJobs(c, S)
    BY <1>2 DEF FetchError
  <2>2. CASE S = {}
    BY <2>1, <2>2 DEF FetchJobs, StoreTypeOK
  <2>3. CASE S # {}
    BY <2>1, <2>3, PipelineAssumption DEF StoreNext
  <2> QED BY <2>2, <2>3
<1>3. ASSUME NEW c \in Client, HandleResult(c)
      PROVE  [StoreNext]_jobs
  <2>1. settling[c].job \in Job /\ ShouldRetry(settling[c]) \in BOOLEAN
    BY <1>3 DEF HandleResult, ControlOK, Result, ShouldRetry
  <2>2. CASE settling[c].err = "ok"
    BY <1>3, <2>1, <2>2 DEF HandleResult, StoreNext
  <2>3. CASE settling[c].err # "ok"
    BY <1>3, <2>1, <2>3 DEF HandleResult, StoreNext
  <2> QED BY <2>2, <2>3
<1>4. ASSUME NEW c \in Client, SchedulerTick(c)
      PROVE  [StoreNext]_jobs
  BY <1>4 DEF SchedulerTick, StoreNext
<1>5. ASSUME NEW j \in Job, Enqueue(j) \/ BecomeDue(j) \/ Cancel(j)
      PROVE  [StoreNext]_jobs
  BY <1>5 DEF Enqueue, BecomeDue, Cancel, StoreNext
<1>6. ASSUME NEW c \in Client, NEW w \in Worker, WorkerStep(c, w)
      PROVE  [StoreNext]_jobs
  BY <1>6 DEF WorkerStep, TakeJob, ExecuteJob, ReportResult, DropResult, WorkerExit
<1>7. ASSUME NEW c \in Client,
             ProducerTick(c) \/ SendJob(c) \/ AbandonBatch(c) \/ ProducerExit(c)
      PROVE  [StoreNext]_jobs
  BY <1>7 DEF ProducerTick, SendJob, AbandonBatch, ProducerExit
<1>8. ASSUME NEW c \in Client,
             TakeResult(c) \/ HandleResultError(c) \/ CompleterExit(c)
      PROVE  [StoreNext]_jobs
  BY <1>8 DEF TakeResult, HandleResultError, CompleterExit
<1>9. ASSUME NEW c \in Client,
             \/ Start(c) \/ Shutdown(c) \/ CancelCtx(c) \/ Crash(c)
             \/ Coordinator(c) \/ SchedulerExit(c)
      PROVE  [StoreNext]_jobs
  BY <1>9 DEF Start, Shutdown, CancelCtx, Crash, Coordinator, SchedulerExit,
              StopExecutor, StopCompleter, Finish, Advance
<1>10. ASSUME UNCHANGED vars
       PROVE  [StoreNext]_jobs
  BY <1>10
<1> QED BY <1>1, <1>2, <1>3, <1>4, <1>5, <1>6, <1>7, <1>8, <1>9, <1>10
        DEF Next, Producer, Completer

(* The budget of an event stays a natural number.                          *)
LEMMA SpendType ==
  ASSUME left \in [Event -> Nat], NEW e \in Event, Spend(e)
  PROVE  left' \in [Event -> Nat]
BY DEF Spend

LEMMA StatementFailsType ==
  ASSUME left \in [Event -> Nat], NEW c \in Client, StatementFails(c)
  PROVE  left' \in [Event -> Nat]
<1>1. "dbError" \in Event
  BY DEF Event
<1> QED BY <1>1, SpendType DEF StatementFails

(* One step keeps the types of channels and goroutines, and what they hold *)
(* in line with where they are.                                            *)
LEMMA MemoryTypeStep ==
  ASSUME TypeInv, [Next]_vars
  PROVE  MemoryTypeOK' /\ ControlOK'
<1> USE PipelineAssumption
    DEF TypeInv, TypeOK, MemoryTypeOK, ControlOK, clientVars, prodVars,
        workVars, compVars
<1>1. ASSUME NEW c \in Client, ProducerTick(c)
      PROVE  MemoryTypeOK' /\ ControlOK'
  <2>1. Room(c) \in Nat /\ Room(c) > 0 /\ BatchSize \in Nat
    BY <1>1 DEF ProducerTick, Room
  <2>2. Min({BatchSize, Room(c)}) \in Nat /\ Min({BatchSize, Room(c)}) <= Room(c)
    <3> HIDE DEF MemoryTypeOK, ControlOK
    <3>1. Room(c) \in Int /\ BatchSize \in Int
      BY <2>1
    <3>2. /\ Min({BatchSize, Room(c)}) \in {BatchSize, Room(c)}
          /\ Min({BatchSize, Room(c)}) <= Room(c)
      BY <3>1, MinOfTwo, Zenon
    <3> QED BY <2>1, <3>2
  <2>3. Min({BatchSize, Room(c)}) + Len(jobsCh[c]) <= BufferSize
    BY <2>1, <2>2 DEF Room
  <2> QED BY <1>1, <2>2, <2>3 DEF ProducerTick
<1>2. ASSUME NEW c \in Client, ProducerFetch(c)
      PROVE  MemoryTypeOK' /\ ControlOK'
  <2>1. PICK S \in NextJobs(Polls[c], limit[c]) :
          /\ \E b \in Batches(S) : batch' = [batch EXCEPT ![c] = b]
          /\ prodPc' = [prodPc EXCEPT ![c] = IF S = {} THEN "idle" ELSE "sending"]
    BY <1>2 DEF ProducerFetch
  <2>2. PICK b \in Batches(S) : batch' = [batch EXCEPT ![c] = b]
    BY <2>1
  <2>3. S \in SUBSET Job /\ IsFiniteSet(S)
    BY FetchedAreEligible, FS_Subset
  <2>4. b \in Seq(Copy) /\ Len(b) = Cardinality(S)
    BY <2>3, BatchOfFetched
  <2>5. b = << >> <=> S = {}
    BY <2>3, <2>4, FS_EmptySet, EmptySeq
  <2> QED BY <1>2, <2>1, <2>2, <2>4, <2>5 DEF ProducerFetch
<1>3. ASSUME NEW c \in Client, FetchError(c)
      PROVE  MemoryTypeOK' /\ ControlOK'
  <2>1. left' \in [Event -> Nat]
    BY <1>3, StatementFailsType DEF FetchError
  <2> QED BY <1>3, <2>1 DEF FetchError
<1>4. ASSUME NEW c \in Client, SendJob(c)
      PROVE  MemoryTypeOK' /\ ControlOK'
  <2>1. /\ Head(batch[c]) \in Copy
        /\ Tail(batch[c]) \in Seq(Copy)
        /\ Tail(batch[c]) = << >> <=> Len(batch[c]) = 1
    <3>1. batch[c] \in Seq(Copy) /\ batch[c] # << >>
      BY <1>4 DEF SendJob
    <3>2. /\ Head(batch[c]) \in Copy
          /\ Tail(batch[c]) \in Seq(Copy)
          /\ Len(Tail(batch[c])) = Len(batch[c]) - 1
      BY <3>1, HeadTailProperties
    <3>3. Tail(batch[c]) = << >> <=> Len(Tail(batch[c])) = 0
      BY <3>2, EmptySeq
    <3> QED BY <3>1, <3>2, <3>3
  <2>2. /\ Append(jobsCh[c], Head(batch[c])) \in Seq(Copy)
        /\ Len(Append(jobsCh[c], Head(batch[c]))) <= BufferSize
    BY <1>4, <2>1, AppendProperties DEF SendJob
  <2> QED BY <1>4, <2>1, <2>2 DEF SendJob
<1>5. ASSUME NEW c \in Client, AbandonBatch(c)
      PROVE  MemoryTypeOK' /\ ControlOK'
  BY <1>5 DEF AbandonBatch
<1>6. ASSUME NEW c \in Client, ProducerExit(c)
      PROVE  MemoryTypeOK' /\ ControlOK'
  BY <1>6 DEF ProducerExit
<1>7. ASSUME NEW c \in Client, NEW w \in Worker, TakeJob(c, w)
      PROVE  MemoryTypeOK' /\ ControlOK'
  BY <1>7, HeadTailProperties DEF TakeJob
<1>8. ASSUME NEW c \in Client, NEW w \in Worker, ExecuteJob(c, w)
      PROVE  MemoryTypeOK' /\ ControlOK'
  <2>1. workOn[c][w].job \in Job /\ workOn[c][w].attempt \in Nat
    BY <1>8 DEF ExecuteJob, Copy
  <2>2. PICK err \in Error \cup {"ok"} :
          workOn' = [workOn EXCEPT ![c][w] =
            [job |-> @.job, attempt |-> @.attempt, err |-> err]]
    BY <1>8 DEF ExecuteJob, Outcomes
  <2>3. [job |-> workOn[c][w].job, attempt |-> workOn[c][w].attempt,
         err |-> err] \in Result
    BY <2>1 DEF Result
  <2> QED BY <1>8, <2>2, <2>3 DEF ExecuteJob
<1>9. ASSUME NEW c \in Client, NEW w \in Worker, ReportResult(c, w)
      PROVE  MemoryTypeOK' /\ ControlOK'
  BY <1>9, AppendProperties DEF ReportResult
<1>10. ASSUME NEW c \in Client, NEW w \in Worker, DropResult(c, w)
      PROVE  MemoryTypeOK' /\ ControlOK'
  BY <1>10 DEF DropResult
<1>11. ASSUME NEW c \in Client, NEW w \in Worker, WorkerExit(c, w)
      PROVE  MemoryTypeOK' /\ ControlOK'
  BY <1>11 DEF WorkerExit
<1>12. ASSUME NEW c \in Client, TakeResult(c)
      PROVE  MemoryTypeOK' /\ ControlOK'
  BY <1>12, HeadTailProperties DEF TakeResult
<1>13. ASSUME NEW c \in Client, HandleResult(c)
      PROVE  MemoryTypeOK' /\ ControlOK'
  BY <1>13 DEF HandleResult, Settled
<1>14. ASSUME NEW c \in Client, HandleResultError(c)
      PROVE  MemoryTypeOK' /\ ControlOK'
  <2>1. left' \in [Event -> Nat]
    BY <1>14, StatementFailsType DEF HandleResultError
  <2> QED BY <1>14, <2>1 DEF HandleResultError, Settled
<1>15. ASSUME NEW c \in Client, CompleterExit(c)
      PROVE  MemoryTypeOK' /\ ControlOK'
  BY <1>15 DEF CompleterExit
<1>16. ASSUME NEW c \in Client, SchedulerTick(c) \/ SchedulerExit(c)
      PROVE  MemoryTypeOK' /\ ControlOK'
  BY <1>16 DEF SchedulerTick, SchedulerExit
<1>17. ASSUME NEW c \in Client, Start(c) \/ Coordinator(c)
      PROVE  MemoryTypeOK' /\ ControlOK'
  BY <1>17 DEF Start, Coordinator, StopExecutor, StopCompleter, Finish, Advance, Stage
<1>18. ASSUME NEW c \in Client, Shutdown(c)
      PROVE  MemoryTypeOK' /\ ControlOK'
  <2>1. "shutdown" \in Event
    BY DEF Event
  <2>2. left' \in [Event -> Nat]
    BY <1>18, <2>1, SpendType DEF Shutdown
  <2> QED BY <1>18, <2>2 DEF Shutdown, Advance, Stage
<1>19. ASSUME NEW c \in Client, CancelCtx(c)
      PROVE  MemoryTypeOK' /\ ControlOK'
  <2>1. "cancelCtx" \in Event
    BY DEF Event
  <2>2. left' \in [Event -> Nat]
    BY <1>19, <2>1, SpendType DEF CancelCtx
  <2> QED BY <1>19, <2>2 DEF CancelCtx
<1>20. ASSUME NEW c \in Client, Crash(c)
      PROVE  MemoryTypeOK' /\ ControlOK'
  <2>1. "crash" \in Event
    BY DEF Event
  <2>2. left' \in [Event -> Nat]
    BY <1>20, <2>1, SpendType DEF Crash
  <2> QED BY <1>20, <2>2 DEF Crash, Stage
<1>21. ASSUME NEW j \in Job, Enqueue(j) \/ BecomeDue(j) \/ Cancel(j)
      PROVE  MemoryTypeOK' /\ ControlOK'
  <2>1. "cancelJob" \in Event
    BY DEF Event
  <2>2. left' \in [Event -> Nat]
    BY <1>21, <2>1, SpendType DEF Enqueue, BecomeDue, Cancel
  <2> QED BY <1>21, <2>2 DEF Enqueue, BecomeDue, Cancel
<1>22. ASSUME UNCHANGED vars
      PROVE  MemoryTypeOK' /\ ControlOK'
  BY <1>22 DEF vars
<1> QED BY <1>1, <1>2, <1>3, <1>4, <1>5, <1>6, <1>7, <1>8, <1>9, <1>10, <1>11, <1>12, <1>13, <1>14, <1>15, <1>16, <1>17, <1>18, <1>19, <1>20, <1>21, <1>22
        DEF Next, Producer, Completer, WorkerStep

LEMMA TypeStep == TypeInv /\ [Next]_vars => TypeInv'
BY MemoryTypeStep, StepIsStatement, StoreTypeStep DEF TypeInv, TypeOK

LEMMA TypeInvariant == Spec => []TypeInv
BY TypeInit, TypeStep, PTL DEF Spec

(* Type correctness of the pipeline, for all constants: the channels never *)
(* hold more than their capacity.                                          *)
THEOREM TypeCorrect == Spec => []TypeOK
<1>1. TypeInv => TypeOK
  BY DEF TypeInv
<1> QED BY <1>1, TypeInvariant, PTL

(* The pipeline inherits from the table that live keys are unique: its     *)
(* retries cannot bring a cancelled job back next to the job that took     *)
(* over its idempotency key.                                               *)
THEOREM PipelineKeepsKeysUnique == Spec => []UniqueLiveKey
<1>1. Init => UniqueLiveKey
  BY DEF Init, StoreInit, NoRow, UniqueLiveKey, Live, Offerable
<1>2. TypeInv /\ UniqueLiveKey /\ [Next]_vars => UniqueLiveKey'
  BY StepIsStatement, UniqueLiveKeyStep DEF TypeInv, TypeOK
<1> QED BY <1>1, <1>2, TypeInvariant, PTL DEF Spec

-----------------------------------------------------------------------------
(* fetchAndSend always has room.  A stale limit is only ever too small,    *)
(* because nobody but the producer itself adds to the channel.             *)
LEMMA SendStep ==
  ASSUME TypeInv, SendNeverBlocks, [Next]_vars
  PROVE  SendNeverBlocks'
<1> USE PipelineAssumption
    DEF TypeInv, TypeOK, MemoryTypeOK, SendNeverBlocks, clientVars, prodVars,
        workVars, compVars
<1>1. ASSUME NEW c \in Client, ProducerFetch(c)
      PROVE  SendNeverBlocks'
  <2>1. PICK S \in NextJobs(Polls[c], limit[c]) :
          \E b \in Batches(S) : batch' = [batch EXCEPT ![c] = b]
    BY <1>1 DEF ProducerFetch
  <2>2. PICK b \in Batches(S) : batch' = [batch EXCEPT ![c] = b]
    BY <2>1
  <2>3. Polls[c] \in SUBSET Job
    OBVIOUS
  <2>4. S \subseteq Polls[c] /\ Cardinality(S) <= limit[c]
    <3> HIDE DEF MemoryTypeOK, SendNeverBlocks
    <3> QED BY <2>3, FetchedAreEligible
  <2>5. S \in SUBSET Job /\ Cardinality(S) <= limit[c]
    BY <2>3, <2>4
  <2>6. b \in Seq(Copy) /\ Len(b) = Cardinality(S)
    BY <2>5, BatchOfFetched
  <2>7. limit[c] + Len(jobsCh[c]) <= BufferSize
    BY <1>1 DEF ProducerFetch, ControlOK
  <2>8. Len(b) + Len(jobsCh[c]) <= BufferSize
    BY <2>5, <2>6, <2>7
  <2> QED BY <1>1, <2>2, <2>8 DEF ProducerFetch
<1>2. ASSUME NEW c \in Client, SendJob(c)
      PROVE  SendNeverBlocks'
  <2>1. batch[c] \in Seq(Copy) /\ batch[c] # << >> /\ jobsCh[c] \in Seq(Copy)
    BY <1>2 DEF SendJob, ControlOK
  <2>2. Len(Tail(batch[c])) = Len(batch[c]) - 1 /\ Head(batch[c]) \in Copy
    BY <2>1, HeadTailProperties
  <2>3. Len(Append(jobsCh[c], Head(batch[c]))) = Len(jobsCh[c]) + 1
    BY <2>1, <2>2, AppendProperties
  <2>4. Len(Tail(batch[c])) + Len(Append(jobsCh[c], Head(batch[c]))) <= BufferSize
    BY <2>1, <2>2, <2>3
  <2> QED BY <1>2, <2>4 DEF SendJob
<1>3. ASSUME NEW c \in Client, NEW w \in Worker, TakeJob(c, w)
      PROVE  SendNeverBlocks'
  <2>1. Len(Tail(jobsCh[c])) = Len(jobsCh[c]) - 1
    BY <1>3, HeadTailProperties DEF TakeJob
  <2>2. Len(batch[c]) + Len(Tail(jobsCh[c])) <= BufferSize
    BY <2>1
  <2> QED BY <1>3, <2>2 DEF TakeJob
<1>4. ASSUME NEW c \in Client, AbandonBatch(c)
      PROVE  SendNeverBlocks'
  <2>1. Len(<< >>) + Len(jobsCh[c]) <= BufferSize
    OBVIOUS
  <2> QED BY <1>4, <2>1 DEF AbandonBatch
<1>5. ASSUME NEW c \in Client, Crash(c)
      PROVE  SendNeverBlocks'
  <2>1. Len(<< >>) + Len(<< >>) <= BufferSize
    OBVIOUS
  <2> QED BY <1>5, <2>1 DEF Crash
<1>6. ASSUME UNCHANGED <<batch, jobsCh>>
      PROVE  SendNeverBlocks'
  BY <1>6
<1>7. ASSUME NEW c \in Client,
             \/ ProducerTick(c) \/ FetchError(c) \/ ProducerExit(c)
             \/ Completer(c) \/ SchedulerTick(c) \/ SchedulerExit(c)
             \/ Start(c) \/ Shutdown(c) \/ CancelCtx(c) \/ Coordinator(c)
      PROVE  UNCHANGED <<batch, jobsCh>>
  BY <1>7 DEF ProducerTick, FetchError, ProducerExit, Completer, TakeResult,
     HandleResult, HandleResultError, CompleterExit, SchedulerTick,
     SchedulerExit, Start, Shutdown, CancelCtx, Coordinator, StopExecutor,
     StopCompleter, Finish, Advance
<1>8. ASSUME NEW c \in Client, NEW w \in Worker,
             ExecuteJob(c, w) \/ ReportResult(c, w) \/ DropResult(c, w) \/ WorkerExit(c, w)
      PROVE  UNCHANGED <<batch, jobsCh>>
  BY <1>8 DEF ExecuteJob, ReportResult, DropResult, WorkerExit
<1>9. ASSUME NEW j \in Job, Enqueue(j) \/ BecomeDue(j) \/ Cancel(j)
      PROVE  UNCHANGED <<batch, jobsCh>>
  BY <1>9 DEF Enqueue, BecomeDue, Cancel
<1>10. ASSUME UNCHANGED vars
       PROVE  UNCHANGED <<batch, jobsCh>>
  BY <1>10 DEF vars
<1> QED BY <1>1, <1>2, <1>3, <1>4, <1>5, <1>6, <1>7, <1>8, <1>9, <1>10
        DEF Next, Producer, WorkerStep

(* For any sizes of batch and channel, the producer never blocks on a full *)
(* channel with claimed jobs in its hands.                                 *)
THEOREM ProducerNeverBlocks == Spec => []SendNeverBlocks
<1>1. Init => SendNeverBlocks
  BY PipelineAssumption DEF Init, SendNeverBlocks
<1>2. TypeInv /\ SendNeverBlocks /\ [Next]_vars => SendNeverBlocks'
  BY SendStep
<1> QED BY <1>1, <1>2, TypeInvariant, PTL DEF Spec

-----------------------------------------------------------------------------
(***************************************************************************)
(* A job is with one goroutine of one client at a time.  The inductive     *)
(* invariant joins two facts: within a client the copies of rows are       *)
(* spread over the channels and goroutines without repetition, and every   *)
(* copy agrees with its row, which names the client.  The second makes the *)
(* copies of different clients different, and keeps a fetch from claiming  *)
(* a job that is in flight: its row is running or cancelled, not available.*)
(***************************************************************************)
-----------------------------------------------------------------------------
(* Sequences of copies: the jobs in them, and how a channel operation      *)
(* changes them.                                                           *)
LEMMA JobsInAdd ==
  ASSUME NEW S, NEW x
  PROVE  JobsIn(S \cup {x}) = JobsIn(S) \cup {x.job}
BY DEF JobsIn

LEMMA JobsInEmpty == JobsIn({}) = {}
BY DEF JobsIn

LEMMA AppendCopy ==
  ASSUME NEW T, NEW s \in Seq(T), NEW x \in T
  PROVE  /\ Range(Append(s, x)) = Range(s) \cup {x}
         /\ Distinct(s) /\ x.job \notin JobsIn(Range(s)) => Distinct(Append(s, x))
<1>1. /\ Append(s, x) \in Seq(T)
      /\ Len(Append(s, x)) = Len(s) + 1
      /\ \A i \in 1..Len(s) : Append(s, x)[i] = s[i]
      /\ Append(s, x)[Len(s) + 1] = x
  BY AppendProperties
<1>2. /\ DOMAIN s = 1..Len(s) /\ Len(s) \in Nat
      /\ DOMAIN Append(s, x) = 1..Len(s) + 1
  BY <1>1
<1>3. Range(Append(s, x)) = Range(s) \cup {x}
  <2>1. ASSUME NEW y \in Range(Append(s, x)) PROVE y \in Range(s) \cup {x}
    BY <1>1, <1>2, <2>1 DEF Range
  <2>2. ASSUME NEW y \in Range(s) \cup {x} PROVE y \in Range(Append(s, x))
    BY <1>1, <1>2, <2>2 DEF Range
  <2> QED BY <2>1, <2>2
<1>4. ASSUME Distinct(s), x.job \notin JobsIn(Range(s))
      PROVE  Distinct(Append(s, x))
  <2>1. \A i \in 1..Len(s) : s[i].job # x.job
    BY <1>2, <1>4 DEF JobsIn, Range
  <2> QED BY <1>1, <1>2, <1>4, <2>1 DEF Distinct
<1> QED BY <1>3, <1>4

LEMMA TailCopy ==
  ASSUME NEW T, NEW s \in Seq(T), s # << >>, Distinct(s)
  PROVE  /\ Distinct(Tail(s))
         /\ Range(Tail(s)) \subseteq Range(s)
         /\ JobsIn(Range(Tail(s))) = JobsIn(Range(s)) \ {Head(s).job}
         /\ Head(s) \in Range(s)
         /\ Head(s) \in T
<1>1. /\ Head(s) = s[1] /\ Head(s) \in T
      /\ Tail(s) \in Seq(T)
      /\ Len(Tail(s)) = Len(s) - 1
      /\ \A i \in 1..Len(Tail(s)) : Tail(s)[i] = s[i+1]
  BY HeadTailProperties
<1>2. /\ DOMAIN s = 1..Len(s) /\ Len(s) \in Nat /\ Len(s) >= 1
      /\ DOMAIN Tail(s) = 1..Len(s) - 1
  BY <1>1, EmptySeq
<1>3. Distinct(Tail(s))
  <2> SUFFICES ASSUME NEW i \in 1..Len(s) - 1, NEW k \in 1..Len(s) - 1,
                      Tail(s)[i].job = Tail(s)[k].job
               PROVE  i = k
    BY <1>2 DEF Distinct
  <2>1. s[i+1].job = s[k+1].job
    BY <1>1, <1>2
  <2>2. i + 1 \in DOMAIN s /\ k + 1 \in DOMAIN s
    BY <1>2
  <2>3. i + 1 = k + 1
    BY <2>1, <2>2 DEF Distinct
  <2> QED BY <2>3
<1>4. \A x : x \in Range(Tail(s)) <=> \E i \in 2..Len(s) : x = s[i]
  <2>1. ASSUME NEW x \in Range(Tail(s)) PROVE \E i \in 2..Len(s) : x = s[i]
    <3>1. PICK k \in 1..Len(s) - 1 : x = Tail(s)[k]
      BY <1>2, <2>1 DEF Range
    <3>2. k + 1 \in 2..Len(s) /\ x = s[k + 1]
      BY <1>1, <1>2, <3>1
    <3> QED BY <3>2
  <2>2. ASSUME NEW i \in 2..Len(s) PROVE s[i] \in Range(Tail(s))
    <3>1. i - 1 \in DOMAIN Tail(s) /\ Tail(s)[i - 1] = s[i]
      BY <1>1, <1>2
    <3> QED BY <3>1 DEF Range
  <2> QED BY <2>1, <2>2
<1>5. Range(Tail(s)) \subseteq Range(s)
  BY <1>2, <1>4 DEF Range
<1>6. JobsIn(Range(Tail(s))) = JobsIn(Range(s)) \ {Head(s).job}
  <2>1. ASSUME NEW j \in JobsIn(Range(Tail(s)))
        PROVE  j \in JobsIn(Range(s)) /\ j # Head(s).job
    <3>1. PICK i \in 2..Len(s) : j = s[i].job
      BY <1>4, <2>1 DEF JobsIn
    <3>2. i \in DOMAIN s /\ 1 \in DOMAIN s /\ i # 1
      BY <1>2
    <3> QED BY <1>1, <3>1, <3>2 DEF JobsIn, Range, Distinct
  <2>2. ASSUME NEW j \in JobsIn(Range(s)), j # Head(s).job
        PROVE  j \in JobsIn(Range(Tail(s)))
    <3>1. PICK i \in DOMAIN s : j = s[i].job
      BY <2>2 DEF JobsIn, Range
    <3>2. i \in 2..Len(s)
      BY <1>1, <1>2, <2>2, <3>1
    <3> QED BY <1>4, <3>1, <3>2 DEF JobsIn
  <2> QED BY <2>1, <2>2
<1>7. Head(s) \in Range(s)
  BY <1>1, <1>2 DEF Range
<1> QED BY <1>1, <1>3, <1>5, <1>6, <1>7

-----------------------------------------------------------------------------
(* The inductive invariant.                                                *)
Disjoint(A, B, C, D, E) ==
  /\ A \cap B = {} /\ A \cap C = {} /\ A \cap D = {} /\ A \cap E = {}
  /\ B \cap C = {} /\ B \cap D = {} /\ B \cap E = {}
  /\ C \cap D = {} /\ C \cap E = {}
  /\ D \cap E = {}

WorkersDistinct(c) ==
  \A v, w \in HoldingWorkers(c) : workOn[c][v].job = workOn[c][w].job => v = w

Local(c) ==
  /\ Distinct(batch[c]) /\ Distinct(jobsCh[c]) /\ Distinct(resultsCh[c])
  /\ WorkersDistinct(c)
  /\ Disjoint(JobsIn(InBatch(c)), JobsIn(InJobsCh(c)), JobsIn(InWork(c)),
              JobsIn(InResults(c)), JobsIn(InSettling(c)))

DeliveryInv == TypeInv /\ (\A c \in Client : Local(c)) /\ CopyIsCurrent

(* The jobs a client holds, and a step of client c after which it holds    *)
(* those of S, and every other client what it held before.                 *)
HeldJobs(c) == JobsIn(Copies(c))

HoldsAfter(c, S) == /\ HeldJobs(c)' = S
                    /\ \A d \in Client \ {c} : HeldJobs(d)' = HeldJobs(d)

LEMMA HeldParts ==
  ASSUME NEW c
  PROVE  /\ HeldJobs(c) = JobsIn(InBatch(c)) \cup JobsIn(InJobsCh(c))
               \cup JobsIn(InWork(c)) \cup JobsIn(InResults(c))
               \cup JobsIn(InSettling(c))
         /\ HeldJobs(c)' = JobsIn(InBatch(c)') \cup JobsIn(InJobsCh(c)')
               \cup JobsIn(InWork(c)') \cup JobsIn(InResults(c)')
               \cup JobsIn(InSettling(c)')
BY DEF HeldJobs, Copies, JobsIn

(* A step that leaves the memory of client d alone.                        *)
Frame(d) == /\ UNCHANGED <<batch[d], jobsCh[d], resultsCh[d]>>
            /\ UNCHANGED <<workPc[d], workOn[d]>>
            /\ UNCHANGED <<compPc[d], settling[d]>>

LEMMA FrameKeeps ==
  ASSUME NEW d, Frame(d)
  PROVE  /\ Local(d) => Local(d)'
         /\ Copies(d)' = Copies(d)
<1> USE DEF Frame
<1>1. /\ InBatch(d)' = InBatch(d) /\ InJobsCh(d)' = InJobsCh(d)
      /\ InResults(d)' = InResults(d)
  BY DEF InBatch, InJobsCh, InResults
<1>2. HoldingWorkers(d)' = HoldingWorkers(d)
  BY DEF HoldingWorkers
<1>3. InWork(d)' = InWork(d)
  BY <1>2 DEF InWork
<1>4. InSettling(d)' = InSettling(d)
  BY DEF InSettling
<1>5. WorkersDistinct(d) => WorkersDistinct(d)'
  BY <1>2 DEF WorkersDistinct
<1>6. Copies(d)' = Copies(d)
  BY <1>1, <1>3, <1>4 DEF Copies
<1> QED BY <1>1, <1>3, <1>4, <1>5, <1>6 DEF Local

(* A step that only moves, drops or labels copies within client c.         *)
LEMMA MemoryStep ==
  ASSUME DeliveryInv, UNCHANGED jobs, NEW c \in Client, Local(c)',
         \A d \in Client \ {c} : Frame(d),
         \A x \in Copies(c)' : \E y \in Copies(c) :
           y.job = x.job /\ y.attempt = x.attempt
  PROVE  /\ (\A d \in Client : Local(d)') /\ CopyIsCurrent'
         /\ \A d \in Client \ {c} : HeldJobs(d)' = HeldJobs(d)
<1>1. \A d \in Client : Local(d)'
  BY FrameKeeps DEF DeliveryInv
<1>2. ASSUME NEW d \in Client, NEW x \in Copies(d)'
      PROVE  Current(d, x)'
  <2>1. CASE d = c
    BY <1>2, <2>1 DEF DeliveryInv, CopyIsCurrent, Current
  <2>2. CASE d # c
    BY <1>2, <2>2, FrameKeeps DEF DeliveryInv, CopyIsCurrent, Current
  <2> QED BY <2>1, <2>2
<1>3. \A d \in Client \ {c} : HeldJobs(d)' = HeldJobs(d)
  BY FrameKeeps DEF HeldJobs
<1> QED BY <1>1, <1>2, <1>3 DEF CopyIsCurrent

-----------------------------------------------------------------------------
(* The actions that move copies.  prodPc and schedPc do not matter here.   *)
LEMMA SendJobDelivers ==
  ASSUME DeliveryInv, NEW c \in Client, SendJob(c)
  PROVE  /\ (\A d \in Client : Local(d)') /\ CopyIsCurrent'
         /\ HoldsAfter(c, HeldJobs(c))
<1> USE DEF DeliveryInv, TypeInv, TypeOK, MemoryTypeOK
<1> DEFINE h == Head(batch[c])
<1>1. batch[c] \in Seq(Copy) /\ batch[c] # << >> /\ jobsCh[c] \in Seq(Copy)
  BY DEF SendJob, ControlOK
<1>2. /\ batch'[c] = Tail(batch[c]) /\ jobsCh'[c] = Append(jobsCh[c], h)
      /\ \A d \in Client \ {c} : Frame(d)
      /\ UNCHANGED <<jobs, resultsCh, workPc, workOn, compPc, settling>>
  BY DEF SendJob, Frame, workVars, compVars
<1>3. Local(c)
  OBVIOUS
<1> HIDE DEF DeliveryInv, TypeInv, TypeOK, MemoryTypeOK
<1>4. /\ Distinct(batch'[c]) /\ Range(batch'[c]) \subseteq Range(batch[c])
      /\ JobsIn(InBatch(c)') = JobsIn(InBatch(c)) \ {h.job}
      /\ h \in InBatch(c) /\ h \in Copy
  BY <1>1, <1>2, <1>3, TailCopy DEF Local, InBatch
<1>5. h.job \in JobsIn(InBatch(c))
  BY <1>4 DEF JobsIn
<1>6. h.job \notin JobsIn(InJobsCh(c))
  BY <1>3, <1>5 DEF Local, Disjoint
<1>7. Distinct(jobsCh'[c]) /\ InJobsCh(c)' = InJobsCh(c) \cup {h}
  BY <1>1, <1>2, <1>3, <1>4, <1>6, AppendCopy DEF Local, InJobsCh
<1>8. JobsIn(InJobsCh(c)') = JobsIn(InJobsCh(c)) \cup {h.job}
  BY <1>7, JobsInAdd
<1>9. /\ InWork(c)' = InWork(c) /\ InResults(c)' = InResults(c)
      /\ InSettling(c)' = InSettling(c)
      /\ WorkersDistinct(c) => WorkersDistinct(c)'
  BY <1>2 DEF InWork, HoldingWorkers, InResults, InSettling, WorkersDistinct
<1>10. Local(c)'
  BY <1>2, <1>3, <1>4, <1>5, <1>7, <1>8, <1>9 DEF Local, Disjoint
<1>11. Copies(c)' \subseteq Copies(c)
  BY <1>4, <1>7, <1>9 DEF Copies, InBatch
<1>12. HeldJobs(c)' = HeldJobs(c)
  BY <1>4, <1>5, <1>8, <1>9, HeldParts
<1> QED BY <1>2, <1>10, <1>11, <1>12, MemoryStep DEF HoldsAfter

(* A worker takes a copy, or gives its copy away.                          *)
LEMMA AddWorker ==
  ASSUME MemoryTypeOK, NEW c \in Client, NEW w \in Worker, WorkersDistinct(c),
         workPc[c][w] = "idle", NEW x, x.job \notin JobsIn(InWork(c)),
         workPc' = [workPc EXCEPT ![c][w] = "busy"],
         workOn' = [workOn EXCEPT ![c][w] = x]
  PROVE  InWork(c)' = InWork(c) \cup {x} /\ WorkersDistinct(c)'
<1>1. /\ w \notin HoldingWorkers(c)
      /\ HoldingWorkers(c)' = HoldingWorkers(c) \cup {w}
  BY DEF MemoryTypeOK, HoldingWorkers
<1>2. /\ workOn'[c][w] = x
      /\ \A v \in HoldingWorkers(c) : workOn'[c][v] = workOn[c][v]
  BY <1>1 DEF MemoryTypeOK, HoldingWorkers
<1>3. InWork(c)' = InWork(c) \cup {x}
  BY <1>1, <1>2 DEF InWork
<1>4. \A v \in HoldingWorkers(c) : workOn[c][v].job # x.job
  BY DEF InWork, JobsIn
<1>5. WorkersDistinct(c)'
  BY <1>1, <1>2, <1>4 DEF WorkersDistinct
<1> QED BY <1>3, <1>5

LEMMA FreeWorker ==
  ASSUME MemoryTypeOK, NEW c \in Client, NEW w \in HoldingWorkers(c),
         WorkersDistinct(c), NEW to \in {"idle", "exited"},
         workPc' = [workPc EXCEPT ![c][w] = to],
         workOn' = [workOn EXCEPT ![c][w] = NoCopy]
  PROVE  /\ InWork(c)' \subseteq InWork(c)
         /\ JobsIn(InWork(c)') = JobsIn(InWork(c)) \ {workOn[c][w].job}
         /\ WorkersDistinct(c)'
         /\ workOn[c][w] \in InWork(c)
<1>1. HoldingWorkers(c)' = HoldingWorkers(c) \ {w} /\ w \in Worker
  BY DEF MemoryTypeOK, HoldingWorkers
<1>2. \A v \in HoldingWorkers(c) \ {w} : workOn'[c][v] = workOn[c][v]
  BY DEF MemoryTypeOK, HoldingWorkers
<1>3. InWork(c)' = {workOn[c][v] : v \in HoldingWorkers(c) \ {w}}
  BY <1>1, <1>2 DEF InWork
<1>4. JobsIn(InWork(c)') = JobsIn(InWork(c)) \ {workOn[c][w].job}
  <2> DEFINE H == HoldingWorkers(c)
             f(v) == workOn[c][v]
  <2>1. JobsIn({f(v) : v \in H \ {w}}) = JobsIn({f(v) : v \in H}) \ {f(w).job}
    <3>1. \A u, v \in H : f(u).job = f(v).job => u = v
      BY DEF WorkersDistinct
    <3>2. w \in H
      OBVIOUS
    <3> HIDE DEF H, f
    <3>3. ASSUME NEW j \in JobsIn({f(v) : v \in H \ {w}})
          PROVE  j \in JobsIn({f(v) : v \in H}) /\ j # f(w).job
      <4>1. PICK v \in H \ {w} : j = f(v).job
        BY <3>3 DEF JobsIn
      <4> QED BY <3>1, <3>2, <4>1 DEF JobsIn
    <3>4. ASSUME NEW j \in JobsIn({f(v) : v \in H}), j # f(w).job
          PROVE  j \in JobsIn({f(v) : v \in H \ {w}})
      <4>1. PICK v \in H : j = f(v).job
        BY <3>4 DEF JobsIn
      <4>2. v \in H \ {w}
        BY <3>4, <4>1
      <4>3. f(v) \in {f(u) : u \in H \ {w}}
        BY <4>2
      <4> QED BY <4>1, <4>3 DEF JobsIn
    <3> QED BY <3>3, <3>4
  <2> QED BY <1>3, <2>1 DEF InWork
<1>5. WorkersDistinct(c)'
  BY <1>1, <1>2 DEF WorkersDistinct
<1> QED BY <1>3, <1>4, <1>5 DEF InWork

LEMMA TakeJobDelivers ==
  ASSUME DeliveryInv, NEW c \in Client, NEW w \in Worker, TakeJob(c, w)
  PROVE  /\ (\A d \in Client : Local(d)') /\ CopyIsCurrent'
         /\ HoldsAfter(c, HeldJobs(c))
<1> DEFINE h == Head(jobsCh[c])
<1>1. /\ jobsCh[c] \in Seq(Copy) /\ jobsCh[c] # << >>
      /\ jobsCh'[c] = Tail(jobsCh[c])
      /\ workPc[c][w] = "idle"
      /\ workPc' = [workPc EXCEPT ![c][w] = "busy"]
      /\ workOn' = [workOn EXCEPT ![c][w] = h]
      /\ \A d \in Client \ {c} : Frame(d)
      /\ UNCHANGED <<jobs, batch, resultsCh, compPc, settling>>
  BY DEF TakeJob, Frame, prodVars, compVars, DeliveryInv, TypeInv, TypeOK,
         MemoryTypeOK
<1>2. MemoryTypeOK /\ Local(c)
  BY DEF DeliveryInv, TypeInv, TypeOK
<1>3. /\ Distinct(jobsCh'[c]) /\ InJobsCh(c)' \subseteq InJobsCh(c)
      /\ JobsIn(InJobsCh(c)') = JobsIn(InJobsCh(c)) \ {h.job}
      /\ h \in InJobsCh(c)
  BY <1>1, <1>2, TailCopy DEF Local, InJobsCh
<1>4. h.job \in JobsIn(InJobsCh(c))
  BY <1>3 DEF JobsIn
<1>5. h.job \notin JobsIn(InWork(c)) /\ WorkersDistinct(c)
  BY <1>2, <1>4 DEF Local, Disjoint
<1>6. InWork(c)' = InWork(c) \cup {h} /\ WorkersDistinct(c)'
  BY <1>1, <1>2, <1>5, AddWorker
<1>7. JobsIn(InWork(c)') = JobsIn(InWork(c)) \cup {h.job}
  BY <1>6, JobsInAdd
<1>8. /\ InBatch(c)' = InBatch(c) /\ InResults(c)' = InResults(c)
      /\ InSettling(c)' = InSettling(c)
  BY <1>1 DEF InBatch, InResults, InSettling
<1>9. Local(c)'
  BY <1>1, <1>2, <1>3, <1>4, <1>6, <1>7, <1>8 DEF Local, Disjoint
<1>10. Copies(c)' \subseteq Copies(c)
  BY <1>3, <1>6, <1>8 DEF Copies
<1>11. HeldJobs(c)' = HeldJobs(c)
  BY <1>3, <1>4, <1>7, <1>8, HeldParts
<1> QED BY <1>1, <1>9, <1>10, <1>11, MemoryStep DEF HoldsAfter

(* The handler only adds its error to the copy.                            *)
LEMMA ExecuteJobDelivers ==
  ASSUME DeliveryInv, NEW c \in Client, NEW w \in Worker, ExecuteJob(c, w)
  PROVE  /\ (\A d \in Client : Local(d)') /\ CopyIsCurrent'
         /\ HoldsAfter(c, HeldJobs(c))
<1>1. /\ workPc[c][w] = "busy"
      /\ workPc' = [workPc EXCEPT ![c][w] = "reporting"]
      /\ \A d \in Client \ {c} : Frame(d)
      /\ UNCHANGED <<jobs, batch, jobsCh, resultsCh, compPc, settling>>
  BY DEF ExecuteJob, Frame, prodVars, compVars, DeliveryInv, TypeInv, TypeOK,
         MemoryTypeOK
<1>2. PICK err : workOn' = [workOn EXCEPT ![c][w] =
                   [job |-> @.job, attempt |-> @.attempt, err |-> err]]
  BY DEF ExecuteJob
<1>3. MemoryTypeOK /\ Local(c)
  BY DEF DeliveryInv, TypeInv, TypeOK
<1>4. HoldingWorkers(c)' = HoldingWorkers(c)
  BY <1>1, <1>3 DEF HoldingWorkers, MemoryTypeOK
<1>5. \A v \in HoldingWorkers(c) :
        /\ workOn'[c][v].job = workOn[c][v].job
        /\ workOn'[c][v].attempt = workOn[c][v].attempt
  BY <1>2, <1>3 DEF HoldingWorkers, MemoryTypeOK
<1>6. JobsIn(InWork(c)') = JobsIn(InWork(c)) /\ WorkersDistinct(c)'
  BY <1>3, <1>4, <1>5 DEF InWork, JobsIn, WorkersDistinct, Local
<1>7. /\ InBatch(c)' = InBatch(c) /\ InJobsCh(c)' = InJobsCh(c)
      /\ InResults(c)' = InResults(c) /\ InSettling(c)' = InSettling(c)
  BY <1>1 DEF InBatch, InJobsCh, InResults, InSettling
<1>8. Local(c)'
  BY <1>1, <1>3, <1>6, <1>7 DEF Local
<1>9. ASSUME NEW x \in Copies(c)'
      PROVE  \E y \in Copies(c) : y.job = x.job /\ y.attempt = x.attempt
  <2>1. CASE x \in InWork(c)'
    BY <1>4, <1>5, <2>1 DEF InWork, Copies
  <2>2. CASE x \notin InWork(c)'
    BY <1>7, <1>9, <2>2 DEF Copies
  <2> QED BY <2>1, <2>2
<1>10. HeldJobs(c)' = HeldJobs(c)
  BY <1>6, <1>7, HeldParts
<1> QED BY <1>1, <1>8, <1>9, <1>10, MemoryStep DEF HoldsAfter

LEMMA ReportResultDelivers ==
  ASSUME DeliveryInv, NEW c \in Client, NEW w \in Worker, ReportResult(c, w)
  PROVE  /\ (\A d \in Client : Local(d)') /\ CopyIsCurrent'
         /\ HoldsAfter(c, HeldJobs(c))
<1> DEFINE x == workOn[c][w]
<1>1. /\ workPc' = [workPc EXCEPT ![c][w] = "idle"]
      /\ workOn' = [workOn EXCEPT ![c][w] = NoCopy]
      /\ resultsCh'[c] = Append(resultsCh[c], x)
      /\ resultsCh[c] \in Seq(Result) /\ x \in Result
      /\ w \in HoldingWorkers(c)
      /\ \A d \in Client \ {c} : Frame(d)
      /\ UNCHANGED <<jobs, batch, jobsCh, compPc, settling>>
  BY DEF ReportResult, Frame, prodVars, compVars, DeliveryInv, TypeInv, TypeOK,
         MemoryTypeOK, ControlOK, HoldingWorkers
<1>2. MemoryTypeOK /\ Local(c)
  BY DEF DeliveryInv, TypeInv, TypeOK
<1>3. /\ InWork(c)' \subseteq InWork(c)
      /\ JobsIn(InWork(c)') = JobsIn(InWork(c)) \ {x.job}
      /\ WorkersDistinct(c)' /\ x \in InWork(c)
  BY <1>1, <1>2, FreeWorker DEF Local
<1>4. x.job \in JobsIn(InWork(c))
  BY <1>3 DEF JobsIn
<1>5. x.job \notin JobsIn(InResults(c))
  BY <1>2, <1>4 DEF Local, Disjoint
<1>6. Distinct(resultsCh'[c]) /\ InResults(c)' = InResults(c) \cup {x}
  BY <1>1, <1>2, <1>5, AppendCopy DEF Local, InResults
<1>7. JobsIn(InResults(c)') = JobsIn(InResults(c)) \cup {x.job}
  BY <1>6, JobsInAdd
<1>8. /\ InBatch(c)' = InBatch(c) /\ InJobsCh(c)' = InJobsCh(c)
      /\ InSettling(c)' = InSettling(c)
  BY <1>1 DEF InBatch, InJobsCh, InSettling
<1>9. Local(c)'
  BY <1>1, <1>2, <1>3, <1>4, <1>6, <1>7, <1>8 DEF Local, Disjoint
<1>10. Copies(c)' \subseteq Copies(c)
  BY <1>3, <1>6, <1>8 DEF Copies
<1>11. HeldJobs(c)' = HeldJobs(c)
  BY <1>3, <1>4, <1>7, <1>8, HeldParts
<1> QED BY <1>1, <1>9, <1>10, <1>11, MemoryStep DEF HoldsAfter

LEMMA DropResultDelivers ==
  ASSUME DeliveryInv, NEW c \in Client, NEW w \in Worker, DropResult(c, w)
  PROVE  /\ (\A d \in Client : Local(d)') /\ CopyIsCurrent'
         /\ HoldsAfter(c, HeldJobs(c) \ {workOn[c][w].job})
<1>1. /\ workPc' = [workPc EXCEPT ![c][w] = "exited"]
      /\ workOn' = [workOn EXCEPT ![c][w] = NoCopy]
      /\ w \in HoldingWorkers(c)
      /\ \A d \in Client \ {c} : Frame(d)
      /\ UNCHANGED <<jobs, batch, jobsCh, resultsCh, compPc, settling>>
  BY DEF DropResult, Frame, prodVars, compVars, DeliveryInv, TypeInv, TypeOK,
         MemoryTypeOK, HoldingWorkers
<1>2. MemoryTypeOK /\ Local(c)
  BY DEF DeliveryInv, TypeInv, TypeOK
<1>3. /\ InWork(c)' \subseteq InWork(c)
      /\ JobsIn(InWork(c)') = JobsIn(InWork(c)) \ {workOn[c][w].job}
      /\ WorkersDistinct(c)' /\ workOn[c][w] \in InWork(c)
  BY <1>1, <1>2, FreeWorker DEF Local
<1>4. /\ InBatch(c)' = InBatch(c) /\ InJobsCh(c)' = InJobsCh(c)
      /\ InResults(c)' = InResults(c) /\ InSettling(c)' = InSettling(c)
  BY <1>1 DEF InBatch, InJobsCh, InResults, InSettling
<1>5. Local(c)'
  BY <1>1, <1>2, <1>3, <1>4 DEF Local, Disjoint
<1>6. Copies(c)' \subseteq Copies(c)
  BY <1>3, <1>4 DEF Copies
<1>7. HeldJobs(c)' = HeldJobs(c) \ {workOn[c][w].job}
  <2>1. workOn[c][w].job \in JobsIn(InWork(c))
    BY <1>3 DEF JobsIn
  <2> QED BY <1>2, <1>3, <1>4, <2>1, HeldParts DEF Local, Disjoint
<1> QED BY <1>1, <1>5, <1>6, <1>7, MemoryStep DEF HoldsAfter

LEMMA AbandonBatchDelivers ==
  ASSUME DeliveryInv, NEW c \in Client, AbandonBatch(c)
  PROVE  /\ (\A d \in Client : Local(d)') /\ CopyIsCurrent'
         /\ HoldsAfter(c, HeldJobs(c) \ JobsIn(InBatch(c)))
<1>1. /\ batch'[c] = << >>
      /\ \A d \in Client \ {c} : Frame(d)
      /\ UNCHANGED <<jobs, jobsCh, resultsCh, workPc, workOn, compPc, settling>>
  BY DEF AbandonBatch, Frame, workVars, compVars, DeliveryInv, TypeInv, TypeOK,
         MemoryTypeOK
<1>2. Distinct(batch'[c]) /\ InBatch(c)' = {}
  BY <1>1 DEF Distinct, InBatch, Range
<1>3. /\ InWork(c)' = InWork(c) /\ InJobsCh(c)' = InJobsCh(c)
      /\ InResults(c)' = InResults(c) /\ InSettling(c)' = InSettling(c)
      /\ WorkersDistinct(c) => WorkersDistinct(c)'
  BY <1>1 DEF InWork, HoldingWorkers, InJobsCh, InResults, InSettling,
              WorkersDistinct
<1>4. Local(c)'
  BY <1>1, <1>2, <1>3, JobsInEmpty DEF DeliveryInv, Local, Disjoint
<1>5. Copies(c)' \subseteq Copies(c)
  BY <1>2, <1>3 DEF Copies
<1>6. HeldJobs(c)' = HeldJobs(c) \ JobsIn(InBatch(c))
  BY <1>2, <1>3, HeldParts, JobsInEmpty DEF DeliveryInv, Local,
     Disjoint
<1> QED BY <1>1, <1>4, <1>5, <1>6, MemoryStep DEF HoldsAfter

LEMMA TakeResultDelivers ==
  ASSUME DeliveryInv, NEW c \in Client, TakeResult(c)
  PROVE  /\ (\A d \in Client : Local(d)') /\ CopyIsCurrent'
         /\ HoldsAfter(c, HeldJobs(c))
<1> DEFINE h == Head(resultsCh[c])
<1>1. /\ resultsCh[c] \in Seq(Result) /\ resultsCh[c] # << >>
      /\ resultsCh'[c] = Tail(resultsCh[c])
      /\ compPc[c] = "idle" /\ compPc'[c] = "settling" /\ settling'[c] = h
      /\ \A d \in Client \ {c} : Frame(d)
      /\ UNCHANGED <<jobs, batch, jobsCh, workPc, workOn>>
  BY DEF TakeResult, Frame, prodVars, workVars, DeliveryInv, TypeInv, TypeOK,
         MemoryTypeOK
<1>2. Local(c)
  BY DEF DeliveryInv
<1>3. /\ Distinct(resultsCh'[c]) /\ InResults(c)' \subseteq InResults(c)
      /\ JobsIn(InResults(c)') = JobsIn(InResults(c)) \ {h.job}
      /\ h \in InResults(c)
  BY <1>1, <1>2, TailCopy DEF Local, InResults
<1>4. h.job \in JobsIn(InResults(c))
  BY <1>3 DEF JobsIn
<1>5. InSettling(c) = {} /\ InSettling(c)' = {h}
  BY <1>1 DEF InSettling
<1>6. JobsIn(InSettling(c)') = {h.job}
  BY <1>5 DEF JobsIn
<1>7. /\ InBatch(c)' = InBatch(c) /\ InJobsCh(c)' = InJobsCh(c)
      /\ InWork(c)' = InWork(c)
      /\ WorkersDistinct(c) => WorkersDistinct(c)'
  BY <1>1 DEF InBatch, InJobsCh, InWork, HoldingWorkers, WorkersDistinct
<1>8. Local(c)'
  BY <1>1, <1>2, <1>3, <1>4, <1>6, <1>7 DEF Local, Disjoint
<1>9. Copies(c)' \subseteq Copies(c)
  BY <1>3, <1>5, <1>7 DEF Copies
<1>10. HeldJobs(c)' = HeldJobs(c)
  <2>1. JobsIn(InSettling(c)) = {}
    BY <1>5, JobsInEmpty
  <2> QED BY <1>3, <1>4, <1>6, <1>7, <2>1, HeldParts
<1> QED BY <1>1, <1>8, <1>9, <1>10, MemoryStep DEF HoldsAfter

(* The completer lets go of the result it has written, or failed to write. *)
LEMMA SettledFrees ==
  ASSUME MemoryTypeOK, NEW c \in Client, Settled(c), compPc[c] = "settling",
         UNCHANGED <<batch, jobsCh, resultsCh, workPc, workOn>>
  PROVE  /\ Local(c) => Local(c)'
         /\ Copies(c)' \subseteq Copies(c)
         /\ Local(c) => HeldJobs(c)' = HeldJobs(c) \ {settling[c].job}
         /\ settling[c] \in Copies(c)
         /\ \A d \in Client \ {c} : Frame(d)
<1>1. /\ compPc'[c] = "idle"
      /\ \A d \in Client \ {c} : Frame(d)
  BY DEF Settled, Frame, MemoryTypeOK
<1>2. InSettling(c)' = {} /\ InSettling(c) = {settling[c]}
  BY <1>1 DEF InSettling
<1>3. /\ InBatch(c)' = InBatch(c) /\ InJobsCh(c)' = InJobsCh(c)
      /\ InWork(c)' = InWork(c) /\ InResults(c)' = InResults(c)
      /\ WorkersDistinct(c) => WorkersDistinct(c)'
  BY DEF InBatch, InJobsCh, InWork, HoldingWorkers, InResults, WorkersDistinct
<1>4. Local(c) => Local(c)'
  BY <1>2, <1>3, JobsInEmpty DEF Local, Disjoint
<1>5. Local(c) => HeldJobs(c)' = HeldJobs(c) \ {settling[c].job}
  <2>1. JobsIn(InSettling(c)) = {settling[c].job}
    BY <1>2 DEF JobsIn
  <2>2. JobsIn(InSettling(c)') = {}
    BY <1>2, JobsInEmpty
  <2> QED BY <1>3, <2>1, <2>2, HeldParts DEF Local, Disjoint
<1> QED BY <1>1, <1>2, <1>3, <1>4, <1>5 DEF Copies

LEMMA HandleResultErrorDelivers ==
  ASSUME DeliveryInv, NEW c \in Client, HandleResultError(c)
  PROVE  /\ (\A d \in Client : Local(d)') /\ CopyIsCurrent'
         /\ HoldsAfter(c, HeldJobs(c) \ {settling[c].job})
<1>1. /\ HeldJobs(c)' = HeldJobs(c) \ {settling[c].job}
      /\ Local(c)' /\ Copies(c)' \subseteq Copies(c)
      /\ \A d \in Client \ {c} : Frame(d)
      /\ UNCHANGED jobs
  BY SettledFrees DEF HandleResultError, DeliveryInv, TypeInv, TypeOK, prodVars,
     workVars
<1> QED BY <1>1, MemoryStep DEF HoldsAfter

LEMMA CrashDelivers ==
  ASSUME DeliveryInv, NEW c \in Client, Crash(c)
  PROVE  /\ (\A d \in Client : Local(d)') /\ CopyIsCurrent'
         /\ HoldsAfter(c, {})
<1>1. /\ batch'[c] = << >> /\ jobsCh'[c] = << >> /\ resultsCh'[c] = << >>
      /\ \A w \in Worker : workPc'[c][w] = "exited"
      /\ compPc'[c] = "exited"
      /\ \A d \in Client \ {c} : Frame(d)
      /\ UNCHANGED jobs
  BY DEF Crash, Frame, DeliveryInv, TypeInv, TypeOK, MemoryTypeOK
<1>2. /\ InBatch(c)' = {} /\ InJobsCh(c)' = {} /\ InResults(c)' = {}
      /\ Distinct(batch'[c]) /\ Distinct(jobsCh'[c]) /\ Distinct(resultsCh'[c])
  BY <1>1 DEF InBatch, InJobsCh, InResults, Range, Distinct
<1>3. HoldingWorkers(c)' = {} /\ InSettling(c)' = {}
  BY <1>1 DEF HoldingWorkers, InSettling
<1>4. InWork(c)' = {} /\ WorkersDistinct(c)'
  BY <1>3 DEF InWork, WorkersDistinct
<1>5. Local(c)'
  BY <1>2, <1>3, <1>4, JobsInEmpty DEF Local, Disjoint
<1>6. Copies(c)' = {}
  BY <1>2, <1>3, <1>4 DEF Copies
<1>7. HeldJobs(c)' = {}
  BY <1>6, JobsInEmpty DEF HeldJobs
<1> QED BY <1>1, <1>5, <1>6, <1>7, MemoryStep DEF HoldsAfter

-----------------------------------------------------------------------------
(* The statements.                                                         *)
LEMMA CopiesTyped ==
  ASSUME TypeInv, NEW c \in Client, NEW x \in Copies(c)
  PROVE  x.job \in Job /\ x.attempt \in Nat
<1> USE DEF TypeInv, TypeOK, MemoryTypeOK
<1>1. /\ InBatch(c) \subseteq Copy /\ InJobsCh(c) \subseteq Copy
      /\ InResults(c) \subseteq Result
  BY DEF InBatch, InJobsCh, InResults, Range
<1>2. InWork(c) \subseteq Copy \cup Result
  BY DEF InWork, HoldingWorkers, ControlOK
<1>3. InSettling(c) \subseteq Result
  BY DEF InSettling, ControlOK
<1>4. x \in Copy \cup Result
  BY <1>1, <1>2, <1>3 DEF Copies
<1> QED BY <1>4 DEF Copy, Result

(* A statement that leaves the rows of the copies in flight current.       *)
LEMMA StatementStep ==
  ASSUME DeliveryInv, \A d \in Client : Frame(d),
         \A d \in Client : \A x \in Copies(d) : Current(d, x) => Current(d, x)'
  PROVE  /\ (\A d \in Client : Local(d)') /\ CopyIsCurrent'
         /\ \A d \in Client : HeldJobs(d)' = HeldJobs(d)
BY FrameKeeps DEF DeliveryInv, CopyIsCurrent, HeldJobs

(* A row that is not available is not touched by a fetch.                  *)
LEMMA FetchLeavesCopies ==
  ASSUME TypeInv, NEW c \in Client, NEW S \in SUBSET Job, FetchJobs(c, S),
         \A j \in S : jobs[j].state = "available",
         NEW d \in Client, NEW x \in Copies(d), Current(d, x)
  PROVE  Current(d, x)' /\ x.job \notin S
<1>1. x.job \in Job
  BY CopiesTyped
<1>2. x.job \notin S
  BY DEF Current
<1>3. jobs'[x.job] = jobs[x.job]
  BY <1>1, <1>2 DEF FetchJobs
<1> QED BY <1>2, <1>3 DEF Current

LEMMA FetchErrorDelivers ==
  ASSUME DeliveryInv, NEW c \in Client, FetchError(c)
  PROVE  /\ (\A d \in Client : Local(d)') /\ CopyIsCurrent'
         /\ \A d \in Client : HeldJobs(d)' = HeldJobs(d)
<1>1. PICK S \in NextJobs(Polls[c], limit[c]) \cup {{}} : FetchJobs(c, S)
  BY DEF FetchError
<1>2. Polls[c] \in SUBSET Job
  BY PipelineAssumption
<1>3. S \in SUBSET Job /\ \A j \in S : jobs[j].state = "available"
  <2>1. CASE S \in NextJobs(Polls[c], limit[c])
    BY <1>2, <2>1, FetchedAreEligible
  <2>2. CASE S = {}
    BY <2>2
  <2> QED BY <2>1, <2>2
<1>4. \A d \in Client : \A x \in Copies(d) : Current(d, x) => Current(d, x)'
  BY <1>1, <1>3, FetchLeavesCopies DEF DeliveryInv
<1>5. \A d \in Client : Frame(d)
  BY DEF FetchError, Frame, workVars, compVars
<1> QED BY <1>4, <1>5, StatementStep

(* The claimed rows were available, hence no copy of them is in flight.    *)
LEMMA ProducerFetchDelivers ==
  ASSUME DeliveryInv, NEW c \in Client, ProducerFetch(c)
  PROVE  /\ (\A d \in Client : Local(d)') /\ CopyIsCurrent'
         /\ \E S \in NextJobs(Polls[c], limit[c]) :
              FetchJobs(c, S) /\ HoldsAfter(c, HeldJobs(c) \cup S)
<1>1. PICK S \in NextJobs(Polls[c], limit[c]) :
        /\ FetchJobs(c, S)
        /\ \E b \in Batches(S) : batch' = [batch EXCEPT ![c] = b]
  BY DEF ProducerFetch
<1>2. PICK b \in Batches(S) : batch' = [batch EXCEPT ![c] = b]
  BY <1>1
<1>3. Polls[c] \in SUBSET Job
  BY PipelineAssumption
<1>4. S \in SUBSET Job /\ \A j \in S : jobs[j].state = "available"
  BY <1>3, FetchedAreEligible
<1>5. StoreTypeOK /\ MemoryTypeOK /\ ControlOK /\ TypeInv /\ Local(c)
  BY DEF DeliveryInv, TypeInv, TypeOK
<1>6. /\ b \in Seq(Copy)
      /\ \A i \in DOMAIN b : /\ b[i].job \in S
                             /\ b[i].attempt = jobs[b[i].job].attempt + 1
      /\ Distinct(b)
      /\ \A j \in S : \E i \in DOMAIN b : b[i].job = j
  BY <1>4, <1>5, BatchOfFetched DEF Distinct
<1>7. /\ batch'[c] = b /\ batch[c] = << >>
      /\ \A d \in Client \ {c} : Frame(d)
      /\ UNCHANGED <<jobsCh, resultsCh, workPc, workOn, compPc, settling>>
  BY <1>2, <1>5 DEF ProducerFetch, Frame, workVars, compVars, MemoryTypeOK,
                    ControlOK
<1>8. /\ InWork(c)' = InWork(c) /\ InJobsCh(c)' = InJobsCh(c)
      /\ InResults(c)' = InResults(c) /\ InSettling(c)' = InSettling(c)
      /\ WorkersDistinct(c) => WorkersDistinct(c)'
  BY <1>7 DEF InWork, HoldingWorkers, InJobsCh, InResults, InSettling,
              WorkersDistinct
<1>9. \A d \in Client : \A x \in Copies(d) : Current(d, x)' /\ x.job \notin S
  BY <1>1, <1>4, <1>5, FetchLeavesCopies DEF DeliveryInv, CopyIsCurrent
<1>10. InBatch(c) = {} /\ InBatch(c)' = Range(b) /\ JobsIn(InBatch(c)') = S
  BY <1>6, <1>7 DEF InBatch, Range, JobsIn
<1>11. Local(c)'
  <2>1. /\ S \cap JobsIn(InJobsCh(c)) = {} /\ S \cap JobsIn(InWork(c)) = {}
        /\ S \cap JobsIn(InResults(c)) = {} /\ S \cap JobsIn(InSettling(c)) = {}
    BY <1>9 DEF Copies, JobsIn
  <2> QED BY <1>5, <1>6, <1>7, <1>8, <1>10, <2>1 DEF Local, Disjoint
<1>12. ASSUME NEW x \in InBatch(c)'
       PROVE  Current(c, x)'
  <2>1. PICK i \in DOMAIN b : x = b[i]
    BY <1>10, <1>12 DEF Range
  <2>2. x.job \in S /\ x.job \in Job /\ x.attempt = jobs[x.job].attempt + 1
    BY <1>4, <1>6, <2>1
  <2>3. jobs'[x.job] = [jobs[x.job] EXCEPT !.state = "running",
                                           !.attempt = @ + 1, !.by = c]
    BY <1>1, <2>2 DEF FetchJobs
  <2>4. jobs[x.job] \in Row
    BY <1>5, <2>2 DEF StoreTypeOK
  <2> QED BY <2>2, <2>3, <2>4 DEF Current, Row
<1>13. \A x \in Copies(c)' : Current(c, x)'
  <2>1. \A x \in Copies(c)' : x \in InBatch(c)' \/ x \in Copies(c)
    BY <1>8 DEF Copies
  <2> QED BY <1>9, <1>12, <2>1
<1>14. \A d \in Client \ {c} : Local(d)' /\ Copies(d)' = Copies(d)
  BY <1>7, FrameKeeps DEF DeliveryInv
<1>15. ASSUME NEW d \in Client, NEW x \in Copies(d)'
       PROVE  Current(d, x)'
  BY <1>9, <1>13, <1>14, <1>15
<1>16. HoldsAfter(c, HeldJobs(c) \cup S)
  <2>1. HeldJobs(c)' = HeldJobs(c) \cup S
    BY <1>8, <1>10, HeldParts, JobsInEmpty
  <2>2. \A d \in Client \ {c} : HeldJobs(d)' = HeldJobs(d)
    BY <1>14 DEF HeldJobs
  <2> QED BY <2>1, <2>2 DEF HoldsAfter
<1> QED BY <1>1, <1>11, <1>14, <1>15, <1>16 DEF CopyIsCurrent

(* The row that is written has no other copy: not with this client, whose  *)
(* copies are of different jobs, and not with others, whose rows name them.*)
LEMMA HandleResultDelivers ==
  ASSUME DeliveryInv, NEW c \in Client, HandleResult(c)
  PROVE  /\ (\A d \in Client : Local(d)') /\ CopyIsCurrent'
         /\ HoldsAfter(c, HeldJobs(c) \ {settling[c].job})
<1> DEFINE r == settling[c]
<1>1. /\ Local(c)' /\ Copies(c)' \subseteq Copies(c)
      /\ HeldJobs(c)' = HeldJobs(c) \ {r.job}
      /\ r \in Copies(c)
      /\ \A d \in Client \ {c} : Frame(d)
  BY SettledFrees DEF HandleResult, DeliveryInv, TypeInv, TypeOK, prodVars,
     workVars
<1>2. TypeInv /\ StoreTypeOK
  BY DEF DeliveryInv, TypeInv, TypeOK
<1>3. \A j \in Job : j # r.job => jobs'[j] = jobs[j]
  BY <1>2 DEF HandleResult, CompleteJob, FailJob, StoreTypeOK
<1>4. \A d \in Client \ {c} : Local(d)' /\ Copies(d)' = Copies(d)
  BY <1>1, FrameKeeps DEF DeliveryInv
<1>5. jobs[r.job].by = c
  BY <1>1 DEF DeliveryInv, CopyIsCurrent, Current
<1>6. ASSUME NEW d \in Client, NEW x \in Copies(d)'
      PROVE  Current(d, x)'
  <2>1. x \in Copies(d)
    BY <1>1, <1>4, <1>6
  <2>2. Current(d, x) /\ x.job \in Job
    BY <1>2, <2>1, CopiesTyped DEF DeliveryInv, CopyIsCurrent
  <2>3. x.job # r.job
    BY <1>1, <1>5, <1>6, <2>2 DEF Current, HeldJobs, JobsIn
  <2> QED BY <1>3, <2>2, <2>3 DEF Current
<1>7. HoldsAfter(c, HeldJobs(c) \ {r.job})
  BY <1>1, <1>4 DEF HoldsAfter, HeldJobs
<1> QED BY <1>1, <1>4, <1>6, <1>7 DEF CopyIsCurrent

(* The scheduler does not promote running or cancelled rows, nothing is    *)
(* inserted over a row, and cancelling is all that may happen to one in    *)
(* flight.                                                                 *)
LEMMA TableStepDelivers ==
  ASSUME DeliveryInv,
         \/ \E c \in Client : SchedulerTick(c)
         \/ \E j \in Job : Enqueue(j) \/ BecomeDue(j) \/ Cancel(j)
  PROVE  /\ (\A d \in Client : Local(d)') /\ CopyIsCurrent'
         /\ \A d \in Client : HeldJobs(d)' = HeldJobs(d)
<1>1. \A d \in Client : Frame(d)
  BY DEF SchedulerTick, Enqueue, BecomeDue, Cancel, Frame, prodVars, workVars,
         compVars
<1>2. StoreTypeOK /\ TypeInv
  BY DEF DeliveryInv, TypeInv, TypeOK
<1>3. ASSUME NEW d \in Client, NEW x \in Copies(d), Current(d, x)
      PROVE  Current(d, x)'
  <2>1. x.job \in Job /\ jobs[x.job] \in Row
    BY <1>2, CopiesTyped DEF StoreTypeOK
  <2>2. CASE PromoteScheduledJobs
    BY <1>3, <2>1, <2>2 DEF PromoteScheduledJobs, PromotableStates, Current
  <2>3. ASSUME NEW j \in Job, NEW st, InsertJob(j, st)
        PROVE  Current(d, x)'
    BY <1>2, <1>3, <2>1, <2>3 DEF InsertJob, Current, StoreTypeOK
  <2>4. ASSUME NEW j \in Job, TimePasses(j) \/ CancelJob(j)
        PROVE  Current(d, x)'
    <3>1. CASE j # x.job
      BY <1>2, <1>3, <2>1, <2>4, <3>1 DEF TimePasses, CancelJob, Current,
         StoreTypeOK
    <3>2. CASE TimePasses(x.job)
      BY <1>2, <1>3, <2>1, <3>2 DEF TimePasses, Current, StoreTypeOK, Row
    <3>3. CASE CancelJob(x.job)
      BY <1>2, <1>3, <2>1, <3>3 DEF CancelJob, Current, StoreTypeOK, Row
    <3> QED BY <2>4, <3>1, <3>2, <3>3
  <2> QED BY <2>2, <2>3, <2>4 DEF SchedulerTick, Enqueue, BecomeDue, Cancel
<1> QED BY <1>1, <1>3, StatementStep

(* A goroutine that exits holds nothing.                                   *)
LEMMA WorkerExitDelivers ==
  ASSUME DeliveryInv, NEW c \in Client, NEW w \in Worker, WorkerExit(c, w)
  PROVE  /\ (\A d \in Client : Local(d)') /\ CopyIsCurrent'
         /\ HoldsAfter(c, HeldJobs(c))
<1>1. /\ \A d \in Client \ {c} : Frame(d)
      /\ UNCHANGED <<jobs, batch, jobsCh, resultsCh, workOn, compPc, settling>>
  BY DEF WorkerExit, Frame, prodVars, compVars, DeliveryInv, TypeInv, TypeOK,
         MemoryTypeOK
<1>2. HoldingWorkers(c)' = HoldingWorkers(c)
  BY DEF WorkerExit, HoldingWorkers, DeliveryInv, TypeInv, TypeOK, MemoryTypeOK
<1>3. /\ InBatch(c)' = InBatch(c) /\ InJobsCh(c)' = InJobsCh(c)
      /\ InWork(c)' = InWork(c) /\ InResults(c)' = InResults(c)
      /\ InSettling(c)' = InSettling(c)
      /\ WorkersDistinct(c) => WorkersDistinct(c)'
  BY <1>1, <1>2 DEF InBatch, InJobsCh, InWork, InResults, InSettling,
                    WorkersDistinct
<1>4. Local(c)' /\ Copies(c)' = Copies(c)
  BY <1>1, <1>3 DEF DeliveryInv, Local, Copies
<1>5. HeldJobs(c)' = HeldJobs(c)
  BY <1>4 DEF HeldJobs
<1> QED BY <1>1, <1>4, <1>5, MemoryStep DEF HoldsAfter

LEMMA CompleterExitDelivers ==
  ASSUME DeliveryInv, NEW c \in Client, CompleterExit(c)
  PROVE  /\ (\A d \in Client : Local(d)') /\ CopyIsCurrent'
         /\ HoldsAfter(c, HeldJobs(c))
<1>1. /\ \A d \in Client \ {c} : Frame(d)
      /\ compPc[c] = "idle" /\ compPc'[c] = "exited"
      /\ UNCHANGED <<jobs, batch, jobsCh, resultsCh, workPc, workOn, settling>>
  BY DEF CompleterExit, Frame, prodVars, workVars, DeliveryInv, TypeInv, TypeOK,
         MemoryTypeOK
<1>2. /\ InBatch(c)' = InBatch(c) /\ InJobsCh(c)' = InJobsCh(c)
      /\ InWork(c)' = InWork(c) /\ InResults(c)' = InResults(c)
      /\ InSettling(c)' = InSettling(c)
      /\ WorkersDistinct(c) => WorkersDistinct(c)'
  BY <1>1 DEF InBatch, InJobsCh, InWork, HoldingWorkers, InResults, InSettling,
              WorkersDistinct
<1>3. Local(c)' /\ Copies(c)' = Copies(c)
  BY <1>1, <1>2 DEF DeliveryInv, Local, Copies
<1>4. HeldJobs(c)' = HeldJobs(c)
  BY <1>3 DEF HeldJobs
<1> QED BY <1>1, <1>3, <1>4, MemoryStep DEF HoldsAfter

(* Steps that concern no copy at all.                                      *)
Quiet(c) ==
  \/ ProducerTick(c) \/ ProducerExit(c) \/ Start(c) \/ Shutdown(c)
  \/ CancelCtx(c) \/ Coordinator(c) \/ SchedulerExit(c)

LEMMA QuietDelivers ==
  ASSUME DeliveryInv, (\E c \in Client : Quiet(c)) \/ UNCHANGED vars
  PROVE  /\ (\A d \in Client : Local(d)') /\ CopyIsCurrent'
         /\ \A d \in Client : HeldJobs(d)' = HeldJobs(d)
         /\ UNCHANGED jobs
<1>1. (\A d \in Client : Frame(d)) /\ UNCHANGED jobs
  <2>1. ASSUME NEW c \in Client, Quiet(c)
        PROVE  (\A d \in Client : Frame(d)) /\ UNCHANGED jobs
    BY <2>1 DEF Quiet, ProducerTick, ProducerExit, Start, Shutdown, CancelCtx,
       Coordinator, SchedulerExit, StopExecutor, StopCompleter, Finish, Advance,
       Frame, prodVars, workVars, compVars
  <2>2. CASE UNCHANGED vars
    BY <2>2 DEF vars, Frame, prodVars, workVars, compVars
  <2> QED BY <2>1, <2>2
<1> QED BY <1>1, StatementStep DEF Current

LEMMA DeliveryStep ==
  ASSUME DeliveryInv, [Next]_vars
  PROVE  DeliveryInv'
<1>1. (\A d \in Client : Local(d)') /\ CopyIsCurrent'
  BY ProducerFetchDelivers, FetchErrorDelivers, SendJobDelivers,
     AbandonBatchDelivers, TakeJobDelivers, ExecuteJobDelivers,
     ReportResultDelivers, DropResultDelivers, WorkerExitDelivers,
     TakeResultDelivers, HandleResultDelivers, HandleResultErrorDelivers,
     CompleterExitDelivers, CrashDelivers, TableStepDelivers, QuietDelivers
     DEF Next, Producer, WorkerStep, Completer, Quiet
<1>2. TypeInv'
  BY TypeStep DEF DeliveryInv
<1> QED BY <1>1, <1>2 DEF DeliveryInv

LEMMA DeliveryInit == Init => DeliveryInv
<1> SUFFICES ASSUME Init PROVE DeliveryInv
  OBVIOUS
<1>1. ASSUME NEW c \in Client
      PROVE  Local(c) /\ Copies(c) = {}
  <2>1. /\ batch[c] = << >> /\ jobsCh[c] = << >> /\ resultsCh[c] = << >>
        /\ \A w \in Worker : workPc[c][w] = "idle"
        /\ compPc[c] = "idle"
    BY DEF Init
  <2>2. /\ InBatch(c) = {} /\ InJobsCh(c) = {} /\ InResults(c) = {}
        /\ Distinct(batch[c]) /\ Distinct(jobsCh[c]) /\ Distinct(resultsCh[c])
    BY <2>1 DEF InBatch, InJobsCh, InResults, Range, Distinct
  <2>3. HoldingWorkers(c) = {} /\ InSettling(c) = {}
    BY <2>1 DEF HoldingWorkers, InSettling
  <2>4. InWork(c) = {} /\ WorkersDistinct(c)
    BY <2>3 DEF InWork, WorkersDistinct
  <2> QED BY <2>2, <2>3, <2>4, JobsInEmpty DEF Local, Disjoint, Copies
<1> QED BY <1>1, TypeInit DEF DeliveryInv, CopyIsCurrent

LEMMA DeliveryInvariant == Spec => []DeliveryInv
BY DeliveryInit, DeliveryStep, PTL DEF Spec

-----------------------------------------------------------------------------
(* Every copy in flight agrees with its row and belongs to the client that *)
(* holds it, for any number of clients, workers and jobs, whatever crashes *)
(* or is cancelled.                                                        *)
THEOREM CopiesStayCurrent == Spec => []CopyIsCurrent
<1>1. DeliveryInv => CopyIsCurrent
  BY DEF DeliveryInv
<1> QED BY <1>1, DeliveryInvariant, PTL

LEMMA DeliveryIsExclusive == DeliveryInv => ExclusiveDelivery
<1> SUFFICES ASSUME DeliveryInv PROVE ExclusiveDelivery
  OBVIOUS
<1>1. ASSUME NEW c \in Client, NEW m \in 1..5, NEW n \in 1..5, m # n
      PROVE  JobsIn(Held(c)[m]) \cap JobsIn(Held(c)[n]) = {}
  <2>1. /\ Held(c)[1] = InBatch(c) /\ Held(c)[2] = InJobsCh(c)
        /\ Held(c)[3] = InWork(c) /\ Held(c)[4] = InResults(c)
        /\ Held(c)[5] = InSettling(c)
    BY DEF Held
  <2>2. Disjoint(JobsIn(Held(c)[1]), JobsIn(Held(c)[2]), JobsIn(Held(c)[3]),
                 JobsIn(Held(c)[4]), JobsIn(Held(c)[5]))
    BY <2>1 DEF DeliveryInv, Local
  <2>3. m \in {1, 2, 3, 4, 5} /\ n \in {1, 2, 3, 4, 5}
    OBVIOUS
  <2> QED BY <1>1, <2>2, <2>3 DEF Disjoint
<1>2. ASSUME NEW c \in Client, NEW j, Holds(c, j)
      PROVE  jobs[j].by = c
  <2>1. \E x \in Copies(c) : x.job = j
    BY <1>2 DEF Holds, Copies, InBatch, InJobsCh, InWork, InResults, InSettling,
                Range
  <2> QED BY <2>1 DEF DeliveryInv, CopyIsCurrent, Current
<1> QED BY <1>1, <1>2 DEF ExclusiveDelivery, DeliveryInv, Local, WorkersDistinct

(* A job is never in two places: the promise of FOR UPDATE SKIP LOCKED     *)
(* carries through the channels of all clients.                            *)
THEOREM ExclusivelyDelivered == Spec => []ExclusiveDelivery
BY DeliveryIsExclusive, DeliveryInvariant, PTL

-----------------------------------------------------------------------------
(* What a step of the pipeline can do to the row of a job: the guards that *)
(* CompleteJob and FailJob lack are supplied by the copy being current.    *)
Claimed(j) ==
  /\ jobs[j].state = "available"
  /\ jobs'[j].state = "running"
  /\ jobs'[j].attempt = jobs[j].attempt + 1

Judged(j) ==
  /\ jobs[j].state \in {"running", "cancelled"}
  /\ jobs'[j].attempt = jobs[j].attempt
  /\ \/ jobs'[j].state \in {"completed", "discarded"}
     \/ jobs'[j].state = "retryable" /\ jobs[j].attempt < PolicyMax

Moved(j) ==
  /\ jobs[j].state \in Offerable \cup {"running", "none"}
  /\ jobs'[j].attempt = jobs[j].attempt
  /\ jobs'[j].state \in Offerable => jobs[j].state \in Offerable \cup {"none"}
  /\ jobs'[j].state # "none"

Kept(j) ==
  /\ jobs'[j].state = jobs[j].state
  /\ jobs'[j].attempt = jobs[j].attempt
  /\ jobs'[j].errors = jobs[j].errors

LEMMA ClaimedOrKept ==
  ASSUME StoreTypeOK, NEW c \in Client, NEW S \in SUBSET Job, FetchJobs(c, S),
         \A k \in S : jobs[k].state = "available", NEW j \in Job
  PROVE  Claimed(j) \/ Kept(j)
<1>1. jobs[j] \in Row
  BY DEF StoreTypeOK
<1>2. CASE j \in S
  <2>1. jobs'[j] = [jobs[j] EXCEPT !.state = "running", !.attempt = @ + 1, !.by = c]
    BY <1>2 DEF FetchJobs
  <2> QED BY <1>1, <1>2, <2>1 DEF Claimed, Row
<1>3. CASE j \notin S
  BY <1>3 DEF FetchJobs, Kept
<1> QED BY <1>2, <1>3

LEMMA RowStep ==
  ASSUME DeliveryInv, [Next]_vars, NEW j \in Job
  PROVE  Claimed(j) \/ Judged(j) \/ Moved(j) \/ Kept(j)
<1> DEFINE Goal == Claimed(j) \/ Judged(j) \/ Moved(j) \/ Kept(j)
<1>1. StoreTypeOK /\ TypeInv /\ jobs[j] \in Row
  BY DEF DeliveryInv, TypeInv, TypeOK, StoreTypeOK
<1>2. ASSUME NEW c \in Client, ProducerFetch(c) \/ FetchError(c) PROVE Goal
  <2>1. PICK S \in NextJobs(Polls[c], limit[c]) \cup {{}} : FetchJobs(c, S)
    BY <1>2 DEF ProducerFetch, FetchError
  <2>2. Polls[c] \in SUBSET Job
    BY PipelineAssumption
  <2>3. S \in SUBSET Job /\ \A k \in S : jobs[k].state = "available"
    <3>1. CASE S \in NextJobs(Polls[c], limit[c])
      BY <2>2, <3>1, FetchedAreEligible
    <3>2. CASE S = {}
      BY <3>2
    <3> QED BY <3>1, <3>2
  <2> QED BY <1>1, <2>1, <2>3, ClaimedOrKept
<1>3. ASSUME NEW c \in Client, HandleResult(c) PROVE Goal
  <2> DEFINE r == settling[c]
  <2>1. r \in Copies(c)
    BY <1>3 DEF HandleResult, Copies, InSettling
  <2>2. r.job \in Job /\ Current(c, r)
    BY <1>1, <2>1, CopiesTyped DEF DeliveryInv, CopyIsCurrent
  <2>3. CASE j # r.job
    BY <1>1, <1>3, <2>3 DEF HandleResult, CompleteJob, FailJob, StoreTypeOK, Kept
  <2>4. CASE j = r.job /\ r.err = "ok"
    <3>1. jobs'[j] = [jobs[j] EXCEPT !.state = "completed"]
      BY <1>1, <1>3, <2>4 DEF HandleResult, CompleteJob, StoreTypeOK
    <3> QED BY <1>1, <2>2, <2>4, <3>1 DEF Judged, Current, Row
  <2>5. CASE j = r.job /\ r.err # "ok" /\ ShouldRetry(r)
    <3>1. FailJob(j, TRUE) \/ FailJob(j, ShouldRetry(r))
      BY <1>3, <2>5 DEF HandleResult
    <3>2. \/ jobs'[j] = jobs[j]
          \/ jobs'[j].state = "retryable" /\ jobs'[j].attempt = jobs[j].attempt
      BY <1>1, <2>5, <3>1 DEF FailJob, StoreTypeOK, Row
    <3>3. jobs[j].attempt < PolicyMax
      BY <2>2, <2>5 DEF ShouldRetry, Current
    <3> QED BY <2>2, <2>5, <3>2, <3>3 DEF Judged, Kept, Current
  <2>6. CASE j = r.job /\ r.err # "ok" /\ ~ShouldRetry(r)
    <3>1. FailJob(j, ShouldRetry(r))
      BY <1>3, <2>6 DEF HandleResult
    <3>2. jobs'[j].state = "discarded" /\ jobs'[j].attempt = jobs[j].attempt
      BY <1>1, <2>6, <3>1 DEF FailJob, StoreTypeOK, Row
    <3> QED BY <2>2, <2>6, <3>2 DEF Judged, Current
  <2> QED BY <2>3, <2>4, <2>5, <2>6
<1>4. ASSUME PromoteScheduledJobs PROVE Goal
  <2>1. CASE jobs[j].state \in PromotableStates /\ jobs[j].due
    <3>1. jobs'[j] = [jobs[j] EXCEPT !.state = "available"]
      BY <1>4, <2>1 DEF PromoteScheduledJobs
    <3> QED BY <1>1, <2>1, <3>1 DEF Moved, Offerable, PromotableStates, Row
  <2>2. CASE ~(jobs[j].state \in PromotableStates /\ jobs[j].due)
    BY <1>4, <2>2 DEF PromoteScheduledJobs, Kept
  <2> QED BY <2>1, <2>2
<1>5. ASSUME NEW k \in Job, NEW st, InsertJob(k, st) PROVE Goal
  <2>1. CASE j # k
    BY <1>1, <1>5, <2>1 DEF InsertJob, StoreTypeOK, Kept
  <2>2. CASE j = k
    <3>1. jobs'[j] = [jobs[j] EXCEPT !.state = st] /\ jobs[j].state = "none"
      BY <1>1, <1>5, <2>2 DEF InsertJob, StoreTypeOK
    <3>2. st \in {"available", "scheduled"}
      BY <1>5 DEF InsertJob
    <3> QED BY <1>1, <3>1, <3>2 DEF Moved, Offerable, Row
  <2> QED BY <2>1, <2>2
<1>6. ASSUME NEW k \in Job, TimePasses(k) PROVE Goal
  <2>1. CASE j # k
    BY <1>1, <1>6, <2>1 DEF TimePasses, StoreTypeOK, Kept
  <2>2. CASE j = k
    <3>1. jobs'[j] = [jobs[j] EXCEPT !.due = TRUE]
      BY <1>1, <1>6, <2>2 DEF TimePasses, StoreTypeOK
    <3> QED BY <1>1, <3>1 DEF Kept, Row
  <2> QED BY <2>1, <2>2
<1>7. ASSUME NEW k \in Job, CancelJob(k) PROVE Goal
  <2>1. CASE j # k
    BY <1>1, <1>7, <2>1 DEF CancelJob, StoreTypeOK, Kept
  <2>2. CASE j = k
    <3>1. /\ jobs'[j] = [jobs[j] EXCEPT !.state = "cancelled"]
          /\ jobs[j].state \notin Terminal \cup {"none"}
      BY <1>1, <1>7, <2>2 DEF CancelJob, StoreTypeOK
    <3>2. jobs'[j].state = "cancelled" /\ jobs'[j].attempt = jobs[j].attempt
      BY <1>1, <3>1 DEF Row
    <3>3. jobs[j].state \in Offerable \cup {"running"}
      BY <1>1, <3>1 DEF Row, JobState, Live
    <3> QED BY <3>2, <3>3 DEF Moved, Offerable
  <2> QED BY <2>1, <2>2
<1>8. ASSUME UNCHANGED jobs PROVE Goal
  BY <1>8 DEF Kept
<1>9. ASSUME NEW c \in Client,
             \/ Start(c) \/ Shutdown(c) \/ CancelCtx(c) \/ Crash(c)
             \/ ProducerTick(c) \/ SendJob(c) \/ AbandonBatch(c) \/ ProducerExit(c)
             \/ TakeResult(c) \/ HandleResultError(c) \/ CompleterExit(c)
             \/ Coordinator(c) \/ SchedulerExit(c)
      PROVE  UNCHANGED jobs
  BY <1>9 DEF Start, Shutdown, CancelCtx, Crash, ProducerTick, SendJob,
     AbandonBatch, ProducerExit, TakeResult, HandleResultError, CompleterExit,
     Coordinator, StopExecutor, StopCompleter, Finish, Advance, SchedulerExit
<1>10. ASSUME NEW c \in Client, NEW w \in Worker, WorkerStep(c, w)
       PROVE  UNCHANGED jobs
  BY <1>10 DEF WorkerStep, TakeJob, ExecuteJob, ReportResult, DropResult, WorkerExit
<1>11. UNCHANGED vars => UNCHANGED jobs
  BY DEF vars
<1> QED BY <1>2, <1>3, <1>4, <1>5, <1>6, <1>7, <1>8, <1>9, <1>10, <1>11
        DEF Next, Producer, Completer, SchedulerTick, Enqueue, BecomeDue, Cancel

(* A row that was not inserted has no attempts.                            *)
AttemptsInv ==
  AttemptsBounded /\ \A j \in Job : jobs[j].state = "none" => jobs[j].attempt = 0

LEMMA AttemptsStep ==
  ASSUME DeliveryInv, AttemptsInv, [Next]_vars
  PROVE  AttemptsInv'
<1> SUFFICES ASSUME NEW j \in Job
             PROVE  /\ jobs'[j].attempt <= PolicyMax
                    /\ jobs'[j].state \in Offerable => jobs'[j].attempt < PolicyMax
                    /\ jobs'[j].state = "none" => jobs'[j].attempt = 0
  BY DEF AttemptsInv, AttemptsBounded
<1>1. jobs[j].attempt \in Nat /\ PolicyMax \in Nat \ {0}
  BY PipelineAssumption DEF DeliveryInv, TypeInv, TypeOK, StoreTypeOK, Row
<1>2. /\ jobs[j].attempt <= PolicyMax
      /\ jobs[j].state \in Offerable => jobs[j].attempt < PolicyMax
      /\ jobs[j].state = "none" => jobs[j].attempt = 0
  BY DEF AttemptsInv, AttemptsBounded
<1>3. CASE Claimed(j)
  BY <1>1, <1>2, <1>3 DEF Claimed, Offerable
<1>4. CASE Judged(j)
  BY <1>1, <1>2, <1>4 DEF Judged, Offerable
<1>5. CASE Moved(j)
  BY <1>1, <1>2, <1>5 DEF Moved
<1>6. CASE Kept(j)
  BY <1>1, <1>2, <1>6 DEF Kept
<1> QED BY <1>3, <1>4, <1>5, <1>6, RowStep

(* No job is tried more often than the policy allows, although the         *)
(* completer counts attempts in a copy made before the job was handled.    *)
THEOREM AttemptsStayBounded == Spec => []AttemptsBounded
<1>1. Init => AttemptsInv
  BY PipelineAssumption DEF Init, StoreInit, NoRow, AttemptsInv, AttemptsBounded,
     Offerable
<1>2. AttemptsInv => AttemptsBounded
  BY DEF AttemptsInv
<1> QED BY <1>1, <1>2, AttemptsStep, DeliveryInvariant, PTL DEF Spec

(* A completed or discarded job keeps its state, its attempts and its      *)
(* errors in every later step, although no statement that ends a job looks *)
(* at the state it overwrites.                                             *)
THEOREM SettledStaysSettled == Spec => SettledForGood
<1>1. ASSUME DeliveryInv, [Next]_vars
      PROVE  \A j \in Job : jobs[j].state \in {"completed", "discarded"} =>
               /\ jobs'[j].state = jobs[j].state
               /\ jobs'[j].attempt = jobs[j].attempt
               /\ jobs'[j].errors = jobs[j].errors
  <2> SUFFICES ASSUME NEW j \in Job, jobs[j].state \in {"completed", "discarded"}
               PROVE  Kept(j)
    BY DEF Kept
  <2>1. ~Claimed(j) /\ ~Judged(j) /\ ~Moved(j)
    BY DEF Claimed, Judged, Moved, Offerable
  <2> QED BY <1>1, <2>1, RowStep
<1> QED BY <1>1, DeliveryInvariant, PTL DEF Spec, SettledForGood

-----------------------------------------------------------------------------
(***************************************************************************)
(* What the pipeline does to whole jobs.  Every step is one of five: a     *)
(* client claims rows and holds them, or claims them and loses the answer; *)
(* it drops rows it held; it writes the end of an attempt; or nothing it   *)
(* holds changes.  From these follow the error history of a row, that no   *)
(* running row is forgotten, and that the pipeline implements JobDelivery. *)
(***************************************************************************)
-----------------------------------------------------------------------------
(* A client that runs undisturbed, to which no statement was lost.         *)
Watched(c) == /\ stage[c] = "running" /\ ~ctxDone[c]
              /\ left["dbError"] = Budget["dbError"]

ErrorsSpent == left["dbError"] <= Budget["dbError"]

HoldersKept == \A d \in Client : HeldJobs(d)' = HeldJobs(d)

ClaimRows(c, S) == /\ \A j \in S : jobs[j].state = "available"
                   /\ FetchJobs(c, S)
                   /\ stage[c] # "created"

SeenClaim(c, S) == ClaimRows(c, S) /\ HoldsAfter(c, HeldJobs(c) \cup S)

SeenLostClaim(c, S) == ClaimRows(c, S) /\ HoldersKept /\ ~Watched(c)'

SeenDrop(c, S) == /\ S \subseteq HeldJobs(c)
                  /\ HoldsAfter(c, HeldJobs(c) \ S)
                  /\ UNCHANGED jobs
                  /\ ~Watched(c)'

SeenVerdict(c, j) ==
  /\ j \in HeldJobs(c)
  /\ HoldsAfter(c, HeldJobs(c) \ {j})
  /\ \/ CompleteJob(j)
     \/ \E retry \in BOOLEAN : /\ FailJob(j, retry)
                               /\ retry => jobs[j].attempt < PolicyMax

TableChange ==
  \/ PromoteScheduledJobs
  \/ \E j \in Job, st \in {"available", "scheduled"} : InsertJob(j, st)
  \/ \E j \in Job : TimePasses(j) \/ CancelJob(j)
  \/ UNCHANGED jobs

Seen ==
  \/ \E c \in Client, S \in SUBSET Job : SeenClaim(c, S) \/ SeenLostClaim(c, S)
  \/ \E c \in Client, S \in SUBSET Job : SeenDrop(c, S)
  \/ \E c \in Client, j \in Job : SeenVerdict(c, j)
  \/ HoldersKept /\ TableChange

LEMMA SameHolds ==
  ASSUME NEW c \in Client, HoldsAfter(c, HeldJobs(c))
  PROVE  HoldersKept
BY DEF HoldsAfter, HoldersKept

LEMMA HeldTyped ==
  ASSUME DeliveryInv, NEW c \in Client
  PROVE  /\ HeldJobs(c) \in SUBSET Job
         /\ \A j \in HeldJobs(c) : /\ jobs[j].by = c
                                   /\ jobs[j].state \in {"running", "cancelled"}
BY CopiesTyped DEF DeliveryInv, CopyIsCurrent, Current, HeldJobs, JobsIn

(* An error leaves the client watched no longer.                           *)
LEMMA FailureIsSeen ==
  ASSUME TypeInv, ErrorsSpent, NEW c \in Client, StatementFails(c),
         UNCHANGED <<stage, ctxDone>>
  PROVE  ~Watched(c)'
<1>1. "dbError" \in Event
  BY DEF Event
<1>2. left["dbError"] \in Nat /\ Budget["dbError"] \in Nat
  BY <1>1, PipelineAssumption DEF TypeInv, TypeOK, MemoryTypeOK
<1>3. CASE ctxDone[c]
  BY <1>3 DEF Watched
<1>4. CASE Spend("dbError")
  <2>1. left'["dbError"] = left["dbError"] - 1
    BY <1>1, <1>4 DEF Spend, TypeInv, TypeOK, MemoryTypeOK
  <2>2. left'["dbError"] # Budget["dbError"]
    BY <1>2, <2>1 DEF ErrorsSpent
  <2> QED BY <2>2 DEF Watched
<1> QED BY <1>3, <1>4 DEF StatementFails

LEMMA FetchIsSeen ==
  ASSUME DeliveryInv, ErrorsSpent, NEW c \in Client,
         ProducerFetch(c) \/ FetchError(c)
  PROVE  Seen
<1>1. Polls[c] \in SUBSET Job /\ TypeInv
  BY PipelineAssumption DEF DeliveryInv
<1>2. CASE ProducerFetch(c)
  <2>1. PICK S \in NextJobs(Polls[c], limit[c]) :
          FetchJobs(c, S) /\ HoldsAfter(c, HeldJobs(c) \cup S)
    BY <1>2, ProducerFetchDelivers
  <2>2. S \in SUBSET Job /\ \A j \in S : jobs[j].state = "available"
    BY <1>1, FetchedAreEligible
  <2>3. SeenClaim(c, S)
    BY <1>2, <2>1, <2>2 DEF SeenClaim, ClaimRows, ProducerFetch, Up
  <2> QED BY <2>2, <2>3 DEF Seen
<1>3. CASE FetchError(c)
  <2>1. PICK S \in NextJobs(Polls[c], limit[c]) \cup {{}} : FetchJobs(c, S)
    BY <1>3 DEF FetchError
  <2>2. S \in SUBSET Job /\ \A j \in S : jobs[j].state = "available"
    <3>1. CASE S \in NextJobs(Polls[c], limit[c])
      BY <1>1, <3>1, FetchedAreEligible
    <3>2. CASE S = {}
      BY <3>2
    <3> QED BY <3>1, <3>2
  <2>3. HoldersKept
    BY <1>3, FetchErrorDelivers DEF HoldersKept
  <2>4. ~Watched(c)'
    BY <1>1, <1>3, FailureIsSeen DEF FetchError, clientVars
  <2>5. SeenLostClaim(c, S)
    BY <1>3, <2>1, <2>2, <2>3, <2>4 DEF SeenLostClaim, ClaimRows, FetchError, Up
  <2> QED BY <2>2, <2>5 DEF Seen
<1> QED BY <1>2, <1>3

LEMMA DropIsSeen ==
  ASSUME DeliveryInv, ErrorsSpent, NEW c \in Client,
         \/ AbandonBatch(c) \/ HandleResultError(c) \/ Crash(c)
         \/ \E w \in Worker : DropResult(c, w)
  PROVE  Seen
<1> DEFINE Dropped(S) == S \subseteq HeldJobs(c)
                         /\ HoldsAfter(c, HeldJobs(c) \ S)
<1>1. TypeInv /\ HeldJobs(c) \in SUBSET Job
  BY HeldTyped DEF DeliveryInv
<1>2. SUFFICES (\E S : Dropped(S)) /\ UNCHANGED jobs /\ ~Watched(c)'
  BY <1>1 DEF Seen, SeenDrop
<1>3. CASE AbandonBatch(c)
  <2>1. JobsIn(InBatch(c)) \subseteq HeldJobs(c)
    BY HeldParts
  <2>2. Dropped(JobsIn(InBatch(c)))
    BY <1>3, <2>1, AbandonBatchDelivers
  <2> QED BY <1>3, <2>2 DEF AbandonBatch, Watched, ProducerStopped, clientVars
<1>4. CASE HandleResultError(c)
  <2>1. settling[c].job \in HeldJobs(c)
    BY <1>4 DEF HandleResultError, HeldJobs, JobsIn, Copies, InSettling
  <2>2. Dropped({settling[c].job})
    BY <1>4, <2>1, HandleResultErrorDelivers
  <2>3. ~Watched(c)'
    BY <1>1, <1>4, FailureIsSeen DEF HandleResultError, clientVars
  <2> QED BY <1>4, <2>2, <2>3 DEF HandleResultError
<1>5. CASE Crash(c)
  <2>1. Dropped(HeldJobs(c))
    BY <1>5, CrashDelivers
  <2>2. stage'[c] = "crashed"
    BY <1>1, <1>5 DEF Crash, TypeInv, TypeOK, MemoryTypeOK
  <2> QED BY <1>5, <2>1, <2>2 DEF Crash, Watched
<1>6. ASSUME NEW w \in Worker, DropResult(c, w)
      PROVE  (\E S : Dropped(S)) /\ UNCHANGED jobs /\ ~Watched(c)'
  <2>1. workOn[c][w].job \in HeldJobs(c)
    BY <1>6 DEF DropResult, HeldJobs, JobsIn, Copies, InWork, HoldingWorkers
  <2>2. Dropped({workOn[c][w].job})
    BY <1>6, <2>1, DropResultDelivers
  <2> QED BY <1>6, <2>2 DEF DropResult, Watched, ExecutorStopped, clientVars
<1> QED BY <1>3, <1>4, <1>5, <1>6

LEMMA VerdictIsSeen ==
  ASSUME DeliveryInv, NEW c \in Client, HandleResult(c)
  PROVE  Seen
<1> DEFINE r == settling[c]
<1>1. r \in Copies(c)
  BY DEF HandleResult, Copies, InSettling
<1>2. r.job \in HeldJobs(c) /\ r.job \in Job
  BY <1>1, CopiesTyped DEF HeldJobs, JobsIn, DeliveryInv
<1>3. HoldsAfter(c, HeldJobs(c) \ {r.job})
  BY HandleResultDelivers
<1>4. jobs[r.job].attempt = r.attempt
  BY <1>1 DEF DeliveryInv, CopyIsCurrent, Current
<1>5. ShouldRetry(r) \in BOOLEAN
      /\ (ShouldRetry(r) => jobs[r.job].attempt < PolicyMax)
  BY <1>4 DEF ShouldRetry
<1>6. CompleteJob(r.job) \/ FailJob(r.job, ShouldRetry(r))
  BY DEF HandleResult
<1>7. SeenVerdict(c, r.job)
  BY <1>2, <1>3, <1>5, <1>6 DEF SeenVerdict
<1> QED BY <1>2, <1>7 DEF Seen

(* Every step of the pipeline is seen as one of the five.                  *)
LEMMA StepIsSeen ==
  ASSUME DeliveryInv, ErrorsSpent, [Next]_vars
  PROVE  Seen
<1>1. ASSUME NEW c \in Client, Producer(c)
      PROVE  Seen
  <2>1. CASE SendJob(c)
    BY <2>1, SendJobDelivers, SameHolds DEF SendJob, Seen, TableChange
  <2>2. CASE ProducerTick(c) \/ ProducerExit(c)
    BY <2>2, QuietDelivers DEF Quiet, Seen, HoldersKept, TableChange
  <2> QED BY <1>1, <2>1, <2>2, FetchIsSeen, DropIsSeen DEF Producer
<1>2. ASSUME NEW c \in Client, NEW w \in Worker, WorkerStep(c, w)
      PROVE  Seen
  <2>1. CASE TakeJob(c, w)
    BY <2>1, TakeJobDelivers, SameHolds DEF TakeJob, Seen, TableChange
  <2>2. CASE ExecuteJob(c, w)
    BY <2>2, ExecuteJobDelivers, SameHolds DEF ExecuteJob, Seen, TableChange
  <2>3. CASE ReportResult(c, w)
    BY <2>3, ReportResultDelivers, SameHolds DEF ReportResult, Seen, TableChange
  <2>4. CASE WorkerExit(c, w)
    BY <2>4, WorkerExitDelivers, SameHolds DEF WorkerExit, Seen, TableChange
  <2> QED BY <1>2, <2>1, <2>2, <2>3, <2>4, DropIsSeen DEF WorkerStep
<1>3. ASSUME NEW c \in Client, Completer(c)
      PROVE  Seen
  <2>1. CASE TakeResult(c)
    BY <2>1, TakeResultDelivers, SameHolds DEF TakeResult, Seen, TableChange
  <2>2. CASE CompleterExit(c)
    BY <2>2, CompleterExitDelivers, SameHolds DEF CompleterExit, Seen, TableChange
  <2> QED BY <1>3, <2>1, <2>2, VerdictIsSeen, DropIsSeen DEF Completer
<1>4. ASSUME \/ \E c \in Client : SchedulerTick(c)
             \/ \E j \in Job : Enqueue(j) \/ BecomeDue(j) \/ Cancel(j)
      PROVE  Seen
  <2>1. HoldersKept
    BY <1>4, TableStepDelivers DEF HoldersKept
  <2>2. TableChange
    BY <1>4 DEF SchedulerTick, Enqueue, BecomeDue, Cancel, TableChange
  <2> QED BY <2>1, <2>2 DEF Seen
<1>5. ASSUME (\E c \in Client : Quiet(c)) \/ UNCHANGED vars
      PROVE  Seen
  BY <1>5, QuietDelivers DEF Seen, HoldersKept, TableChange
<1> QED BY <1>1, <1>2, <1>3, <1>4, <1>5, DropIsSeen DEF Next, Quiet

(* A step does to a row what the statements of the five kinds do.          *)
LEMMA FetchedRow ==
  ASSUME StoreTypeOK, NEW c \in Client, NEW S \in SUBSET Job, FetchJobs(c, S),
         NEW j \in Job
  PROVE  /\ j \in S => /\ jobs'[j].state = "running"
                        /\ jobs'[j].attempt = jobs[j].attempt + 1
                        /\ jobs'[j].by = c
                        /\ jobs'[j].errors = jobs[j].errors
         /\ j \notin S => jobs'[j] = jobs[j]
<1>1. jobs[j] \in Row
  BY DEF StoreTypeOK
<1>2. j \in S => jobs'[j] = [jobs[j] EXCEPT !.state = "running",
                                           !.attempt = @ + 1, !.by = c]
  BY DEF FetchJobs
<1>3. j \notin S => jobs'[j] = jobs[j]
  BY DEF FetchJobs
<1> QED BY <1>1, <1>2, <1>3 DEF Row

-----------------------------------------------------------------------------
(* The errors of a row.  While an attempt is under way its client holds    *)
(* the row, and the errors number the attempts before it.                  *)
Numbered(n) == [i \in 1..n |-> i]

HistoryOf(j) ==
  /\ jobs[j].state \in {"running", "completed"} =>
       jobs[j].errors = Numbered(jobs[j].attempt - 1)
  /\ jobs[j].state = "cancelled" =>
       \/ jobs[j].errors = Numbered(jobs[j].attempt - 1)
       \/ jobs[j].errors = Numbered(jobs[j].attempt)
  /\ jobs[j].state \notin {"running", "completed", "cancelled"} =>
       jobs[j].errors = Numbered(jobs[j].attempt)

UnderWay == \A c \in Client : \A j \in HeldJobs(c) :
              /\ jobs[j].attempt > 0
              /\ jobs[j].errors = Numbered(jobs[j].attempt - 1)

HistoryInv == UnderWay /\ \A j \in Job : HistoryOf(j)

LEMMA NextNumber ==
  ASSUME NEW n \in Nat, n > 0
  PROVE  Append(Numbered(n - 1), n) = Numbered(n)
<1>1. /\ Numbered(n - 1) \in Seq(Nat) /\ Len(Numbered(n - 1)) = n - 1
      /\ Numbered(n) \in Seq(Nat) /\ Len(Numbered(n)) = n
  BY DEF Numbered
<1>2. /\ Append(Numbered(n - 1), n) \in Seq(Nat)
      /\ Len(Append(Numbered(n - 1), n)) = n
      /\ \A i \in 1..n - 1 : Append(Numbered(n - 1), n)[i] = Numbered(n - 1)[i]
      /\ Append(Numbered(n - 1), n)[n] = n
  <2> HIDE DEF Numbered
  <2> QED BY <1>1, AppendProperties
<1>3. \A i \in 1..n : Append(Numbered(n - 1), n)[i] = Numbered(n)[i]
  BY <1>2 DEF Numbered
<1> QED BY <1>1, <1>2, <1>3, SeqEqual

LEMMA HistoryStep ==
  ASSUME DeliveryInv, HistoryInv, Seen
  PROVE  HistoryInv'
<1>1. StoreTypeOK /\ \A j \in Job : jobs[j] \in Row
  BY DEF DeliveryInv, TypeInv, TypeOK, StoreTypeOK
<1>2. \A c \in Client : HeldJobs(c) \in SUBSET Job
  BY HeldTyped
<1>3. \A c, d \in Client : \A j \in HeldJobs(c) : j \in HeldJobs(d) => c = d
  BY HeldTyped
<1>4. ASSUME NEW c \in Client, NEW S \in SUBSET Job, ClaimRows(c, S),
             HoldsAfter(c, HeldJobs(c) \cup S) \/ HoldersKept
      PROVE  HistoryInv'
  <2>1. \A j \in S : /\ jobs[j].errors = Numbered(jobs[j].attempt)
                     /\ jobs'[j].state = "running"
                     /\ jobs'[j].attempt = jobs[j].attempt + 1
                     /\ jobs'[j].errors = jobs[j].errors
    <3> SUFFICES ASSUME NEW j \in S
                 PROVE  /\ jobs[j].errors = Numbered(jobs[j].attempt)
                        /\ jobs'[j].state = "running"
                        /\ jobs'[j].attempt = jobs[j].attempt + 1
                        /\ jobs'[j].errors = jobs[j].errors
      OBVIOUS
    <3>1. HistoryOf(j) /\ jobs[j].state = "available" /\ jobs[j] \in Row
      BY <1>1, <1>4 DEF ClaimRows, HistoryInv
    <3> QED BY <1>1, <1>4, <3>1, FetchedRow DEF ClaimRows, HistoryOf
  <2>2. \A j \in Job \ S : jobs'[j] = jobs[j]
    BY <1>1, <1>4, FetchedRow DEF ClaimRows
  <2>3. \A j \in S : jobs'[j].attempt > 0
                     /\ jobs'[j].errors = Numbered(jobs'[j].attempt - 1)
    BY <1>1, <2>1 DEF Row
  <2>4. ASSUME NEW j \in Job PROVE HistoryOf(j)'
    BY <2>1, <2>2, <2>3 DEF HistoryInv, HistoryOf
  <2>5. UnderWay'
    <3>1. \A d \in Client : HeldJobs(d)' \subseteq HeldJobs(d) \cup S
      BY <1>4 DEF HoldsAfter, HoldersKept
    <3> QED BY <1>2, <2>2, <2>3, <3>1 DEF HistoryInv, UnderWay
  <2> QED BY <2>4, <2>5 DEF HistoryInv
<1>5. ASSUME NEW c \in Client, NEW S \in SUBSET Job, SeenDrop(c, S)
      PROVE  HistoryInv'
  <2>1. \A d \in Client : HeldJobs(d)' \subseteq HeldJobs(d)
    BY <1>5 DEF SeenDrop, HoldsAfter
  <2> QED BY <1>5, <2>1 DEF SeenDrop, HistoryInv, UnderWay, HistoryOf
<1>6. ASSUME NEW c \in Client, NEW j \in Job, SeenVerdict(c, j)
      PROVE  HistoryInv'
  <2>1. /\ jobs[j].state \in {"running", "cancelled"}
        /\ jobs[j].attempt \in Nat /\ jobs[j].attempt > 0
        /\ jobs[j].errors = Numbered(jobs[j].attempt - 1)
    BY <1>1, <1>6, HeldTyped DEF SeenVerdict, HistoryInv, UnderWay, Row
  <2>2. \A k \in Job \ {j} : jobs'[k] = jobs[k]
    BY <1>1, <1>6 DEF SeenVerdict, CompleteJob, FailJob, StoreTypeOK
  <2>3. HistoryOf(j)'
    <3>1. CASE UNCHANGED jobs
      BY <3>1 DEF HistoryInv, HistoryOf
    <3>2. CASE CompleteJob(j)
      <4>1. jobs'[j] = [jobs[j] EXCEPT !.state = "completed"]
        BY <1>1, <3>2 DEF CompleteJob, StoreTypeOK
      <4> QED BY <1>1, <2>1, <4>1 DEF HistoryOf, Row
    <3>3. ASSUME NEW retry \in BOOLEAN, FailJob(j, retry), jobs' # jobs
          PROVE  HistoryOf(j)'
      <4>1. /\ jobs'[j].state \in {"retryable", "discarded"}
            /\ jobs'[j].attempt = jobs[j].attempt
            /\ jobs'[j].errors = Append(jobs[j].errors, jobs[j].attempt)
        <5>1. jobs'[j] = [jobs[j] EXCEPT
                            !.state  = IF retry THEN "retryable" ELSE "discarded",
                            !.due    = IF retry THEN FALSE ELSE @,
                            !.errors = Append(@, jobs[j].attempt)]
          BY <1>1, <3>3 DEF FailJob, StoreTypeOK
        <5> QED BY <1>1, <5>1 DEF Row
      <4>2. jobs'[j].errors = Numbered(jobs'[j].attempt)
        BY <2>1, <4>1, NextNumber
      <4> QED BY <4>1, <4>2 DEF HistoryOf
    <3> QED BY <1>6, <3>1, <3>2, <3>3 DEF SeenVerdict
  <2>4. \A d \in Client : HeldJobs(d)' \subseteq HeldJobs(d) \ {j}
    BY <1>3, <1>6 DEF SeenVerdict, HoldsAfter
  <2> QED BY <1>2, <2>2, <2>3, <2>4 DEF HistoryInv, UnderWay, HistoryOf
<1>7. ASSUME HoldersKept, TableChange
      PROVE  HistoryInv'
  <2>1. ASSUME NEW j \in Job
        PROVE  /\ jobs'[j].attempt = jobs[j].attempt
               /\ jobs'[j].errors = jobs[j].errors
               /\ HistoryOf(j)'
    <3> DEFINE Goal == /\ jobs'[j].attempt = jobs[j].attempt
                       /\ jobs'[j].errors = jobs[j].errors
                       /\ HistoryOf(j)'
    <3> USE <1>1 DEF StoreTypeOK, Row
    <3>1. HistoryOf(j) /\ jobs[j].attempt \in Nat
      BY DEF HistoryInv
    <3>2. CASE jobs'[j] = jobs[j]
      BY <3>1, <3>2 DEF HistoryOf
    <3>3. CASE PromoteScheduledJobs
      <4>1. CASE jobs'[j] = [jobs[j] EXCEPT !.state = "available"]
                 /\ jobs[j].state \in {"scheduled", "retryable"}
        BY <3>1, <4>1 DEF HistoryOf
      <4> QED BY <3>2, <3>3, <4>1 DEF PromoteScheduledJobs, PromotableStates
    <3>4. ASSUME NEW k \in Job, NEW st, InsertJob(k, st), jobs'[j] # jobs[j]
          PROVE  Goal
      <4>1. /\ jobs'[j] = [jobs[j] EXCEPT !.state = st]
            /\ jobs[j].state = "none" /\ st \in {"available", "scheduled"}
        BY <3>4 DEF InsertJob
      <4> QED BY <3>1, <4>1 DEF HistoryOf
    <3>5. ASSUME NEW k \in Job, TimePasses(k), jobs'[j] # jobs[j]
          PROVE  Goal
      <4>1. jobs'[j] = [jobs[j] EXCEPT !.due = TRUE]
        BY <3>5 DEF TimePasses
      <4> QED BY <3>1, <4>1 DEF HistoryOf
    <3>6. ASSUME NEW k \in Job, CancelJob(k), jobs'[j] # jobs[j]
          PROVE  Goal
      <4>1. jobs'[j] = [jobs[j] EXCEPT !.state = "cancelled"]
            /\ jobs[j].state \notin Terminal
        BY <3>6 DEF CancelJob
      <4> QED BY <3>1, <4>1 DEF HistoryOf, Terminal
    <3> QED BY <1>7, <3>2, <3>3, <3>4, <3>5, <3>6 DEF TableChange
  <2>2. UnderWay'
    BY <1>2, <1>7, <2>1 DEF HoldersKept, HistoryInv, UnderWay
  <2> QED BY <2>1, <2>2 DEF HistoryInv
<1> QED BY <1>4, <1>5, <1>6, <1>7 DEF Seen, SeenClaim, SeenLostClaim

(* Clients start once, and errors are only spent: a client that is watched *)
(* after a step was watched before, unless the step has just started it.   *)
LEMMA WatchStep ==
  ASSUME TypeInv, ErrorsSpent, [Next]_vars
  PROVE  /\ ErrorsSpent'
         /\ \A c \in Client :
              /\ stage'[c] = "created" => stage[c] = "created"
              /\ Watched(c)' => Watched(c) \/ stage[c] = "created"
<1> USE DEF TypeInv, TypeOK, MemoryTypeOK
<1> DEFINE Goal == /\ ErrorsSpent'
                   /\ \A c \in Client :
                        /\ stage'[c] = "created" => stage[c] = "created"
                        /\ Watched(c)' => Watched(c) \/ stage[c] = "created"
<1>1. "dbError" \in Event /\ left["dbError"] \in Nat /\ Budget["dbError"] \in Nat
  <2>1. "dbError" \in Event
    BY DEF Event
  <2> QED BY <2>1, PipelineAssumption
<1>2. ASSUME UNCHANGED left \/ \E e \in Event : Spend(e)
      PROVE  /\ left'["dbError"] <= left["dbError"]
             /\ ErrorsSpent'
             /\ left'["dbError"] = Budget["dbError"] =>
                  left["dbError"] = Budget["dbError"]
  <2>1. left'["dbError"] \in {left["dbError"], left["dbError"] - 1}
    <3>1. ASSUME NEW e \in Event, Spend(e)
          PROVE  left'["dbError"] = IF e = "dbError" THEN left["dbError"] - 1
                                                     ELSE left["dbError"]
      BY <1>1, <3>1 DEF Spend
    <3> QED BY <1>2, <3>1
  <2> QED BY <1>1, <2>1 DEF ErrorsSpent
<1>3. ASSUME UNCHANGED left \/ \E e \in Event : Spend(e),
             \A c \in Client :
               \/ stage'[c] = stage[c] /\ (ctxDone[c] => ctxDone'[c])
               \/ stage'[c] \notin {"created", "running"}
               \/ stage[c] = "created" /\ stage'[c] = "running"
      PROVE  Goal
  BY <1>2, <1>3 DEF Watched
<1>4. ASSUME NEW c \in Client, Start(c) \/ Shutdown(c) \/ Coordinator(c)
      PROVE  Goal
  <2>1. UNCHANGED left \/ \E e \in Event : Spend(e)
    BY <1>4 DEF Start, Shutdown, Coordinator, StopExecutor, StopCompleter,
       Finish, Event
  <2>2. UNCHANGED ctxDone
    BY <1>4 DEF Start, Shutdown, Coordinator, StopExecutor, StopCompleter,
       Finish, Advance
  <2>3. \A d \in Client : \/ stage'[d] = stage[d]
                          \/ stage'[d] \notin {"created", "running"}
                          \/ stage[d] = "created" /\ stage'[d] = "running"
    BY <1>4 DEF Start, Shutdown, Coordinator, StopExecutor, StopCompleter,
       Finish, Advance
  <2> QED BY <1>3, <2>1, <2>2, <2>3
<1>5. ASSUME NEW c \in Client, CancelCtx(c) \/ Crash(c)
      PROVE  Goal
  <2>1. \E e \in Event : Spend(e)
    BY <1>5 DEF CancelCtx, Crash, Event
  <2>2. \A d \in Client : \/ stage'[d] = stage[d] /\ (ctxDone[d] => ctxDone'[d])
                          \/ stage'[d] = "crashed"
    BY <1>5 DEF CancelCtx, Crash
  <2> QED BY <1>3, <2>1, <2>2
<1>6. ASSUME UNCHANGED <<stage, ctxDone>>,
             UNCHANGED left \/ \E e \in Event : Spend(e)
      PROVE  Goal
  BY <1>3, <1>6
<1>7. ASSUME \/ \E c \in Client :
                  \/ Producer(c) \/ Completer(c)
                  \/ SchedulerTick(c) \/ SchedulerExit(c)
                  \/ \E w \in Worker : WorkerStep(c, w)
             \/ \E j \in Job : Enqueue(j) \/ BecomeDue(j) \/ Cancel(j)
             \/ UNCHANGED vars
      PROVE  /\ UNCHANGED <<stage, ctxDone>>
             /\ UNCHANGED left \/ \E e \in Event : Spend(e)
  <2>1. ASSUME NEW c \in Client, Producer(c)
        PROVE  /\ UNCHANGED <<stage, ctxDone>>
               /\ UNCHANGED left \/ \E e \in Event : Spend(e)
    BY <2>1, <1>1 DEF Producer, ProducerTick, ProducerFetch, SendJob,
       AbandonBatch, ProducerExit, FetchError, StatementFails, clientVars
  <2>2. ASSUME NEW c \in Client, Completer(c)
        PROVE  /\ UNCHANGED <<stage, ctxDone>>
               /\ UNCHANGED left \/ \E e \in Event : Spend(e)
    BY <2>2, <1>1 DEF Completer, TakeResult, HandleResult, HandleResultError,
       CompleterExit, StatementFails, clientVars
  <2>3. ASSUME NEW c \in Client, NEW w \in Worker, WorkerStep(c, w)
        PROVE  UNCHANGED <<stage, ctxDone, left>>
    BY <2>3 DEF WorkerStep, TakeJob, ExecuteJob, ReportResult, DropResult,
       WorkerExit, clientVars
  <2>4. ASSUME NEW c \in Client, SchedulerTick(c) \/ SchedulerExit(c)
        PROVE  UNCHANGED <<stage, ctxDone, left>>
    BY <2>4 DEF SchedulerTick, SchedulerExit, clientVars
  <2>5. ASSUME NEW j \in Job, Enqueue(j) \/ BecomeDue(j) \/ Cancel(j)
        PROVE  /\ UNCHANGED <<stage, ctxDone>>
               /\ UNCHANGED left \/ \E e \in Event : Spend(e)
    BY <2>5 DEF Enqueue, BecomeDue, Cancel, clientVars, Event
  <2> QED BY <1>7, <2>1, <2>2, <2>3, <2>4, <2>5 DEF vars, clientVars
<1> QED BY <1>4, <1>5, <1>6, <1>7 DEF Next

-----------------------------------------------------------------------------
(* No running row is forgotten.                                            *)
Remembered(c) ==
  /\ stage[c] = "created" => \A j \in Job : jobs[j].by # c
  /\ Watched(c) => \A j \in Job :
       jobs[j].state = "running" /\ jobs[j].by = c => j \in HeldJobs(c)

(* The completer's retry of a running job is never refused by the index:   *)
(* the key of a running job is its own.                                    *)
LEMMA VerdictEndsRun ==
  ASSUME StoreTypeOK, UniqueLiveKey, NEW c \in Client, NEW j \in Job,
         SeenVerdict(c, j)
  PROVE  /\ jobs'[j].state # "running"
         /\ jobs'[j].by = jobs[j].by
         /\ \A k \in Job \ {j} : jobs'[k] = jobs[k]
<1> USE DEF StoreTypeOK, Row
<1>1. CASE CompleteJob(j)
  BY <1>1 DEF CompleteJob
<1>2. ASSUME NEW retry \in BOOLEAN, FailJob(j, retry)
      PROVE  /\ jobs'[j].state # "running"
             /\ jobs'[j].by = jobs[j].by
             /\ \A k \in Job \ {j} : jobs'[k] = jobs[k]
  <2>1. CASE retry /\ KeyTaken(j)
    <3>1. UNCHANGED jobs
      BY <1>2, <2>1 DEF FailJob
    <3>2. jobs[j].state \notin Live
      BY <2>1 DEF KeyTaken, UniqueLiveKey
    <3> QED BY <3>1, <3>2 DEF Live
  <2>2. CASE ~(retry /\ KeyTaken(j))
    <3>1. jobs'[j] = [jobs[j] EXCEPT
                        !.state  = IF retry THEN "retryable" ELSE "discarded",
                        !.due    = IF retry THEN FALSE ELSE @,
                        !.errors = Append(@, jobs[j].attempt)]
      BY <1>2, <2>2 DEF FailJob
    <3>2. jobs'[j].state # "running" /\ jobs'[j].by = jobs[j].by
      BY <3>1
    <3> QED BY <1>2, <2>2, <3>2 DEF FailJob
  <2> QED BY <2>1, <2>2
<1> QED BY <1>1, <1>2 DEF SeenVerdict

(* The other statements on the table make no row running.                  *)
LEMMA TableChangeRuns ==
  ASSUME StoreTypeOK, TableChange, NEW j \in Job
  PROVE  /\ jobs'[j].state = "running" => jobs[j].state = "running"
         /\ jobs'[j].by = jobs[j].by
<1> USE DEF StoreTypeOK, Row
<1>1. CASE PromoteScheduledJobs
  BY <1>1 DEF PromoteScheduledJobs
<1>2. ASSUME NEW k \in Job, NEW st, InsertJob(k, st)
      PROVE  /\ jobs'[j].state = "running" => jobs[j].state = "running"
             /\ jobs'[j].by = jobs[j].by
  BY <1>2 DEF InsertJob
<1>3. ASSUME NEW k \in Job, TimePasses(k) \/ CancelJob(k)
      PROVE  /\ jobs'[j].state = "running" => jobs[j].state = "running"
             /\ jobs'[j].by = jobs[j].by
  BY <1>3 DEF TimePasses, CancelJob
<1> QED BY <1>1, <1>2, <1>3 DEF TableChange

LEMMA RememberStep ==
  ASSUME DeliveryInv, UniqueLiveKey, Seen,
         \A c \in Client : Remembered(c),
         NEW d \in Client,
         stage'[d] = "created" => stage[d] = "created",
         Watched(d)' => Watched(d) \/ stage[d] = "created"
  PROVE  Remembered(d)'
<1>1. StoreTypeOK
  BY DEF DeliveryInv, TypeInv, TypeOK
<1>2. ASSUME \A j \in Job : jobs'[j].by = d => jobs[j].by = d,
             Watched(d)' => \A j \in Job :
               jobs'[j].state = "running" /\ jobs'[j].by = d =>
                 \/ j \in HeldJobs(d)'
                 \/ jobs[j].state = "running" /\ jobs[j].by = d
                    /\ (j \in HeldJobs(d) => j \in HeldJobs(d)')
      PROVE  Remembered(d)'
  <2>1. stage'[d] = "created" => \A j \in Job : jobs'[j].by # d
    BY <1>2 DEF Remembered
  <2>2. ASSUME Watched(d)', NEW j \in Job, jobs'[j].state = "running",
               jobs'[j].by = d
        PROVE  j \in HeldJobs(d)'
    BY <1>2, <2>2 DEF Remembered
  <2> QED BY <2>1, <2>2 DEF Remembered
<1>3. ASSUME NEW c \in Client, NEW S \in SUBSET Job, SeenClaim(c, S)
      PROVE  Remembered(d)'
  <2>1. \A j \in Job : /\ j \in S => jobs'[j].by = c
                       /\ j \notin S => jobs'[j] = jobs[j]
    BY <1>1, <1>3, FetchedRow DEF SeenClaim, ClaimRows
  <2>2. CASE c # d
    BY <1>2, <1>3, <2>1, <2>2 DEF SeenClaim, HoldsAfter
  <2>3. CASE c = d
    <3>1. \A j \in Job : j \in S => j \in HeldJobs(d)'
      BY <1>3, <2>3 DEF SeenClaim, HoldsAfter
    <3>2. stage'[d] # "created" /\ stage[d] # "created"
      BY <1>3, <2>3 DEF SeenClaim, ClaimRows
    <3>3. HeldJobs(d) \subseteq HeldJobs(d)'
      BY <1>3, <2>3 DEF SeenClaim, HoldsAfter
    <3> QED BY <2>1, <3>1, <3>2, <3>3 DEF Remembered
  <2> QED BY <2>2, <2>3
<1>4. ASSUME NEW c \in Client, NEW S \in SUBSET Job, SeenLostClaim(c, S)
      PROVE  Remembered(d)'
  <2>1. \A j \in Job : /\ j \in S => jobs'[j].by = c
                       /\ j \notin S => jobs'[j] = jobs[j]
    BY <1>1, <1>4, FetchedRow DEF SeenLostClaim, ClaimRows
  <2>2. CASE c # d
    BY <1>2, <1>4, <2>1, <2>2 DEF SeenLostClaim, HoldersKept
  <2>3. CASE c = d
    BY <1>4, <2>3 DEF SeenLostClaim, ClaimRows, Remembered
  <2> QED BY <2>2, <2>3
<1>5. ASSUME NEW c \in Client, NEW S \in SUBSET Job, SeenDrop(c, S)
      PROVE  Remembered(d)'
  <2>1. CASE c # d
    BY <1>2, <1>5, <2>1 DEF SeenDrop, HoldsAfter
  <2>2. CASE c = d
    BY <1>2, <1>5, <2>2 DEF SeenDrop
  <2> QED BY <2>1, <2>2
<1>6. ASSUME NEW c \in Client, NEW j \in Job, SeenVerdict(c, j)
      PROVE  Remembered(d)'
  <2>1. /\ jobs'[j].state # "running"
        /\ jobs'[j].by = jobs[j].by
        /\ \A k \in Job \ {j} : jobs'[k] = jobs[k]
    BY <1>1, <1>6, VerdictEndsRun
  <2>2. \A k \in HeldJobs(d) : k # j => k \in HeldJobs(d)'
    BY <1>6 DEF SeenVerdict, HoldsAfter
  <2> QED BY <1>2, <2>1, <2>2
<1>7. ASSUME HoldersKept, TableChange
      PROVE  Remembered(d)'
  BY <1>1, <1>2, <1>7, TableChangeRuns DEF HoldersKept
<1> QED BY <1>3, <1>4, <1>5, <1>6, <1>7 DEF Seen

-----------------------------------------------------------------------------
(* The invariant of this module, and what follows from it.                 *)
WholeInv ==
  /\ DeliveryInv
  /\ AttemptsInv
  /\ UniqueLiveKey
  /\ ErrorsSpent
  /\ HistoryInv
  /\ \A c \in Client : Remembered(c)

LEMMA NothingHeldFirst ==
  ASSUME Init, NEW c \in Client
  PROVE  HeldJobs(c) = {}
<1>1. /\ batch[c] = << >> /\ jobsCh[c] = << >> /\ resultsCh[c] = << >>
      /\ \A w \in Worker : workPc[c][w] = "idle"
      /\ compPc[c] = "idle"
  BY DEF Init
<1>2. /\ InBatch(c) = {} /\ InJobsCh(c) = {} /\ InResults(c) = {}
      /\ InSettling(c) = {} /\ HoldingWorkers(c) = {}
  BY <1>1 DEF InBatch, InJobsCh, InResults, Range, InSettling, HoldingWorkers
<1>3. InWork(c) = {}
  BY <1>2 DEF InWork
<1> QED BY <1>2, <1>3 DEF HeldJobs, JobsIn, Copies

LEMMA WholeInit == Init => WholeInv
<1> SUFFICES ASSUME Init PROVE WholeInv
  OBVIOUS
<1>1. \A j \in Job : jobs[j] = NoRow
  BY DEF Init, StoreInit
<1>2. AttemptsInv /\ UniqueLiveKey
  BY <1>1, PipelineAssumption DEF NoRow, AttemptsInv, AttemptsBounded,
     UniqueLiveKey, Live, Offerable
<1>3. HistoryInv
  <2>1. Numbered(0) = << >>
    BY DEF Numbered
  <2> QED BY <1>1, <2>1, NothingHeldFirst DEF HistoryInv, UnderWay, HistoryOf,
          NoRow
<1>4. \A c \in Client : Remembered(c)
  BY <1>1, StoreAssumption DEF Remembered, Watched, NoRow, Init
<1>5. ErrorsSpent
  <2>1. "dbError" \in Event /\ Budget["dbError"] \in Nat
    BY PipelineAssumption DEF Event
  <2> QED BY <2>1 DEF Init, ErrorsSpent
<1> QED BY <1>2, <1>3, <1>4, <1>5, DeliveryInit DEF WholeInv

LEMMA WholeStep == WholeInv /\ [Next]_vars => WholeInv'
<1> SUFFICES ASSUME WholeInv, [Next]_vars PROVE WholeInv'
  OBVIOUS
<1> USE DEF WholeInv
<1>1. TypeInv /\ StoreTypeOK
  BY DEF DeliveryInv, TypeInv, TypeOK
<1>2. DeliveryInv' /\ AttemptsInv'
  BY DeliveryStep, AttemptsStep
<1>3. UniqueLiveKey'
  BY <1>1, StepIsStatement, UniqueLiveKeyStep
<1>4. Seen
  BY StepIsSeen
<1>5. HistoryInv'
  BY <1>4, HistoryStep
<1>6. ErrorsSpent'
  BY <1>1, WatchStep
<1>7. ASSUME NEW c \in Client PROVE Remembered(c)'
  <2>1. /\ stage'[c] = "created" => stage[c] = "created"
        /\ Watched(c)' => Watched(c) \/ stage[c] = "created"
    BY <1>1, WatchStep
  <2> QED BY <1>4, <2>1, RememberStep
<1> QED BY <1>2, <1>3, <1>5, <1>6, <1>7

LEMMA WholeInvariant == Spec => []WholeInv
BY WholeInit, WholeStep, PTL DEF Spec

(* The errors of every row number its attempts, without a gap or a         *)
(* repetition, whatever was lost, cancelled or retried: FailJob appends to *)
(* the row it reads, and the completer runs it once for an attempt.        *)
THEOREM ErrorsNumberAttempts == Spec => []ErrorHistory
<1>1. WholeInv => ErrorHistory
  <2> SUFFICES ASSUME WholeInv, NEW j \in Job
               PROVE  ErrorHistory!(j)
    BY DEF ErrorHistory
  <2>1. HistoryOf(j)
    BY DEF WholeInv, HistoryInv
  <2> QED BY <2>1 DEF HistoryOf, Numbered
<1> QED BY <1>1, WholeInvariant, PTL

LEMMA HeldIsHolds ==
  ASSUME NEW c, NEW j
  PROVE  Holds(c, j) <=> j \in HeldJobs(c)
<1>1. /\ j \in JobsIn(InBatch(c)) <=> \E i \in DOMAIN batch[c] : batch[c][i].job = j
      /\ j \in JobsIn(InJobsCh(c)) <=> \E i \in DOMAIN jobsCh[c] : jobsCh[c][i].job = j
      /\ j \in JobsIn(InResults(c))
           <=> \E i \in DOMAIN resultsCh[c] : resultsCh[c][i].job = j
      /\ j \in JobsIn(InWork(c))
           <=> \E w \in HoldingWorkers(c) : workOn[c][w].job = j
      /\ j \in JobsIn(InSettling(c))
           <=> compPc[c] = "settling" /\ settling[c].job = j
  BY DEF JobsIn, InBatch, InJobsCh, InResults, InWork, InSettling, Range
<1> QED BY <1>1, HeldParts DEF Holds

(* A job that a client has claimed is in its memory until it is settled,   *)
(* as long as the client runs and no statement was lost.                   *)
THEOREM NothingForgotten == Spec => []NoSilentLoss
<1>1. WholeInv => NoSilentLoss
  BY HeldIsHolds DEF WholeInv, Remembered, Watched, NoSilentLoss
<1> QED BY <1>1, WholeInvariant, PTL

-----------------------------------------------------------------------------
(* The refinement.  Where a job is, is decided by its row and its holder.  *)
Unheld(j) == \A c \in Client : j \notin HeldJobs(c)

Placed(j) ==
  /\ \A c \in Client : j \in HeldJobs(c) =>
       StatusOf(j) = "held" /\ HolderOf(j) = c
  /\ Unheld(j) =>
       /\ HolderOf(j) = NoClient
       /\ jobs[j].state = "none" => StatusOf(j) = "absent"
       /\ jobs[j].state \in Offerable => StatusOf(j) = "waiting"
       /\ jobs[j].state = "running" => StatusOf(j) = "lost"
       /\ jobs[j].state \in Terminal => StatusOf(j) = "done"

LEMMA StatusCases == WholeInv => \A j \in Job : Placed(j)
<1> SUFFICES ASSUME WholeInv, NEW j \in Job PROVE Placed(j)
  OBVIOUS
<1>1. \A c \in Client : j \in HeldJobs(c) =>
        jobs[j].by = c /\ jobs[j].state \in {"running", "cancelled"}
  BY HeldTyped DEF WholeInv
<1>2. HoldersOf(j) = {c \in Client : j \in HeldJobs(c)}
  BY HeldIsHolds DEF HoldersOf
<1>3. ASSUME NEW c \in Client, j \in HeldJobs(c)
      PROVE  StatusOf(j) = "held" /\ HolderOf(j) = c
  <2>1. HoldersOf(j) = {c}
    BY <1>1, <1>2, <1>3
  <2>2. HoldersOf(j) # {} /\ jobs[j].state # "none"
    BY <1>1, <1>3, <2>1
  <2>3. StatusOf(j) = "held"
    BY <2>2 DEF StatusOf
  <2>4. HolderOf(j) = CHOOSE d \in {c} : TRUE
    BY <2>1, <2>2 DEF HolderOf
  <2> QED BY <2>3, <2>4
<1>4. ASSUME Unheld(j)
      PROVE  HoldersOf(j) = {}
  BY <1>2, <1>4 DEF Unheld
<1>5. ASSUME Unheld(j)
      PROVE  /\ HolderOf(j) = NoClient
             /\ jobs[j].state = "none" => StatusOf(j) = "absent"
             /\ jobs[j].state \in Offerable => StatusOf(j) = "waiting"
             /\ jobs[j].state = "running" => StatusOf(j) = "lost"
             /\ jobs[j].state \in Terminal => StatusOf(j) = "done"
  BY <1>4, <1>5 DEF StatusOf, HolderOf, Offerable, Terminal
<1> QED BY <1>3, <1>5 DEF Placed

LEMMA StatusCasesAfter == WholeInv' => (\A j \in Job : Placed(j))'
BY StatusCases, PTL

(* Nothing about job j is visible to JobDelivery.                          *)
Same(j) == /\ StatusOf(j)' = StatusOf(j)
           /\ HolderOf(j)' = HolderOf(j)
           /\ jobs'[j].attempt = jobs[j].attempt

LEMMA SameWhenKept ==
  ASSUME WholeInv, WholeInv', NEW j \in Job, jobs'[j] = jobs[j],
         \A c \in Client : j \in HeldJobs(c)' <=> j \in HeldJobs(c)
  PROVE  Same(j)
<1>1. Placed(j) /\ Placed(j)'
  BY StatusCases, StatusCasesAfter
<1>2. jobs[j].state \in Offerable \cup {"none", "running"} \cup Terminal
  BY DEF WholeInv, DeliveryInv, TypeInv, TypeOK, StoreTypeOK, Row, JobState, Live
<1> QED BY <1>1, <1>2 DEF Placed, Same, Unheld

LEMMA AllSame ==
  ASSUME \A j \in Job : Same(j)
  PROVE  UNCHANGED Delivery!dvars
BY DEF Same, Delivery!dvars, StatusBar, HolderBar, TriesBar

(* The three bars of a step, job by job.                                   *)
LEMMA BarsAt ==
  ASSUME NEW j \in Job
  PROVE  /\ StatusBar[j] = StatusOf(j) /\ StatusBar'[j] = StatusOf(j)'
         /\ HolderBar[j] = HolderOf(j) /\ HolderBar'[j] = HolderOf(j)'
         /\ TriesBar[j] = jobs[j].attempt /\ TriesBar'[j] = jobs'[j].attempt
BY DEF StatusBar, HolderBar, TriesBar

(* Available rows wait, and have an attempt left.                          *)
LEMMA AvailableWaits ==
  ASSUME WholeInv, NEW j \in Job, jobs[j].state = "available"
  PROVE  /\ Unheld(j) /\ StatusOf(j) = "waiting" /\ HolderOf(j) = NoClient
         /\ jobs[j].attempt < PolicyMax
<1>1. Unheld(j)
  BY HeldTyped DEF Unheld, WholeInv
<1>2. Placed(j)
  BY StatusCases
<1> QED BY <1>1, <1>2 DEF Placed, Offerable, WholeInv, AttemptsInv, AttemptsBounded

LEMMA MapClaim ==
  ASSUME WholeInv, WholeInv', NEW c \in Client, NEW S \in SUBSET Job,
         SeenClaim(c, S)
  PROVE  [Delivery!Next]_(Delivery!dvars)
<1>1. StoreTypeOK /\ HeldJobs(c) \in SUBSET Job
  BY HeldTyped DEF WholeInv, DeliveryInv, TypeInv, TypeOK
<1>2. \A j \in S : /\ StatusOf(j) = "waiting" /\ jobs[j].attempt < PolicyMax
                   /\ StatusOf(j)' = "held" /\ HolderOf(j)' = c
                   /\ jobs'[j].attempt = jobs[j].attempt + 1
  <2> SUFFICES ASSUME NEW j \in S
               PROVE  /\ StatusOf(j) = "waiting" /\ jobs[j].attempt < PolicyMax
                      /\ StatusOf(j)' = "held" /\ HolderOf(j)' = c
                      /\ jobs'[j].attempt = jobs[j].attempt + 1
    OBVIOUS
  <2>1. j \in Job /\ jobs[j].state = "available" /\ j \in HeldJobs(c)'
    BY DEF SeenClaim, ClaimRows, HoldsAfter
  <2>2. Placed(j)'
    BY <2>1, StatusCasesAfter
  <2>3. jobs'[j].attempt = jobs[j].attempt + 1
    BY <1>1, <2>1, FetchedRow DEF SeenClaim, ClaimRows
  <2> QED BY <2>1, <2>2, <2>3, AvailableWaits DEF Placed
<1>3. \A j \in Job \ S : Same(j)
  <2> SUFFICES ASSUME NEW j \in Job \ S PROVE Same(j)
    OBVIOUS
  <2>1. jobs'[j] = jobs[j]
    BY <1>1, FetchedRow DEF SeenClaim, ClaimRows
  <2>2. \A d \in Client : j \in HeldJobs(d)' <=> j \in HeldJobs(d)
    BY DEF SeenClaim, HoldsAfter
  <2> QED BY <2>1, <2>2, SameWhenKept
<1>4. CASE S = {}
  BY <1>3, <1>4, AllSame
<1>5. CASE S # {}
  <2>1. Delivery!Claim(c, S)
    <3>1. \A j \in S : StatusBar[j] = "waiting" /\ TriesBar[j] < PolicyMax
      BY <1>2, BarsAt
    <3>2. StatusBar' = [j \in Job |-> IF j \in S THEN "held" ELSE StatusBar[j]]
      BY <1>2, <1>3 DEF Same, StatusBar
    <3>3. HolderBar' = [j \in Job |-> IF j \in S THEN c ELSE HolderBar[j]]
      BY <1>2, <1>3 DEF Same, HolderBar
    <3>4. TriesBar' = [j \in Job |-> IF j \in S THEN TriesBar[j] + 1 ELSE TriesBar[j]]
      BY <1>2, <1>3 DEF Same, TriesBar
    <3> QED BY <3>1, <3>2, <3>3, <3>4 DEF Delivery!Claim
  <2> QED BY <1>5, <2>1 DEF Delivery!Next
<1> QED BY <1>4, <1>5

LEMMA MapLostClaim ==
  ASSUME WholeInv, WholeInv', NEW c \in Client, NEW S \in SUBSET Job,
         SeenLostClaim(c, S)
  PROVE  [Delivery!Next]_(Delivery!dvars)
<1>1. StoreTypeOK
  BY DEF WholeInv, DeliveryInv, TypeInv, TypeOK
<1>2. \A j \in S : /\ StatusOf(j) = "waiting" /\ jobs[j].attempt < PolicyMax
                   /\ StatusOf(j)' = "lost" /\ HolderOf(j)' = HolderOf(j)
                   /\ jobs'[j].attempt = jobs[j].attempt + 1
  <2> SUFFICES ASSUME NEW j \in S
               PROVE  /\ StatusOf(j) = "waiting" /\ jobs[j].attempt < PolicyMax
                      /\ StatusOf(j)' = "lost" /\ HolderOf(j)' = HolderOf(j)
                      /\ jobs'[j].attempt = jobs[j].attempt + 1
    OBVIOUS
  <2>1. j \in Job /\ jobs[j].state = "available"
    BY DEF SeenLostClaim, ClaimRows
  <2>2. Placed(j)'
    BY <2>1, StatusCasesAfter
  <2>3. Unheld(j)'
    BY <2>1, AvailableWaits DEF Unheld, SeenLostClaim, HoldersKept
  <2>4. jobs'[j].attempt = jobs[j].attempt + 1 /\ jobs'[j].state = "running"
    BY <1>1, <2>1, FetchedRow DEF SeenLostClaim, ClaimRows
  <2> QED BY <2>1, <2>2, <2>3, <2>4, AvailableWaits DEF Placed
<1>3. \A j \in Job \ S : Same(j)
  <2> SUFFICES ASSUME NEW j \in Job \ S PROVE Same(j)
    OBVIOUS
  <2>1. jobs'[j] = jobs[j]
    BY <1>1, FetchedRow DEF SeenLostClaim, ClaimRows
  <2> QED BY <2>1, SameWhenKept DEF SeenLostClaim, HoldersKept
<1>4. CASE S = {}
  BY <1>3, <1>4, AllSame
<1>5. CASE S # {}
  <2>1. Delivery!ClaimAndLose(S)
    <3>1. \A j \in S : StatusBar[j] = "waiting" /\ TriesBar[j] < PolicyMax
      BY <1>2, BarsAt
    <3>2. StatusBar' = [j \in Job |-> IF j \in S THEN "lost" ELSE StatusBar[j]]
      BY <1>2, <1>3 DEF Same, StatusBar
    <3>3. HolderBar' = HolderBar
      BY <1>2, <1>3 DEF Same, HolderBar
    <3>4. TriesBar' = [j \in Job |-> IF j \in S THEN TriesBar[j] + 1 ELSE TriesBar[j]]
      BY <1>2, <1>3 DEF Same, TriesBar
    <3> QED BY <3>1, <3>2, <3>3, <3>4 DEF Delivery!ClaimAndLose
  <2> QED BY <1>5, <2>1 DEF Delivery!Next
<1> QED BY <1>4, <1>5

LEMMA MapDrop ==
  ASSUME WholeInv, WholeInv', NEW c \in Client, NEW S \in SUBSET Job,
         SeenDrop(c, S)
  PROVE  [Delivery!Next]_(Delivery!dvars)
<1>1. \A d \in Client : \A j \in HeldJobs(d) :
        jobs[j].by = d /\ jobs[j].state \in {"running", "cancelled"}
  BY HeldTyped DEF WholeInv
<1>2. \A j \in S : /\ StatusOf(j) = "held" /\ HolderOf(j) = c
                   /\ StatusOf(j)' \in {"lost", "done"}
                   /\ HolderOf(j)' = NoClient
  <2> SUFFICES ASSUME NEW j \in S
               PROVE  /\ StatusOf(j) = "held" /\ HolderOf(j) = c
                      /\ StatusOf(j)' \in {"lost", "done"}
                      /\ HolderOf(j)' = NoClient
    OBVIOUS
  <2>1. j \in Job /\ j \in HeldJobs(c) /\ j \notin HeldJobs(c)'
    BY DEF SeenDrop, HoldsAfter
  <2>2. Placed(j) /\ Placed(j)'
    BY <2>1, StatusCases, StatusCasesAfter
  <2>3. Unheld(j)'
    BY <1>1, <2>1 DEF Unheld, SeenDrop, HoldsAfter
  <2>4. jobs'[j].state \in {"running", "cancelled"}
    BY <1>1, <2>1 DEF SeenDrop
  <2> QED BY <2>1, <2>2, <2>3, <2>4 DEF Placed, Terminal
<1>3. \A j \in Job \ S : Same(j)
  BY SameWhenKept DEF SeenDrop, HoldsAfter
<1>4. CASE S = {}
  BY <1>3, <1>4, AllSame
<1>5. CASE S # {}
  <2>1. Delivery!Lose(c, S)
    <3>1. \A j \in S : /\ StatusBar[j] = "held" /\ HolderBar[j] = c
                       /\ StatusBar'[j] \in {"lost", "done"}
      BY <1>2, BarsAt
    <3>2. StatusBar' = [j \in Job |-> IF j \in S THEN StatusBar'[j] ELSE StatusBar[j]]
      BY <1>3 DEF Same, StatusBar
    <3>3. HolderBar' = [j \in Job |-> IF j \in S THEN NoClient ELSE HolderBar[j]]
      BY <1>2, <1>3 DEF Same, HolderBar
    <3>4. TriesBar' = TriesBar
      BY DEF TriesBar, SeenDrop
    <3> QED BY <3>1, <3>2, <3>3, <3>4 DEF Delivery!Lose
  <2> QED BY <1>5, <2>1 DEF Delivery!Next
<1> QED BY <1>4, <1>5

LEMMA MapVerdict ==
  ASSUME WholeInv, WholeInv', NEW c \in Client, NEW j \in Job,
         SeenVerdict(c, j)
  PROVE  Delivery!Next
<1>1. StoreTypeOK /\ UniqueLiveKey /\ jobs[j] \in Row
  BY DEF WholeInv, DeliveryInv, TypeInv, TypeOK, StoreTypeOK
<1>2. \A d \in Client : j \in HeldJobs(d) =>
        jobs[j].by = d /\ jobs[j].state \in {"running", "cancelled"}
  BY HeldTyped DEF WholeInv
<1>3. j \in HeldJobs(c) /\ Unheld(j)'
  BY <1>2 DEF SeenVerdict, HoldsAfter, Unheld
<1>4. Placed(j) /\ Placed(j)'
  BY StatusCases, StatusCasesAfter
<1>5. \A k \in Job \ {j} : Same(k)
  <2> SUFFICES ASSUME NEW k \in Job \ {j} PROVE Same(k)
    OBVIOUS
  <2>1. jobs'[k] = jobs[k]
    BY <1>1, VerdictEndsRun
  <2>2. \A d \in Client : k \in HeldJobs(d)' <=> k \in HeldJobs(d)
    BY DEF SeenVerdict, HoldsAfter
  <2> QED BY <2>1, <2>2, SameWhenKept
<1>6. /\ jobs'[j].attempt = jobs[j].attempt
      /\ \/ jobs'[j].state \in Terminal
         \/ jobs'[j].state \in Offerable /\ jobs[j].attempt < PolicyMax
  <2>1. CASE CompleteJob(j)
    <3>1. jobs'[j] = [jobs[j] EXCEPT !.state = "completed"]
      BY <1>1, <2>1 DEF CompleteJob, StoreTypeOK
    <3> QED BY <1>1, <3>1 DEF Row, Terminal
  <2>2. ASSUME NEW retry \in BOOLEAN, FailJob(j, retry),
               retry => jobs[j].attempt < PolicyMax, jobs'[j] # jobs[j]
        PROVE  /\ jobs'[j].attempt = jobs[j].attempt
               /\ \/ jobs'[j].state \in Terminal
                  \/ jobs'[j].state \in Offerable /\ jobs[j].attempt < PolicyMax
    <3>1. jobs'[j] = [jobs[j] EXCEPT
                        !.state  = IF retry THEN "retryable" ELSE "discarded",
                        !.due    = IF retry THEN FALSE ELSE @,
                        !.errors = Append(@, jobs[j].attempt)]
      BY <1>1, <2>2 DEF FailJob, StoreTypeOK
    <3> QED BY <1>1, <2>2, <3>1 DEF Row, Terminal, Offerable
  <2>3. CASE jobs'[j] = jobs[j]
    <3>1. jobs'[j].state = "cancelled"
      BY <1>1, <1>2, <1>3, <2>3, VerdictEndsRun
    <3> QED BY <2>3, <3>1 DEF Terminal
  <2> QED BY <2>1, <2>2, <2>3 DEF SeenVerdict
<1>7. PICK st \in {"waiting", "done"} :
        StatusOf(j)' = st /\ (st = "waiting" => jobs[j].attempt < PolicyMax)
  BY <1>3, <1>4, <1>6 DEF Placed
<1>8. Delivery!GiveBack(j, st)
  <2>1. StatusBar[j] = "held" /\ (st = "waiting" => TriesBar[j] < PolicyMax)
    BY <1>3, <1>4, <1>7, BarsAt DEF Placed
  <2>2. StatusBar' = [StatusBar EXCEPT ![j] = st]
    BY <1>5, <1>7 DEF Same, StatusBar
  <2>3. HolderBar' = [HolderBar EXCEPT ![j] = NoClient]
    BY <1>3, <1>4, <1>5 DEF Same, HolderBar, Placed
  <2>4. TriesBar' = TriesBar
    BY <1>5, <1>6 DEF Same, TriesBar
  <2> QED BY <2>1, <2>2, <2>3, <2>4 DEF Delivery!GiveBack
<1> QED BY <1>8 DEF Delivery!Next

(* Of the other statements JobDelivery sees an insertion, and a            *)
(* cancellation of a job that nobody holds.                                *)
LEMMA MapTable ==
  ASSUME WholeInv, WholeInv', HoldersKept, TableChange
  PROVE  [Delivery!Next]_(Delivery!dvars)
<1>1. StoreTypeOK /\ \A j \in Job : jobs[j] \in Row
  BY DEF WholeInv, DeliveryInv, TypeInv, TypeOK, StoreTypeOK
<1>2. \A c \in Client : \A j \in HeldJobs(c) :
        jobs[j].by = c /\ jobs[j].state \in {"running", "cancelled"}
  BY HeldTyped DEF WholeInv
<1>3. \A j \in Job : Unheld(j)' <=> Unheld(j)
  BY DEF HoldersKept, Unheld
<1>4. \A j \in Job : Placed(j) /\ Placed(j)'
  BY StatusCases, StatusCasesAfter
<1>5. \A j \in Job : jobs'[j] = jobs[j] => Same(j)
  BY SameWhenKept DEF HoldersKept
<1>6. ASSUME NEW j \in Job, ~Unheld(j), jobs'[j].attempt = jobs[j].attempt
      PROVE  Same(j)
  <2>1. PICK c \in Client : j \in HeldJobs(c) /\ j \in HeldJobs(c)'
    BY <1>6 DEF Unheld, HoldersKept
  <2> QED BY <1>4, <1>6, <2>1 DEF Placed, Same
<1>7. ASSUME NEW j \in Job, Unheld(j), jobs'[j].attempt = jobs[j].attempt,
             \/ jobs'[j].state = jobs[j].state
             \/ jobs'[j].state \in Offerable /\ jobs[j].state \in Offerable
      PROVE  Same(j)
  <2>1. jobs[j].state \in Offerable \cup {"none", "running"} \cup Terminal
    BY <1>1 DEF Row, JobState, Live
  <2>2. Unheld(j)'
    BY <1>3, <1>7
  <2> QED BY <1>4, <1>7, <2>1, <2>2 DEF Placed, Same
<1>8. CASE PromoteScheduledJobs
  <2>1. ASSUME NEW j \in Job PROVE Same(j)
    <3>1. CASE jobs'[j] = jobs[j]
      BY <1>5, <3>1
    <3>2. CASE /\ jobs'[j] = [jobs[j] EXCEPT !.state = "available"]
               /\ jobs[j].state \in PromotableStates
      <4>1. /\ jobs'[j].attempt = jobs[j].attempt
            /\ jobs'[j].state \in Offerable /\ jobs[j].state \in Offerable
        BY <1>1, <3>2 DEF Row, PromotableStates, Offerable
      <4> QED BY <1>6, <1>7, <4>1
    <3> QED BY <1>8, <3>1, <3>2 DEF PromoteScheduledJobs
  <2> QED BY <2>1, AllSame
<1>9. ASSUME NEW j \in Job, TimePasses(j)
      PROVE  [Delivery!Next]_(Delivery!dvars)
  <2>1. \A k \in Job \ {j} : Same(k)
    BY <1>1, <1>5, <1>9 DEF TimePasses, StoreTypeOK
  <2>2. jobs'[j].attempt = jobs[j].attempt /\ jobs'[j].state = jobs[j].state
    <3>1. jobs'[j] = [jobs[j] EXCEPT !.due = TRUE]
      BY <1>1, <1>9 DEF TimePasses, StoreTypeOK
    <3> QED BY <1>1, <3>1 DEF Row
  <2>3. Same(j)
    BY <1>6, <1>7, <2>2
  <2> QED BY <2>1, <2>3, AllSame
<1>10. ASSUME NEW j \in Job, NEW st \in {"available", "scheduled"},
              InsertJob(j, st)
       PROVE  Delivery!Next
  <2>1. \A k \in Job \ {j} : Same(k)
    BY <1>1, <1>5, <1>10 DEF InsertJob, StoreTypeOK
  <2>2. /\ jobs[j].state = "none" /\ jobs'[j].state \in Offerable
        /\ jobs'[j].attempt = jobs[j].attempt
    <3>1. jobs'[j] = [jobs[j] EXCEPT !.state = st] /\ jobs[j].state = "none"
      BY <1>1, <1>10 DEF InsertJob, StoreTypeOK
    <3> QED BY <1>1, <3>1 DEF Row, Offerable
  <2>3. Unheld(j) /\ Unheld(j)'
    BY <1>2, <1>3, <2>2 DEF Unheld
  <2>4. /\ StatusOf(j) = "absent" /\ StatusOf(j)' = "waiting"
        /\ HolderOf(j)' = HolderOf(j)
    BY <1>4, <2>2, <2>3 DEF Placed
  <2>5. Delivery!Submit(j)
    <3>1. StatusBar[j] = "absent"
      BY <2>4, BarsAt
    <3>2. StatusBar' = [StatusBar EXCEPT ![j] = "waiting"]
      BY <2>1, <2>4 DEF Same, StatusBar
    <3>3. HolderBar' = HolderBar
      BY <2>1, <2>4 DEF Same, HolderBar
    <3>4. TriesBar' = TriesBar
      BY <2>1, <2>2 DEF Same, TriesBar
    <3> QED BY <3>1, <3>2, <3>3, <3>4 DEF Delivery!Submit
  <2> QED BY <2>5 DEF Delivery!Next
<1>11. ASSUME NEW j \in Job, CancelJob(j)
       PROVE  [Delivery!Next]_(Delivery!dvars)
  <2>1. \A k \in Job \ {j} : Same(k)
    BY <1>1, <1>5, <1>11 DEF CancelJob, StoreTypeOK
  <2>2. /\ jobs[j].state \in Offerable \cup {"running"}
        /\ jobs'[j].state \in Terminal
        /\ jobs'[j].attempt = jobs[j].attempt
    <3>1. /\ jobs'[j] = [jobs[j] EXCEPT !.state = "cancelled"]
          /\ jobs[j].state \notin Terminal \cup {"none"}
      BY <1>1, <1>11 DEF CancelJob, StoreTypeOK
    <3>2. jobs[j].state \in Offerable \cup {"running"}
      BY <1>1, <3>1 DEF Row, JobState, Live
    <3> QED BY <1>1, <3>1, <3>2 DEF Row, Terminal
  <2>3. CASE ~Unheld(j)
    BY <1>6, <2>1, <2>2, <2>3, AllSame
  <2>4. CASE Unheld(j)
    <3>1. /\ StatusOf(j) \in {"waiting", "lost"} /\ StatusOf(j)' = "done"
          /\ HolderOf(j)' = HolderOf(j)
      BY <1>3, <1>4, <2>2, <2>4 DEF Placed
    <3>2. Delivery!Revoke(j)
      <4>1. StatusBar[j] \in {"waiting", "lost"}
        BY <3>1, BarsAt
      <4>2. StatusBar' = [StatusBar EXCEPT ![j] = "done"]
        BY <2>1, <3>1 DEF Same, StatusBar
      <4>3. HolderBar' = HolderBar
        BY <2>1, <3>1 DEF Same, HolderBar
      <4>4. TriesBar' = TriesBar
        BY <2>1, <2>2 DEF Same, TriesBar
      <4> QED BY <4>1, <4>2, <4>3, <4>4 DEF Delivery!Revoke
    <3> QED BY <3>2 DEF Delivery!Next
  <2> QED BY <2>3, <2>4
<1>12. CASE UNCHANGED jobs
  BY <1>5, <1>12, AllSame
<1> QED BY <1>8, <1>9, <1>10, <1>11, <1>12 DEF TableChange

LEMMA MapInit == Init => Delivery!Init
<1> SUFFICES ASSUME Init PROVE Delivery!Init
  OBVIOUS
<1>1. WholeInv
  BY WholeInit
<1>2. ASSUME NEW j \in Job
      PROVE  /\ StatusOf(j) = "absent" /\ HolderOf(j) = NoClient
             /\ jobs[j].attempt = 0
  <2>1. jobs[j] = NoRow /\ Unheld(j)
    BY NothingHeldFirst DEF Init, StoreInit, Unheld
  <2> QED BY <1>1, <2>1, StatusCases DEF Placed, NoRow
<1> QED BY <1>2 DEF Delivery!Init, StatusBar, HolderBar, TriesBar

(* The pipeline implements JobDelivery, for any number of clients, workers *)
(* and jobs and any size of its channels: whatever is fetched, sent,       *)
(* retried, dropped, cancelled or lost, a job waits, is held by one        *)
(* client, is lost, or is done, and is tried at most PolicyMax times.      *)
THEOREM PipelineImplementsDelivery == Spec => ImplementsDelivery
<1>1. WholeInv /\ WholeInv' /\ [Next]_vars => [Delivery!Next]_(Delivery!dvars)
  <2> SUFFICES ASSUME WholeInv, WholeInv', [Next]_vars
               PROVE  [Delivery!Next]_(Delivery!dvars)
    OBVIOUS
  <2>1. Seen
    BY StepIsSeen DEF WholeInv
  <2> QED BY <2>1, MapClaim, MapLostClaim, MapDrop, MapVerdict, MapTable DEF Seen
<1> QED BY <1>1, MapInit, WholeInvariant, PTL
        DEF Spec, ImplementsDelivery, Delivery!Spec
=============================================================================
