----------------------------- MODULE JobAttempts ----------------------------
(***************************************************************************)
(* One job through its attempts: what a worker does between the claim and  *)
(* the result (executeJob in executor.go, handleJob in client.go), the     *)
(* rows it writes to rivo_job_logs, and the wait for the next attempt that *)
(* the completer computes (shouldRetry and calculateBackoff).  Pipeline    *)
(* has many jobs and channels; here the handler has contexts that expire,  *)
(* panics, log entries, and time is counted.  That one worker has the job  *)
(* at a time is what Pipeline shows.                                       *)
(***************************************************************************)
EXTENDS Naturals, FiniteSets

CONSTANTS
  PolicyMax,    \* RetryPolicy.MaxAttempts of the completer
  Initial,      \* RetryPolicy.InitialBackoff, in ticks of the model's clock
  Exponent,     \* RetryPolicy.BackoffExponent
  MaxBackoff,   \* RetryPolicy.MaxBackoff, in ticks
  Delays,       \* how far in the future ScheduleAt may be, in ticks
  MaxEntries,   \* the lines a handler writes to its logger
  Budget        \* how often each event of the environment may happen

(* "dbError" is a statement that fails, or whose answer is lost; "gone" is *)
(* the end of the process, or of the worker before its result was sent.    *)
Event == {"cancelJob", "dbError", "gone"}

ASSUME AttemptsAssumption ==
  /\ {PolicyMax, Initial, Exponent, MaxBackoff} \subseteq Nat \ {0}
  /\ Initial <= MaxBackoff
  /\ Delays \subseteq Nat /\ 0 \in Delays
  /\ MaxEntries \in Nat
  /\ Budget \in [Event -> Nat]

Attempt == 1..PolicyMax

VARIABLES
  state,      \* rivo_jobs.state
  attempt,    \* rivo_jobs.attempt
  wait,       \* ticks until rivo_jobs.scheduled_at
  registered, \* the kind has a handler
  pc,         \* where the worker is with the job
  ctxOver,    \* the context of the handler has expired or was cancelled
  outcome,    \* how the handler ended
  logId,      \* the row of this attempt, as far as handleJob knows, or 0
  written,    \* the entries of the attempt's JobLogger
  atReturn,   \* how many there were when the handler returned
  log,        \* status of the rows of rivo_job_logs, by attempt
  saved,      \* how many entries the row of this attempt was closed with
  rested,     \* ticks since the job was enqueued or failed
  owed,       \* how many were due to pass before the next attempt
  trouble,    \* what happened to each attempt
  left        \* events that can still happen

jobVars    == <<state, attempt, wait>>
workerVars == <<pc, ctxOver, outcome, logId>>
loggerVars == <<written, atReturn>>
logVars    == <<log, saved>>
history    == <<rested, owed, trouble>>
vars == <<jobVars, registered, workerVars, loggerVars, logVars, history, left>>

Terminal == {"completed", "cancelled", "discarded"}

(* A delay with the most jitter.                                           *)
Jittered(d) == d + (3 * d) \div 10

TypeOK ==
  /\ state \in {"available", "scheduled", "retryable", "running"} \cup Terminal
  /\ attempt \in 0..PolicyMax
  /\ wait \in Nat
  /\ registered \in BOOLEAN
  /\ pc \in {"idle", "dispatch", "create", "handle", "save", "result", "gone"}
  /\ ctxOver \in BOOLEAN
  /\ outcome \in {"none", "ok", "error", "panic", "unhandled"}
  /\ logId \in 0..PolicyMax
  /\ written \in 0..MaxEntries
  /\ atReturn \in 0..MaxEntries
  /\ log \in [Attempt -> {"none", "running", "completed", "failed"}]
  /\ saved \in 0..MaxEntries
  /\ rested \in Nat /\ owed \in Nat
  /\ trouble \in [Attempt -> SUBSET {"unhandled", "ctx", "panic", "db", "gone"}]
  /\ left \in [Event -> Nat]

(* enqueueJob: a ScheduleAt in the future makes the job scheduled.         *)
Init ==
  /\ wait \in Delays /\ owed = wait
  /\ state = IF wait > 0 THEN "scheduled" ELSE "available"
  /\ attempt = 0
  /\ registered \in BOOLEAN
  /\ pc = "idle" /\ ctxOver = FALSE /\ outcome = "none" /\ logId = 0
  /\ written = 0 /\ atReturn = 0
  /\ log = [n \in Attempt |-> "none"] /\ saved = 0
  /\ rested = 0
  /\ trouble = [n \in Attempt |-> {}]
  /\ left = Budget

Spend(e) == left[e] > 0 /\ left' = [left EXCEPT ![e] = @ - 1]

Blame(t) == trouble' = [trouble EXCEPT ![attempt] = @ \cup {t}]

-----------------------------------------------------------------------------
(* The delay before the retry that follows attempt n, without jitter.      *)
GrowthLate[n \in Nat] ==
  IF n <= 2 THEN Initial
  ELSE LET d == GrowthLate[n - 1] * Exponent
       IN IF d > MaxBackoff THEN MaxBackoff ELSE d

(* The loop of calculateBackoff, which stops at the limit: a longer delay  *)
(* would be cut to it again.                                               *)
Growth[n \in Nat] ==
  IF n <= 1 THEN Initial
  ELSE LET d == Growth[n - 1] * Exponent
       IN IF d > MaxBackoff THEN MaxBackoff ELSE d

ShortBackoff(n) == {GrowthLate[n]}

(* calculateBackoff: up to 30 % are added, after the limit was applied.    *)
Backoff(n) == Growth[n]..Jittered(Growth[n])

-----------------------------------------------------------------------------
(* The job.                                                                *)

(* Time passes.  It matters only while the job waits.                      *)
Tick ==
  /\ wait > 0 /\ state \in {"scheduled", "retryable"}
  /\ wait' = wait - 1 /\ rested' = rested + 1
  /\ UNCHANGED <<state, attempt, registered, workerVars, loggerVars, logVars,
                 owed, trouble, left>>

(* PromoteScheduledJobs.                                                   *)
Promote ==
  /\ state \in {"scheduled", "retryable"} /\ wait = 0
  /\ state' = "available"
  /\ UNCHANGED <<attempt, wait, registered, workerVars, loggerVars, logVars,
                 history, left>>

(* FetchJobs, and the worker that takes the row from the channel.          *)
Claim ==
  /\ pc = "idle" /\ state = "available" /\ wait = 0
  /\ state' = "running" /\ attempt' = attempt + 1
  /\ pc' = "dispatch"
  /\ UNCHANGED <<wait, registered, ctxOver, outcome, logId, loggerVars, logVars,
                 history, left>>

(* CancelJob does not reach the handler.                                   *)
CancelJob ==
  /\ state \notin Terminal /\ Spend("cancelJob")
  /\ state' = "cancelled"
  /\ UNCHANGED <<attempt, wait, registered, workerVars, loggerVars, logVars, history>>

RegisterHandler ==
  /\ ~registered /\ registered' = TRUE
  /\ UNCHANGED <<jobVars, workerVars, loggerVars, logVars, history, left>>

-----------------------------------------------------------------------------
(* The worker.                                                             *)

(* What the worker knew of an attempt is gone when it is settled; the next *)
(* attempt has a context and a JobLogger of its own.                       *)
Forgotten ==
  /\ ctxOver' = FALSE /\ outcome' = "none" /\ logId' = 0
  /\ written' = 0 /\ atReturn' = 0 /\ saved' = 0

(* handleJob up to the context of the handler.  A kind without a handler   *)
(* is an error, of which no log is written.                                *)
Dispatch ==
  /\ pc = "dispatch"
  /\ IF registered
     THEN pc' = "create" /\ UNCHANGED <<outcome, trouble>>
     ELSE pc' = "result" /\ outcome' = "unhandled" /\ Blame("unhandled")
  /\ UNCHANGED <<jobVars, registered, ctxOver, logId, loggerVars, logVars,
                 rested, owed, left>>

(* The timeout of the job or of the handler is over, or the context of     *)
(* Start is cancelled.  The handler goes on.                               *)
Expire ==
  /\ pc \in {"create", "handle", "save"} /\ ~ctxOver
  /\ ctxOver' = TRUE /\ Blame("ctx")
  /\ UNCHANGED <<jobVars, registered, pc, outcome, logId, loggerVars, logVars,
                 rested, owed, left>>

(* A statement of handleJob fails: its context is over, or the database or *)
(* the connection fails.                                                   *)
StatementFails ==
  \/ ctxOver /\ UNCHANGED <<trouble, left>>
  \/ Spend("dbError") /\ Blame("db")

CreateJobLog ==
  /\ pc = "create" /\ ~ctxOver
  /\ log' = [log EXCEPT ![attempt] = "running"] /\ logId' = attempt
  /\ pc' = "handle"
  /\ UNCHANGED <<jobVars, registered, ctxOver, outcome, loggerVars, saved,
                 history, left>>

(* The error is ignored; the row may be there, with an id nobody knows.    *)
CreateFails ==
  /\ pc = "create" /\ StatementFails
  /\ log' = log \/ log' = [log EXCEPT ![attempt] = "running"]
  /\ logId' = 0
  /\ pc' = "handle"
  /\ UNCHANGED <<jobVars, registered, ctxOver, outcome, loggerVars, saved,
                 rested, owed>>

(* A line of the JobLogger, by the handler or by a goroutine it started.   *)
LogEntry ==
  /\ pc \in {"handle", "save"} /\ written < MaxEntries
  /\ written' = written + 1
  /\ UNCHANGED <<jobVars, registered, workerVars, atReturn, logVars, history, left>>

HandlerReturns ==
  /\ pc = "handle"
  /\ outcome' \in {"ok", "error"}
  /\ atReturn' = written
  /\ pc' = "save"
  /\ UNCHANGED <<jobVars, registered, ctxOver, logId, written, logVars, history, left>>

(* executeJob recovers the panic: the rest of handleJob is not executed.   *)
HandlerPanics ==
  /\ pc = "handle"
  /\ outcome' = "panic" /\ Blame("panic")
  /\ pc' = "result"
  /\ UNCHANGED <<jobVars, registered, ctxOver, logId, loggerVars, logVars,
                 rested, owed, left>>

ClosedAlways == "completed"

(* JobLogger.JSON, after the handler has returned.                         *)
JSON == written

(* CompleteJobLog or FailJobLog on the row handleJob knows.                *)
Closed == IF outcome = "ok" THEN "completed" ELSE "failed"

RowClosed ==
  IF logId = 0 THEN UNCHANGED logVars
               ELSE /\ log' = [log EXCEPT ![logId] = Closed]
                    /\ saved' = JSON

CloseForgotten ==
  /\ pc = "save" /\ pc' = "result"
  /\ UNCHANGED <<jobVars, registered, ctxOver, outcome, logId, loggerVars,
                 logVars, history, left>>

CloseJobLog ==
  /\ pc = "save" /\ ~ctxOver
  /\ RowClosed
  /\ pc' = "result"
  /\ UNCHANGED <<jobVars, registered, ctxOver, outcome, logId, loggerVars, history, left>>

(* The statement has the context of the handler.  Its error is ignored; it *)
(* may have taken effect.                                                  *)
CloseFails ==
  /\ pc = "save" /\ StatementFails
  /\ RowClosed \/ UNCHANGED logVars
  /\ pc' = "result"
  /\ UNCHANGED <<jobVars, registered, ctxOver, outcome, logId, loggerVars, rested, owed>>

-----------------------------------------------------------------------------
(* The completer.                                                          *)
ShouldRetry == attempt < PolicyMax

FailJob ==
  IF ShouldRetry
  THEN \E d \in Backoff(attempt) :
         /\ state' = "retryable" /\ wait' = d
         /\ rested' = 0 /\ owed' = Growth[attempt]
  ELSE state' = "discarded" /\ UNCHANGED <<wait, rested, owed>>

HandleResult ==
  /\ pc = "result"
  /\ IF outcome = "ok" THEN state' = "completed" /\ UNCHANGED <<wait, rested, owed>>
                       ELSE FailJob
  /\ pc' = "idle" /\ Forgotten
  /\ UNCHANGED <<attempt, registered, log, trouble, left>>

(* The statement that settles the job fails: the row stays as it is.       *)
HandleResultError ==
  /\ pc = "result" /\ Spend("dbError") /\ Blame("db")
  /\ pc' = "idle" /\ Forgotten
  /\ UNCHANGED <<jobVars, registered, log, rested, owed>>

Gone ==
  /\ pc \notin {"idle", "gone"} /\ Spend("gone") /\ Blame("gone")
  /\ pc' = "gone" /\ Forgotten
  /\ UNCHANGED <<jobVars, registered, log, rested, owed>>

-----------------------------------------------------------------------------
HandleJob ==
  \/ Dispatch \/ CreateJobLog \/ CreateFails \/ HandlerReturns \/ HandlerPanics
  \/ CloseJobLog \/ CloseFails

Next ==
  \/ Tick \/ Promote \/ Claim \/ CancelJob \/ RegisterHandler
  \/ HandleJob \/ Expire \/ LogEntry
  \/ HandleResult \/ HandleResultError \/ Gone

Spec == Init /\ [][Next]_vars

-----------------------------------------------------------------------------
(* Properties.                                                             *)

(* handleJob writes the log and the completer the job, in statements that  *)
(* fail one by one: the log never tells another story than the job.  A job *)
(* is not tried again after an attempt whose log says completed, one that  *)
(* ended well has no failed log of its last attempt, and a closed log has  *)
(* all that the handler wrote before it returned and nothing of another    *)
(* attempt.                                                                *)
LogAgrees ==
  \A n \in Attempt :
    /\ log[n] = "completed" =>
         n = attempt /\ state \in {"running", "cancelled", "completed"}
    /\ log[n] = "failed" /\ n = attempt => state # "completed"
    /\ log[n] # "none" => n <= attempt
    /\ n = attempt /\ pc = "result" /\ log[n] \in {"completed", "failed"} =>
         saved \in atReturn..written

Over(n) == \/ n < attempt
           \/ n = attempt /\ pc \in {"result", "idle", "gone"}

(* Every attempt has a log that says how it ended, except for the reasons  *)
(* there are: the log of an attempt that is over still says running only   *)
(* if the handler panicked, its context was over, a statement failed or    *)
(* the worker was gone; it is missing only if one of the latter three      *)
(* happened or there was no handler.                                       *)
LogExplained ==
  \A n \in Attempt : Over(n) =>
    /\ log[n] = "running" => trouble[n] \cap {"panic", "ctx", "db", "gone"} # {}
    /\ log[n] = "none" => trouble[n] \cap {"unhandled", "ctx", "db", "gone"} # {}

PowerOf[n \in Nat] == IF n = 0 THEN 1 ELSE Exponent * PowerOf[n - 1]

(* min(MaxBackoff, Initial * Exponent^(n-1)), the documented growth.       *)
Reference(n) == LET d == Initial * PowerOf[n - 1]
                IN IF d < MaxBackoff THEN d ELSE MaxBackoff

(* No attempt starts before its time, the ScheduleAt of the caller or the  *)
(* backoff of the attempt before, also when the job was cancelled and came *)
(* back, or was promoted in between; and no failed job is put off for      *)
(* longer than the policy says, plus 30 %.                                 *)
WaitsAsDue ==
  [][/\ attempt' # attempt =>
          rested >= IF attempt = 0 THEN owed ELSE Reference(attempt)
     /\ state' = "retryable" /\ state # "retryable" =>
          wait' <= Jittered(Reference(attempt))]_vars
=============================================================================
