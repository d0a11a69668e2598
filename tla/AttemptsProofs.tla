--------------------------- MODULE AttemptsProofs ---------------------------
(***************************************************************************)
(* The logs of a job agree with its attempts, for any retry policy, any    *)
(* number of attempts and of lines, and any number of failures; and no     *)
(* attempt starts before the backoff of the one before it is over.         *)
(***************************************************************************)
EXTENDS JobAttempts, PlaceLemmas

-----------------------------------------------------------------------------
(* The inductive invariant.                                                *)
Types ==
  /\ state \in {"available", "scheduled", "retryable", "running"} \cup Terminal
  /\ attempt \in 0..PolicyMax
  /\ pc \in {"idle", "dispatch", "create", "handle", "save", "result", "gone"}
  /\ ctxOver \in BOOLEAN
  /\ outcome \in {"none", "ok", "error", "panic", "unhandled"}
  /\ written \in 0..MaxEntries /\ atReturn \in 0..MaxEntries /\ saved \in 0..MaxEntries
  /\ log \in [Attempt -> {"none", "running", "completed", "failed"}]
  /\ trouble \in [Attempt -> SUBSET {"unhandled", "ctx", "panic", "db", "gone"}]

(* A worker has the job.                                                   *)
Held == pc \notin {"idle", "gone"}

JobOK ==
  /\ Held => attempt \in Attempt /\ state \in {"running", "cancelled"}
  /\ state \in {"available", "scheduled", "retryable"} => attempt < PolicyMax
  /\ ctxOver => /\ pc \in {"create", "handle", "save", "result"}
                /\ "ctx" \in trouble[attempt]

(* handleJob knows the row of this attempt, or there is a reason why not.  *)
RowKnown ==
  \/ logId = attempt /\ log[attempt] = "running"
  \/ /\ logId = 0 /\ log[attempt] \in {"none", "running"}
     /\ trouble[attempt] \cap {"ctx", "db"} # {}

NowOK ==
  /\ pc \in {"dispatch", "create"} => log[attempt] = "none"
  /\ pc \in {"handle", "save"} => RowKnown
  /\ pc = "save" => outcome \in {"ok", "error"} /\ atReturn <= written
  /\ pc = "result" =>
       /\ outcome # "none"
       /\ outcome = "ok" => log[attempt] # "failed"
       /\ outcome # "ok" => log[attempt] # "completed"

AttInv == Types /\ JobOK /\ NowOK /\ LogAgrees /\ LogExplained

-----------------------------------------------------------------------------
(* The history of an attempt grows.                                        *)
LEMMA BlameEffect ==
  ASSUME Types, attempt \in Attempt,
         NEW t \in {"unhandled", "ctx", "panic", "db", "gone"}, Blame(t)
  PROVE  /\ trouble' \in [Attempt -> SUBSET {"unhandled", "ctx", "panic", "db", "gone"}]
         /\ trouble'[attempt] = trouble[attempt] \cup {t}
         /\ \A n \in Attempt \ {attempt} : trouble'[n] = trouble[n]
<1>1. trouble[attempt] \cup {t} \in SUBSET {"unhandled", "ctx", "panic", "db", "gone"}
  BY DEF Types
<1> QED BY <1>1 DEF Types, Blame

(* A step within an attempt leaves the logs of the others as they are: it  *)
(* has to say only what it does to its own.                                *)
Tells(n) ==
  /\ log[n] = "completed" => state \in {"running", "cancelled", "completed"}
  /\ log[n] = "failed" => state # "completed"
  /\ pc = "result" /\ log[n] \in {"completed", "failed"} => saved \in atReturn..written
  /\ pc \in {"result", "idle", "gone"} =>
       /\ log[n] = "running" => trouble[n] \cap {"panic", "ctx", "db", "gone"} # {}
       /\ log[n] = "none" => trouble[n] \cap {"unhandled", "ctx", "db", "gone"} # {}

LEMMA Told ==
  ASSUME AttInv, attempt \in Attempt
  PROVE  Tells(attempt)
BY DEF AttInv, LogAgrees, LogExplained, Over, Tells

LEMMA SameAttempt ==
  ASSUME AttInv, UNCHANGED attempt, attempt \in Attempt, Types',
         \A n \in Attempt \ {attempt} : log'[n] = log[n] /\ trouble'[n] = trouble[n],
         Tells(attempt)'
  PROVE  LogAgrees' /\ LogExplained'
<1>1. LogAgrees /\ LogExplained /\ Types
  BY DEF AttInv
<1>2. \A n \in Attempt : n \in Nat /\ attempt \in Nat
  BY AttemptsAssumption DEF Attempt
<1>3. ASSUME NEW n \in Attempt, n # attempt
      PROVE  /\ log'[n] # "completed"
             /\ log'[n] # "none" => n <= attempt
             /\ n < attempt =>
                  /\ log'[n] = "running" =>
                       trouble'[n] \cap {"panic", "ctx", "db", "gone"} # {}
                  /\ log'[n] = "none" =>
                       trouble'[n] \cap {"unhandled", "ctx", "db", "gone"} # {}
  BY <1>1, <1>3 DEF LogAgrees, LogExplained, Over
<1>4. ASSUME NEW n, n = attempt PROVE Tells(n)'
  BY <1>4 DEF Tells
<1>5. LogAgrees'
  <2> SUFFICES ASSUME NEW n \in Attempt
               PROVE  /\ log'[n] = "completed" =>
                           n = attempt' /\ state' \in {"running", "cancelled", "completed"}
                      /\ log'[n] = "failed" /\ n = attempt' => state' # "completed"
                      /\ log'[n] # "none" => n <= attempt'
                      /\ n = attempt' /\ pc' = "result" /\ log'[n] \in {"completed", "failed"}
                           => saved' \in atReturn'..written'
    BY DEF LogAgrees
  <2>1. CASE n # attempt
    BY <1>3, <2>1
  <2>2. CASE n = attempt
    BY <1>2, <1>4, <2>2 DEF Tells
  <2> QED BY <2>1, <2>2
<1>6. LogExplained'
  <2> SUFFICES ASSUME NEW n \in Attempt, Over(n)'
               PROVE  /\ log'[n] = "running" =>
                           trouble'[n] \cap {"panic", "ctx", "db", "gone"} # {}
                      /\ log'[n] = "none" =>
                           trouble'[n] \cap {"unhandled", "ctx", "db", "gone"} # {}
    BY DEF LogExplained
  <2>1. CASE n # attempt
    BY <1>3, <2>1 DEF Over
  <2>2. CASE n = attempt
    BY <1>2, <1>4, <2>2 DEF Tells, Over
  <2> QED BY <2>1, <2>2
<1> QED BY <1>5, <1>6

(* What the worker knows is forgotten with the attempt.                    *)
LEMMA ForgottenType ==
  ASSUME Types, Forgotten
  PROVE  /\ ctxOver' = FALSE /\ outcome' = "none" /\ logId' = 0
         /\ written' \in 0..MaxEntries /\ atReturn' \in 0..MaxEntries
         /\ saved' \in 0..MaxEntries
BY AttemptsAssumption DEF Forgotten

-----------------------------------------------------------------------------
(* The job: no worker has it, or it is cancelled under the worker.         *)
LEMMA JobKeeps ==
  ASSUME AttInv, Tick \/ Promote \/ CancelJob \/ RegisterHandler
  PROVE  AttInv'
<1>1. UNCHANGED <<attempt, pc, ctxOver, outcome, logId, written, atReturn, log, saved, trouble>>
  BY DEF Tick, Promote, CancelJob, RegisterHandler, workerVars, loggerVars, logVars,
     jobVars, history
<1>2. \/ state' = state
      \/ state \in {"scheduled", "retryable"} /\ state' = "available"
      \/ state \notin Terminal /\ state' = "cancelled"
  BY DEF Tick, Promote, CancelJob, RegisterHandler, jobVars
<1>3. Types' /\ JobOK'
  BY <1>1, <1>2 DEF AttInv, Types, JobOK, Held, Terminal
<1>4. NowOK'
  BY <1>1 DEF AttInv, NowOK, RowKnown
<1>5. LogAgrees' /\ LogExplained'
  <2>1. \A n \in Attempt : log[n] = "completed" =>
          n = attempt /\ state' \in {"running", "cancelled", "completed"}
    BY <1>2 DEF AttInv, LogAgrees, Terminal
  <2>2. \A n \in Attempt : log[n] = "failed" /\ n = attempt => state' # "completed"
    BY <1>2 DEF AttInv, LogAgrees
  <2> QED BY <1>1, <2>1, <2>2 DEF AttInv, LogAgrees, LogExplained, Over
<1> QED BY <1>3, <1>4, <1>5 DEF AttInv

LEMMA ClaimKeeps ==
  ASSUME AttInv, Claim
  PROVE  AttInv'
<1>1. /\ pc = "idle" /\ state = "available" /\ state' = "running"
      /\ attempt' = attempt + 1 /\ pc' = "dispatch"
      /\ UNCHANGED <<ctxOver, outcome, logId, written, atReturn, log, saved, trouble>>
  BY DEF Claim, loggerVars, logVars, history
<1>2. /\ attempt \in Nat /\ attempt' \in Attempt /\ attempt' \in 0..PolicyMax
      /\ \A n \in Attempt : n \in Nat
  BY <1>1, AttemptsAssumption DEF AttInv, Types, JobOK, Attempt
<1>3. Types' /\ JobOK'
  BY <1>1, <1>2 DEF AttInv, Types, JobOK, Held
<1>4. log[attempt + 1] = "none"
  BY <1>1, <1>2 DEF AttInv, LogAgrees, Types
<1>5. \A n \in Attempt : log[n] # "completed"
  BY <1>1 DEF AttInv, LogAgrees
<1>6. NowOK'
  BY <1>1, <1>4 DEF NowOK
<1>7. LogAgrees'
  BY <1>1, <1>2, <1>4, <1>5 DEF AttInv, LogAgrees
<1>8. LogExplained'
  <2>1. ASSUME NEW n \in Attempt, Over(n)' PROVE Over(n)
    BY <1>1, <1>2, <2>1 DEF Over
  <2> QED BY <1>1, <2>1 DEF AttInv, LogExplained
<1> QED BY <1>3, <1>6, <1>7, <1>8 DEF AttInv

-----------------------------------------------------------------------------
(* The worker.                                                             *)
LEMMA HeldAttempt ==
  ASSUME AttInv, Held
  PROVE  /\ attempt \in Attempt /\ attempt \in Nat /\ attempt # 0
         /\ attempt \in 0..PolicyMax /\ Types
         /\ log[attempt] \in {"none", "running", "completed", "failed"}
BY AttemptsAssumption DEF AttInv, JobOK, Attempt, Types

LEMMA DispatchKeeps ==
  ASSUME AttInv, Dispatch
  PROVE  AttInv'
<1>1. /\ pc = "dispatch" /\ attempt \in Attempt /\ Types /\ log[attempt] = "none"
      /\ UNCHANGED <<state, attempt, ctxOver, logId, written, atReturn, log, saved>>
  BY HeldAttempt DEF AttInv, NowOK, Held, Dispatch, jobVars, loggerVars, logVars
<1>2. CASE registered
  <2>1. pc' = "create" /\ UNCHANGED <<outcome, trouble>>
    BY <1>2 DEF Dispatch
  <2>2. Types' /\ JobOK' /\ NowOK'
    BY <1>1, <2>1 DEF AttInv, Types, JobOK, NowOK, Held
  <2>3. Tells(attempt)'
    BY <1>1, <2>1 DEF Tells
  <2> QED BY <1>1, <2>1, <2>2, <2>3, SameAttempt DEF AttInv
<1>3. CASE ~registered
  <2>1. pc' = "result" /\ outcome' = "unhandled" /\ Blame("unhandled")
    BY <1>3 DEF Dispatch
  <2>2. /\ trouble' \in [Attempt -> SUBSET {"unhandled", "ctx", "panic", "db", "gone"}]
        /\ trouble'[attempt] = trouble[attempt] \cup {"unhandled"}
        /\ \A n \in Attempt \ {attempt} : trouble'[n] = trouble[n]
    BY <1>1, <2>1, BlameEffect
  <2>3. Types' /\ JobOK' /\ NowOK'
    BY <1>1, <2>1, <2>2 DEF AttInv, Types, JobOK, NowOK, Held
  <2>4. Tells(attempt)'
    BY <1>1, <2>1, <2>2 DEF Tells
  <2> QED BY <1>1, <2>2, <2>3, <2>4, SameAttempt DEF AttInv
<1> QED BY <1>2, <1>3

LEMMA ExpireKeeps ==
  ASSUME AttInv, Expire
  PROVE  AttInv'
<1>1. /\ pc \in {"create", "handle", "save"} /\ attempt \in Attempt /\ Types
      /\ ctxOver' = TRUE /\ Blame("ctx")
      /\ UNCHANGED <<state, attempt, pc, outcome, logId, written, atReturn, log, saved>>
  BY HeldAttempt DEF Held, Expire, jobVars, loggerVars, logVars
<1>2. /\ trouble' \in [Attempt -> SUBSET {"unhandled", "ctx", "panic", "db", "gone"}]
      /\ trouble'[attempt] = trouble[attempt] \cup {"ctx"}
      /\ \A n \in Attempt \ {attempt} : trouble'[n] = trouble[n]
  BY <1>1, BlameEffect
<1>3. Types' /\ JobOK' /\ NowOK'
  BY <1>1, <1>2 DEF AttInv, Types, JobOK, NowOK, RowKnown, Held
<1>4. Tells(attempt)'
  BY <1>1, Told DEF Tells
<1> QED BY <1>1, <1>2, <1>3, <1>4, SameAttempt DEF AttInv

LEMMA StatementFailsEffect ==
  ASSUME AttInv, Held, StatementFails
  PROVE  /\ trouble' \in [Attempt -> SUBSET {"unhandled", "ctx", "panic", "db", "gone"}]
         /\ trouble[attempt] \subseteq trouble'[attempt]
         /\ trouble'[attempt] \cap {"ctx", "db"} # {}
         /\ \A n \in Attempt \ {attempt} : trouble'[n] = trouble[n]
<1>1. attempt \in Attempt /\ Types
  BY HeldAttempt
<1>2. CASE ctxOver /\ UNCHANGED trouble
  BY <1>1, <1>2 DEF AttInv, JobOK, Types
<1>3. CASE Blame("db")
  BY <1>1, <1>3, BlameEffect
<1> QED BY <1>2, <1>3 DEF StatementFails

(* CreateJobLog: the row is there and known, or there is a reason.         *)
LEMMA CreateKeeps ==
  ASSUME AttInv, CreateJobLog \/ CreateFails
  PROVE  AttInv'
<1>1. /\ pc = "create" /\ pc' = "handle" /\ Held /\ log[attempt] = "none"
      /\ attempt \in Attempt /\ Types /\ attempt \in 0..PolicyMax
      /\ UNCHANGED <<state, attempt, ctxOver, outcome, written, atReturn, saved>>
  BY HeldAttempt DEF AttInv, NowOK, Held, CreateJobLog, CreateFails, jobVars, loggerVars
<1>2. /\ log' \in [Attempt -> {"none", "running", "completed", "failed"}]
      /\ log'[attempt] \in {"none", "running"}
      /\ \A n \in Attempt \ {attempt} : log'[n] = log[n]
  <2>1. log' = log \/ log' = [log EXCEPT ![attempt] = "running"]
    BY DEF CreateJobLog, CreateFails
  <2> QED BY <1>1, <2>1 DEF Types
<1>3. /\ trouble' \in [Attempt -> SUBSET {"unhandled", "ctx", "panic", "db", "gone"}]
      /\ trouble[attempt] \subseteq trouble'[attempt]
      /\ \A n \in Attempt \ {attempt} : trouble'[n] = trouble[n]
  BY <1>1, StatementFailsEffect DEF Types, CreateJobLog, CreateFails, history
<1>4. RowKnown'
  <2>1. CASE CreateJobLog
    BY <1>1, <2>1 DEF CreateJobLog, RowKnown, Types
  <2>2. CASE CreateFails
    <3>1. logId' = 0 /\ trouble'[attempt] \cap {"ctx", "db"} # {}
      BY <1>1, <2>2, StatementFailsEffect DEF CreateFails
    <3> QED BY <1>1, <1>2, <3>1 DEF RowKnown
  <2> QED BY <2>1, <2>2
<1>5. Types' /\ JobOK' /\ NowOK'
  BY <1>1, <1>2, <1>3, <1>4 DEF AttInv, Types, JobOK, NowOK, Held
<1>6. Tells(attempt)'
  BY <1>1, <1>2 DEF Tells
<1> QED BY <1>1, <1>2, <1>3, <1>5, <1>6, SameAttempt DEF AttInv

LEMMA HandlerKeeps ==
  ASSUME AttInv, LogEntry \/ HandlerReturns
  PROVE  AttInv'
<1>1. /\ pc \in {"handle", "save"} /\ pc' \in {"handle", "save"} /\ attempt \in Attempt
      /\ Types /\ RowKnown
      /\ UNCHANGED <<state, attempt, ctxOver, logId, log, saved, trouble>>
  BY HeldAttempt DEF AttInv, NowOK, Held, LogEntry, HandlerReturns, jobVars, workerVars,
     logVars, history
<1>2. CASE LogEntry
  <2>1. written' = written + 1 /\ written < MaxEntries /\ UNCHANGED <<pc, outcome, atReturn>>
    BY <1>2 DEF LogEntry, workerVars
  <2>2. Types' /\ JobOK' /\ NowOK'
    BY <1>1, <2>1, AttemptsAssumption DEF AttInv, Types, JobOK, NowOK, RowKnown, Held
  <2>3. Tells(attempt)'
    BY <1>1, <2>1, Told DEF Tells
  <2> QED BY <1>1, <2>2, <2>3, SameAttempt DEF AttInv
<1>3. CASE HandlerReturns
  <2>1. /\ outcome' \in {"ok", "error"} /\ atReturn' = written /\ pc' = "save"
        /\ UNCHANGED written
    BY <1>3 DEF HandlerReturns
  <2>2. Types' /\ JobOK' /\ NowOK'
    BY <1>1, <2>1, AttemptsAssumption DEF AttInv, Types, JobOK, NowOK, RowKnown, Held
  <2>3. Tells(attempt)'
    BY <1>1, <2>1, Told DEF Tells
  <2> QED BY <1>1, <2>2, <2>3, SameAttempt DEF AttInv
<1> QED BY <1>2, <1>3

LEMMA PanicKeeps ==
  ASSUME AttInv, HandlerPanics
  PROVE  AttInv'
<1>1. /\ pc = "handle" /\ pc' = "result" /\ outcome' = "panic" /\ Blame("panic")
      /\ attempt \in Attempt /\ Types /\ RowKnown
      /\ UNCHANGED <<state, attempt, ctxOver, logId, written, atReturn, log, saved>>
  BY HeldAttempt DEF AttInv, NowOK, Held, HandlerPanics, jobVars, loggerVars, logVars
<1>2. /\ trouble' \in [Attempt -> SUBSET {"unhandled", "ctx", "panic", "db", "gone"}]
      /\ trouble'[attempt] = trouble[attempt] \cup {"panic"}
      /\ \A n \in Attempt \ {attempt} : trouble'[n] = trouble[n]
  BY <1>1, BlameEffect
<1>3. log[attempt] \in {"none", "running"}
      /\ (log[attempt] = "none" => trouble[attempt] \cap {"ctx", "db"} # {})
  BY <1>1 DEF RowKnown
<1>4. Types' /\ JobOK' /\ NowOK'
  BY <1>1, <1>2, <1>3 DEF AttInv, Types, JobOK, NowOK, Held
<1>5. Tells(attempt)'
  BY <1>1, <1>2, <1>3 DEF Tells
<1> QED BY <1>1, <1>2, <1>4, <1>5, SameAttempt DEF AttInv

(* CompleteJobLog and FailJobLog: the row of the attempt is closed as the  *)
(* handler ended, with what it wrote, or there is a reason why not.        *)
LEMMA CloseKeeps ==
  ASSUME AttInv, CloseJobLog \/ CloseFails
  PROVE  AttInv'
<1>1. /\ pc = "save" /\ pc' = "result" /\ Held /\ attempt \in Attempt /\ attempt # 0
      /\ Types /\ RowKnown /\ outcome \in {"ok", "error"} /\ atReturn <= written
      /\ state \in {"running", "cancelled"}
      /\ UNCHANGED <<state, attempt, ctxOver, outcome, logId, written, atReturn>>
  BY HeldAttempt DEF AttInv, NowOK, JobOK, Held, CloseJobLog, CloseFails, jobVars,
     loggerVars
<1>2. /\ trouble' \in [Attempt -> SUBSET {"unhandled", "ctx", "panic", "db", "gone"}]
      /\ trouble[attempt] \subseteq trouble'[attempt]
      /\ \A n \in Attempt \ {attempt} : trouble'[n] = trouble[n]
      /\ CloseFails => trouble'[attempt] \cap {"ctx", "db"} # {}
  <2>1. CASE CloseJobLog
    <3>1. pc' = "result" /\ UNCHANGED trouble
      BY <2>1 DEF CloseJobLog, history
    <3>2. CASE CloseFails
      BY <1>1, <3>1, <3>2, StatementFailsEffect DEF CloseFails
    <3>3. CASE ~CloseFails
      BY <1>1, <3>1, <3>3 DEF Types
    <3> QED BY <3>2, <3>3
  <2>2. CASE CloseFails
    BY <1>1, <2>2, StatementFailsEffect DEF CloseFails
  <2> QED BY <2>1, <2>2
<1>3. \/ /\ UNCHANGED <<log, saved>> /\ (CloseFails \/ logId = 0)
      \/ logId = attempt /\ log' = [log EXCEPT ![attempt] = Closed] /\ saved' = written
  BY <1>1 DEF CloseJobLog, CloseFails, RowClosed, RowKnown, logVars, JSON
<1>4. \/ /\ log'[attempt] = log[attempt] /\ (CloseFails \/ logId = 0)
      \/ log'[attempt] = Closed /\ saved' = written
  BY <1>1, <1>3 DEF Types
<1>5. /\ log' \in [Attempt -> {"none", "running", "completed", "failed"}]
      /\ saved' \in 0..MaxEntries
      /\ \A n \in Attempt \ {attempt} : log'[n] = log[n]
  BY <1>1, <1>3 DEF Types, Closed
<1>6. log[attempt] \in {"none", "running"}
  BY <1>1 DEF RowKnown
<1>7. Types' /\ JobOK' /\ NowOK'
  BY <1>1, <1>2, <1>4, <1>5, <1>6 DEF AttInv, Types, JobOK, NowOK, Held, Closed
<1>8. Tells(attempt)'
  <2>1. CASE log'[attempt] = log[attempt] /\ (CloseFails \/ logId = 0)
    <3>1. trouble'[attempt] \cap {"ctx", "db"} # {}
      BY <1>1, <1>2, <2>1 DEF RowKnown
    <3> QED BY <1>1, <1>6, <2>1, <3>1 DEF Tells
  <2>2. CASE log'[attempt] = Closed /\ saved' = written
    <3>1. saved' \in atReturn'..written'
      BY <1>1, <2>2 DEF Types
    <3> QED BY <1>1, <2>2, <3>1 DEF Tells, Closed
  <2> QED BY <1>4, <2>1, <2>2
<1> QED BY <1>1, <1>2, <1>5, <1>7, <1>8, SameAttempt DEF AttInv

-----------------------------------------------------------------------------
(* The completer, and the end of the worker.                               *)
LEMMA ResultKeeps ==
  ASSUME AttInv, HandleResult
  PROVE  AttInv'
<1>1. /\ pc = "result" /\ pc' = "idle" /\ Forgotten /\ attempt \in Attempt /\ Types
      /\ attempt \in 0..PolicyMax
      /\ outcome = "ok" => log[attempt] # "failed"
      /\ outcome # "ok" => log[attempt] # "completed"
      /\ UNCHANGED <<attempt, log, trouble>>
  BY HeldAttempt DEF AttInv, NowOK, Held, HandleResult
<1>2. \/ outcome = "ok" /\ state' = "completed"
      \/ outcome # "ok" /\ state' = "retryable" /\ attempt < PolicyMax
      \/ outcome # "ok" /\ state' = "discarded"
  BY DEF HandleResult, FailJob, ShouldRetry
<1>3. /\ ctxOver' = FALSE /\ outcome' = "none" /\ logId' = 0
      /\ written' \in 0..MaxEntries /\ atReturn' \in 0..MaxEntries
      /\ saved' \in 0..MaxEntries
  BY <1>1, ForgottenType
<1>4. Types' /\ JobOK' /\ NowOK'
  BY <1>1, <1>2, <1>3 DEF Types, JobOK, NowOK, Held, Terminal
<1>5. Tells(attempt)'
  BY <1>1, <1>2, Told DEF Tells
<1> QED BY <1>1, <1>4, <1>5, SameAttempt DEF AttInv

(* The result is lost: the job stays as it was claimed or cancelled.       *)
LEMMA LostKeeps ==
  ASSUME AttInv, HandleResultError \/ Gone
  PROVE  AttInv'
<1>1. /\ Held /\ attempt \in Attempt /\ Types /\ Forgotten
      /\ UNCHANGED <<state, attempt, log>>
      /\ state \in {"running", "cancelled"}
  BY HeldAttempt DEF AttInv, JobOK, Held, HandleResultError, Gone, jobVars
<1>2. PICK t \in {"db", "gone"} : Blame(t)
  BY DEF HandleResultError, Gone
<1>3. /\ trouble' \in [Attempt -> SUBSET {"unhandled", "ctx", "panic", "db", "gone"}]
      /\ trouble'[attempt] = trouble[attempt] \cup {t}
      /\ \A n \in Attempt \ {attempt} : trouble'[n] = trouble[n]
  BY <1>1, <1>2, BlameEffect
<1>4. pc' \in {"idle", "gone"}
  BY DEF HandleResultError, Gone
<1>5. /\ ctxOver' = FALSE /\ outcome' = "none" /\ logId' = 0
      /\ written' \in 0..MaxEntries /\ atReturn' \in 0..MaxEntries
      /\ saved' \in 0..MaxEntries
  BY <1>1, ForgottenType
<1>6. Types' /\ JobOK' /\ NowOK'
  BY <1>1, <1>3, <1>4, <1>5 DEF AttInv, Types, JobOK, NowOK, Held
<1>7. Tells(attempt)'
  BY <1>1, <1>2, <1>3, <1>4, Told DEF Tells
<1> QED BY <1>1, <1>3, <1>6, <1>7, SameAttempt DEF AttInv

LEMMA AttInit == Init => AttInv
<1> SUFFICES ASSUME Init PROVE AttInv
  OBVIOUS
<1>1. attempt = 0 /\ 0 \notin Attempt /\ PolicyMax \in Nat /\ PolicyMax > 0
      /\ MaxEntries \in Nat /\ \A n \in Attempt : ~(n < 0)
  BY AttemptsAssumption DEF Init, Attempt
<1>2. /\ log = [n \in Attempt |-> "none"] /\ trouble = [n \in Attempt |-> {}]
      /\ pc = "idle" /\ ctxOver = FALSE /\ state \in {"scheduled", "available"}
  BY DEF Init
<1>3. Types
  <2>1. /\ log \in [Attempt -> {"none", "running", "completed", "failed"}]
        /\ trouble \in [Attempt -> SUBSET {"unhandled", "ctx", "panic", "db", "gone"}]
    BY <1>2
  <2>2. written = 0 /\ atReturn = 0 /\ saved = 0 /\ outcome = "none"
    BY DEF Init
  <2>3. ctxOver \in BOOLEAN
    BY <1>2
  <2>4. attempt \in 0..PolicyMax /\ 0 \in 0..MaxEntries
    BY <1>1
  <2> QED BY <1>2, <2>1, <2>2, <2>3, <2>4 DEF Types
<1>4. JobOK /\ NowOK
  BY <1>1, <1>2 DEF JobOK, NowOK, Held
<1>5. LogAgrees /\ LogExplained
  BY <1>1, <1>2 DEF LogAgrees, LogExplained, Over
<1> QED BY <1>3, <1>4, <1>5 DEF AttInv

LEMMA AttAlways == Spec => []AttInv
<1>1. AttInv /\ [Next]_vars => AttInv'
  <2> SUFFICES ASSUME AttInv, [Next]_vars PROVE AttInv'
    OBVIOUS
  <2>1. CASE UNCHANGED vars
    <3>1. UNCHANGED <<state, attempt, pc, ctxOver, outcome, logId, written, atReturn,
                      log, saved, trouble>>
      BY <2>1 DEF vars, jobVars, workerVars, loggerVars, logVars, history
    <3> QED BY <3>1 DEF AttInv, Types, JobOK, Held, NowOK, RowKnown, LogAgrees,
            LogExplained, Over
  <2> QED BY <2>1, JobKeeps, ClaimKeeps, DispatchKeeps, ExpireKeeps, CreateKeeps,
          HandlerKeeps, PanicKeeps, CloseKeeps, ResultKeeps, LostKeeps
          DEF Next, HandleJob
<1> QED BY <1>1, AttInit, PTL DEF Spec

-----------------------------------------------------------------------------
(* The log of a job never tells another story than the job: no attempt     *)
(* follows one whose log says completed, none that ended well has a failed *)
(* log, and a closed log has what its handler wrote before it returned.    *)
THEOREM LogsAgree == Spec => []LogAgrees
BY AttAlways, PTL DEF AttInv

(* An attempt that is over has a closed log, except for the reasons that   *)
(* the code gives: a panic, an expired context, a failed statement, a lost *)
(* worker, or no handler.                                                  *)
THEOREM LogsAreExplained == Spec => []LogExplained
BY AttAlways, PTL DEF AttInv

-----------------------------------------------------------------------------
(* Recursion over the natural numbers: the delays of calculateBackoff.     *)

(* The functions on 0..n that obey a recursion as far as they go.          *)
Approximations(base, step, n) ==
  {g \in [0..n -> Nat] : /\ g[0] = base
                         /\ \A i \in 0..n-1 : g[i+1] = step[<<i+1, g[i]>>]}

LEMMA ApproximationExists ==
  ASSUME NEW base \in Nat, NEW step \in [Nat \X Nat -> Nat], NEW n \in Nat
  PROVE  Approximations(base, step, n) # {}
<1> DEFINE G == {k \in 0..n : Approximations(base, step, k) # {}}
<1>1. 0 \in G
  <2>1. [i \in 0..0 |-> base] \in Approximations(base, step, 0)
    BY DEF Approximations
  <2> QED BY <2>1
<1>2. ASSUME NEW k \in 0..n-1, k \in G PROVE k + 1 \in G
  <2>1. PICK g : g \in Approximations(base, step, k)
    BY <1>2
  <2>2. /\ g \in [0..k -> Nat] /\ g[0] = base
        /\ \A i \in 0..k-1 : g[i+1] = step[<<i+1, g[i]>>]
    BY <2>1 DEF Approximations
  <2> DEFINE h == [i \in 0..k+1 |-> IF i = k + 1 THEN step[<<k+1, g[k]>>] ELSE g[i]]
  <2>3. h \in [0..k+1 -> Nat]
    BY <2>2
  <2>4. \A i \in 0..k : h[i] = g[i]
    OBVIOUS
  <2>5. h[k+1] = step[<<k+1, g[k]>>]
    OBVIOUS
  <2> HIDE DEF h
  <2>6. ASSUME NEW i \in 0..k+1-1 PROVE h[i+1] = step[<<i+1, h[i]>>]
    <3>1. CASE i = k
      BY <2>4, <2>5, <3>1
    <3>2. CASE i # k
      <4>1. i \in 0..k-1 /\ i \in 0..k /\ i + 1 \in 0..k
        BY <3>2
      <4> QED BY <2>2, <2>4, <4>1
    <3> QED BY <3>1, <3>2
  <2>7. h \in Approximations(base, step, k + 1)
    BY <2>2, <2>3, <2>4, <2>6 DEF Approximations
  <2> QED BY <2>7
<1> HIDE DEF G
<1>3. G \in SUBSET (0..n)
  BY DEF G
<1>4. n \in G
  BY <1>1, <1>2, <1>3, Upwards
<1> QED BY <1>4 DEF G

LEMMA ApproximationsAgree ==
  ASSUME NEW base \in Nat, NEW step \in [Nat \X Nat -> Nat], NEW n \in Nat,
         NEW g \in Approximations(base, step, n),
         NEW h \in Approximations(base, step, n + 1)
  PROVE  \A i \in 0..n : g[i] = h[i]
<1> DEFINE G == {i \in 0..n : g[i] = h[i]}
<1>1. /\ g[0] = base /\ h[0] = base
      /\ \A i \in 0..n-1 : g[i+1] = step[<<i+1, g[i]>>]
      /\ \A i \in 0..n : h[i+1] = step[<<i+1, h[i]>>]
  BY DEF Approximations
<1>2. 0 \in G
  BY <1>1
<1>3. ASSUME NEW i \in 0..n-1, i \in G PROVE i + 1 \in G
  <2>1. g[i+1] = h[i+1]
    BY <1>1, <1>3
  <2> QED BY <2>1
<1> HIDE DEF G
<1>4. G \in SUBSET (0..n)
  BY DEF G
<1>5. G = 0..n
  BY <1>2, <1>3, <1>4, Upwards
<1> QED BY <1>5 DEF G

LEMMA Recursion ==
  ASSUME NEW base \in Nat, NEW step \in [Nat \X Nat -> Nat]
  PROVE  \E f \in [Nat -> Nat] : /\ f[0] = base
                                 /\ \A n \in Nat : f[n+1] = step[<<n+1, f[n]>>]
<1> DEFINE approx(n) == CHOOSE g : g \in Approximations(base, step, n)
           f == [n \in Nat |-> approx(n)[n]]
<1>1. ASSUME NEW n \in Nat PROVE approx(n) \in Approximations(base, step, n)
  BY ApproximationExists
<1> HIDE DEF approx
<1>2. ASSUME NEW n \in Nat PROVE f[n] \in Nat
  BY <1>1 DEF Approximations
<1>3. f[0] = base
  BY <1>1 DEF Approximations
<1>4. ASSUME NEW n \in Nat PROVE f[n+1] = step[<<n+1, f[n]>>]
  <2>1. approx(n)[n] = approx(n+1)[n]
    BY <1>1, ApproximationsAgree
  <2>2. approx(n+1) \in Approximations(base, step, n + 1)
    BY <1>1
  <2>3. approx(n+1)[n+1] = step[<<n+1, approx(n+1)[n]>>]
    BY <2>2 DEF Approximations
  <2> QED BY <2>1, <2>3
<1> QED BY <1>2, <1>3, <1>4

LEMMA PowerOfFacts ==
  /\ PowerOf \in [Nat -> Nat] /\ PowerOf[0] = 1
  /\ \A n \in Nat : PowerOf[n+1] = Exponent * PowerOf[n]
<1> DEFINE Solves(f) == f = [n \in Nat |-> IF n = 0 THEN 1 ELSE Exponent * f[n-1]]
           step == [p \in Nat \X Nat |-> Exponent * p[2]]
<1>0. Exponent \in Nat /\ 1 \in Nat
  BY AttemptsAssumption
<1>1. step \in [Nat \X Nat -> Nat]
  BY <1>0
<1>2. \A n, v \in Nat : step[<<n, v>>] = Exponent * v
  OBVIOUS
<1> HIDE DEF step
<1>3. PICK f \in [Nat -> Nat] : f[0] = 1 /\ \A n \in Nat : f[n+1] = step[<<n+1, f[n]>>]
  BY <1>0, <1>1, Recursion
<1>4. ASSUME NEW n \in Nat PROVE f[n] = IF n = 0 THEN 1 ELSE Exponent * f[n-1]
  <2>1. CASE n = 0
    BY <1>3, <2>1
  <2>2. CASE n # 0
    <3>1. n - 1 \in Nat /\ n - 1 + 1 = n
      BY <2>2
    <3>2. f[n] = step[<<n, f[n-1]>>]
      BY <1>3, <3>1
    <3> QED BY <1>2, <2>2, <3>1, <3>2
  <2> QED BY <2>1, <2>2
<1>5. f = [n \in Nat |-> f[n]]
  OBVIOUS
<1>6. Solves(f)
  BY <1>4, <1>5
<1>7. Solves(PowerOf)
  BY <1>6 DEF PowerOf
<1>8. \A n \in Nat : PowerOf[n] = IF n = 0 THEN 1 ELSE Exponent * PowerOf[n-1]
  BY <1>7
<1> DEFINE G(m) == {k \in 0..m : PowerOf[k] \in Nat}
<1>9. ASSUME NEW m \in Nat PROVE PowerOf[m] \in Nat
  <2>1. 0 \in G(m)
    BY <1>8
  <2>2. ASSUME NEW k \in 0..m-1, k \in G(m) PROVE k + 1 \in G(m)
    <3>1. PowerOf[k+1] = Exponent * PowerOf[k]
      BY <1>8
    <3> QED BY <1>0, <2>2, <3>1
  <2>3. G(m) \in SUBSET (0..m)
    OBVIOUS
  <2> HIDE DEF G
  <2>4. G(m) = 0..m
    BY <2>1, <2>2, <2>3, Upwards
  <2> QED BY <2>4 DEF G
<1>10. PowerOf = [n \in Nat |-> PowerOf[n]]
  BY <1>7
<1>11. PowerOf \in [Nat -> Nat]
  BY <1>9, <1>10
<1>12. \A n \in Nat : PowerOf[n+1] = Exponent * PowerOf[n]
  BY <1>8
<1>13. PowerOf[0] = 1
  BY <1>8
<1> QED BY <1>11, <1>12, <1>13

Cut(d) == IF d > MaxBackoff THEN MaxBackoff ELSE d

LEMMA GrowthFacts ==
  \A n \in Nat : Growth[n] = IF n <= 1 THEN Initial ELSE Cut(Growth[n-1] * Exponent)
<1> DEFINE Solves(f) == f = [n \in Nat |-> IF n <= 1 THEN Initial
                                           ELSE Cut(f[n-1] * Exponent)]
           step == [p \in Nat \X Nat |-> IF p[1] <= 1 THEN Initial ELSE Cut(p[2] * Exponent)]
<1>0. Exponent \in Nat /\ Initial \in Nat /\ MaxBackoff \in Nat
  BY AttemptsAssumption
<1>1. step \in [Nat \X Nat -> Nat]
  BY <1>0 DEF Cut
<1>2. \A n, v \in Nat : step[<<n, v>>] = IF n <= 1 THEN Initial ELSE Cut(v * Exponent)
  OBVIOUS
<1> HIDE DEF step
<1>3. PICK f \in [Nat -> Nat] : f[0] = Initial /\ \A n \in Nat : f[n+1] = step[<<n+1, f[n]>>]
  BY <1>0, <1>1, Recursion
<1>4. ASSUME NEW n \in Nat PROVE f[n] = IF n <= 1 THEN Initial ELSE Cut(f[n-1] * Exponent)
  <2>1. CASE n = 0
    BY <1>3, <2>1
  <2>2. CASE n # 0
    <3>1. n - 1 \in Nat /\ n - 1 + 1 = n
      BY <2>2
    <3>2. f[n] = step[<<n, f[n-1]>>]
      BY <1>3, <3>1
    <3> QED BY <1>2, <2>2, <3>1, <3>2
  <2> QED BY <2>1, <2>2
<1>5. f = [n \in Nat |-> f[n]]
  OBVIOUS
<1>6. Solves(f)
  BY <1>4, <1>5
<1>7. Solves(Growth)
  BY <1>6 DEF Growth, Cut
<1> QED BY <1>7

(* The loop of calculateBackoff computes the growth that is documented: to *)
(* cut every delay to the limit is to cut the last one.                    *)
LEMMA GrowthIsReference ==
  ASSUME NEW n \in Nat \ {0}
  PROVE  Growth[n] \in Nat /\ Growth[n] = Reference(n)
<1> DEFINE G == {k \in 0..n-1 : Growth[k+1] = Cut(Initial * PowerOf[k])}
<1>0. /\ {Exponent, Initial, MaxBackoff} \subseteq Nat \ {0} /\ Initial <= MaxBackoff
      /\ \A k \in Nat : PowerOf[k] \in Nat
  BY AttemptsAssumption, PowerOfFacts
<1>1. 0 \in G
  <2>1. Growth[1] = Initial
    BY GrowthFacts
  <2>2. Cut(Initial * PowerOf[0]) = Initial
    BY <1>0, PowerOfFacts DEF Cut
  <2> QED BY <2>1, <2>2
<1>2. ASSUME NEW k \in 0..n-1-1, k \in G PROVE k + 1 \in G
  <2> DEFINE a == Initial * PowerOf[k]
  <2>1. Growth[k+2] = Cut(Growth[k+1] * Exponent)
    <3>1. k + 2 \in Nat /\ ~(k + 2 <= 1) /\ k + 2 - 1 = k + 1
      OBVIOUS
    <3> QED BY <3>1, GrowthFacts
  <2>2. Growth[k+1] = Cut(a) /\ a \in Nat
    BY <1>0, <1>2
  <2>3. Initial * PowerOf[k+1] = a * Exponent
    <3>1. PowerOf[k+1] = Exponent * PowerOf[k]
      BY PowerOfFacts
    <3> QED BY <1>0, <3>1
  <2> HIDE DEF a
  <2>4. Cut(Cut(a) * Exponent) = Cut(a * Exponent)
    <3>1. CASE a > MaxBackoff
      <4>1. a * Exponent >= a /\ MaxBackoff * Exponent >= MaxBackoff
        <5>1. \A x \in Nat, y \in Nat \ {0} : x * y >= x
          OBVIOUS
        <5> QED BY <1>0, <2>2, <5>1
      <4>2. a * Exponent \in Nat /\ MaxBackoff * Exponent \in Nat
        BY <1>0, <2>2
      <4> QED BY <1>0, <2>2, <3>1, <4>1, <4>2 DEF Cut
    <3>2. CASE ~(a > MaxBackoff)
      BY <3>2 DEF Cut
    <3> QED BY <3>1, <3>2
  <2>5. k + 1 + 1 = k + 2 /\ k + 1 \in 0..n-1
    OBVIOUS
  <2> QED BY <2>1, <2>2, <2>3, <2>4, <2>5
<1> HIDE DEF G
<1> DEFINE m == n - 1
<1>3. n - 1 \in G
  <2>1. m \in Nat /\ G \in SUBSET (0..m) /\ \A k \in 0..m-1 : k \in G => k + 1 \in G
    BY <1>2 DEF G
  <2> HIDE DEF m
  <2>2. G = 0..m
    BY <1>1, <2>1, Upwards
  <2> QED BY <2>1, <2>2 DEF m
<1>4. Growth[n] = Cut(Initial * PowerOf[n-1])
  BY <1>3 DEF G
<1>5. Initial * PowerOf[n-1] \in Nat
  BY <1>0
<1> QED BY <1>0, <1>4, <1>5 DEF Cut, Reference

-----------------------------------------------------------------------------
(* The waits.                                                              *)

(* What has passed and what is still to pass are together what is due: the *)
(* time that the caller asked for or the delay of the last attempt.        *)
WaitInv ==
  /\ wait \in Nat /\ rested \in Nat /\ owed \in Nat
  /\ state \in {"available", "scheduled", "retryable"} =>
       /\ rested + wait >= owed
       /\ attempt > 0 => owed = Reference(attempt)

DueStep ==
  /\ attempt' # attempt =>
       rested >= IF attempt = 0 THEN owed ELSE Reference(attempt)
  /\ state' = "retryable" /\ state # "retryable" =>
       wait' <= Jittered(Reference(attempt))

LEMMA WaitNext ==
  ASSUME AttInv, WaitInv, [Next]_vars
  PROVE  WaitInv' /\ [DueStep]_vars
<1>0. /\ wait \in Nat /\ rested \in Nat /\ owed \in Nat /\ attempt \in 0..PolicyMax
  BY DEF WaitInv, AttInv, Types
<1>1. CASE Tick
  BY <1>0, <1>1 DEF Tick, WaitInv, DueStep
<1>2. CASE Promote
  BY <1>2 DEF Promote, WaitInv, DueStep, history
<1>3. CASE Claim
  <2>1. /\ UNCHANGED <<wait, rested, owed>> /\ state' = "running" /\ attempt' = attempt + 1
        /\ state = "available" /\ wait = 0
    BY <1>3 DEF Claim, history
  <2>2. rested >= owed /\ (attempt > 0 => owed = Reference(attempt))
    BY <1>0, <2>1 DEF WaitInv
  <2>3. attempt = 0 \/ attempt > 0
    BY <1>0, AttemptsAssumption
  <2> QED BY <1>0, <2>1, <2>2, <2>3 DEF WaitInv, DueStep
<1>4. CASE CancelJob
  BY <1>4 DEF CancelJob, WaitInv, DueStep, history
<1>5. CASE RegisterHandler \/ HandleJob \/ Expire \/ LogEntry \/ HandleResultError \/ Gone
           \/ UNCHANGED vars
  <2>1. UNCHANGED <<state, attempt, wait, rested, owed>>
    BY <1>5 DEF RegisterHandler, HandleJob, Dispatch, CreateJobLog, CreateFails, HandlerReturns,
       HandlerPanics, CloseJobLog, CloseFails, Expire, LogEntry, HandleResultError, Gone,
       vars, jobVars, history
  <2> QED BY <2>1 DEF WaitInv, DueStep
<1>6. CASE HandleResult
  <2>1. /\ pc = "result" /\ attempt' = attempt /\ attempt \in Nat \ {0}
        /\ state \in {"running", "cancelled"}
    BY <1>6, AttemptsAssumption DEF HandleResult, AttInv, JobOK, Held, Attempt
  <2>2. CASE state' \in {"completed", "discarded"} /\ UNCHANGED <<wait, rested, owed>>
    BY <1>0, <2>1, <2>2 DEF WaitInv, DueStep
  <2>3. ASSUME NEW d \in Backoff(attempt), state' = "retryable", wait' = d, rested' = 0,
               owed' = Growth[attempt]
        PROVE  WaitInv' /\ DueStep
    <3>1. Growth[attempt] \in Nat /\ Growth[attempt] = Reference(attempt)
      BY <2>1, GrowthIsReference
    <3>2. d \in Growth[attempt]..Jittered(Growth[attempt])
      BY <2>3 DEF Backoff
    <3>3. d \in Nat /\ d >= Growth[attempt] /\ d <= Jittered(Growth[attempt])
      BY <3>1, <3>2
    <3> QED BY <2>1, <2>3, <3>1, <3>3 DEF WaitInv, DueStep
  <2> QED BY <1>6, <2>2, <2>3 DEF HandleResult, FailJob
<1> QED BY <1>1, <1>2, <1>3, <1>4, <1>5, <1>6 DEF Next

(* No attempt starts before the time of ScheduleAt or the documented       *)
(* backoff of the attempt before, and none is put off for longer than that *)
(* delay plus 30 %: for any policy and any number of attempts.             *)
THEOREM AttemptsWaitAsDue == Spec => WaitsAsDue
<1>1. Init => WaitInv
  <2> SUFFICES ASSUME Init PROVE WaitInv
    OBVIOUS
  <2>1. wait \in Nat /\ owed = wait /\ rested = 0 /\ attempt = 0
    BY AttemptsAssumption DEF Init
  <2> QED BY <2>1 DEF WaitInv
<1>2. AttInv /\ WaitInv /\ [Next]_vars => WaitInv' /\ [DueStep]_vars
  BY WaitNext
<1>3. Spec => [][DueStep]_vars
  BY <1>1, <1>2, AttAlways, PTL DEF Spec
<1> QED BY <1>3 DEF WaitsAsDue, DueStep

-----------------------------------------------------------------------------
(* The variables that no invariant above speaks of.                        *)
RestTypes ==
  /\ registered \in BOOLEAN
  /\ logId \in 0..PolicyMax
  /\ left \in [Event -> Nat]

LEMMA RestNext ==
  ASSUME AttInv, RestTypes, [Next]_vars
  PROVE  RestTypes'
<1>1. registered' = registered \/ registered' = TRUE
  BY DEF Next, Tick, Promote, Claim, CancelJob, RegisterHandler, HandleJob, Dispatch, CreateJobLog,
     CreateFails, HandlerReturns, HandlerPanics, CloseJobLog, CloseFails, Expire, LogEntry,
     HandleResult, HandleResultError, Gone, vars
<1>2. logId' \in {logId, 0, attempt}
  BY DEF Next, Tick, Promote, Claim, CancelJob, RegisterHandler, HandleJob, Dispatch, CreateJobLog,
     CreateFails, HandlerReturns, HandlerPanics, CloseJobLog, CloseFails, Expire, LogEntry,
     HandleResult, HandleResultError, Gone, Forgotten, vars, workerVars
<1>3. left' = left \/ \E e \in Event : Spend(e)
  BY DEF Next, Tick, Promote, Claim, CancelJob, RegisterHandler, HandleJob, Dispatch, CreateJobLog,
     CreateFails, HandlerReturns, HandlerPanics, CloseJobLog, CloseFails, Expire, LogEntry,
     HandleResult, HandleResultError, Gone, StatementFails, Event, vars
<1>4. left' \in [Event -> Nat]
  <2>1. ASSUME NEW e \in Event, Spend(e) PROVE left' \in [Event -> Nat]
    BY <2>1 DEF RestTypes, Spend
  <2> QED BY <1>3, <2>1 DEF RestTypes
<1>5. attempt \in 0..PolicyMax /\ 0 \in 0..PolicyMax
  BY AttemptsAssumption DEF AttInv, Types
<1> QED BY <1>1, <1>2, <1>4, <1>5 DEF RestTypes

(* The rows of the job and of its logs, and what the worker knows, keep    *)
(* their types.                                                            *)
THEOREM AttemptTypes == Spec => []TypeOK
<1>1. Init => RestTypes /\ WaitInv
  <2> SUFFICES ASSUME Init PROVE RestTypes /\ WaitInv
    OBVIOUS
  <2>1. wait \in Nat /\ owed = wait /\ rested = 0 /\ attempt = 0
    BY AttemptsAssumption DEF Init
  <2>2. 0 \in 0..PolicyMax
    BY AttemptsAssumption
  <2> QED BY <2>1, <2>2, AttemptsAssumption DEF Init, WaitInv, RestTypes
<1>2. AttInv /\ RestTypes /\ WaitInv /\ [Next]_vars => RestTypes' /\ WaitInv'
  BY RestNext, WaitNext
<1>3. AttInv /\ RestTypes /\ WaitInv => TypeOK
  BY DEF AttInv, Types, RestTypes, WaitInv, TypeOK
<1> QED BY <1>1, <1>2, <1>3, AttAlways, PTL DEF Spec
=============================================================================
