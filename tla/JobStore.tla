------------------------------ MODULE JobStore ------------------------------
(***************************************************************************)
(* The table rivo_jobs and the SQL statements that internal/db/db.go runs  *)
(* on it.  Every statement is one transaction of PostgreSQL, hence one     *)
(* action.  A fetch that skips rows locked by another statement behaves as *)
(* if it ran after that statement, so SKIP LOCKED needs no state.          *)
(*                                                                         *)
(* A row keeps what the queue's correctness depends on: its state, the     *)
(* number of attempts, the worker of the last attempt, whether its         *)
(* scheduled_at has passed (due), and the errors array, of which only the  *)
(* attempt number of each entry is kept.  Payload, metadata and timestamps *)
(* are dropped.  A job in state "none" has not been inserted.              *)
(***************************************************************************)
EXTENDS Integers, Sequences, FiniteSets

CONSTANTS
  Job,          \* the ids the BIGSERIAL column can hand out
  Client,       \* worker ids (NewClient draws a fresh one per process)
  NoClient,     \* attempted_by IS NULL
  NoKey,        \* idempotency_key IS NULL
  KeyOf,        \* the (namespace, kind, idempotency_key) of a job, or NoKey
  Priority,     \* the priority column
  SmallIntMax   \* the largest value of the SMALLINT column attempt

ASSUME StoreAssumption ==
  /\ NoClient \notin Client
  /\ Priority \in [Job -> Int]
  /\ SmallIntMax \in Nat \ {0}

VARIABLE jobs

Terminal  == {"completed", "cancelled", "discarded"}
Offerable == {"available", "scheduled", "retryable"}
Live      == Offerable \cup {"running"}
JobState  == Live \cup Terminal

Row == [state   : JobState \cup {"none"},
        attempt : Nat,
        by      : Client \cup {NoClient},
        due     : BOOLEAN,
        errors  : Seq(Nat)]

NoRow == [state |-> "none", attempt |-> 0, by |-> NoClient,
          due |-> FALSE, errors |-> << >>]

StoreTypeOK == jobs \in [Job -> Row]

StoreInit == jobs = [j \in Job |-> NoRow]

-----------------------------------------------------------------------------
KeyTakenMut(j) ==
  /\ KeyOf[j] # NoKey
  /\ \E k \in Job \ {j} : KeyOf[k] = KeyOf[j] /\ jobs[k].state \in Offerable

(* The unique partial index rivo_jobs_idempotency_idx: another live row    *)
(* holds the key of j.                                                     *)
KeyTaken(j) ==
  /\ KeyOf[j] # NoKey
  /\ \E k \in Job \ {j} : KeyOf[k] = KeyOf[j] /\ jobs[k].state \in Live

(* InsertJob: nothing is inserted while a live row holds the key, whether  *)
(* the SELECT finds that row or the index rejects the INSERT.              *)
InsertJob(j, st) ==
  /\ jobs[j].state = "none"
  /\ st \in {"available", "scheduled"}
  /\ ~KeyTaken(j)
  /\ jobs' = [jobs EXCEPT ![j].state = st]

(* scheduled_at <= NOW() becomes true of a row.                            *)
TimePasses(j) ==
  /\ jobs[j].state # "none"
  /\ ~jobs[j].due
  /\ jobs' = [jobs EXCEPT ![j].due = TRUE]

Eligible(queued) == {j \in queued : jobs[j].state = "available" /\ jobs[j].due}

(* The possible results of SELECT ... ORDER BY priority DESC LIMIT: rows   *)
(* of equal priority come in the order of scheduled_at and id, which the   *)
(* model leaves open.                                                      *)
NextJobs(queued, limit) ==
  {S \in SUBSET Eligible(queued) :
     /\ Cardinality(S) <= limit
     /\ Cardinality(S) < limit => S = Eligible(queued)
     /\ \A j \in S, k \in Eligible(queued) \ S : Priority[j] >= Priority[k]}

(* FetchJobs: one UPDATE claims all of S, or fails as a whole if a counter *)
(* would leave the range of SMALLINT.                                      *)
FetchJobs(c, S) ==
  /\ \A j \in S : jobs[j].attempt < SmallIntMax
  /\ jobs' = [j \in Job |->
                IF j \in S
                THEN [jobs[j] EXCEPT !.state = "running",
                                     !.attempt = @ + 1,
                                     !.by = c]
                ELSE jobs[j]]

(* CompleteJob has no condition on the row's state.                        *)
CompleteJob(j) ==
  /\ jobs[j].state # "none"
  /\ jobs' = [jobs EXCEPT ![j].state = "completed"]

FailJobMut(j, retry) ==
  /\ jobs[j].state # "none"
  /\ jobs' = [jobs EXCEPT
            ![j].state  = IF retry THEN "retryable" ELSE "discarded",
            ![j].due    = IF retry THEN FALSE ELSE @,
            ![j].errors = <<jobs[j].attempt>>]

(* FailJob has no condition either.  retryAt lies in the future, so a row  *)
(* that becomes retryable is not due; COALESCE keeps scheduled_at when the *)
(* job is discarded.  Making a row live again can violate the unique index *)
(* (the row was cancelled, and its key reused): the statement then fails   *)
(* and the caller ignores it.                                              *)
FailJob(j, retry) ==
  /\ jobs[j].state # "none"
  /\ IF retry /\ KeyTaken(j)
     THEN UNCHANGED jobs
     ELSE jobs' = [jobs EXCEPT
            ![j].state  = IF retry THEN "retryable" ELSE "discarded",
            ![j].due    = IF retry THEN FALSE ELSE @,
            ![j].errors = Append(@, jobs[j].attempt)]

RescueRunning == {"scheduled", "retryable", "running"}
ForgetRetryable == {"scheduled"}

PromotableStates == {"scheduled", "retryable"}

(* PromoteScheduledJobs updates every due row of the namespace.            *)
PromoteScheduledJobs ==
  jobs' = [j \in Job |->
             IF jobs[j].state \in PromotableStates /\ jobs[j].due
             THEN [jobs[j] EXCEPT !.state = "available"]
             ELSE jobs[j]]

CancelJobMut(j) ==
  /\ jobs[j].state # "none"
  /\ jobs' = [jobs EXCEPT ![j].state = "cancelled"]

CancelJob(j) ==
  /\ jobs[j].state \notin Terminal \cup {"none"}
  /\ jobs' = [jobs EXCEPT ![j].state = "cancelled"]

-----------------------------------------------------------------------------
(* The store under any sequence of statements, in any order: the most      *)
(* general client.                                                         *)
StoreNext ==
  \/ \E j \in Job, st \in {"available", "scheduled"} : InsertJob(j, st)
  \/ \E j \in Job : TimePasses(j)
  \/ \E c \in Client, queued \in SUBSET Job, limit \in Nat :
       \E S \in NextJobs(queued, limit) : FetchJobs(c, S)
  \/ \E j \in Job : CompleteJob(j)
  \/ \E j \in Job, retry \in BOOLEAN : FailJob(j, retry)
  \/ PromoteScheduledJobs
  \/ \E j \in Job : CancelJob(j)

StoreSpec == StoreInit /\ [][StoreNext]_jobs

(* What the idempotency index is for: at any time at most one live job     *)
(* carries a given idempotency key, although FailJob can bring a cancelled *)
(* job back after its key was reused.                                      *)
UniqueLiveKey ==
  \A j, k \in Job :
    /\ jobs[j].state \in Live
    /\ jobs[k].state \in Live
    /\ KeyOf[j] # NoKey
    /\ KeyOf[j] = KeyOf[k]
    => j = k
=============================================================================
