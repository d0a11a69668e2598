----------------------------- MODULE Enqueueing -----------------------------
(***************************************************************************)
(* Enqueue, EnqueueMany and EnqueueTx (enqueue.go) down to the statements  *)
(* of InsertJob (db.go).  JobStore inserts a job in one step; here the     *)
(* SELECT that looks for the idempotency key and the INSERT are two, and   *)
(* callers run them concurrently, on the pool or in transactions of their  *)
(* own that they commit or roll back.                                      *)
(*                                                                         *)
(* A request is what one goroutine does with the queue: one EnqueueMany on *)
(* the pool (Enqueue is that of one item), or a transaction with one       *)
(* EnqueueTx per item.  Isolation is READ COMMITTED, PostgreSQL's default. *)
(***************************************************************************)
EXTENDS Naturals, Sequences, FiniteSets

CONSTANTS
  Caller,      \* goroutines of any process, HTTP handlers among them
  Key,         \* <<namespace, kind, idempotency key>>
  NoKey,       \* an item without an idempotency key
  BadParams,   \* an item without a kind, or whose payload has no JSON
  Makes,       \* Makes[c]: the requests that c makes
  MaxRequests, \* bound on the requests made, repetitions included
  MaxErrors,   \* bound on statements that fail for another reason
  MaxEnds      \* bound on jobs that end

Item == Key \cup {NoKey, BadParams}
Request == [tx : BOOLEAN, items : Seq(Item)]

ASSUME EnqueueingAssumption ==
  /\ NoKey \notin Key /\ BadParams \notin Key /\ NoKey # BadParams
  /\ Makes \in [Caller -> SUBSET Request]
  /\ \A c \in Caller : Makes[c] # {} /\ \A r \in Makes[c] : r.items # << >>
  /\ {MaxRequests, MaxErrors, MaxEnds} \subseteq Nat

VARIABLES
  rows,     \* the rows of rivo_jobs in the order of their ids
  req,      \* the current or last request of a caller
  count,    \* the number of requests made so far
  unit,     \* the number of the current or last request of a caller
  pc,       \* what it does
  answers,  \* the results of the items handled so far
  outcome,  \* how its last request ended, and at which item
  errors    \* statements that may still fail

vars == <<rows, req, count, unit, pc, answers, outcome, errors>>
callerVars == <<req, count, unit>>

(* A row is inserted while its transaction is open, then live until the    *)
(* job ends, or gone if the transaction was rolled back.  "by" numbers the *)
(* request and the item that inserted it.                                  *)
Row == [key   : Key \cup {NoKey},
        state : {"inserted", "live", "ended", "gone"},
        by    : (Nat \ {0}) \X (Nat \ {0})]

Answer == [kind : {"created", "duplicate", "error"}, id : Nat]

TypeOK ==
  /\ rows \in Seq(Row)
  /\ req \in [Caller -> Request]
  /\ count \in 0..MaxRequests
  /\ unit \in [Caller -> 0..count]
  /\ pc \in [Caller -> {"idle", "look", "insert", "aborted"}]
  /\ answers \in [Caller -> Seq(Answer)]
  /\ outcome \in [Caller -> [status : {"none", "ok", "error", "rolledback"},
                             at : Nat]]
  /\ errors \in 0..MaxErrors

NoOutcome == [status |-> "none", at |-> 0]

Init ==
  /\ rows = << >>
  /\ req = [c \in Caller |-> CHOOSE r \in Makes[c] : TRUE]
  /\ count = 0
  /\ unit = [c \in Caller |-> 0]
  /\ pc = [c \in Caller |-> "idle"]
  /\ answers = [c \in Caller |-> << >>]
  /\ outcome = [c \in Caller |-> NoOutcome]
  /\ errors = MaxErrors

-----------------------------------------------------------------------------
At(c)   == Len(answers[c]) + 1
More(c) == At(c) <= Len(req[c].items)
Params(c) == req[c].items[At(c)]

(* The rows that the request of c inserted.                                *)
Mine(c) == {i \in DOMAIN rows : rows[i].by[1] = unit[c]}

(* What a statement of c sees: committed rows and its own.                 *)
Visible(c, i) == \/ rows[i].state = "live"
                 \/ rows[i].state = "inserted" /\ i \in Mine(c)

WithKey(k) == {i \in DOMAIN rows : rows[i].key = k /\ k # NoKey}
Found(c)   == {i \in WithKey(Params(c)) : Visible(c, i)}

(* The rows of open transactions of others that hold the key: PostgreSQL   *)
(* lets the INSERT wait until they are committed or rolled back.           *)
Blockers(c) == {i \in WithKey(Params(c)) :
                  rows[i].state = "inserted" /\ i \notin Mine(c)}

Say(c, kind, id) ==
  answers' = [answers EXCEPT ![c] = Append(@, [kind |-> kind, id |-> id])]

Goto(c, l) == pc' = [pc EXCEPT ![c] = l]

(* Only a request that succeeds has results.                               *)
End(c, status) ==
  /\ Goto(c, "idle")
  /\ answers' = [answers EXCEPT ![c] = IF status = "ok" THEN @ ELSE << >>]
  /\ outcome' = [outcome EXCEPT ![c] = [status |-> status, at |-> At(c)]]

(* The rows of the transaction of c get another state.                     *)
Becomes(c, state) ==
  rows' = [i \in DOMAIN rows |->
             IF i \in Mine(c) /\ rows[i].state = "inserted"
             THEN [rows[i] EXCEPT !.state = state] ELSE rows[i]]

-----------------------------------------------------------------------------
(* A caller makes a request, or repeats one whose answer was an error.     *)
Begin(c, r) ==
  /\ pc[c] = "idle" /\ count < MaxRequests
  /\ req' = [req EXCEPT ![c] = r]
  /\ count' = count + 1 /\ unit' = [unit EXCEPT ![c] = count']
  /\ answers' = [answers EXCEPT ![c] = << >>]
  /\ outcome' = [outcome EXCEPT ![c] = NoOutcome]
  /\ Goto(c, "look")
  /\ UNCHANGED <<rows, errors>>

TryAgain(c, after) ==
  IF req[c].tx
  THEN Say(c, "error", 0) /\ Goto(c, after) /\ UNCHANGED outcome
  ELSE Goto(c, "look") /\ UNCHANGED <<answers, outcome>>

(* The call for an item returns an error: EnqueueMany drops its results    *)
(* and returns it, a transaction goes on in the state it is left in.       *)
Refuse(c, after) ==
  IF req[c].tx
  THEN Say(c, "error", 0) /\ Goto(c, after) /\ UNCHANGED outcome
  ELSE End(c, "error")

(* A statement of c failed: PostgreSQL aborts its transaction, whose rows  *)
(* and locks are gone at once.                                             *)
StatementFails(c) == Becomes(c, "gone") /\ Refuse(c, "aborted")

CheckParamsLate(c) ==
  /\ pc[c] \in {"look", "aborted"} /\ More(c) /\ Params(c) = BadParams
  /\ rows' = Append(rows, [key |-> NoKey, state |-> "live",
                           by |-> <<unit[c], At(c)>>])
  /\ Refuse(c, pc[c])
  /\ UNCHANGED <<callerVars, errors>>

(* enqueueJob returns before it comes to the database.                     *)
RefuseParams(c) ==
  /\ pc[c] \in {"look", "aborted"} /\ More(c) /\ Params(c) = BadParams
  /\ Refuse(c, pc[c])
  /\ UNCHANGED <<rows, callerVars, errors>>

(* The SELECT finds a live job with the key ...                            *)
FindDuplicate(c) ==
  /\ pc[c] = "look" /\ More(c) /\ Params(c) \in Key
  /\ \E i \in Found(c) : Say(c, "duplicate", i)
  /\ UNCHANGED <<rows, callerVars, pc, outcome, errors>>

(* ... or none, or there is no key to look for.                            *)
FindNone(c) ==
  /\ pc[c] = "look" /\ More(c) /\ Params(c) # BadParams
  /\ Found(c) = {}
  /\ Goto(c, "insert")
  /\ UNCHANGED <<rows, callerVars, answers, outcome, errors>>

NoIndex(c) == FALSE
IndexWithoutKey(c) == \E i \in DOMAIN rows : rows[i].key # NoKey /\ Visible(c, i)

(* A row that the INSERT sees has the key.                                 *)
Violates(c) == Found(c) # {}

OnThePool(c) == "live"

(* The state in which the inserted row is for the others.                  *)
InsertedAs(c) == IF req[c].tx THEN "inserted" ELSE "live"

NewRow(c) ==
  [key |-> Params(c), state |-> InsertedAs(c), by |-> <<unit[c], At(c)>>]

Insert(c) ==
  /\ pc[c] = "insert" /\ Blockers(c) = {} /\ ~Violates(c)
  /\ rows' = Append(rows, NewRow(c))
  /\ Say(c, "created", Len(rows) + 1)
  /\ Goto(c, "look")
  /\ UNCHANGED <<callerVars, outcome, errors>>

TwinIsMine(c) ==
  /\ pc[c] = "insert" /\ Blockers(c) = {} /\ Violates(c)
  /\ \E i \in Found(c) : Say(c, "created", i)
  /\ Goto(c, "look")
  /\ UNCHANGED <<rows, callerVars, outcome, errors>>

(* Somebody else inserted the key since the SELECT: the INSERT violates    *)
(* the unique index, which is an error like any other.                     *)
InsertRefused(c) ==
  /\ pc[c] = "insert" /\ Blockers(c) = {} /\ Violates(c)
  /\ StatementFails(c)
  /\ UNCHANGED <<callerVars, errors>>

(* Transactions that wait for each other's keys: PostgreSQL picks one and  *)
(* lets its statement fail.                                                *)
WaitsFor(c) == {d \in Caller : Mine(d) \cap Blockers(c) # {}}

InCycle(c) ==
  \E S \in SUBSET {d \in Caller : pc[d] = "insert"} :
     c \in S /\ UNION {WaitsFor(d) : d \in S} = S

DeadlockVictim(c) ==
  /\ pc[c] = "insert" /\ InCycle(c)
  /\ StatementFails(c)
  /\ UNCHANGED <<callerVars, errors>>

(* After an error every statement of the transaction fails.                *)
AbortedCall(c) ==
  /\ pc[c] = "aborted" /\ More(c) /\ Params(c) # BadParams
  /\ Refuse(c, "aborted")
  /\ UNCHANGED <<rows, callerVars, errors>>

-----------------------------------------------------------------------------
(* EnqueueMany returns its results.                                        *)
Return(c) ==
  /\ pc[c] = "look" /\ ~More(c) /\ ~req[c].tx
  /\ End(c, "ok")
  /\ UNCHANGED <<rows, callerVars, errors>>

(* A COMMIT in an aborted transaction is a rollback and returns an error.  *)
Commit(c) ==
  /\ req[c].tx /\ pc[c] \in {"look", "aborted"} /\ ~More(c)
  /\ IF pc[c] = "look"
     THEN Becomes(c, "live") /\ End(c, "ok")
     ELSE Becomes(c, "gone") /\ End(c, "error")
  /\ UNCHANGED <<callerVars, errors>>

(* The caller gives up, or its process dies and the server rolls back.     *)
Rollback(c) ==
  /\ req[c].tx /\ pc[c] \in {"look", "aborted"}
  /\ Becomes(c, "gone") /\ End(c, "rolledback")
  /\ UNCHANGED <<callerVars, errors>>

(* A statement fails because of the connection or a cancelled context, or  *)
(* only its answer is lost: an INSERT on the pool, or a COMMIT, may have   *)
(* been carried out.                                                       *)
LoseStatement(c) ==
  /\ errors > 0 /\ errors' = errors - 1
  /\ pc[c] \in {"look", "insert"} /\ More(c) /\ Params(c) # BadParams
  /\ pc[c] = "look" => Params(c) \in Key
  /\ \/ StatementFails(c)
     \/ /\ ~req[c].tx /\ pc[c] = "insert" /\ Blockers(c) = {} /\ ~Violates(c)
        /\ rows' = Append(rows, NewRow(c))
        /\ Refuse(c, "aborted")
  /\ UNCHANGED callerVars

LoseCommit(c) ==
  /\ errors > 0 /\ errors' = errors - 1
  /\ req[c].tx /\ pc[c] = "look" /\ ~More(c)
  /\ \E state \in {"live", "gone"} : Becomes(c, state)
  /\ End(c, "error")
  /\ UNCHANGED callerVars

(* A job is completed, discarded or cancelled: its key is free again.  (Of *)
(* a job without a key nobody here takes notice.)                          *)
JobEnds(i) ==
  /\ rows[i].state = "live" /\ rows[i].key # NoKey
  /\ Cardinality({j \in DOMAIN rows : rows[j].state = "ended"}) < MaxEnds
  /\ rows' = [rows EXCEPT ![i].state = "ended"]
  /\ UNCHANGED <<callerVars, pc, answers, outcome, errors>>

-----------------------------------------------------------------------------
Step(c) ==
  \/ RefuseParams(c) \/ FindDuplicate(c) \/ FindNone(c)
  \/ Insert(c) \/ InsertRefused(c) \/ DeadlockVictim(c) \/ AbortedCall(c)
  \/ Return(c) \/ Commit(c) \/ Rollback(c)

Next ==
  \/ \E c \in Caller :
       \/ \E r \in Makes[c] : Begin(c, r)
       \/ Step(c) \/ LoseStatement(c) \/ LoseCommit(c)
  \/ \E i \in DOMAIN rows : JobEnds(i)

Spec == Init /\ [][Next]_vars

(* Callers go on with what they began and end their transactions.          *)
FairSpec == Spec /\ \A c \in Caller : WF_vars(Step(c))

-----------------------------------------------------------------------------
(* Properties.                                                             *)

(* Whatever callers look up before the others' inserts or commits, at most *)
(* one job with a key is live in the table, and at most one is promised to *)
(* become so.                                                              *)
UniqueLiveKey ==
  \A k \in Key :
    Cardinality({i \in WithKey(k) : rows[i].state \in {"live", "inserted"}}) <= 1

Stored(i) == rows[i].state \in {"live", "ended"}

(* What a caller was told is still true when its request has succeeded:    *)
(* for every item there is a job in the table with its key, its own if it  *)
(* was told that the job was created, and somebody's if it was told that   *)
(* it is a duplicate - even one of its own transaction.                    *)
AnswersHold ==
  \A c \in Caller : outcome[c].status = "ok" =>
    \A n \in DOMAIN answers[c] :
      LET a == answers[c][n] IN
      /\ a.kind = "created" => /\ Stored(a.id)
                               /\ rows[a.id].by = <<unit[c], n>>
      /\ a.kind = "duplicate" => /\ Stored(a.id)
                                 /\ rows[a.id].key = req[c].items[n]

(* The statements of EnqueueTx are those of the caller's transaction: its  *)
(* jobs come into the table together, when it is committed, or not at all, *)
(* whichever of its calls failed.                                          *)
TxAllOrNothing ==
  \A c \in Caller : req[c].tx =>
    /\ \A i, j \in Mine(c) : Stored(i) = Stored(j)
    /\ pc[c] # "idle" => \A i \in Mine(c) : ~Stored(i)
    /\ outcome[c].status = "rolledback" => \A i \in Mine(c) : ~Stored(i)
    /\ outcome[c].status = "ok" =>
         \A n \in DOMAIN answers[c] : req[c].items[n] # BadParams
                                        => answers[c][n].kind # "error"

(* EnqueueMany that returns an error at some item has stored each item     *)
(* before it, or found a job with its key (which may have ended since),    *)
(* and none after it, and the item itself only if the answer of its INSERT *)
(* was lost: the caller, who gets no results, has to repeat the request,   *)
(* and items without a key are then stored twice.                          *)
PartialBatch ==
  \A c \in Caller : ~req[c].tx /\ outcome[c].status = "error" =>
    LET done(n) == {i \in Mine(c) : rows[i].by[2] = n}
        at      == outcome[c].at
    IN /\ \A n \in 1..Len(req[c].items) :
            /\ n < at => done(n) # {} \/ WithKey(req[c].items[n]) # {}
            /\ n > at => done(n) = {}
       /\ done(at) # {} => errors < MaxErrors

(* InsertJob gives an error for a key that another caller inserted between *)
(* its two statements.  The caller is never refused for nothing: there is  *)
(* (or was) a job with the key, committed by somebody else.                *)
RefusedForTwin ==
  \A c \in Caller : ~req[c].tx /\ outcome[c].status = "error" =>
    LET k == req[c].items[outcome[c].at] IN
    \/ k = BadParams
    \/ errors < MaxErrors
    \/ \E i \in WithKey(k) : Stored(i) /\ i \notin Mine(c)

(* No request waits for ever for a key that an open transaction holds,     *)
(* although transactions may take their keys in opposite orders.           *)
RequestEnds == \A c \in Caller : pc[c] # "idle" ~> pc[c] = "idle"
=============================================================================
