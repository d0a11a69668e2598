-------------------------- MODULE ClientLifecycle ---------------------------
(***************************************************************************)
(* The life of a client after NewClient: Start, Shutdown and Close         *)
(* (client.go), called by several goroutines of its process, the goroutine *)
(* that takes the pipeline down, the heartbeat, and the row of the client  *)
(* in rivo_workers (db.go).  What the pipeline does to jobs is in Pipeline;*)
(* here it is one thing that runs, is drained, and needs the pool.  Every  *)
(* client has a worker id and a row of its own, so there is one client.    *)
(***************************************************************************)
EXTENDS Naturals, FiniteSets

CONSTANTS
  Caller,     \* the goroutines that call Start, Shutdown and Close
  Threshold,  \* the argument of CleanupStaleWorkers, in periods of 10 s
  Budget      \* how often each event of the environment may happen

(* Ages of a heartbeat in periods of its ticker, 10 s: a worker whose      *)
(* heartbeat is 30 s old is not listed.                                    *)
Stale == 3

(* "cancelCtx" cancels the context of Start; "timeout" ends that of a      *)
(* Shutdown; "late" is a heartbeat that is late by another period;         *)
(* "cleanup" is a call of CleanupStaleWorkers; "dbError" is a statement    *)
(* that fails.                                                             *)
Event == {"cancelCtx", "timeout", "late", "cleanup", "dbError", "crash"}

ASSUME LifecycleAssumption ==
  /\ Threshold \in 2..Stale
  /\ Budget \in [Event -> Nat]

VARIABLES
  pool,      \* the connection pool, or the end of the process
  started,   \* Client.started
  stopCh,    \* the channel Client.shutdown is closed
  pipe,      \* the pipeline and the goroutine that waits for stopCh
  beat,      \* the goroutine runHeartbeat; its ticker has fired
  ctxDone,   \* the context of Start is cancelled
  callPc,    \* what a calling goroutine does
  closing,   \* it does so in Close
  unwaited,  \* a Close went on to the pool without c.done (history)
  row,       \* the row of the client in rivo_workers
  left       \* events that can still happen

process == <<pool, started, stopCh, pipe, beat, ctxDone, callPc, closing,
             unwaited>>
vars == <<process, row, left>>

Row == [status : {"none", "active", "stopped"}, age : 0..Stale]

TypeOK ==
  /\ pool \in {"open", "closed", "crashed"}
  /\ started \in BOOLEAN
  /\ stopCh \in BOOLEAN
  /\ pipe \in {"none", "running", "drained", "deregistered", "done"}
  /\ beat \in {"none", "waiting", "due"}
  /\ ctxDone \in BOOLEAN
  /\ callPc \in [Caller -> {"idle", "register", "spawn", "stop", "wait", "closePool"}]
  /\ closing \in [Caller -> BOOLEAN]
  /\ unwaited \in BOOLEAN
  /\ row \in Row
  /\ left \in [Event -> Nat]

Init ==
  /\ pool = "open"
  /\ started = FALSE
  /\ stopCh = FALSE
  /\ pipe = "none"
  /\ beat = "none"
  /\ ctxDone = FALSE
  /\ callPc = [g \in Caller |-> "idle"]
  /\ closing = [g \in Caller |-> FALSE]
  /\ unwaited = FALSE
  /\ row = [status |-> "none", age |-> Stale]
  /\ left = Budget

Spend(e) == left[e] > 0 /\ left' = [left EXCEPT ![e] = @ - 1]

-----------------------------------------------------------------------------
Alive == pool # "crashed"

At(g, l) == Alive /\ callPc[g] = l
Go(g, l) == callPc' = [callPc EXCEPT ![g] = l]
InClose(g, b) == closing' = [closing EXCEPT ![g] = b]

(* A statement needs the pool and may fail.                                *)
Runs  == pool = "open" /\ UNCHANGED left
Fails == \/ pool = "closed" /\ UNCHANGED left
         \/ pool = "open" /\ Spend("dbError")

Mark == row' = [row EXCEPT !.status = IF @ = "none" THEN @ ELSE "stopped"]

StartedLate(g) ==
  /\ At(g, "idle") /\ ~started
  /\ Go(g, "register")
  /\ UNCHANGED <<pool, started, stopCh, pipe, beat, ctxDone, closing, unwaited, row, left>>

(* Start: a second one returns ErrAlreadyStarted, also after a Shutdown.   *)
Start(g) ==
  /\ At(g, "idle") /\ ~started
  /\ started' = TRUE
  /\ Go(g, "register")
  /\ UNCHANGED <<pool, stopCh, pipe, beat, ctxDone, closing, unwaited, row, left>>

(* RegisterWorker, whose error nobody looks at.                            *)
Register(g) ==
  /\ At(g, "register") /\ Go(g, "spawn")
  /\ \/ ~ctxDone /\ Runs /\ row' = [status |-> "active", age |-> 0]
     \/ ctxDone /\ UNCHANGED <<row, left>>
     \/ Fails /\ UNCHANGED row
  /\ UNCHANGED <<pool, started, stopCh, pipe, beat, ctxDone, closing, unwaited>>

(* The goroutines are started.                                             *)
Spawn(g) ==
  /\ At(g, "spawn") /\ Go(g, "idle")
  /\ pipe' = "running" /\ beat' = "waiting"
  /\ UNCHANGED <<pool, started, stopCh, ctxDone, closing, unwaited, row, left>>

(* Shutdown, on its own or in Close: nothing to do if Start was not called.*)
Shutdown(g) ==
  /\ At(g, "idle")
  /\ \E close \in BOOLEAN :
       /\ InClose(g, close)
       /\ \/ started /\ Go(g, "stop") /\ UNCHANGED unwaited
          \/ ~started /\ close /\ Go(g, "closePool") /\ unwaited' = TRUE
  /\ UNCHANGED <<pool, started, stopCh, pipe, beat, ctxDone, row, left>>

CloseEarly(g) ==
  /\ At(g, "stop") /\ ~stopCh
  /\ stopCh' = TRUE /\ Go(g, IF closing[g] THEN "closePool" ELSE "wait")
  /\ UNCHANGED <<pool, started, pipe, beat, ctxDone, closing, unwaited, row, left>>

(* close(c.shutdown).                                                      *)
CloseStopCh(g) ==
  /\ At(g, "stop") /\ ~stopCh
  /\ stopCh' = TRUE /\ Go(g, "wait")
  /\ UNCHANGED <<pool, started, pipe, beat, ctxDone, closing, unwaited, row, left>>

(* The process is gone; the row stays.                                     *)
Die ==
  /\ pool' = "crashed" /\ pipe' = "none" /\ beat' = "none"
  /\ started' = FALSE /\ stopCh' = FALSE /\ ctxDone' = FALSE
  /\ callPc' = [g \in Caller |-> "idle"]
  /\ closing' = [g \in Caller |-> FALSE]
  /\ UNCHANGED <<row, unwaited>>

(* Closing a closed channel panics, which no caller of the client recovers.*)
Panic(g) == At(g, "stop") /\ stopCh /\ Die /\ UNCHANGED left

(* <-c.done, or the context of Shutdown (30 s in Close) ends first.        *)
Waited(g) ==
  /\ At(g, "wait")
  /\ Go(g, IF closing[g] THEN "closePool" ELSE "idle")
  /\ UNCHANGED <<pool, started, stopCh, pipe, beat, ctxDone, closing, row>>

WaitEnds(g) == Waited(g) /\ pipe = "done" /\ UNCHANGED <<unwaited, left>>

WaitTimesOut(g) ==
  Waited(g) /\ Spend("timeout") /\ unwaited' = (unwaited \/ closing[g])

CloseDB(g) ==
  /\ At(g, "closePool") /\ Go(g, "idle") /\ InClose(g, FALSE)
  /\ pool' = "closed"
  /\ UNCHANGED <<started, stopCh, pipe, beat, ctxDone, unwaited, row, left>>

-----------------------------------------------------------------------------
(* The goroutine that Start leaves behind: producer, executor and          *)
(* completer are stopped and waited for ...                                *)
Drain ==
  /\ Alive /\ pipe = "running" /\ stopCh
  /\ pipe' = "drained"
  /\ UNCHANGED <<pool, started, stopCh, beat, ctxDone, callPc, closing, unwaited, row, left>>

NeedsPool ==
  /\ Alive /\ pipe = "drained" /\ Runs /\ Mark
  /\ pipe' = "deregistered"
  /\ UNCHANGED <<pool, started, stopCh, beat, ctxDone, callPc, closing, unwaited>>

(* ... the row is marked, if the pool is still open ...                    *)
Deregister ==
  /\ Alive /\ pipe = "drained"
  /\ pipe' = "deregistered"
  /\ \/ Runs /\ Mark
     \/ Fails /\ UNCHANGED row
  /\ UNCHANGED <<pool, started, stopCh, beat, ctxDone, callPc, closing, unwaited>>

(* ... and close(c.done).                                                  *)
Done ==
  /\ Alive /\ pipe = "deregistered"
  /\ pipe' = "done"
  /\ UNCHANGED <<pool, started, stopCh, beat, ctxDone, callPc, closing, unwaited, row, left>>

-----------------------------------------------------------------------------
HeartbeatExit ==
  /\ beat # "none" /\ (stopCh \/ ctxDone)
  /\ beat' = "none"
  /\ UNCHANGED <<pool, started, stopCh, pipe, ctxDone, callPc, closing, unwaited, row, left>>

Older(age) == IF age < Stale THEN age + 1 ELSE age

(* 10 s pass for the row, and the ticker of the heartbeat fires.  They do  *)
(* not pass between the registration and the goroutines of Start; a tick   *)
(* that is not dealt with by then is Late.                                 *)
TenSeconds ==
  /\ row.status # "none" /\ beat # "due"
  /\ \A g \in Caller : callPc[g] # "spawn"
  /\ row' = [row EXCEPT !.age = Older(@)]
  /\ beat' = IF beat = "waiting" THEN "due" ELSE beat
  /\ UNCHANGED <<pool, started, stopCh, pipe, ctxDone, callPc, closing, unwaited, left>>

(* 10 s pass and it has not: the database or the scheduler of the process  *)
(* is slow.  The ticker drops a tick that nobody takes.                    *)
Late ==
  /\ beat = "due" /\ Spend("late")
  /\ row' = [row EXCEPT !.age = Older(@)]
  /\ UNCHANGED process

NeverBeats ==
  /\ beat = "due" /\ beat' = "waiting"
  /\ UNCHANGED <<pool, started, stopCh, pipe, ctxDone, callPc, closing, unwaited, row, left>>

(* WorkerHeartbeat renews last_heartbeat whatever the status; its error is *)
(* ignored.  A tick may win the select against a cancelled context.        *)
Heartbeat ==
  /\ beat = "due" /\ beat' = "waiting"
  /\ \/ ~ctxDone /\ Runs /\ row' = [row EXCEPT !.age = 0]
     \/ ctxDone /\ UNCHANGED <<row, left>>
     \/ Fails /\ UNCHANGED row
  /\ UNCHANGED <<pool, started, stopCh, pipe, ctxDone, callPc, closing, unwaited>>

(* CleanupStaleWorkers, by whoever has the database at hand.               *)
CleanupStaleWorkers ==
  /\ Spend("cleanup")
  /\ row' = [row EXCEPT !.status =
               IF @ = "active" /\ row.age >= Threshold THEN "stopped" ELSE @]
  /\ UNCHANGED process

CancelCtx ==
  /\ Alive /\ ~ctxDone /\ Spend("cancelCtx")
  /\ ctxDone' = TRUE
  /\ UNCHANGED <<pool, started, stopCh, pipe, beat, callPc, closing, unwaited, row>>

Crash == Alive /\ Die /\ Spend("crash")

-----------------------------------------------------------------------------
Call(g) ==
  \/ Register(g) \/ Spawn(g) \/ CloseStopCh(g) \/ Panic(g) \/ WaitEnds(g) \/ CloseDB(g)

Next ==
  \/ \E g \in Caller : Start(g) \/ Shutdown(g) \/ Call(g) \/ WaitTimesOut(g)
  \/ Drain \/ Deregister \/ Done \/ HeartbeatExit \/ TenSeconds \/ Late \/ Heartbeat
  \/ CleanupStaleWorkers \/ CancelCtx \/ Crash

Spec == Init /\ [][Next]_vars

(* Goroutines run, jobs in progress come to an end, time passes.  Nothing  *)
(* is assumed of timeouts: the context of Shutdown need not have one.      *)
FairSpec ==
  /\ Spec
  /\ WF_vars(Drain) /\ WF_vars(Deregister) /\ WF_vars(Done)
  /\ WF_vars(HeartbeatExit) /\ WF_vars(Heartbeat) /\ WF_vars(TenSeconds)
  /\ \A g \in Caller : WF_vars(Call(g))

-----------------------------------------------------------------------------
(* Properties.                                                             *)

(* However often Start is called, and whatever is stopped meanwhile, one   *)
(* pipeline is made: two would both process jobs under one worker id, and  *)
(* share the channels of the client.                                       *)
OnePipeline ==
  Cardinality({g \in Caller : callPc[g] \in {"register", "spawn"}})
    + (IF pipe = "none" THEN 0 ELSE 1) <= 1

(* When Shutdown has seen c.done, the row of the client is not active any  *)
(* more, unless a statement failed or a Close that had not waited for      *)
(* c.done took the pool away: every other way to Close comes after the     *)
(* goroutine that marks the row.                                           *)
DoneIsDeregistered ==
  pipe = "done" /\ row.status = "active" =>
    left["dbError"] < Budget["dbError"] \/ (pool = "closed" /\ unwaited)

ListedForever == row.status = "active"

(* GetWorkers.                                                             *)
Listed == row.status = "active" /\ row.age < Stale

(* A client that processes jobs is listed by GetWorkers, as long as no     *)
(* statement failed and every heartbeat is on time: it keeps up with the   *)
(* limit of 30 s, and CleanupStaleWorkers takes nobody who beats.  One     *)
(* that was late is missing until it beats again, or for good if           *)
(* CleanupStaleWorkers came first, since WorkerHeartbeat leaves the status.*)
WorkerIsListed ==
  /\ pipe = "running" /\ pool = "open" /\ ~stopCh /\ ~ctxDone
  /\ left["dbError"] = Budget["dbError"]
  => \/ Listed
     \/ /\ left["late"] < Budget["late"]
        /\ \/ beat = "due"
           \/ row.status = "stopped" /\ left["cleanup"] < Budget["cleanup"]

(* Shutdown and Close return, without any timeout, though the pool may be  *)
(* closed under the goroutine they wait for.                               *)
StopReturns ==
  \A g \in Caller : callPc[g] \in {"stop", "wait", "closePool"} ~> callPc[g] = "idle"

(* A worker that died or was closed disappears from the list, whether or   *)
(* not it could mark its row.                                              *)
DeadIsUnlisted == pool # "open" ~> ~Listed

-----------------------------------------------------------------------------
(* What the documentation says and the code does not do.                   *)

(* "Close closes the client and releases resources" (client.go), and the   *)
(* examples call it after Shutdown: no call ends the process.              *)
CloseIsSafe == pool = "crashed" => left["crash"] < Budget["crash"]
=============================================================================
