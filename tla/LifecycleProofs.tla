-------------------------- MODULE LifecycleProofs ---------------------------
(***************************************************************************)
(* What Start, Shutdown and Close of a client guarantee, for any number of *)
(* goroutines that call them, any threshold of CleanupStaleWorkers that    *)
(* the configuration allows, and any number of failures.                   *)
(***************************************************************************)
EXTENDS ClientLifecycle, FiniteSetTheorems, TLAPS

-----------------------------------------------------------------------------
(* The inductive invariant.                                                *)

(* One goroutine is between "started = true" and the goroutines of Start,  *)
(* and then there is no pipeline yet.                                      *)
Starting(g) == callPc[g] \in {"register", "spawn"}

StartOnce ==
  /\ \A g, h \in Caller : Starting(g) /\ Starting(h) => g = h
  /\ \A g \in Caller : Starting(g) => pipe = "none" /\ started
  /\ IF pipe = "none" THEN beat = "none" ELSE started

(* No statement has failed so far.                                         *)
Spared == left["dbError"] = Budget["dbError"]
Healthy == pool = "open" /\ ~ctxDone /\ Spared

(* Whoever is about to close the pool, or has, came after the goroutine    *)
(* that takes the pipeline down, or did not wait.                          *)
WaitedFor ==
  /\ \A g \in Caller : callPc[g] = "closePool" => pipe = "done" \/ unwaited
  /\ pool = "closed" => pipe = "done" \/ unwaited

Deregistered ==
  pipe \in {"deregistered", "done"} /\ row.status = "active"
    => ~Spared \/ (pool = "closed" /\ unwaited)

SpawnOK ==
  \A g \in Caller :
    callPc[g] = "spawn" /\ Healthy => row.status = "active" /\ row.age = 0

OnTime == left["late"] = Budget["late"]
Cleaned == left["cleanup"] < Budget["cleanup"]

(* A heartbeat on time is never more than one tick behind, and the row is  *)
(* as young; only a late one leaves it to CleanupStaleWorkers.             *)
BeatOK ==
  pipe = "running" /\ Healthy /\ ~stopCh =>
    /\ row.status = "active" \/ (row.status = "stopped" /\ ~OnTime /\ Cleaned)
    /\ \/ beat = "waiting" /\ row.age = 0
       \/ beat = "due" /\ (OnTime => row.age <= 1)

BudgetOK == \A e \in Event : left[e] <= Budget[e]

LifeInv ==
  /\ TypeOK /\ BudgetOK /\ StartOnce /\ WaitedFor /\ Deregistered
  /\ SpawnOK /\ BeatOK

-----------------------------------------------------------------------------
(* Events and types.                                                       *)
LEMMA SpendEffect ==
  ASSUME TypeOK, BudgetOK, NEW e \in Event, Spend(e)
  PROVE  /\ left' \in [Event -> Nat] /\ BudgetOK'
         /\ \A f \in Event : left'[f] <= left[f]
         /\ left'[e] < Budget[e]
<1>1. /\ left \in [Event -> Nat] /\ left[e] \in Nat /\ left[e] > 0
      /\ left' = [left EXCEPT ![e] = left[e] - 1]
  BY DEF TypeOK, Spend
<1>2. left[e] - 1 \in Nat
  BY <1>1
<1>3. left' \in [Event -> Nat]
  BY <1>1, <1>2
<1>4. ASSUME NEW f \in Event
      PROVE  /\ left[f] \in Nat /\ Budget[f] \in Nat /\ left[f] <= Budget[f]
             /\ left'[f] = IF f = e THEN left[e] - 1 ELSE left[f]
  BY <1>1, LifecycleAssumption DEF BudgetOK
<1>5. ASSUME NEW f \in Event PROVE left'[f] <= left[f] /\ left'[f] <= Budget[f]
  BY <1>1, <1>4
<1>6. left'[e] < Budget[e]
  BY <1>1, <1>4
<1> QED BY <1>3, <1>5, <1>6 DEF BudgetOK

LEMMA LeftKept ==
  ASSUME TypeOK, BudgetOK, [Next]_vars
  PROVE  /\ left' \in [Event -> Nat] /\ BudgetOK'
         /\ \A f \in Event : left'[f] <= left[f]
         /\ Spared' => Spared
         /\ OnTime' => OnTime
         /\ Cleaned => Cleaned'
<1>1. UNCHANGED left \/ \E e \in Event : Spend(e)
  <2>1. {"cancelCtx", "timeout", "late", "cleanup", "dbError", "crash"} \subseteq Event
    BY DEF Event
  <2>2. ASSUME NEW g \in Caller,
               Start(g) \/ Shutdown(g) \/ Call(g) \/ WaitTimesOut(g)
        PROVE  UNCHANGED left \/ \E e \in Event : Spend(e)
    BY <2>1, <2>2 DEF Start, Shutdown, Call, WaitTimesOut, Register, Spawn, CloseStopCh,
       Panic, WaitEnds, CloseDB, Runs, Fails
  <2>3. CASE \/ Drain \/ Deregister \/ Done \/ HeartbeatExit
             \/ TenSeconds \/ Late \/ Heartbeat
    BY <2>1, <2>3 DEF Drain, Deregister, Done, HeartbeatExit, TenSeconds, Late,
       Heartbeat, Runs, Fails
  <2>4. CASE CleanupStaleWorkers \/ CancelCtx \/ Crash
    BY <2>1, <2>4 DEF CleanupStaleWorkers, CancelCtx, Crash
  <2>5. CASE UNCHANGED vars
    BY <2>5 DEF vars
  <2> QED BY <2>2, <2>3, <2>4, <2>5 DEF Next
<1>2. /\ left' \in [Event -> Nat] /\ BudgetOK'
      /\ \A f \in Event : left'[f] <= left[f]
  <2>1. CASE UNCHANGED left
    BY <2>1 DEF TypeOK, BudgetOK
  <2> QED BY <1>1, <2>1, SpendEffect
<1>3. \A f \in {"dbError", "late", "cleanup"} :
        /\ left[f] \in Nat /\ left'[f] \in Nat /\ Budget[f] \in Nat
        /\ left'[f] <= left[f] /\ left[f] <= Budget[f]
  BY <1>2, LifecycleAssumption DEF TypeOK, BudgetOK, Event
<1> QED BY <1>2, <1>3 DEF Spared, OnTime, Cleaned

LEMMA NotSpent ==
  ASSUME TypeOK, BudgetOK, Spared'
  PROVE  ~Spend("dbError")
<1> SUFFICES ASSUME Spend("dbError") PROVE FALSE
  OBVIOUS
<1>1. "dbError" \in Event
  BY DEF Event
<1>2. left'["dbError"] < Budget["dbError"] /\ Budget["dbError"] \in Nat
  BY <1>1, SpendEffect, LifecycleAssumption
<1> QED BY <1>2 DEF Spared

LEMMA LateSpent ==
  ASSUME TypeOK, BudgetOK, Spend("late")
  PROVE  ~OnTime'
<1>1. "late" \in Event
  BY DEF Event
<1>2. left'["late"] < Budget["late"] /\ Budget["late"] \in Nat
  BY <1>1, SpendEffect, LifecycleAssumption
<1> QED BY <1>2 DEF OnTime

LEMMA CleanupSpent ==
  ASSUME TypeOK, BudgetOK, Spend("cleanup")
  PROVE  Cleaned'
<1>1. "cleanup" \in Event
  BY DEF Event
<1> QED BY <1>1, SpendEffect DEF Cleaned

LEMMA RowEffect ==
  ASSUME TypeOK
  PROVE  /\ row.status \in {"none", "active", "stopped"} /\ row.age \in 0..Stale
         /\ Mark => /\ row' \in Row /\ row'.age = row.age
                    /\ row'.status = IF row.status = "none" THEN "none" ELSE "stopped"
         /\ \A s \in {"none", "active", "stopped"} : row' = [row EXCEPT !.status = s]
              => row' \in Row /\ row'.age = row.age /\ row'.status = s
         /\ \A a \in 0..Stale : row' = [row EXCEPT !.age = a]
              => row' \in Row /\ row'.status = row.status /\ row'.age = a
BY DEF TypeOK, Row, Mark

LEMMA TypeKept ==
  ASSUME TypeOK, BudgetOK, [Next]_vars
  PROVE  TypeOK'
<1>1. left' \in [Event -> Nat]
  BY LeftKept
<1> DEFINE PcOK == callPc' \in
      [Caller -> {"idle", "register", "spawn", "stop", "wait", "closePool"}]
<1>2. ASSUME NEW g \in Caller,
             NEW l \in {"idle", "register", "spawn", "stop", "wait", "closePool"}, Go(g, l)
      PROVE  PcOK
  BY <1>2 DEF TypeOK, Go
<1>3. ASSUME NEW g \in Caller, NEW b \in BOOLEAN, InClose(g, b)
      PROVE  closing' \in [Caller -> BOOLEAN]
  BY <1>3 DEF TypeOK, InClose
<1>4. Die => TypeOK'
  BY <1>1 DEF Die, TypeOK
<1>5. ASSUME NEW g \in Caller PROVE
        /\ Start(g) => TypeOK'
        /\ Spawn(g) => TypeOK'
        /\ CloseStopCh(g) => TypeOK'
        /\ Panic(g) => TypeOK'
        /\ Shutdown(g) => TypeOK'
        /\ CloseDB(g) => TypeOK'
  <2>1. Start(g) => TypeOK'
    BY <1>1, <1>2, <1>5 DEF Start, TypeOK
  <2>2. Spawn(g) => TypeOK'
    BY <1>1, <1>2, <1>5 DEF Spawn, TypeOK
  <2>3. CloseStopCh(g) => TypeOK'
    BY <1>1, <1>2, <1>5 DEF CloseStopCh, TypeOK
  <2>4. Panic(g) => TypeOK'
    BY <1>4 DEF Panic
  <2>5. Shutdown(g) => TypeOK'
    BY <1>1, <1>2, <1>3, <1>5 DEF Shutdown, TypeOK
  <2>6. CloseDB(g) => TypeOK'
    BY <1>1, <1>2, <1>3, <1>5 DEF CloseDB, TypeOK
  <2> QED BY <2>1, <2>2, <2>3, <2>4, <2>5, <2>6
<1>6. ASSUME NEW g \in Caller, Register(g) PROVE TypeOK'
  <2>1. row' \in Row
    BY <1>6, RowEffect DEF Register, TypeOK, Row, Stale
  <2> QED BY <1>1, <1>2, <1>6, <2>1 DEF Register, TypeOK
<1>7. ASSUME NEW g \in Caller, WaitEnds(g) \/ WaitTimesOut(g) PROVE TypeOK'
  <2>1. PcOK
    BY <1>2, <1>7 DEF WaitEnds, WaitTimesOut, Waited
  <2>2. unwaited' \in BOOLEAN
    BY <1>7 DEF WaitEnds, WaitTimesOut, TypeOK
  <2> QED BY <1>1, <1>7, <2>1, <2>2 DEF WaitEnds, WaitTimesOut, Waited, TypeOK
<1>8. CASE Drain \/ Done \/ HeartbeatExit \/ CancelCtx
  BY <1>1, <1>8 DEF Drain, Done, HeartbeatExit, CancelCtx, TypeOK
<1>9. CASE Deregister
  <2>1. row' \in Row
    BY <1>9, RowEffect DEF Deregister, TypeOK
  <2> QED BY <1>1, <1>9, <2>1 DEF Deregister, TypeOK
<1>10. CASE TenSeconds \/ Late
  <2>1. Older(row.age) \in 0..Stale
    BY RowEffect DEF Older, Stale
  <2>2. row' \in Row
    BY <1>10, <2>1, RowEffect DEF TenSeconds, Late
  <2> QED BY <1>1, <1>10, <2>2 DEF TenSeconds, Late, process, TypeOK
<1>11. CASE Heartbeat
  <2>1. row' \in Row
    BY <1>11, RowEffect DEF Heartbeat, TypeOK, Stale
  <2> QED BY <1>1, <1>11, <2>1 DEF Heartbeat, TypeOK
<1>12. CASE CleanupStaleWorkers
  <2>1. row' \in Row
    BY <1>12, RowEffect DEF CleanupStaleWorkers
  <2> QED BY <1>1, <1>12, <2>1 DEF CleanupStaleWorkers, process, TypeOK
<1>13. CASE Crash
  BY <1>4, <1>13 DEF Crash
<1>14. CASE UNCHANGED vars
  BY <1>14 DEF vars, process, TypeOK
<1> QED BY <1>5, <1>6, <1>7, <1>8, <1>9, <1>10, <1>11, <1>12, <1>13, <1>14 DEF Next, Call

-----------------------------------------------------------------------------
(* What callers of the client do to the pipeline: Start comes to its       *)
(* goroutines once, because "started" is set under the mutex before.       *)
LEMMA CallerGoes ==
  ASSUME TypeOK, NEW g \in Caller, NEW l, Go(g, l)
  PROVE  callPc'[g] = l /\ \A h \in Caller \ {g} : callPc'[h] = callPc[h]
BY DEF TypeOK, Go

LEMMA StartKept ==
  ASSUME LifeInv, [Next]_vars
  PROVE  StartOnce'
<1>1. TypeOK /\ StartOnce
  BY DEF LifeInv
<1>2. Die => StartOnce'
  BY DEF Die, StartOnce, Starting
<1>3. ASSUME NEW g \in Caller, Start(g) PROVE StartOnce'
  <2>1. callPc'[g] = "register" /\ \A h \in Caller \ {g} : callPc'[h] = callPc[h]
    BY <1>1, <1>3, CallerGoes DEF Start
  <2>2. ~started /\ started' = TRUE /\ UNCHANGED <<pipe, beat>>
    BY <1>3 DEF Start
  <2> QED BY <1>1, <2>1, <2>2 DEF StartOnce, Starting
<1>4. ASSUME NEW g \in Caller, Register(g) PROVE StartOnce'
  <2>1. callPc[g] = "register" /\ callPc'[g] = "spawn"
        /\ \A h \in Caller \ {g} : callPc'[h] = callPc[h]
    BY <1>1, <1>4, CallerGoes DEF Register, At
  <2>2. UNCHANGED <<started, pipe, beat>>
    BY <1>4 DEF Register
  <2> QED BY <1>1, <2>1, <2>2 DEF StartOnce, Starting
<1>5. ASSUME NEW g \in Caller, Spawn(g) PROVE StartOnce'
  <2>1. callPc[g] = "spawn" /\ callPc'[g] = "idle"
        /\ \A h \in Caller \ {g} : callPc'[h] = callPc[h]
    BY <1>1, <1>5, CallerGoes DEF Spawn, At
  <2>2. UNCHANGED started /\ pipe' = "running"
    BY <1>5 DEF Spawn
  <2> QED BY <1>1, <2>1, <2>2 DEF StartOnce, Starting
<1>6. ASSUME NEW g \in Caller, NEW l \in {"stop", "wait", "closePool", "idle"}, Go(g, l),
             ~Starting(g), UNCHANGED <<started, pipe, beat>>
      PROVE  StartOnce'
  <2>1. callPc'[g] = l /\ \A h \in Caller \ {g} : callPc'[h] = callPc[h]
    BY <1>1, <1>6, CallerGoes
  <2> QED BY <1>1, <1>6, <2>1 DEF StartOnce, Starting
<1>7. ASSUME NEW g \in Caller,
             \/ Shutdown(g) \/ CloseStopCh(g) \/ WaitEnds(g) \/ WaitTimesOut(g)
             \/ CloseDB(g)
      PROVE  StartOnce'
  BY <1>6, <1>7 DEF Shutdown, CloseStopCh, WaitEnds, WaitTimesOut, Waited, CloseDB, At,
     Starting
<1>8. ASSUME NEW g \in Caller, Panic(g) PROVE StartOnce'
  BY <1>2, <1>8 DEF Panic
<1>9. CASE Drain \/ Deregister \/ Done
  BY <1>1, <1>9 DEF Drain, Deregister, Done, StartOnce, Starting
<1>10. CASE \/ HeartbeatExit \/ TenSeconds \/ Late \/ Heartbeat
            \/ CleanupStaleWorkers \/ CancelCtx
  <2>1. UNCHANGED <<callPc, started, pipe>>
    BY <1>10 DEF HeartbeatExit, TenSeconds, Late, Heartbeat, CleanupStaleWorkers,
       CancelCtx, process
  <2>2. beat = "none" => beat' = "none"
    BY <1>10 DEF HeartbeatExit, TenSeconds, Late, Heartbeat, CleanupStaleWorkers,
       CancelCtx, process
  <2> QED BY <1>1, <2>1, <2>2 DEF StartOnce, Starting
<1>11. CASE Crash
  BY <1>2, <1>11 DEF Crash
<1>12. CASE UNCHANGED vars
  BY <1>1, <1>12 DEF vars, process, StartOnce, Starting
<1> QED BY <1>3, <1>4, <1>5, <1>7, <1>8, <1>9, <1>10, <1>11, <1>12 DEF Next, Call

(* The row becomes active only in Register, and then there is no pipeline. *)
LEMMA ActiveFrom ==
  ASSUME LifeInv, [Next]_vars, row'.status = "active"
  PROVE  row.status = "active" \/ \E g \in Caller : Register(g)
<1>1. TypeOK
  BY DEF LifeInv
<1>2. ASSUME NEW g \in Caller,
             \/ Start(g) \/ Shutdown(g) \/ Spawn(g) \/ CloseStopCh(g) \/ Panic(g)
             \/ WaitEnds(g) \/ WaitTimesOut(g) \/ CloseDB(g)
      PROVE  row' = row
  BY <1>2 DEF Start, Shutdown, Spawn, CloseStopCh, Panic, Die, WaitEnds, WaitTimesOut,
     Waited, CloseDB
<1>3. CASE Drain \/ Done \/ HeartbeatExit \/ CancelCtx \/ Crash
  BY <1>3 DEF Drain, Done, HeartbeatExit, CancelCtx, Crash, Die
<1>4. CASE Deregister
  BY <1>1, <1>4, RowEffect DEF Deregister
<1>5. CASE TenSeconds \/ Late
  <2>1. Older(row.age) \in 0..Stale
    BY <1>1, RowEffect DEF Older, Stale
  <2> QED BY <1>1, <1>5, <2>1, RowEffect DEF TenSeconds, Late
<1>6. CASE Heartbeat
  BY <1>1, <1>6, RowEffect DEF Heartbeat, Stale
<1>7. CASE CleanupStaleWorkers
  BY <1>1, <1>7, RowEffect DEF CleanupStaleWorkers
<1>8. CASE UNCHANGED vars
  BY <1>8 DEF vars
<1> QED BY <1>2, <1>3, <1>4, <1>5, <1>6, <1>7, <1>8 DEF Next, Call

(* The pool is closed only by callers that have got to it.                 *)
LEMMA WaitedKept ==
  ASSUME LifeInv, [Next]_vars
  PROVE  WaitedFor' /\ (unwaited => unwaited')
<1> DEFINE Kept == WaitedFor' /\ (unwaited => unwaited')
<1>1. TypeOK /\ WaitedFor /\ StartOnce
  BY DEF LifeInv
<1>2. Die => Kept
  BY DEF Die, WaitedFor
<1>3. ASSUME UNCHANGED <<pool, callPc, unwaited>>, pipe = "done" => pipe' = "done"
      PROVE  Kept
  BY <1>1, <1>3 DEF WaitedFor
<1>4. ASSUME NEW g \in Caller, NEW l, Go(g, l), UNCHANGED pool, unwaited => unwaited',
             pipe = "done" => pipe' = "done",
             l = "closePool" => pipe' = "done" \/ unwaited'
      PROVE  Kept
  <2>1. callPc'[g] = l /\ \A h \in Caller \ {g} : callPc'[h] = callPc[h]
    BY <1>1, <1>4, CallerGoes
  <2> QED BY <1>1, <1>4, <2>1 DEF WaitedFor
<1>5. ASSUME NEW g \in Caller, Start(g) \/ Register(g) \/ CloseStopCh(g) PROVE Kept
  BY <1>4, <1>5 DEF Start, Register, CloseStopCh
<1>6. ASSUME NEW g \in Caller, Spawn(g) PROVE Kept
  <2>1. pipe = "none"
    BY <1>1, <1>6 DEF Spawn, At, StartOnce, Starting
  <2> QED BY <1>4, <1>6, <2>1 DEF Spawn
<1>7. ASSUME NEW g \in Caller, Shutdown(g) PROVE Kept
  <2>1. CASE Go(g, "stop") /\ UNCHANGED unwaited
    BY <1>4, <1>7, <2>1 DEF Shutdown
  <2>2. CASE Go(g, "closePool") /\ unwaited' = TRUE
    BY <1>4, <1>7, <2>2 DEF Shutdown
  <2> QED BY <1>7, <2>1, <2>2 DEF Shutdown
<1>8. ASSUME NEW g \in Caller, WaitEnds(g) PROVE Kept
  BY <1>4, <1>8 DEF WaitEnds, Waited
<1>9. ASSUME NEW g \in Caller, WaitTimesOut(g) PROVE Kept
  <2>1. CASE closing[g]
    BY <1>4, <1>9, <2>1 DEF WaitTimesOut, Waited
  <2>2. CASE ~closing[g]
    BY <1>4, <1>9, <2>2 DEF WaitTimesOut, Waited
  <2> QED BY <2>1, <2>2
<1>10. ASSUME NEW g \in Caller, CloseDB(g) PROVE Kept
  <2>1. callPc'[g] = "idle" /\ \A h \in Caller \ {g} : callPc'[h] = callPc[h]
    BY <1>1, <1>10, CallerGoes DEF CloseDB
  <2>2. /\ pool' = "closed" /\ UNCHANGED <<pipe, unwaited>>
        /\ pipe = "done" \/ unwaited
    BY <1>1, <1>10 DEF CloseDB, At, WaitedFor
  <2> QED BY <1>1, <2>1, <2>2 DEF WaitedFor
<1>11. ASSUME NEW g \in Caller, Panic(g) PROVE Kept
  BY <1>2, <1>11 DEF Panic
<1>12. CASE Drain \/ Deregister \/ Done
  BY <1>3, <1>12 DEF Drain, Deregister, Done
<1>13. CASE \/ HeartbeatExit \/ TenSeconds \/ Late \/ Heartbeat
            \/ CleanupStaleWorkers \/ CancelCtx
  BY <1>3, <1>13 DEF HeartbeatExit, TenSeconds, Late, Heartbeat, CleanupStaleWorkers,
     CancelCtx, process
<1>14. CASE Crash
  BY <1>2, <1>14 DEF Crash
<1>15. CASE UNCHANGED vars
  BY <1>3, <1>15 DEF vars, process
<1> QED BY <1>5, <1>6, <1>7, <1>8, <1>9, <1>10, <1>11, <1>12, <1>13, <1>14, <1>15
        DEF Next, Call

LEMMA DeregisteredKept ==
  ASSUME LifeInv, [Next]_vars
  PROVE  Deregistered'
<1>1. TypeOK /\ BudgetOK /\ StartOnce /\ WaitedFor /\ Deregistered
  BY DEF LifeInv
<1> SUFFICES ASSUME pipe' \in {"deregistered", "done"}, row'.status = "active", Spared'
             PROVE  pool' = "closed" /\ unwaited'
  BY DEF Deregistered
<1>2. Spared
  BY <1>1, LeftKept
<1>3. row.status = "active"
  <2> SUFFICES ASSUME NEW g \in Caller, Register(g) PROVE FALSE
    BY ActiveFrom
  <2>1. pipe = "none" /\ pipe' = pipe
    BY <1>1 DEF Register, At, StartOnce, Starting
  <2> QED BY <2>1
<1>4. CASE Deregister
  <2>1. ~(Runs /\ Mark)
    BY <1>1, <1>3, RowEffect DEF Mark
  <2>2. Fails /\ UNCHANGED pool
    BY <1>4, <2>1 DEF Deregister
  <2>3. ~Spend("dbError")
    BY <1>1, NotSpent
  <2>4. pool = "closed" /\ pipe = "drained"
    BY <1>4, <2>2, <2>3 DEF Fails, Deregister
  <2>5. unwaited
    BY <1>1, <2>4 DEF WaitedFor
  <2> QED BY <2>2, <2>4, <2>5, WaitedKept
<1>5. CASE pipe \in {"deregistered", "done"}
  <2>1. pool = "closed" /\ unwaited
    BY <1>1, <1>2, <1>3, <1>5 DEF Deregistered
  <2>2. ASSUME NEW g \in Caller,
               Start(g) \/ Shutdown(g) \/ Call(g) \/ WaitTimesOut(g)
        PROVE  pool' = "closed"
    BY <2>1, <2>2 DEF Start, Shutdown, Call, WaitTimesOut, Register, Spawn, CloseStopCh,
       Panic, Die, WaitEnds, Waited, CloseDB
  <2>3. CASE \/ Drain \/ Deregister \/ Done \/ HeartbeatExit
             \/ TenSeconds \/ Late \/ Heartbeat
    BY <2>1, <2>3 DEF Drain, Deregister, Done, HeartbeatExit, TenSeconds, Late,
       Heartbeat, process
  <2>4. CASE CleanupStaleWorkers \/ CancelCtx \/ Crash
    BY <2>1, <2>4 DEF CleanupStaleWorkers, CancelCtx, Crash, Die, process
  <2>5. CASE UNCHANGED vars
    BY <2>1, <2>5 DEF vars, process
  <2>6. pool' = "closed"
    BY <2>2, <2>3, <2>4, <2>5 DEF Next
  <2> QED BY <2>1, <2>6, WaitedKept
<1>6. CASE pipe \notin {"deregistered", "done"} /\ ~Deregister
  <2>1. pipe' # pipe
    BY <1>6
  <2>2. ASSUME NEW g \in Caller,
               Start(g) \/ Shutdown(g) \/ Call(g) \/ WaitTimesOut(g)
        PROVE  FALSE
    BY <2>1, <2>2 DEF Start, Shutdown, Call, WaitTimesOut, Register, Spawn, CloseStopCh,
       Panic, Die, WaitEnds, Waited, CloseDB
  <2>3. CASE Drain \/ Done \/ HeartbeatExit \/ TenSeconds \/ Late \/ Heartbeat
    BY <1>6, <2>1, <2>3 DEF Drain, Done, HeartbeatExit, TenSeconds, Late, Heartbeat,
       process
  <2>4. CASE CleanupStaleWorkers \/ CancelCtx \/ Crash
    BY <2>1, <2>4 DEF CleanupStaleWorkers, CancelCtx, Crash, Die, process
  <2>5. CASE UNCHANGED vars
    BY <2>1, <2>5 DEF vars, process
  <2> QED BY <1>6, <2>2, <2>3, <2>4, <2>5 DEF Next
<1> QED BY <1>4, <1>5, <1>6

(* A client that is healthy was so before: pools are not opened again, and *)
(* the context of Start is not renewed.                                    *)
LEMMA HealthyBefore ==
  ASSUME LifeInv, [Next]_vars, Healthy'
  PROVE  /\ Healthy /\ ~Die /\ ~Fails /\ (~stopCh' => ~stopCh)
<1>1. TypeOK /\ BudgetOK
  BY DEF LifeInv
<1>2. Spared' /\ pool' = "open" /\ ~ctxDone'
  BY DEF Healthy
<1>3. Spared /\ ~Spend("dbError") /\ ~Die
  BY <1>1, <1>2, LeftKept, NotSpent DEF Die
<1>4. /\ pool = "open" /\ (ctxDone => ctxDone') /\ (stopCh => stopCh')
  <2>1. ASSUME NEW g \in Caller,
               Start(g) \/ Shutdown(g) \/ Call(g) \/ WaitTimesOut(g)
        PROVE  pool = "open" /\ (ctxDone => ctxDone') /\ (stopCh => stopCh')
    BY <1>2, <1>3, <2>1 DEF Start, Shutdown, Call, WaitTimesOut, Register, Spawn,
       CloseStopCh, Panic, WaitEnds, Waited, CloseDB
  <2>2. CASE \/ Drain \/ Deregister \/ Done \/ HeartbeatExit
             \/ TenSeconds \/ Late \/ Heartbeat
    BY <1>2, <2>2 DEF Drain, Deregister, Done, HeartbeatExit, TenSeconds, Late,
       Heartbeat, process
  <2>3. CASE CleanupStaleWorkers \/ CancelCtx \/ Crash
    BY <1>2, <1>3, <2>3 DEF CleanupStaleWorkers, CancelCtx, Crash, process
  <2>4. CASE UNCHANGED vars
    BY <1>2, <2>4 DEF vars, process
  <2> QED BY <2>1, <2>2, <2>3, <2>4 DEF Next
<1> QED BY <1>2, <1>3, <1>4 DEF Healthy, Fails

(* What can happen to the row of a client whose pool is open.              *)
LEMMA RowMoves ==
  ASSUME LifeInv, [Next]_vars, Healthy', pipe # "drained"
  PROVE  \/ row' = row
         \/ /\ TenSeconds \/ Late
            /\ row'.status = row.status /\ row'.age = Older(row.age)
         \/ /\ CleanupStaleWorkers /\ row.age >= Threshold
            /\ row.status = "active" /\ row'.status = "stopped" /\ row'.age = row.age
         \/ Heartbeat /\ row'.status = row.status /\ row'.age = 0
         \/ /\ \E g \in Caller : Register(g)
            /\ row'.status = "active" /\ row'.age = 0
<1>1. TypeOK /\ ~Die /\ row.age \in 0..Stale
  BY HealthyBefore, RowEffect DEF LifeInv
<1>2. ASSUME NEW g \in Caller,
             \/ Start(g) \/ Shutdown(g) \/ Spawn(g) \/ CloseStopCh(g) \/ Panic(g)
             \/ WaitEnds(g) \/ WaitTimesOut(g) \/ CloseDB(g)
      PROVE  row' = row
  BY <1>2 DEF Start, Shutdown, Spawn, CloseStopCh, Panic, Die, WaitEnds, WaitTimesOut,
     Waited, CloseDB
<1>3. ASSUME NEW g \in Caller, Register(g)
      PROVE  row' = row \/ (row'.status = "active" /\ row'.age = 0)
  BY <1>3 DEF Register
<1>4. CASE Drain \/ Deregister \/ Done \/ HeartbeatExit \/ CancelCtx \/ Crash
  BY <1>4 DEF Drain, Deregister, Done, HeartbeatExit, CancelCtx, Crash, Die
<1>5. CASE TenSeconds \/ Late
  <2>1. Older(row.age) \in 0..Stale
    BY <1>1 DEF Older, Stale
  <2> QED BY <1>1, <1>5, <2>1, RowEffect DEF TenSeconds, Late
<1>6. CASE Heartbeat
  BY <1>1, <1>6, RowEffect DEF Heartbeat, Stale
<1>7. CASE CleanupStaleWorkers
  <2>1. CASE row.status = "active" /\ row.age >= Threshold
    <3>1. row' = [row EXCEPT !.status = "stopped"]
      BY <1>7, <2>1 DEF CleanupStaleWorkers
    <3> QED BY <1>1, <1>7, <2>1, <3>1, RowEffect
  <2>2. CASE ~(row.status = "active" /\ row.age >= Threshold)
    <3>1. row' = [row EXCEPT !.status = row.status]
      BY <1>7, <2>2 DEF CleanupStaleWorkers
    <3> QED BY <1>1, <3>1 DEF TypeOK, Row
  <2> QED BY <2>1, <2>2
<1>8. CASE UNCHANGED vars
  BY <1>8 DEF vars
<1> QED BY <1>2, <1>3, <1>4, <1>5, <1>6, <1>7, <1>8 DEF Next, Call

LEMMA SpawnKept ==
  ASSUME LifeInv, [Next]_vars
  PROVE  SpawnOK'
<1> SUFFICES ASSUME NEW g \in Caller, callPc'[g] = "spawn", Healthy'
             PROVE  row'.status = "active" /\ row'.age = 0
  BY DEF SpawnOK
<1>1. TypeOK /\ StartOnce /\ SpawnOK /\ Healthy /\ ~Die /\ ~Fails
  BY HealthyBefore DEF LifeInv
<1>2. CASE Register(g)
  BY <1>1, <1>2 DEF Register, Healthy
<1>3. CASE callPc[g] = "spawn"
  <2>1. row.status = "active" /\ row.age = 0 /\ pipe = "none" /\ beat = "none"
    BY <1>1, <1>3 DEF SpawnOK, StartOnce, Starting
  <2>2. ~TenSeconds /\ ~Late /\ ~Heartbeat
    BY <1>3, <2>1 DEF TenSeconds, Late, Heartbeat
  <2>3. ~(row.age >= Threshold)
    BY <2>1, LifecycleAssumption DEF Stale
  <2> QED BY <2>1, <2>2, <2>3, RowMoves
<1>4. CASE callPc[g] # "spawn" /\ ~Register(g)
  <2>1. ASSUME NEW h \in Caller, NEW l, Go(h, l), l # "spawn" PROVE FALSE
    BY <1>1, <1>4, <2>1, CallerGoes
  <2>2. ASSUME NEW h \in Caller, Register(h) PROVE FALSE
    BY <1>1, <1>4, <2>2, CallerGoes DEF Register
  <2>3. ASSUME NEW h \in Caller,
               Start(h) \/ Shutdown(h) \/ Call(h) \/ WaitTimesOut(h)
        PROVE  FALSE
    BY <1>1, <2>1, <2>2, <2>3 DEF Start, Shutdown, Call, WaitTimesOut, Spawn,
       CloseStopCh, Panic, WaitEnds, Waited, CloseDB
  <2>4. UNCHANGED callPc => FALSE
    BY <1>4
  <2>5. CASE \/ Drain \/ Deregister \/ Done \/ HeartbeatExit
             \/ TenSeconds \/ Late \/ Heartbeat
    BY <2>4, <2>5 DEF Drain, Deregister, Done, HeartbeatExit, TenSeconds, Late,
       Heartbeat, process
  <2>6. CASE CleanupStaleWorkers \/ CancelCtx \/ Crash
    BY <1>1, <2>4, <2>6 DEF CleanupStaleWorkers, CancelCtx, Crash, process
  <2>7. CASE UNCHANGED vars
    BY <2>4, <2>7 DEF vars, process
  <2> QED BY <2>3, <2>5, <2>6, <2>7 DEF Next
<1> QED BY <1>2, <1>3, <1>4

LEMMA BeatKept ==
  ASSUME LifeInv, [Next]_vars
  PROVE  BeatOK'
<1> SUFFICES ASSUME pipe' = "running", Healthy', ~stopCh'
             PROVE  /\ \/ row'.status = "active"
                       \/ row'.status = "stopped" /\ ~OnTime' /\ Cleaned'
                    /\ \/ beat' = "waiting" /\ row'.age = 0
                       \/ beat' = "due" /\ (OnTime' => row'.age <= 1)
  BY DEF BeatOK
<1>1. /\ TypeOK /\ BudgetOK /\ StartOnce /\ SpawnOK /\ BeatOK
      /\ Healthy /\ ~Die /\ ~Fails /\ ~stopCh
      /\ (OnTime' => OnTime) /\ (Cleaned => Cleaned')
  BY HealthyBefore, LeftKept DEF LifeInv
<1>2. ASSUME NEW g \in Caller, Spawn(g)
      PROVE  row'.status = "active" /\ row'.age = 0 /\ beat' = "waiting"
  BY <1>1, <1>2 DEF Spawn, At, SpawnOK
<1>3. CASE \A g \in Caller : ~Spawn(g)
  <2>1. pipe = "running" /\ (beat' = beat \/ TenSeconds \/ Heartbeat)
    <3>1. ASSUME NEW g \in Caller,
                 Start(g) \/ Shutdown(g) \/ Call(g) \/ WaitTimesOut(g)
          PROVE  pipe' = pipe /\ beat' = beat
      BY <1>1, <1>3, <3>1 DEF Start, Shutdown, Call, WaitTimesOut, Register, CloseStopCh,
         Panic, WaitEnds, Waited, CloseDB
    <3>2. CASE Drain \/ Deregister \/ Done \/ TenSeconds \/ Late \/ Heartbeat
      BY <3>2 DEF Drain, Deregister, Done, TenSeconds, Late, Heartbeat, process
    <3>3. ~HeartbeatExit
      BY <1>1 DEF HeartbeatExit, Healthy
    <3>4. CASE CleanupStaleWorkers \/ CancelCtx \/ Crash
      BY <1>1, <3>4 DEF CleanupStaleWorkers, CancelCtx, Crash, process
    <3>5. CASE UNCHANGED vars
      BY <3>5 DEF vars, process
    <3> QED BY <3>1, <3>2, <3>3, <3>4, <3>5 DEF Next
  <2>2. /\ row.status = "active" \/ (row.status = "stopped" /\ ~OnTime /\ Cleaned)
        /\ \/ beat = "waiting" /\ row.age = 0
           \/ beat = "due" /\ (OnTime => row.age <= 1)
        /\ row.age \in 0..Stale
    BY <1>1, <2>1, RowEffect DEF BeatOK
  <2>3. \A g \in Caller : ~Register(g)
    BY <1>1, <2>1 DEF Register, At, StartOnce, Starting
  <2>4. CASE TenSeconds
    <3>1. beat = "waiting" /\ beat' = "due"
      BY <2>2, <2>4 DEF TenSeconds
    <3>2. Older(row.age) = 1 /\ Older(row.age) \in 0..Stale
      BY <2>2, <3>1 DEF Older, Stale
    <3>3. row'.status = row.status /\ row'.age = 1
      BY <1>1, <2>4, <3>2, RowEffect DEF TenSeconds
    <3> QED BY <1>1, <2>2, <3>1, <3>3
  <2>5. CASE Late
    <3>1. beat' = "due"
      BY <2>5 DEF Late, process
    <3>2. ~OnTime'
      BY <1>1, <2>5, LateSpent DEF Late
    <3>3. row'.status = row.status
      <4>1. Older(row.age) \in 0..Stale
        BY <2>2 DEF Older, Stale
      <4> QED BY <1>1, <2>5, <4>1, RowEffect DEF Late
    <3> QED BY <1>1, <2>2, <3>1, <3>2, <3>3
  <2>6. CASE Heartbeat
    <3>1. row' = [row EXCEPT !.age = 0] /\ beat' = "waiting"
      BY <1>1, <2>6 DEF Heartbeat, Healthy
    <3>2. row'.age = 0 /\ row'.status = row.status
      BY <1>1, <3>1, RowEffect DEF Stale
    <3> QED BY <1>1, <2>2, <3>1, <3>2
  <2>7. CASE CleanupStaleWorkers
    <3>1. Cleaned' /\ beat' = beat
      BY <1>1, <2>7, CleanupSpent DEF CleanupStaleWorkers, process
    <3>2. CASE row.status = "active" /\ row.age >= Threshold
      <4>1. beat = "due" /\ ~OnTime
        <5>1. ~(row.age <= 1) /\ row.age # 0
          BY <2>2, <3>2, LifecycleAssumption DEF Stale
        <5> QED BY <2>2, <5>1
      <4>2. row'.status = "stopped"
        BY <1>1, <2>7, <3>2, RowEffect DEF CleanupStaleWorkers
      <4> QED BY <1>1, <3>1, <4>1, <4>2
    <3>3. CASE ~(row.status = "active" /\ row.age >= Threshold)
      <4>1. row' = [row EXCEPT !.status = row.status]
        BY <2>7, <3>3 DEF CleanupStaleWorkers
      <4>2. row'.status = row.status /\ row'.age = row.age
        BY <1>1, <4>1, RowEffect
      <4> QED BY <1>1, <2>2, <3>1, <4>2
    <3> QED BY <3>2, <3>3
  <2>8. CASE ~TenSeconds /\ ~Late /\ ~Heartbeat /\ ~CleanupStaleWorkers
    <3>1. row' = row
      BY <2>1, <2>3, <2>8, RowMoves
    <3> QED BY <1>1, <2>1, <2>2, <2>8, <3>1
  <2> QED BY <2>4, <2>5, <2>6, <2>7, <2>8
<1> QED BY <1>2, <1>3

LEMMA LifeInit == Init => LifeInv
<1> SUFFICES ASSUME Init PROVE LifeInv
  OBVIOUS
<1>1. TypeOK
  <2>1. [status |-> "none", age |-> Stale] \in Row
    BY DEF Row, Stale
  <2> QED BY <2>1, LifecycleAssumption DEF Init, TypeOK
<1>2. BudgetOK
  BY LifecycleAssumption DEF Init, BudgetOK
<1> QED BY <1>1, <1>2 DEF Init, LifeInv, StartOnce, Starting, WaitedFor, Deregistered,
        SpawnOK, BeatOK

LEMMA LifeAlways == Spec => []LifeInv
<1>1. LifeInv /\ [Next]_vars => LifeInv'
  <2> SUFFICES ASSUME LifeInv, [Next]_vars PROVE LifeInv'
    OBVIOUS
  <2>1. TypeOK' /\ BudgetOK'
    BY TypeKept, LeftKept DEF LifeInv
  <2> QED BY <2>1, StartKept, WaitedKept, DeregisteredKept, SpawnKept, BeatKept DEF LifeInv
<1> QED BY <1>1, LifeInit, PTL DEF Spec

-----------------------------------------------------------------------------
(* The state of ClientLifecycle has its types.                             *)
THEOREM LifecycleTypes == Spec => []TypeOK
BY LifeAlways, PTL DEF LifeInv

(* However many goroutines call Start, and whatever stops meanwhile, one   *)
(* pipeline is made, or being made.                                        *)
THEOREM PipelineIsMadeOnce == Spec => []OnePipeline
<1>1. LifeInv => OnePipeline
  <2> SUFFICES ASSUME LifeInv PROVE OnePipeline
    OBVIOUS
  <2> DEFINE S == {g \in Caller : callPc[g] \in {"register", "spawn"}}
  <2>1. \A g, h \in S : g = h
    BY DEF LifeInv, StartOnce, Starting
  <2>2. S # {} => pipe = "none"
    BY DEF LifeInv, StartOnce, Starting
  <2>3. CASE S = {}
    BY <2>3, FS_EmptySet DEF OnePipeline
  <2>4. CASE S # {}
    <3>1. PICK g : S = {g}
      BY <2>1, <2>4
    <3>2. Cardinality(S) = 1
      BY <3>1, FS_Singleton
    <3> QED BY <2>2, <2>4, <3>2 DEF OnePipeline
  <2> QED BY <2>3, <2>4
<1> QED BY <1>1, LifeAlways, PTL

(* After c.done the row of the client is not active, unless a statement    *)
(* failed or a Close that had not waited for c.done closed the pool.       *)
THEOREM DoneMeansDeregistered == Spec => []DoneIsDeregistered
<1>1. LifeInv => DoneIsDeregistered
  <2> SUFFICES ASSUME LifeInv, pipe = "done", row.status = "active",
                      ~(pool = "closed" /\ unwaited)
               PROVE  left["dbError"] < Budget["dbError"]
    BY DEF DoneIsDeregistered
  <2>1. "dbError" \in Event
    BY DEF Event
  <2>2. left["dbError"] \in Nat /\ Budget["dbError"] \in Nat
    BY <2>1, LifecycleAssumption DEF LifeInv, TypeOK
  <2>3. left["dbError"] <= Budget["dbError"] /\ left["dbError"] # Budget["dbError"]
    BY <2>1 DEF LifeInv, Deregistered, BudgetOK, Spared
  <2> QED BY <2>2, <2>3
<1> QED BY <1>1, LifeAlways, PTL

(* A client that processes jobs is listed, and CleanupStaleWorkers takes   *)
(* it for dead under no threshold from two periods of the heartbeat up;    *)
(* only a heartbeat that was late by a whole period makes an exception.    *)
THEOREM WorkersAreListed == Spec => []WorkerIsListed
<1>1. LifeInv => WorkerIsListed
  <2> SUFFICES ASSUME LifeInv, pipe = "running", pool = "open", ~stopCh, ~ctxDone,
                      left["dbError"] = Budget["dbError"], ~Listed
               PROVE  /\ left["late"] < Budget["late"]
                      /\ \/ beat = "due"
                         \/ row.status = "stopped" /\ left["cleanup"] < Budget["cleanup"]
    BY DEF WorkerIsListed
  <2>1. /\ row.status = "active" \/ (row.status = "stopped" /\ ~OnTime /\ Cleaned)
        /\ \/ beat = "waiting" /\ row.age = 0
           \/ beat = "due" /\ (OnTime => row.age <= 1)
        /\ row.age \in 0..Stale
    BY RowEffect DEF LifeInv, BeatOK, Healthy, Spared
  <2>2. row.status # "active" \/ ~(row.age < 3)
    BY DEF Listed, Stale
  <2>3. ~OnTime
    BY <2>1, <2>2 DEF Stale
  <2>4. /\ left["late"] \in Nat /\ Budget["late"] \in Nat
        /\ left["late"] <= Budget["late"]
    BY LifecycleAssumption DEF LifeInv, TypeOK, BudgetOK, Event
  <2>5. left["late"] < Budget["late"]
    BY <2>3, <2>4 DEF OnTime
  <2>6. beat = "due" \/ (row.status = "stopped" /\ Cleaned)
    BY <2>1, <2>2 DEF Stale
  <2> QED BY <2>5, <2>6 DEF Cleaned
<1> QED BY <1>1, LifeAlways, PTL
=============================================================================
