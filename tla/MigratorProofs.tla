--------------------------- MODULE MigratorProofs ---------------------------
(***************************************************************************)
(* What the migrations of any number of processes leave in the database,   *)
(* for any number of versions, connections and failures.                   *)
(*                                                                         *)
(* The advisory lock is not what keeps the schema right: it is lost with a *)
(* connection.  The schema rests on the row that each migration's own      *)
(* transaction adds to rivo_migrations, the lock only on the events of the *)
(* environment.  So the two halves of the invariant are proved apart.      *)
(***************************************************************************)
EXTENDS Migrator, TLAPS

-----------------------------------------------------------------------------
(* The inductive invariant.                                                *)

(* No event that can part a migrator from its lock has happened.           *)
Quiet == \A e \in {"check", "lose", "cancel", "dbError"} : left[e] = Budget[e]

LeftOK == \A e \in Event : left[e] <= Budget[e]

(* Migrate knows a prefix of what is applied.                              *)
SeenOK(c) == \E n \in 0..Len(schema) : seen[c] = 1..n

(* An open transaction is at a version that is not applied yet, and no two *)
(* are at the same one.                                                    *)
TxNew(c) == InTx(c) => Pending(c) \cap recorded = {}
TxApart == \A c, d \in Client :
             c # d /\ InTx(c) /\ InTx(d) => Pending(c) \cap Pending(d) = {}

CompleteOK(c) ==
  \/ phase[c] = "unlock" /\ ~failing[c]
  \/ AutoMigrate[c] /\ phase[c] \in {"open", "closed"}
  => recorded = Version

LockOK == left["lose"] = Budget["lose"] =>
  \A c \in Client : phase[c] \in Migrating \ {"unlock"} => lock \in Sessions(c)

SpentOK(c) ==
  /\ cancelled[c] => left["cancel"] < Budget["cancel"]
  /\ \A k \in Conn : conns[c][k] = "dead" => left["lose"] < Budget["lose"]
  /\ phase[c] = "none" => conns[c] = AllClosed

(* Then a client uses one connection only, the one that has the lock.      *)
QuietOK(c) == Quiet /\ phase[c] \in Migrating \cup {"lock"} /\ ~failing[c] =>
  \E k \in Conn :
    /\ conns[c][k] = IF phase[c] = "commit" THEN "tx" ELSE "idle"
    /\ \A l \in Conn \ {k} : conns[c][l] = "closed"
    /\ phase[c] # "lock" => lock = <<c, k>>

SchemaInv == /\ AppliedInOrder /\ TxApart
             /\ \A c \in Client : SeenOK(c) /\ TxNew(c) /\ CompleteOK(c)
LockInv == /\ LeftOK /\ LockOK /\ LeakExplained
           /\ \A c \in Client : SpentOK(c) /\ QuietOK(c)
MigInv == TypeOK /\ SchemaInv /\ LockInv

-----------------------------------------------------------------------------
(* The effects of the operators the actions are built from.                *)
StepOf(c) == NewClient(c) \/ Close(c) \/ Crash(c)
               \/ CancelNew(c) \/ HealthCheck(c) \/ LoseConn(c)

Alone(c) == \A d \in Client \ {c} :
  UNCHANGED <<phase[d], failing[d], cancelled[d], conns[d], seen[d]>>

ConnState == {"closed", "idle", "checked", "tx", "dead"}

LEMMA BackEffect ==
  ASSUME TypeOK, NEW c \in Client, NEW k \in Conn, NEW state \in ConnState,
         Back(c, k, state)
  PROVE  /\ conns' \in [Client -> [Conn -> ConnState]]
         /\ conns'[c][k] = state
         /\ \A l \in Conn \ {k} : conns'[c][l] = conns[c][l]
         /\ \A d \in Client \ {c} : conns'[d] = conns[d]
BY DEF TypeOK, Back, ConnState

LEMMA LockAfterType ==
  ASSUME TypeOK, NEW S, lock' = LockAfter(S)
  PROVE  /\ lock' \in (Client \X Conn) \cup {NoSession}
         /\ lock' = lock \/ (lock \in S /\ lock' = NoSession)
         /\ lock' \in S => lock' = NoSession
BY DEF TypeOK, LockAfter

LEMMA ClosePoolEffect ==
  ASSUME TypeOK, NEW c \in Client, ClosePool(c)
  PROVE  /\ conns' \in [Client -> [Conn -> ConnState]]
         /\ conns'[c] = AllClosed
         /\ \A d \in Client \ {c} : conns'[d] = conns[d]
         /\ lock' \in (Client \X Conn) \cup {NoSession}
         /\ lock' = IF lock \in Sessions(c) THEN NoSession ELSE lock
<1>1. AllClosed \in [Conn -> ConnState]
  BY DEF AllClosed, ConnState
<1> QED BY <1>1, LockAfterType DEF ClosePool, TypeOK, ConnState, LockAfter

LEMMA GotoEffect ==
  ASSUME TypeOK, NEW c \in Client, NEW p \in Phase, Goto(c, p)
  PROVE  /\ phase' \in [Client -> Phase] /\ phase'[c] = p
         /\ \A d \in Client \ {c} : phase'[d] = phase[d]
BY DEF TypeOK, Goto

LEMMA ReturnedEffect ==
  ASSUME TypeOK, NEW c \in Client, Returned(c)
  PROVE  /\ failing' \in [Client -> BOOLEAN] /\ failing'[c] = FALSE
         /\ cancelled' \in [Client -> BOOLEAN] /\ cancelled'[c] = FALSE
         /\ seen' \in [Client -> SUBSET Version] /\ seen'[c] = {}
         /\ \A d \in Client \ {c} : UNCHANGED <<failing[d], cancelled[d], seen[d]>>
BY DEF TypeOK, Returned

LEMMA SpendEffect ==
  ASSUME TypeOK, LeftOK, NEW e \in Event, Spend(e)
  PROVE  /\ left' \in [Event -> Nat] /\ LeftOK'
         /\ left'[e] < Budget[e]
         /\ \A f \in Event : left'[f] <= left[f]
<1>1. /\ left[e] \in Nat /\ Budget[e] \in Nat /\ left[e] > 0
      /\ left' = [left EXCEPT ![e] = left[e] - 1]
  BY MigratorAssumption DEF TypeOK, Spend
<1>2. left'[e] = left[e] - 1 /\ left[e] - 1 \in Nat
  BY <1>1 DEF TypeOK
<1>3. \A f \in Event : left'[f] = IF f = e THEN left[e] - 1 ELSE left[f]
  BY <1>1 DEF TypeOK
<1>4. \A f \in Event : left[f] \in Nat /\ Budget[f] \in Nat /\ left[f] <= Budget[f]
  BY MigratorAssumption DEF TypeOK, LeftOK
<1> QED BY <1>1, <1>2, <1>3, <1>4 DEF TypeOK, LeftOK

(* The statement that fails may have closed its connection.                *)
LEMMA StatementFailsEffect ==
  ASSUME TypeOK, LeftOK, NEW c \in Client, SpentOK(c), StatementFails(c)
  PROVE  /\ conns' \in [Client -> [Conn -> ConnState]]
         /\ \A k \in Conn : conns'[c][k] \in {conns[c][k], "closed"}
         /\ \A d \in Client \ {c} : conns'[d] = conns[d]
         /\ lock' \in (Client \X Conn) \cup {NoSession}
         /\ lock' = lock \/ (lock \in Sessions(c) /\ lock' = NoSession)
         /\ left' \in [Event -> Nat] /\ LeftOK'
         /\ \A f \in Event : left'[f] <= left[f]
         /\ ~Quiet'
<1> DEFINE Goal == /\ conns' \in [Client -> [Conn -> ConnState]]
                   /\ \A k \in Conn : conns'[c][k] \in {conns[c][k], "closed"}
                   /\ \A d \in Client \ {c} : conns'[d] = conns[d]
                   /\ lock' \in (Client \X Conn) \cup {NoSession}
                   /\ lock' = lock \/ (lock \in Sessions(c) /\ lock' = NoSession)
                   /\ left' \in [Event -> Nat] /\ LeftOK'
                   /\ \A f \in Event : left'[f] <= left[f]
                   /\ ~Quiet'
<1>1. \A f \in Event : left[f] \in Nat /\ Budget[f] \in Nat
  BY MigratorAssumption DEF TypeOK
<1>2. ASSUME UNCHANGED left, left["cancel"] < Budget["cancel"] \/ left["lose"] < Budget["lose"]
      PROVE  /\ left' \in [Event -> Nat] /\ LeftOK' /\ ~Quiet'
             /\ \A f \in Event : left'[f] <= left[f]
  BY <1>1, <1>2 DEF TypeOK, LeftOK, Quiet, Event
<1>3. CASE cancelled[c] /\ UNCHANGED <<conns, lock, left>>
  BY <1>2, <1>3 DEF SpentOK, TypeOK, ConnState
<1>4. ASSUME NEW k \in Conn, cancelled[c], Back(c, k, "closed"),
             lock' = LockAfter({<<c, k>>}), UNCHANGED left
      PROVE  Goal
  <2>1. left["cancel"] < Budget["cancel"]
    BY <1>4 DEF SpentOK
  <2>2. <<c, k>> \in Sessions(c)
    BY DEF Sessions
  <2>3. /\ lock' \in (Client \X Conn) \cup {NoSession}
        /\ lock' = lock \/ (lock \in {<<c, k>>} /\ lock' = NoSession)
    BY <1>4, LockAfterType
  <2>4. /\ conns' \in [Client -> [Conn -> ConnState]]
        /\ conns'[c][k] = "closed"
        /\ \A l \in Conn \ {k} : conns'[c][l] = conns[c][l]
        /\ \A d \in Client \ {c} : conns'[d] = conns[d]
    BY <1>4, BackEffect DEF ConnState
  <2> QED BY <1>2, <1>4, <2>1, <2>2, <2>3, <2>4
<1>5. ASSUME NEW k \in Conn, conns[c][k] = "dead", Back(c, k, "closed"),
             UNCHANGED <<lock, left>>
      PROVE  Goal
  BY <1>2, <1>5, BackEffect DEF SpentOK, TypeOK, ConnState
<1>6. CASE Spend("dbError") /\ UNCHANGED <<conns, lock>>
  <2>1. left'["dbError"] < Budget["dbError"] /\ left'["dbError"] \in Nat
    BY <1>6, SpendEffect DEF Event
  <2>2. ~Quiet'
    BY <1>1, <2>1 DEF Quiet, Event
  <2> QED BY <1>6, <2>2, SpendEffect DEF TypeOK, Event, ConnState
<1> QED BY <1>3, <1>4, <1>5, <1>6 DEF StatementFails

-----------------------------------------------------------------------------
(* A step of NewClient moves one client, takes or drops no lock of others, *)
(* and forgets no migration.                                               *)
LockChange(c) == \/ lock' = lock
                 \/ lock \in Sessions(c) /\ lock' = NoSession
                 \/ lock = NoSession /\ lock' \in Sessions(c)

LEMMA CommittedType ==
  ASSUME TypeOK, NEW v \in Version,
         Committed(v) \/ UNCHANGED <<schema, recorded>>
  PROVE  schema' \in Seq(Version) /\ recorded' \in SUBSET Version
<1>1. schema \in Seq(Version) /\ recorded \in SUBSET Version
  BY DEF TypeOK
<1>2. Append(schema, v) \in Seq(Version)
  BY <1>1
<1> QED BY <1>1, <1>2 DEF Committed

LEMMA StepEffect ==
  ASSUME TypeOK, LeftOK, NEW c \in Client, SpentOK(c), StepOf(c)
  PROVE  /\ TypeOK' /\ LeftOK' /\ Alone(c) /\ LockChange(c)
         /\ \A f \in Event : left'[f] <= left[f]
<1> DEFINE
  Pool == /\ conns' \in [Client -> [Conn -> ConnState]]
          /\ \A d \in Client \ {c} : conns'[d] = conns[d]
  Ctl == /\ phase' \in [Client -> Phase]
         /\ \A d \in Client \ {c} : phase'[d] = phase[d]
  Vars == /\ failing' \in [Client -> BOOLEAN] /\ cancelled' \in [Client -> BOOLEAN]
          /\ seen' \in [Client -> SUBSET Version]
          /\ \A d \in Client \ {c} : UNCHANGED <<failing[d], cancelled[d], seen[d]>>
  Adv == lock' \in (Client \X Conn) \cup {NoSession} /\ LockChange(c)
  Tab == schema' \in Seq(Version) /\ recorded' \in SUBSET Version
  Env == /\ left' \in [Event -> Nat] /\ LeftOK'
         /\ \A f \in Event : left'[f] <= left[f]
  Goal == /\ TypeOK' /\ LeftOK' /\ Alone(c) /\ LockChange(c)
          /\ \A f \in Event : left'[f] <= left[f]
<1>1. Pool /\ Ctl /\ Vars /\ Adv /\ Tab /\ Env => Goal
  BY DEF TypeOK, Alone, ConnState
<1>2. /\ UNCHANGED conns => Pool
      /\ UNCHANGED phase => Ctl
      /\ UNCHANGED <<failing, cancelled, seen>> => Vars
      /\ UNCHANGED lock => Adv
      /\ UNCHANGED <<schema, recorded>> => Tab
  BY DEF TypeOK, ConnState, LockChange
<1>3. UNCHANGED left => Env
  BY MigratorAssumption DEF TypeOK, LeftOK
<1>4. ASSUME NEW k \in Conn, NEW state \in ConnState, Back(c, k, state) PROVE Pool
  BY <1>4, BackEffect
<1>5. ASSUME NEW p \in Phase, Goto(c, p) PROVE Ctl
  BY <1>5, GotoEffect
<1>6. Returned(c) => Vars
  BY ReturnedEffect
<1>7. ClosePool(c) => Pool /\ Adv
  BY ClosePoolEffect DEF LockChange
<1>8. ASSUME NEW k \in Conn, lock' = LockAfter({<<c, k>>}) PROVE Adv
  <2>1. <<c, k>> \in Sessions(c)
    BY DEF Sessions
  <2> QED BY <1>8, <2>1, LockAfterType DEF LockChange
<1>9. ASSUME NEW e \in Event, Spend(e) PROVE Env
  BY <1>9, SpendEffect
<1>10. StatementFails(c) => Pool /\ Adv /\ Env
  BY StatementFailsEffect DEF LockChange
<1>11. UNCHANGED <<failing, cancelled>> /\ UNCHANGED seen => Vars
  BY <1>2
<1>12. ASSUME NEW f \in BOOLEAN, failing' = [failing EXCEPT ![c] = f],
              UNCHANGED <<cancelled, seen>>
       PROVE  Vars
  BY <1>12 DEF TypeOK
<1>13. ASSUME NEW S \in SUBSET Version, seen' = [seen EXCEPT ![c] = S],
              UNCHANGED <<failing, cancelled>>
       PROVE  Vars
  BY <1>13 DEF TypeOK
<1>14. ASSUME NEW v \in Version, Committed(v) \/ UNCHANGED <<schema, recorded>> PROVE Tab
  BY <1>14, CommittedType
<1>15. /\ {"idle", "closed", "checked", "tx", "dead"} \subseteq ConnState
       /\ {"lock", "open", "failed", "closed", "crashed", "table", "read", "apply",
           "commit", "unlock"} \subseteq Phase
       /\ Event = {"cancel", "check", "lose", "dbError", "crash"}
  BY DEF ConnState, Phase, Migrating, Event
<1> HIDE DEF Pool, Ctl, Vars, Adv, Tab, Env
<1>16. CASE Connect(c)
  BY <1>1, <1>2, <1>3, <1>4, <1>5, <1>15, <1>16 DEF Connect, database
<1>17. CASE TakeLock(c)
  <2>1. PICK k \in Conn :
          IF LockIsFree
          THEN /\ lock' = <<c, k>> /\ Back(c, k, "idle") /\ Goto(c, "table")
               /\ UNCHANGED <<failing, cancelled, seen>>
          ELSE ClosePool(c) /\ Goto(c, "failed") /\ Returned(c)
    BY <1>17 DEF TakeLock
  <2>2. UNCHANGED <<schema, recorded>> /\ UNCHANGED left
    BY <1>17 DEF TakeLock
  <2>3. CASE LockIsFree
    <3>1. Adv
      BY <2>1, <2>3 DEF Adv, LockChange, LockIsFree, Sessions
    <3> QED BY <1>1, <1>2, <1>3, <1>4, <1>5, <1>15, <2>1, <2>2, <2>3, <3>1
  <2>4. CASE ~LockIsFree
    BY <1>1, <1>2, <1>3, <1>5, <1>6, <1>7, <1>15, <2>1, <2>2, <2>4
  <2> QED BY <2>3, <2>4
<1>18. CASE LockFails(c)
  BY <1>1, <1>2, <1>3, <1>5, <1>6, <1>7, <1>9, <1>15, <1>18 DEF LockFails
<1>19. CASE CreateTable(c)
  BY <1>1, <1>2, <1>3, <1>4, <1>5, <1>15, <1>19 DEF CreateTable, database
<1>20. CASE ReadApplied(c)
  <2>1. recorded \in SUBSET Version
    BY DEF TypeOK
  <2> QED BY <1>1, <1>2, <1>3, <1>4, <1>5, <1>13, <1>15, <1>20, <2>1
          DEF ReadApplied, database
<1>21. CASE AllApplied(c)
  BY <1>1, <1>2, <1>3, <1>5, <1>15, <1>21 DEF AllApplied, database
<1>22. CASE MigrateFails(c)
  BY <1>1, <1>2, <1>5, <1>10, <1>12, <1>15, <1>22 DEF MigrateFails
<1>23. CASE Unlock(c)
  BY <1>1, <1>2, <1>3, <1>4, <1>5, <1>6, <1>7, <1>8, <1>10, <1>15, <1>23 DEF Unlock
<1>24. ASSUME NEW v \in Version, ApplyMigration(c, v) PROVE Goal
  BY <1>1, <1>2, <1>3, <1>4, <1>5, <1>12, <1>15, <1>24 DEF ApplyMigration, database
<1>25. ASSUME NEW v \in Version, CommitMigration(c, v) PROVE Goal
  <2>1. seen[c] \cup {v} \in SUBSET Version
    BY DEF TypeOK
  <2>2. seen' = [seen EXCEPT ![c] = seen[c] \cup {v}]
    BY <1>25 DEF CommitMigration
  <2> QED BY <1>1, <1>2, <1>3, <1>4, <1>5, <1>13, <1>14, <1>15, <1>25, <2>1, <2>2
          DEF CommitMigration
<1>26. ASSUME NEW v \in Version, CommitFails(c, v) PROVE Goal
  BY <1>1, <1>2, <1>3, <1>4, <1>5, <1>8, <1>9, <1>12, <1>14, <1>15, <1>26 DEF CommitFails
<1>27. CASE Close(c)
  BY <1>1, <1>2, <1>3, <1>5, <1>7, <1>15, <1>27 DEF Close
<1>28. CASE Crash(c)
  BY <1>1, <1>2, <1>5, <1>6, <1>7, <1>9, <1>15, <1>28 DEF Crash
<1>29. CASE CancelNew(c)
  <2>1. Vars
    BY <1>29 DEF CancelNew, Vars, TypeOK
  <2> QED BY <1>1, <1>2, <1>9, <1>15, <1>29, <2>1 DEF CancelNew, database
<1>30. CASE HealthCheck(c)
  BY <1>1, <1>2, <1>3, <1>4, <1>9, <1>15, <1>30 DEF HealthCheck, database
<1>31. CASE LoseConn(c)
  BY <1>1, <1>2, <1>4, <1>8, <1>9, <1>15, <1>31 DEF LoseConn
<1> QED BY <1>16, <1>17, <1>18, <1>19, <1>20, <1>21, <1>22, <1>23, <1>24, <1>25, <1>26,
        <1>27, <1>28, <1>29, <1>30, <1>31 DEF StepOf, NewClient

-----------------------------------------------------------------------------
(* The schema.  A step leaves it alone, or opens a transaction at a        *)
(* version that nobody else is at, or commits the one it has open.         *)
Complete(c) == \/ phase[c] = "unlock" /\ ~failing[c]
               \/ AutoMigrate[c] /\ phase[c] \in {"open", "closed"}

Still(c) == /\ UNCHANGED <<schema, recorded>>
            /\ seen'[c] \in {seen[c], {}, recorded}
            /\ InTx(c)' => InTx(c) /\ seen'[c] = seen[c]
            /\ Complete(c)' => Complete(c) \/ Pending(c) = {}

Opens(c, v) == /\ UNCHANGED <<schema, recorded>> /\ seen'[c] = seen[c]
               /\ v \in Pending(c) /\ v \notin recorded
               /\ \A d \in Client : InTx(d) => v \notin Pending(d)
               /\ ~Complete(c)'

Commits(c, v) == /\ InTx(c) /\ v \in Pending(c) /\ Committed(v)
                 /\ seen'[c] \in {seen[c], seen[c] \cup {v}}
                 /\ ~InTx(c)' /\ ~Complete(c)'

LEMMA SchemaSteps ==
  ASSUME TypeOK, LeftOK, NEW c \in Client, SpentOK(c), StepOf(c)
  PROVE  Still(c) \/ \E v \in Version : Opens(c, v) \/ Commits(c, v)
<1>1. ASSUME NEW p \in Phase \ {"commit"}, Goto(c, p) PROVE ~InTx(c)' /\ phase'[c] = p
  BY <1>1, GotoEffect DEF InTx
<1>2. Phase = {"none", "lock", "open", "failed", "closed", "crashed",
               "table", "read", "apply", "commit", "unlock"}
  BY DEF Phase, Migrating
<1>3. CASE Connect(c)
  <2>1. phase'[c] = IF AutoMigrate[c] THEN "lock" ELSE "open"
    BY <1>1, <1>2, <1>3 DEF Connect
  <2>2. ~InTx(c)'
    BY <2>1 DEF InTx
  <2> QED BY <1>3, <2>1, <2>2 DEF Connect, database, Still, Complete
<1>4. CASE TakeLock(c)
  <2>1. (Goto(c, "table") /\ UNCHANGED seen) \/ (Goto(c, "failed") /\ Returned(c))
    BY <1>4 DEF TakeLock
  <2>2. seen'[c] \in {seen[c], {}}
    BY <2>1, ReturnedEffect
  <2> QED BY <1>1, <1>2, <1>4, <2>1, <2>2 DEF TakeLock, Still, Complete
<1>5. CASE LockFails(c)
  <2>1. seen'[c] = {} /\ UNCHANGED <<schema, recorded>> /\ Goto(c, "failed")
    BY <1>5, ReturnedEffect DEF LockFails
  <2> QED BY <1>1, <1>2, <2>1 DEF Still, Complete
<1>6. CASE CreateTable(c)
  BY <1>1, <1>2, <1>6 DEF CreateTable, database, Still, Complete
<1>7. CASE ReadApplied(c)
  <2>1. seen'[c] = recorded
    BY <1>7 DEF ReadApplied, TypeOK
  <2> QED BY <1>1, <1>2, <1>7, <2>1 DEF ReadApplied, database, Still, Complete
<1>8. CASE AllApplied(c)
  BY <1>1, <1>2, <1>8 DEF AllApplied, database, Still, Complete
<1>9. CASE MigrateFails(c)
  <2>1. failing'[c] = TRUE /\ Goto(c, "unlock")
    BY <1>9 DEF MigrateFails, TypeOK
  <2> QED BY <1>1, <1>2, <1>9, <2>1 DEF MigrateFails, Still, Complete
<1>10. CASE Unlock(c)
  <2>1. seen'[c] = {} /\ UNCHANGED <<schema, recorded>> /\ phase[c] = "unlock"
    BY <1>10, ReturnedEffect DEF Unlock
  <2>2. CASE failing[c]
    BY <1>1, <1>2, <1>10, <2>1, <2>2 DEF Unlock, Still, Complete
  <2>3. CASE ~failing[c]
    BY <1>1, <1>2, <1>10, <2>1, <2>3 DEF Unlock, Still, Complete
  <2> QED BY <2>2, <2>3
<1>11. ASSUME NEW v \in Version, ApplyMigration(c, v) PROVE Still(c) \/ Opens(c, v)
  <2>1. CASE Collides(v)
    <3>1. failing'[c] = TRUE /\ Goto(c, "unlock")
      BY <1>11, <2>1 DEF ApplyMigration, TypeOK
    <3> QED BY <1>1, <1>2, <1>11, <2>1, <3>1 DEF ApplyMigration, database, Still, Complete
  <2>2. CASE ~Collides(v)
    <3>1. phase'[c] = "commit"
      BY <1>2, <1>11, <2>2, GotoEffect DEF ApplyMigration
    <3> QED BY <1>11, <2>2, <3>1 DEF ApplyMigration, Collides, database, Opens, Complete
  <2> QED BY <2>1, <2>2
<1>12. ASSUME NEW v \in Version, CommitMigration(c, v) PROVE Commits(c, v)
  <2>1. seen'[c] = seen[c] \cup {v}
    BY <1>12 DEF CommitMigration, TypeOK
  <2> QED BY <1>1, <1>2, <1>12, <2>1 DEF CommitMigration, Commits, Complete
<1>13. ASSUME NEW v \in Version, CommitFails(c, v) PROVE Still(c) \/ Commits(c, v)
  <2>1. failing'[c] = TRUE /\ Goto(c, "unlock")
    BY <1>13 DEF CommitFails, TypeOK
  <2> QED BY <1>1, <1>2, <1>13, <2>1 DEF CommitFails, Still, Commits, Complete
<1>14. CASE Close(c)
  BY <1>1, <1>2, <1>14 DEF Close, Still, Complete
<1>15. CASE Crash(c)
  <2>1. seen'[c] = {} /\ UNCHANGED <<schema, recorded>> /\ Goto(c, "crashed")
    BY <1>15, ReturnedEffect DEF Crash
  <2> QED BY <1>1, <1>2, <2>1 DEF Still, Complete
<1>16. CASE CancelNew(c)
  BY <1>16 DEF CancelNew, database, Still, Complete, InTx
<1>17. CASE HealthCheck(c) \/ LoseConn(c)
  <2>1. UNCHANGED <<schema, recorded, seen, phase, failing>>
    BY <1>17 DEF HealthCheck, LoseConn, database
  <2>2. PICK k \in Conn : \E state \in {"checked", "idle", "dead"} : Back(c, k, state)
    BY <1>17 DEF HealthCheck, LoseConn
  <2>3. conns'[c][k] # "tx" /\ \A l \in Conn \ {k} : conns'[c][l] = conns[c][l]
    BY <2>2, BackEffect DEF ConnState
  <2> QED BY <2>1, <2>3 DEF Still, Complete, InTx
<1> QED BY <1>3, <1>4, <1>5, <1>6, <1>7, <1>8, <1>9, <1>10, <1>11, <1>12, <1>13, <1>14,
        <1>15, <1>16, <1>17 DEF StepOf, NewClient

LEMMA SchemaKept ==
  ASSUME MigInv, NEW c \in Client, StepOf(c)
  PROVE  SchemaInv'
<1>1. /\ TypeOK /\ AppliedInOrder /\ TxApart /\ schema \in Seq(Version)
      /\ LastVersion \in Nat /\ recorded \subseteq Version
      /\ \A d \in Client : SeenOK(d) /\ TxNew(d) /\ CompleteOK(d)
  BY MigratorAssumption DEF MigInv, SchemaInv, TypeOK
<1>2. Alone(c) /\ TypeOK'
  BY StepEffect DEF MigInv, LockInv
<1>3. \A d \in Client \ {c} : /\ InTx(d)' = InTx(d) /\ Complete(d)' = Complete(d)
                              /\ Pending(d)' = Pending(d) /\ seen'[d] = seen[d]
  BY <1>2 DEF Alone, InTx, Complete, Pending
<1>4. Len(schema) \in Nat /\ Len(schema) <= LastVersion
  BY <1>1 DEF AppliedInOrder, Version
<1>5. CASE Still(c)
  <2>1. AppliedInOrder' /\ \A d \in Client : SeenOK(d)'
    <3>1. SeenOK(c)'
      <4>1. {} = 1..0 /\ 0 \in 0..Len(schema) /\ Len(schema) \in 0..Len(schema)
        BY <1>4
      <4>2. recorded = 1..Len(schema)
        BY <1>1 DEF AppliedInOrder
      <4> QED BY <1>1, <1>5, <4>1, <4>2 DEF Still, SeenOK
    <3> QED BY <1>1, <1>3, <1>5, <3>1 DEF Still, AppliedInOrder, SeenOK
  <2>2. InTx(c)' => InTx(c) /\ Pending(c)' = Pending(c)
    BY <1>5 DEF Still, Pending
  <2>3. TxApart' /\ \A d \in Client : TxNew(d)'
    BY <1>1, <1>3, <1>5, <2>2 DEF Still, TxApart, TxNew
  <2>4. \A d \in Client : CompleteOK(d)'
    <3>1. Pending(c) = {} => recorded = Version
      <4> SUFFICES ASSUME Pending(c) = {} PROVE recorded = Version
        OBVIOUS
      <4>1. PICK n \in 0..Len(schema) : seen[c] = 1..n
        BY <1>1 DEF SeenOK
      <4>2. n + 1 \notin Version
        <5> SUFFICES ASSUME n + 1 \in Version PROVE n + 1 \in Pending(c)
          OBVIOUS
        <5> QED BY <1>4, <4>1 DEF Pending
      <4> QED BY <1>1, <1>4, <4>1, <4>2 DEF Version, AppliedInOrder
    <3> QED BY <1>1, <1>3, <1>5, <3>1 DEF Still, CompleteOK, Complete
  <2> QED BY <2>1, <2>3, <2>4 DEF SchemaInv
<1>6. ASSUME NEW v \in Version, Opens(c, v) PROVE SchemaInv'
  <2>1. Pending(c)' = Pending(c) /\ Pending(c) \subseteq {v}
    <3>1. Pending(c) \subseteq {v}
      BY <1>1, <1>6 DEF Opens, Pending, Version
    <3> QED BY <1>6, <3>1 DEF Opens, Pending
  <2>2. AppliedInOrder' /\ \A d \in Client : SeenOK(d)'
    BY <1>1, <1>3, <1>6 DEF Opens, AppliedInOrder, SeenOK
  <2>3. TxApart' /\ \A d \in Client : TxNew(d)'
    BY <1>1, <1>3, <1>6, <2>1 DEF Opens, TxApart, TxNew
  <2>4. \A d \in Client : CompleteOK(d)'
    BY <1>1, <1>3, <1>6 DEF Opens, CompleteOK, Complete
  <2> QED BY <2>2, <2>3, <2>4 DEF SchemaInv
<1>7. ASSUME NEW v \in Version, Commits(c, v) PROVE SchemaInv'
  <2>1. PICK n \in 0..Len(schema) : seen[c] = 1..n
    BY <1>1 DEF SeenOK
  <2>2. v \notin recorded /\ v \notin seen[c] /\ \A u \in 1..(v-1) : u \in seen[c]
    BY <1>1, <1>7 DEF Commits, TxNew, Pending
  <2>3. v = Len(schema) + 1 /\ n = Len(schema)
    <3>1. v \in Nat /\ v >= 1 /\ n \in Nat /\ n <= Len(schema)
      BY <1>1, <1>4 DEF Version
    <3>2. v > n /\ v > Len(schema)
      BY <1>1, <1>4, <2>1, <2>2, <3>1 DEF AppliedInOrder
    <3>3. v - 1 <= n
      <4>1. CASE v = 1
        BY <3>1, <4>1
      <4>2. CASE v > 1
        <5>1. v - 1 \in 1..(v-1)
          BY <3>1, <4>2
        <5> QED BY <2>1, <2>2, <3>1, <5>1
      <4> QED BY <3>1, <4>1, <4>2
    <3> QED BY <1>4, <3>1, <3>2, <3>3
  <2>4. schema' = Append(schema, v) /\ recorded' = recorded \cup {v}
    BY <1>7 DEF Commits, Committed
  <2>5. /\ Len(schema') = Len(schema) + 1 /\ DOMAIN schema' = 1..(Len(schema) + 1)
        /\ \A i \in 1..Len(schema) : schema'[i] = schema[i]
        /\ schema'[Len(schema) + 1] = v
    BY <1>1, <2>4
  <2>6. AppliedInOrder'
    BY <1>1, <1>4, <2>3, <2>4, <2>5 DEF AppliedInOrder
  <2>7. \A d \in Client : SeenOK(d)'
    <3>1. seen'[c] = 1..n \/ seen'[c] = 1..(n + 1)
      <4>1. 1..(n + 1) = (1..n) \cup {n + 1}
        BY <1>4, <2>3
      <4> QED BY <1>7, <2>1, <2>3, <4>1 DEF Commits
    <3>2. 0..Len(schema) \subseteq 0..Len(schema') /\ n + 1 \in 0..Len(schema')
      BY <1>4, <2>3, <2>5
    <3> QED BY <1>1, <1>3, <2>1, <3>1, <3>2 DEF SeenOK
  <2>8. TxApart' /\ \A d \in Client : TxNew(d)'
    <3>1. \A d \in Client \ {c} : InTx(d) => v \notin Pending(d)
      BY <1>1, <1>7 DEF Commits, TxApart
    <3> QED BY <1>1, <1>3, <1>7, <2>4, <3>1 DEF Commits, TxApart, TxNew
  <2>9. \A d \in Client : CompleteOK(d)'
    BY <1>1, <1>3, <1>7, <2>2 DEF Commits, CompleteOK, Complete
  <2> QED BY <2>6, <2>7, <2>8, <2>9 DEF SchemaInv
<1> QED BY <1>5, <1>6, <1>7, SchemaSteps DEF MigInv, LockInv

-----------------------------------------------------------------------------
(* The lock.  What a step of c must leave true of c.                       *)
Working == Migrating \ {"unlock"}

LockSays(c) ==
  /\ left["lose"] = Budget["lose"] /\ phase[c] \in Working => lock \in Sessions(c)
  /\ lock \in Sessions(c) => phase[c] \in Migrating \/ (phase[c] = "open" /\ ~Quiet)
  /\ SpentOK(c) /\ QuietOK(c)

LEMMA LockSaid ==
  ASSUME MigInv, NEW c \in Client
  PROVE  LockSays(c)
<1>1. lock \in Sessions(c) => lock # NoSession /\ lock[1] = c
  BY MigratorAssumption DEF Sessions
<1>2. \A f \in Event : left[f] \in Nat /\ Budget[f] \in Nat
  BY MigratorAssumption DEF MigInv, TypeOK
<1>3. (\E e \in {"check", "lose", "cancel", "dbError"} : left[e] < Budget[e]) => ~Quiet
  BY <1>2 DEF Quiet, Event
<1> QED BY <1>1, <1>3 DEF MigInv, LockInv, LockOK, LeakExplained, LockSays, Working

LEMMA SessionsApart ==
  ASSUME NEW c \in Client, NEW d \in Client, c # d
  PROVE  Sessions(c) \cap Sessions(d) = {} /\ NoSession \notin Sessions(c)
BY MigratorAssumption DEF Sessions

LEMMA QuietBefore ==
  ASSUME MigInv, NEW c \in Client, StepOf(c)
  PROVE  /\ Quiet' => Quiet
         /\ left'["lose"] = Budget["lose"] => left["lose"] = Budget["lose"]
         /\ \A f \in Event : left[f] < Budget[f] => left'[f] < Budget[f]
<1>1. \A f \in Event : /\ left[f] \in Nat /\ Budget[f] \in Nat /\ left'[f] \in Nat
                       /\ left'[f] <= left[f] /\ left[f] <= Budget[f]
  BY StepEffect, MigratorAssumption DEF MigInv, LockInv, LeftOK, TypeOK
<1>2. \A f \in Event : left'[f] = Budget[f] => left[f] = Budget[f]
  BY <1>1
<1>3. {"check", "lose", "cancel", "dbError"} \subseteq Event
  BY DEF Event
<1> QED BY <1>1, <1>2, <1>3 DEF Quiet

LEMMA Noise ==
  ASSUME TypeOK, LeftOK, NEW e \in {"check", "lose", "cancel", "dbError"}, Spend(e)
  PROVE  ~Quiet' /\ left'[e] < Budget[e]
<1>1. e \in Event
  BY DEF Event
<1>2. left'[e] < Budget[e] /\ left'[e] \in Nat /\ Budget[e] \in Nat
  BY <1>1, SpendEffect, MigratorAssumption
<1> QED BY <1>2 DEF Quiet

(* A pool is closed: nothing is left of the client.                        *)
LEMMA GoneKeeps ==
  ASSUME MigInv, NEW c \in Client, StepOf(c), ClosePool(c),
         NEW p \in {"failed", "closed", "crashed"}, Goto(c, p),
         cancelled'[c] => cancelled[c]
  PROVE  LockSays(c)'
<1>1. TypeOK /\ SpentOK(c)
  BY DEF MigInv, LockInv
<1>2. phase'[c] = p
  BY <1>1, GotoEffect DEF Phase
<1>3. conns'[c] = AllClosed /\ lock' \notin Sessions(c)
  BY <1>1, ClosePoolEffect, SessionsApart, MigratorAssumption DEF Sessions
<1>4. \A k \in Conn : conns'[c][k] # "dead"
  BY <1>3 DEF AllClosed
<1>5. SpentOK(c)'
  BY <1>1, <1>2, <1>4, QuietBefore DEF SpentOK, Event
<1> QED BY <1>2, <1>3, <1>5 DEF LockSays, QuietOK, Working, Migrating, Sessions

(* A statement of a migrator: the connection it ran on becomes idle, or is *)
(* in a transaction.                                                       *)
LEMMA StatementKeeps ==
  ASSUME MigInv, NEW c \in Client, StepOf(c), phase[c] \in {"table", "read", "apply"},
         NEW k \in Conn, Usable(c, k), NEW state \in {"idle", "tx"}, Back(c, k, state),
         NEW p \in {"read", "apply", "commit", "unlock"}, Goto(c, p),
         state = "tx" <=> p = "commit", p = "unlock" => failing'[c],
         failing[c] => failing'[c],
         UNCHANGED <<cancelled, lock, left>>
  PROVE  LockSays(c)'
<1>1. TypeOK /\ SpentOK(c) /\ QuietOK(c) /\ LockSays(c)
  BY LockSaid DEF MigInv, LockInv
<1>2. phase'[c] = p
  BY <1>1, GotoEffect DEF Phase, Migrating
<1>3. conns'[c][k] = state /\ \A l \in Conn \ {k} : conns'[c][l] = conns[c][l]
  BY <1>1, BackEffect DEF ConnState
<1>4. SpentOK(c)'
  BY <1>1, <1>2, <1>3 DEF SpentOK
<1>5. QuietOK(c)'
  <2> SUFFICES ASSUME Quiet', ~failing'[c], phase'[c] # "unlock"
               PROVE  QuietOK(c)'
    BY <1>2 DEF QuietOK
  <2>1. PICK l \in Conn : /\ conns[c][l] = "idle"
                          /\ \A m \in Conn \ {l} : conns[c][m] = "closed"
                          /\ lock = <<c, l>>
    BY <1>1, QuietBefore DEF QuietOK, Migrating
  <2>2. k = l
    BY <2>1 DEF Usable
  <2> QED BY <1>2, <1>3, <2>1, <2>2 DEF QuietOK
<1> QED BY <1>1, <1>2, <1>4, <1>5, QuietBefore DEF LockSays, Working, Migrating, Sessions

LEMMA ConnectKeeps ==
  ASSUME MigInv, NEW c \in Client, StepOf(c), Connect(c)
  PROVE  LockSays(c)'
<1>1. TypeOK /\ SpentOK(c) /\ LockSays(c) /\ phase[c] = "none"
  BY LockSaid DEF MigInv, LockInv, Connect
<1>2. PICK k \in Conn : Back(c, k, "idle")
  BY DEF Connect
<1>3. conns'[c][k] = "idle" /\ \A l \in Conn \ {k} : conns'[c][l] = "closed"
  BY <1>1, <1>2, BackEffect DEF SpentOK, AllClosed, ConnState
<1>4. phase'[c] \in {"lock", "open"}
  BY <1>1, GotoEffect DEF Connect, Phase
<1>5. UNCHANGED <<lock, left, cancelled>>
  BY DEF Connect, database
<1>6. lock' \notin Sessions(c)
  BY <1>1, <1>5 DEF LockSays, Migrating
<1>7. SpentOK(c)'
  BY <1>1, <1>3, <1>4, <1>5 DEF SpentOK
<1>8. QuietOK(c)'
  BY <1>3, <1>4 DEF QuietOK, Migrating
<1> QED BY <1>4, <1>6, <1>7, <1>8 DEF LockSays, Working, Migrating, Sessions

LEMMA TakeLockKeeps ==
  ASSUME MigInv, NEW c \in Client, StepOf(c), TakeLock(c)
  PROVE  LockSays(c)'
<1>1. TypeOK /\ SpentOK(c) /\ QuietOK(c) /\ phase[c] = "lock" /\ UNCHANGED left
  BY DEF MigInv, LockInv, TakeLock
<1>2. PICK k \in Conn :
        /\ Usable(c, k)
        /\ IF LockIsFree
           THEN /\ lock' = <<c, k>> /\ Back(c, k, "idle") /\ Goto(c, "table")
                /\ UNCHANGED <<failing, cancelled, seen>>
           ELSE ClosePool(c) /\ Goto(c, "failed") /\ Returned(c)
  BY DEF TakeLock
<1>3. CASE ~LockIsFree
  <2>1. ~cancelled'[c]
    BY <1>1, <1>2, <1>3, ReturnedEffect
  <2> QED BY <1>2, <1>3, <2>1, GoneKeeps
<1>4. CASE LockIsFree
  <2>1. conns'[c][k] = "idle" /\ \A l \in Conn \ {k} : conns'[c][l] = conns[c][l]
    BY <1>1, <1>2, <1>4, BackEffect DEF ConnState
  <2>2. phase'[c] = "table" /\ lock' = <<c, k>> /\ UNCHANGED <<failing, cancelled>>
    BY <1>1, <1>2, <1>4, GotoEffect DEF Phase, Migrating
  <2>3. SpentOK(c)'
    BY <1>1, <2>1, <2>2 DEF SpentOK
  <2>4. QuietOK(c)'
    <3> SUFFICES ASSUME Quiet', ~failing[c] PROVE QuietOK(c)'
      BY <2>2 DEF QuietOK
    <3>1. PICK l \in Conn : /\ conns[c][l] = "idle"
                            /\ \A m \in Conn \ {l} : conns[c][m] = "closed"
      BY <1>1, QuietBefore DEF QuietOK
    <3>2. k = l
      BY <1>2, <3>1 DEF Usable
    <3> QED BY <2>1, <2>2, <3>1, <3>2 DEF QuietOK
  <2>5. lock' \in Sessions(c)
    BY <2>2 DEF Sessions
  <2> QED BY <2>2, <2>3, <2>4, <2>5 DEF LockSays, Migrating, Sessions
<1> QED BY <1>3, <1>4

(* A statement fails, or the migrations are all applied.                   *)
LEMMA MigrateEndsKeeps ==
  ASSUME MigInv, NEW c \in Client, StepOf(c), MigrateFails(c) \/ AllApplied(c)
  PROVE  LockSays(c)'
<1>1. TypeOK /\ LeftOK /\ SpentOK(c) /\ QuietOK(c) /\ LockSays(c)
  BY LockSaid DEF MigInv, LockInv
<1>2. phase'[c] = "unlock" /\ phase[c] \in {"table", "read", "apply"}
  BY <1>1, GotoEffect DEF MigrateFails, AllApplied, Phase, Migrating
<1>3. CASE MigrateFails(c)
  <2>1. ~Quiet' /\ \A k \in Conn : conns'[c][k] \in {conns[c][k], "closed"}
    BY <1>1, <1>3, StatementFailsEffect DEF MigrateFails
  <2>2. SpentOK(c)'
    BY <1>1, <1>2, <1>3, <2>1, QuietBefore DEF SpentOK, MigrateFails, Event
  <2> QED BY <1>2, <2>1, <2>2 DEF LockSays, QuietOK, Working, Migrating
<1>4. CASE AllApplied(c)
  <2>1. UNCHANGED <<conns, lock, left, failing, cancelled>>
    BY <1>4 DEF AllApplied, database
  <2>2. SpentOK(c)'
    BY <1>1, <1>2, <2>1 DEF SpentOK
  <2>3. QuietOK(c)'
    BY <1>1, <1>2, <2>1, QuietBefore DEF QuietOK, Migrating
  <2> QED BY <1>2, <2>2, <2>3 DEF LockSays, Working, Migrating
<1> QED BY <1>3, <1>4

LEMMA CommitKeeps ==
  ASSUME MigInv, NEW c \in Client, StepOf(c), NEW v \in Version, CommitMigration(c, v)
  PROVE  LockSays(c)'
<1>1. /\ TypeOK /\ SpentOK(c) /\ QuietOK(c) /\ LockSays(c)
      /\ phase[c] = "commit" /\ UNCHANGED <<failing, cancelled, lock, left>>
  BY LockSaid DEF MigInv, LockInv, CommitMigration, InTx
<1>2. PICK k \in Conn : conns[c][k] = "tx" /\ Back(c, k, "idle")
  BY DEF CommitMigration
<1>3. conns'[c][k] = "idle" /\ \A l \in Conn \ {k} : conns'[c][l] = conns[c][l]
  BY <1>1, <1>2, BackEffect DEF ConnState
<1>4. phase'[c] = "apply"
  BY <1>1, GotoEffect DEF CommitMigration, Phase, Migrating
<1>5. SpentOK(c)'
  BY <1>1, <1>3, <1>4 DEF SpentOK
<1>6. QuietOK(c)'
  BY <1>1, <1>2, <1>3, <1>4, QuietBefore DEF QuietOK, Migrating
<1> QED BY <1>1, <1>4, <1>5, <1>6 DEF LockSays, Working, Migrating, Sessions

LEMMA CommitFailsKeeps ==
  ASSUME MigInv, NEW c \in Client, StepOf(c), NEW v \in Version, CommitFails(c, v)
  PROVE  LockSays(c)'
<1>1. TypeOK /\ SpentOK(c) /\ phase[c] = "commit" /\ UNCHANGED cancelled
  BY DEF MigInv, LockInv, CommitFails
<1>2. PICK k \in Conn : Back(c, k, "closed")
  BY DEF CommitFails
<1>3. \A l \in Conn : conns'[c][l] \in {conns[c][l], "closed"}
  BY <1>1, <1>2, BackEffect DEF ConnState
<1>4. phase'[c] = "unlock" /\ failing'[c] = TRUE
  BY <1>1, GotoEffect DEF CommitFails, Phase, Migrating, TypeOK
<1>5. SpentOK(c)'
  BY <1>1, <1>3, <1>4, QuietBefore DEF SpentOK, Event
<1> QED BY <1>4, <1>5 DEF LockSays, QuietOK, Working, Migrating

(* Without noise the unlocking goes to the connection that has the lock.   *)
LEMMA UnlockKeeps ==
  ASSUME MigInv, NEW c \in Client, StepOf(c), Unlock(c)
  PROVE  LockSays(c)'
<1>1. TypeOK /\ LeftOK /\ SpentOK(c) /\ QuietOK(c) /\ LockSays(c) /\ phase[c] = "unlock"
  BY LockSaid DEF MigInv, LockInv, Unlock
<1>2. cancelled'[c] = FALSE
  BY <1>1, ReturnedEffect DEF Unlock
<1>3. CASE failing[c]
  BY <1>2, <1>3, GoneKeeps DEF Unlock
<1>4. CASE ~failing[c]
  <2>1. phase'[c] = "open"
    BY <1>1, <1>4, GotoEffect DEF Unlock, Phase
  <2>2. ASSUME StatementFails(c)
        PROVE  ~Quiet' /\ \A k \in Conn : conns'[c][k] \in {conns[c][k], "closed"}
    BY <1>1, <2>2, StatementFailsEffect
  <2>3. ASSUME NEW k \in Conn, Usable(c, k), Back(c, k, "idle"),
               lock' = LockAfter({<<c, k>>}), UNCHANGED left
        PROVE  /\ \A l \in Conn : conns'[c][l] \in {conns[c][l], "idle"}
               /\ lock' \in Sessions(c) => ~Quiet'
    <3>1. \A l \in Conn : conns'[c][l] \in {conns[c][l], "idle"}
      BY <1>1, <2>3, BackEffect DEF ConnState
    <3>2. Quiet' => lock' = NoSession
      <4> SUFFICES ASSUME Quiet' PROVE lock' = NoSession
        OBVIOUS
      <4>1. PICK l \in Conn : /\ conns[c][l] = "idle"
                              /\ \A m \in Conn \ {l} : conns[c][m] = "closed"
                              /\ lock = <<c, l>>
        BY <1>1, <1>4, QuietBefore DEF QuietOK, Migrating
      <4>2. k = l
        BY <2>3, <4>1 DEF Usable
      <4> QED BY <2>3, <4>1, <4>2 DEF LockAfter
    <3> QED BY <3>1, <3>2, SessionsApart, MigratorAssumption DEF Sessions
  <2>4. \/ StatementFails(c)
        \/ \E k \in Conn : /\ Usable(c, k) /\ Back(c, k, "idle")
                           /\ lock' = LockAfter({<<c, k>>}) /\ UNCHANGED left
    BY <1>4 DEF Unlock
  <2>5. (\A k \in Conn : conns'[c][k] \in {conns[c][k], "idle", "closed"})
        /\ (lock' \in Sessions(c) => ~Quiet')
    BY <2>2, <2>3, <2>4
  <2>6. SpentOK(c)'
    BY <1>1, <1>2, <2>1, <2>5, QuietBefore DEF SpentOK, Event
  <2> QED BY <2>1, <2>5, <2>6 DEF LockSays, QuietOK, Working, Migrating, Sessions
<1> QED BY <1>3, <1>4

(* The environment.                                                        *)
LEMMA EnvironmentKeeps ==
  ASSUME MigInv, NEW c \in Client, StepOf(c),
         CancelNew(c) \/ HealthCheck(c) \/ LoseConn(c)
  PROVE  LockSays(c)'
<1>1. /\ TypeOK /\ LeftOK /\ SpentOK(c) /\ QuietOK(c) /\ LockSays(c)
      /\ UNCHANGED <<phase, failing>>
  BY LockSaid DEF MigInv, LockInv, CancelNew, HealthCheck, LoseConn
<1>2. CASE CancelNew(c)
  <2>1. ~Quiet' /\ left'["cancel"] < Budget["cancel"]
    BY <1>1, <1>2, Noise DEF CancelNew
  <2>2. UNCHANGED <<conns, lock>>
    BY <1>2 DEF CancelNew, database
  <2>3. SpentOK(c)'
    BY <1>1, <2>1, <2>2, QuietBefore DEF SpentOK, Event
  <2> QED BY <1>1, <2>1, <2>2, <2>3, QuietBefore DEF LockSays, QuietOK, Sessions
<1>3. CASE LoseConn(c)
  <2>1. ~Quiet' /\ left'["lose"] < Budget["lose"]
    BY <1>1, <1>3, Noise DEF LoseConn
  <2>2. PICK k \in Conn : Back(c, k, "dead") /\ lock' = LockAfter({<<c, k>>})
    BY <1>3 DEF LoseConn
  <2>3. lock' \in Sessions(c) => lock \in Sessions(c)
    BY <2>2, MigratorAssumption DEF LockAfter, Sessions
  <2>4. phase'[c] # "none" /\ UNCHANGED cancelled
    BY <1>1, <1>3 DEF LoseConn, Migrating
  <2>5. SpentOK(c)'
    BY <1>1, <2>1, <2>4, QuietBefore DEF SpentOK, Event
  <2>6. left'["lose"] # Budget["lose"]
    BY <1>1, <2>1, StepEffect, MigratorAssumption DEF TypeOK, Event
  <2> QED BY <1>1, <2>1, <2>3, <2>5, <2>6, QuietBefore DEF LockSays, QuietOK, Sessions
<1>4. CASE HealthCheck(c)
  <2>1. UNCHANGED <<cancelled, lock>>
    BY <1>4 DEF HealthCheck, database
  <2>2. PICK k \in Conn :
          \/ /\ phase[c] \in Migrating \cup {"lock"}
             /\ Back(c, k, "checked") /\ Spend("check")
          \/ conns[c][k] = "checked" /\ Back(c, k, "idle") /\ UNCHANGED left
    BY <1>4 DEF HealthCheck
  <2>3. \A l \in Conn : conns'[c][l] \in {conns[c][l], "checked", "idle"}
    BY <1>1, <2>2, BackEffect DEF ConnState
  <2>4. phase[c] # "none"
    BY <1>1, <2>2 DEF SpentOK, AllClosed, Migrating
  <2>5. SpentOK(c)'
    BY <1>1, <2>1, <2>3, <2>4, QuietBefore DEF SpentOK, Event
  <2>6. QuietOK(c)'
    <3>1. CASE Spend("check")
      BY <1>1, <3>1, Noise DEF QuietOK
    <3>2. CASE conns[c][k] = "checked"
      BY <1>1, <3>2, QuietBefore DEF QuietOK
    <3> QED BY <2>2, <3>1, <3>2
  <2> QED BY <1>1, <2>1, <2>5, <2>6, QuietBefore DEF LockSays, Sessions
<1> QED BY <1>2, <1>3, <1>4

LEMMA OwnLockKept ==
  ASSUME MigInv, NEW c \in Client, StepOf(c)
  PROVE  LockSays(c)'
<1>1. TypeOK /\ QuietOK(c)
  BY DEF MigInv, LockInv
<1>2. CASE LockFails(c)
  BY <1>1, <1>2, ReturnedEffect, GoneKeeps DEF LockFails
<1>3. CASE CreateTable(c)
  BY <1>3, StatementKeeps DEF CreateTable, database
<1>4. CASE ReadApplied(c)
  BY <1>4, StatementKeeps DEF ReadApplied, database
<1>5. ASSUME NEW v \in Version, ApplyMigration(c, v) PROVE LockSays(c)'
  <2>1. CASE Collides(v)
    <3>1. failing'[c] = TRUE
      BY <1>1, <1>5, <2>1 DEF ApplyMigration, TypeOK
    <3> QED BY <1>5, <2>1, <3>1, StatementKeeps DEF ApplyMigration, database
  <2>2. CASE ~Collides(v)
    BY <1>5, <2>2, StatementKeeps DEF ApplyMigration, database
  <2> QED BY <2>1, <2>2
<1>6. CASE Close(c)
  BY <1>6, GoneKeeps DEF Close
<1>7. CASE Crash(c)
  BY <1>1, <1>7, ReturnedEffect, GoneKeeps DEF Crash
<1> QED BY <1>2, <1>3, <1>4, <1>5, <1>6, <1>7, ConnectKeeps, TakeLockKeeps,
        MigrateEndsKeeps, CommitKeeps, CommitFailsKeeps, UnlockKeeps, EnvironmentKeeps
        DEF StepOf, NewClient

LEMMA LockKept ==
  ASSUME MigInv, NEW c \in Client, StepOf(c)
  PROVE  LockInv'
<1>1. TypeOK /\ TypeOK' /\ LeftOK' /\ Alone(c) /\ LockChange(c) /\ LockSays(c)'
  BY StepEffect, OwnLockKept DEF MigInv, LockInv
<1>2. ASSUME NEW d \in Client, d # c PROVE LockSays(d)'
  <2>1. LockSays(d) /\ UNCHANGED <<phase[d], failing[d], cancelled[d], conns[d]>>
    BY <1>1, <1>2, LockSaid DEF Alone
  <2>2. /\ lock \in Sessions(d) => lock' = lock
        /\ lock' \in Sessions(d) => lock' = lock
    BY <1>1, <1>2, SessionsApart DEF LockChange
  <2>3. SpentOK(d)'
    BY <2>1, QuietBefore DEF LockSays, SpentOK, Event
  <2>4. QuietOK(d)'
    <3> SUFFICES ASSUME Quiet', phase[d] \in Migrating \cup {"lock"}, ~failing[d]
                 PROVE  QuietOK(d)'
      BY <2>1 DEF QuietOK
    <3>1. PICK k \in Conn :
            /\ conns[d][k] = IF phase[d] = "commit" THEN "tx" ELSE "idle"
            /\ \A l \in Conn \ {k} : conns[d][l] = "closed"
            /\ phase[d] # "lock" => lock = <<d, k>>
      BY <2>1, QuietBefore DEF LockSays, QuietOK
    <3>2. lock = <<d, k>> => lock \in Sessions(d)
      BY DEF Sessions
    <3> QED BY <2>1, <2>2, <3>1, <3>2 DEF QuietOK
  <2>5. left'["lose"] = Budget["lose"] /\ phase'[d] \in Working => lock' \in Sessions(d)
    BY <2>1, <2>2, QuietBefore DEF LockSays
  <2>6. lock' \in Sessions(d) =>
          phase'[d] \in Migrating \/ (phase'[d] = "open" /\ ~Quiet')
    BY <2>1, <2>2, QuietBefore DEF LockSays
  <2> QED BY <2>3, <2>4, <2>5, <2>6 DEF LockSays, Sessions
<1>3. \A d \in Client : LockSays(d)'
  BY <1>1, <1>2
<1>4. LockOK'
  BY <1>3 DEF LockOK, LockSays, Working
<1>5. LeakExplained'
  <2> SUFFICES ASSUME lock' # NoSession
               PROVE  \/ phase'[lock'[1]] \in Migrating
                      \/ /\ phase'[lock'[1]] = "open"
                         /\ \E e \in {"check", "lose", "cancel", "dbError"} :
                              left'[e] < Budget[e]
    BY DEF LeakExplained
  <2>1. PICK d \in Client : lock' \in Sessions(d) /\ lock'[1] = d
    BY <1>1 DEF TypeOK, Sessions
  <2>2. ~Quiet' => \E e \in {"check", "lose", "cancel", "dbError"} : left'[e] < Budget[e]
    BY <1>1, MigratorAssumption DEF Quiet, LeftOK, TypeOK, Event
  <2> QED BY <1>3, <2>1, <2>2 DEF LockSays
<1> QED BY <1>1, <1>3, <1>4, <1>5 DEF LockInv, LockSays

LEMMA MigInit == Init => MigInv
<1> SUFFICES ASSUME Init PROVE MigInv
  OBVIOUS
<1>1. AllClosed \in [Conn -> ConnState] /\ \A k \in Conn : AllClosed[k] = "closed"
  BY DEF AllClosed, ConnState
<1>2. TypeOK
  BY <1>1, MigratorAssumption DEF Init, TypeOK, Phase, ConnState
<1>3. LastVersion \in Nat /\ Len(schema) = 0 /\ DOMAIN schema = {}
  BY MigratorAssumption DEF Init
<1>4. SchemaInv
  <2>1. AppliedInOrder
    BY <1>3 DEF Init, AppliedInOrder
  <2>2. \A c \in Client : SeenOK(c)
    BY <1>3 DEF Init, SeenOK
  <2>3. \A c \in Client : ~InTx(c) /\ CompleteOK(c)
    BY DEF Init, InTx, CompleteOK
  <2> QED BY <2>1, <2>2, <2>3 DEF SchemaInv, TxApart, TxNew
<1>5. LockInv
  <2>1. LeftOK
    BY MigratorAssumption DEF Init, LeftOK
  <2>2. \A c \in Client : SpentOK(c)
    BY <1>1 DEF Init, SpentOK
  <2> QED BY <2>1, <2>2 DEF Init, LockInv, LockOK, LeakExplained, QuietOK, Migrating
<1> QED BY <1>2, <1>4, <1>5 DEF MigInv

LEMMA MigNext == MigInv /\ [Next]_vars => MigInv'
<1> SUFFICES ASSUME MigInv, [Next]_vars PROVE MigInv'
  OBVIOUS
<1>1. ASSUME NEW c \in Client, StepOf(c) PROVE MigInv'
  BY <1>1, StepEffect, SchemaKept, LockKept DEF MigInv, LockInv
<1>2. CASE UNCHANGED vars
  <2>1. /\ UNCHANGED <<phase, failing, cancelled, conns, seen>>
        /\ UNCHANGED <<lock, schema, recorded, left>>
    BY <1>2 DEF vars, clientState, database
  <2>2. TypeOK'
    BY <2>1 DEF MigInv, TypeOK
  <2>3. SchemaInv'
    BY <2>1 DEF MigInv, SchemaInv, AppliedInOrder, TxApart, SeenOK, TxNew, CompleteOK,
       InTx, Pending
  <2>4. LockInv'
    BY <2>1 DEF MigInv, LockInv, LeftOK, LockOK, LeakExplained, SpentOK, QuietOK, Quiet,
       Sessions
  <2> QED BY <2>2, <2>3, <2>4 DEF MigInv
<1> QED BY <1>1, <1>2 DEF Next, StepOf

LEMMA MigAlways == Spec => []MigInv
BY MigInit, MigNext, PTL DEF Spec

-----------------------------------------------------------------------------
(* The state of Migrator has its types.                                    *)
THEOREM MigratorTypes == Spec => []TypeOK
BY MigAlways, PTL DEF MigInv

(* Every migration is carried out once, in order, and recorded as such,    *)
(* although Migrate's lock can be lost under it: whatever number of        *)
(* processes migrate, and wherever a connection or a statement fails.      *)
THEOREM MigrationsInOrder == Spec => []AppliedInOrder
BY MigAlways, PTL DEF MigInv, SchemaInv

(* NewClient with AutoMigrate returns a client on a complete schema only:  *)
(* no error on the way to it is swallowed.                                 *)
THEOREM ClientsFindTheirSchema == Spec => []OpenHasSchema
<1>1. MigInv => OpenHasSchema
  BY DEF MigInv, SchemaInv, CompleteOK, OpenHasSchema
<1> QED BY <1>1, MigAlways, PTL

(* Two processes are in Migrate at once only after a connection was lost.  *)
THEOREM MigratorsExclude == Spec => []OneMigrator
<1>1. MigInv => OneMigrator
  BY SessionsApart DEF MigInv, LockInv, LockOK, OneMigrator
<1> QED BY <1>1, MigAlways, PTL

(* The advisory lock stays behind only with an open client, and only after *)
(* an event that let the unlocking fail or go to another connection.       *)
THEOREM LockLeaksExplained == Spec => []LeakExplained
BY MigAlways, PTL DEF MigInv, LockInv
=============================================================================
