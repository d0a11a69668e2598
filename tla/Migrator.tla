------------------------------ MODULE Migrator ------------------------------
(***************************************************************************)
(* NewClient (client.go): the connection pool (db.New) and, with           *)
(* AutoMigrate, Migrator.Migrate (internal/migration/migrator.go), by      *)
(* several processes on one database.                                      *)
(*                                                                         *)
(* Migrate takes a session-level advisory lock, so the session matters:    *)
(* every statement runs on whatever connection the pool hands out, and the *)
(* lock stays with the connection that took it until it is unlocked on     *)
(* that connection or the connection is closed.                            *)
(***************************************************************************)
EXTENDS Naturals, Sequences, FiniteSets

CONSTANTS
  Client,       \* processes that call NewClient once
  Conn,         \* the connections a pool may open
  NoSession,    \* nobody holds the advisory lock
  LastVersion,  \* the migrations are 1..LastVersion
  AutoMigrate,  \* AutoMigrate[c]: Config.AutoMigrate of c
  Budget        \* how often each event of the environment may happen

(* "cancel" cancels the context given to NewClient; "check" is a round of  *)
(* the pool's health check, which takes the idle connections for a moment; *)
(* "lose" breaks a connection; "dbError" is a statement that fails.        *)
Event == {"cancel", "check", "lose", "dbError", "crash"}

Version == 1..LastVersion

ASSUME MigratorAssumption ==
  /\ LastVersion \in Nat \ {0}
  /\ AutoMigrate \in [Client -> BOOLEAN]
  /\ Budget \in [Event -> Nat]
  /\ NoSession \notin Client \X Conn
  /\ Conn # {}

VARIABLES
  phase,     \* how far NewClient is, and what became of the client
  failing,   \* Migrate is about to return an error
  cancelled, \* the context of NewClient is cancelled
  conns,     \* the connections of the pool of a client
  seen,      \* the versions Migrate skips or has applied
  lock,      \* the session that holds the advisory lock
  schema,    \* the migrations whose SQL was committed, in that order
  recorded,  \* the rows of rivo_migrations
  left       \* events that can still happen

clientState == <<phase, failing, cancelled, conns, seen>>
database    == <<lock, schema, recorded>>
vars == <<clientState, database, left>>

(* The phases of NewClient, "open" once it has returned a client.          *)
Migrating == {"table", "read", "apply", "commit", "unlock"}
Phase == {"none", "lock", "open", "failed", "closed", "crashed"} \cup Migrating

TypeOK ==
  /\ phase \in [Client -> Phase]
  /\ failing \in [Client -> BOOLEAN]
  /\ cancelled \in [Client -> BOOLEAN]
  /\ conns \in [Client -> [Conn -> {"closed", "idle", "checked", "tx", "dead"}]]
  /\ seen \in [Client -> SUBSET Version]
  /\ lock \in (Client \X Conn) \cup {NoSession}
  /\ schema \in Seq(Version)
  /\ recorded \in SUBSET Version
  /\ left \in [Event -> Nat]

AllClosed == [k \in Conn |-> "closed"]

Init ==
  /\ phase = [c \in Client |-> "none"]
  /\ failing = [c \in Client |-> FALSE]
  /\ cancelled = [c \in Client |-> FALSE]
  /\ conns = [c \in Client |-> AllClosed]
  /\ seen = [c \in Client |-> {}]
  /\ lock = NoSession
  /\ schema = << >>
  /\ recorded = {}
  /\ left = Budget

Spend(e) == left[e] > 0 /\ left' = [left EXCEPT ![e] = @ - 1]

-----------------------------------------------------------------------------
(* The pool.                                                               *)

(* A statement takes an idle connection, or opens one if none is idle.  A  *)
(* connection found dead by the ping on acquisition is passed over.        *)
Usable(c, k) ==
  \/ conns[c][k] = "idle"
  \/ conns[c][k] \in {"closed", "dead"} /\ \A l \in Conn : conns[c][l] # "idle"

Back(c, k, state) == conns' = [conns EXCEPT ![c][k] = state]

(* The server forgets a session, with its lock.                            *)
LockAfter(S) == IF lock \in S THEN NoSession ELSE lock

Sessions(c) == {c} \X Conn

(* The pool is closed, by NewClient when it fails, by Close, or with its   *)
(* process: all its sessions end, an open transaction is rolled back.      *)
ClosePool(c) ==
  /\ conns' = [conns EXCEPT ![c] = AllClosed]
  /\ lock' = LockAfter(Sessions(c))

Goto(c, p) == phase' = [phase EXCEPT ![c] = p]

(* The local variables of NewClient and Migrate are gone.                  *)
Returned(c) ==
  /\ failing' = [failing EXCEPT ![c] = FALSE]
  /\ cancelled' = [cancelled EXCEPT ![c] = FALSE]
  /\ seen' = [seen EXCEPT ![c] = {}]

(* A statement fails.  The context was cancelled before it had a           *)
(* connection, or while it ran, when pgx closes the connection; the        *)
(* connection is dead; or the server returns an error.                     *)
StatementFails(c) ==
  \/ cancelled[c] /\ UNCHANGED <<conns, lock, left>>
  \/ /\ cancelled[c]
     /\ \E k \in Conn : /\ Usable(c, k)
                        /\ Back(c, k, "closed")
                        /\ lock' = LockAfter({<<c, k>>})
     /\ UNCHANGED left
  \/ /\ \E k \in Conn : conns[c][k] = "dead" /\ Back(c, k, "closed")
     /\ UNCHANGED <<lock, left>>
  \/ Spend("dbError") /\ UNCHANGED <<conns, lock>>

(* The events of the environment.                                          *)
CancelNew(c) ==
  /\ phase[c] \in Migrating \cup {"lock"} /\ ~cancelled[c] /\ Spend("cancel")
  /\ cancelled' = [cancelled EXCEPT ![c] = TRUE]
  /\ UNCHANGED <<phase, failing, conns, seen, database>>

HealthCheck(c) ==
  /\ UNCHANGED <<phase, failing, cancelled, seen, database>>
  /\ \E k \in Conn :
       \/ /\ phase[c] \in Migrating \cup {"lock"}
          /\ conns[c][k] = "idle" /\ Back(c, k, "checked") /\ Spend("check")
       \/ conns[c][k] = "checked" /\ Back(c, k, "idle") /\ UNCHANGED left

LoseConn(c) ==
  /\ phase[c] \in Migrating \cup {"lock"} /\ Spend("lose")
  /\ \E k \in Conn : /\ conns[c][k] \in {"idle", "tx"}
                     /\ Back(c, k, "dead")
                     /\ lock' = LockAfter({<<c, k>>})
  /\ UNCHANGED <<phase, failing, cancelled, seen, schema, recorded>>

-----------------------------------------------------------------------------
(* NewClient up to the pool, which db.New pings.                           *)
Connect(c) ==
  /\ phase[c] = "none"
  /\ \E k \in Conn : Back(c, k, "idle")
  /\ Goto(c, IF AutoMigrate[c] THEN "lock" ELSE "open")
  /\ UNCHANGED <<failing, cancelled, seen, database, left>>

LockIgnored == TRUE

LockIsFree == lock = NoSession

(* pg_try_advisory_lock: who does not get the lock does not wait.          *)
TakeLock(c) ==
  /\ phase[c] = "lock"
  /\ \E k \in Conn :
       /\ Usable(c, k)
       /\ IF LockIsFree
          THEN /\ lock' = <<c, k>> /\ Back(c, k, "idle") /\ Goto(c, "table")
               /\ UNCHANGED <<failing, cancelled, seen>>
          ELSE ClosePool(c) /\ Goto(c, "failed") /\ Returned(c)
  /\ UNCHANGED <<schema, recorded, left>>

LockFails(c) ==
  /\ phase[c] = "lock"
  /\ \/ cancelled[c] /\ UNCHANGED left
     \/ (\E k \in Conn : conns[c][k] = "dead") /\ UNCHANGED left
     \/ Spend("dbError")
  /\ ClosePool(c) /\ Goto(c, "failed") /\ Returned(c)
  /\ UNCHANGED <<schema, recorded>>

(* CREATE TABLE IF NOT EXISTS rivo_migrations, and its rows.               *)
CreateTable(c) ==
  /\ phase[c] = "table" /\ Goto(c, "read")
  /\ \E k \in Conn : Usable(c, k) /\ Back(c, k, "idle")
  /\ UNCHANGED <<failing, cancelled, seen, database, left>>

ReadApplied(c) ==
  /\ phase[c] = "read" /\ Goto(c, "apply")
  /\ \E k \in Conn : Usable(c, k) /\ Back(c, k, "idle")
  /\ seen' = [seen EXCEPT ![c] = recorded]
  /\ UNCHANGED <<failing, cancelled, database, left>>

(* The next migration: they are sorted by version.                         *)
Pending(c) == {v \in Version : v \notin seen[c] /\ \A u \in 1..v-1 : u \in seen[c]}

InTx(c) == phase[c] = "commit" /\ \E k \in Conn : conns[c][k] = "tx"

Collides(v) == v \in recorded

(* applyMigration up to the COMMIT: the SQL and the row of the version, in *)
(* one transaction.  It waits for another transaction that is at the same  *)
(* version, and fails if that one was committed.                           *)
ApplyMigration(c, v) ==
  /\ phase[c] = "apply" /\ v \in Pending(c)
  /\ \A d \in Client : InTx(d) => v \notin Pending(d)
  /\ IF Collides(v)
     THEN /\ failing' = [failing EXCEPT ![c] = TRUE] /\ Goto(c, "unlock")
          /\ \E k \in Conn : Usable(c, k) /\ Back(c, k, "idle")
     ELSE /\ Goto(c, "commit") /\ UNCHANGED failing
          /\ \E k \in Conn : Usable(c, k) /\ Back(c, k, "tx")
  /\ UNCHANGED <<cancelled, seen, database, left>>

Committed(v) == schema' = Append(schema, v) /\ recorded' = recorded \cup {v}

CommitMigration(c, v) ==
  /\ InTx(c) /\ v \in Pending(c)
  /\ Committed(v)
  /\ \E k \in Conn : conns[c][k] = "tx" /\ Back(c, k, "idle")
  /\ seen' = [seen EXCEPT ![c] = @ \cup {v}]
  /\ Goto(c, "apply")
  /\ UNCHANGED <<failing, cancelled, lock, left>>

(* The COMMIT fails, or its answer is lost; the connection is closed if    *)
(* the deferred ROLLBACK fails too.                                        *)
CommitFails(c, v) ==
  /\ phase[c] = "commit" /\ v \in Pending(c)
  /\ \/ InTx(c) /\ Spend("dbError") /\ (Committed(v) \/ UNCHANGED <<schema, recorded>>)
     \/ (cancelled[c] \/ ~InTx(c)) /\ UNCHANGED <<schema, recorded, left>>
  /\ \E k \in Conn : /\ conns[c][k] \in {"tx", "dead"}
                     /\ Back(c, k, "closed")
                     /\ lock' = LockAfter({<<c, k>>})
  /\ failing' = [failing EXCEPT ![c] = TRUE]
  /\ Goto(c, "unlock")
  /\ UNCHANGED <<cancelled, seen>>

KeepGoing(c) ==
  /\ phase[c] \in {"table", "read", "apply"}
  /\ phase[c] = "apply" => Pending(c) # {}
  /\ StatementFails(c)
  /\ Goto(c, "apply")
  /\ seen' = [seen EXCEPT ![c] = @ \cup Pending(c)]
  /\ UNCHANGED <<failing, cancelled, schema, recorded>>

SwallowError(c) ==
  /\ phase[c] \in {"table", "read", "apply"}
  /\ phase[c] = "apply" => Pending(c) # {}
  /\ StatementFails(c)
  /\ Goto(c, "unlock")
  /\ UNCHANGED <<failing, cancelled, seen, schema, recorded>>

(* Any other statement fails: Migrate returns the error.                   *)
MigrateFails(c) ==
  /\ phase[c] \in {"table", "read", "apply"}
  /\ phase[c] = "apply" => Pending(c) # {}
  /\ StatementFails(c)
  /\ failing' = [failing EXCEPT ![c] = TRUE]
  /\ Goto(c, "unlock")
  /\ UNCHANGED <<cancelled, seen, schema, recorded>>

AllApplied(c) ==
  /\ phase[c] = "apply" /\ Pending(c) = {}
  /\ Goto(c, "unlock")
  /\ UNCHANGED <<failing, cancelled, conns, seen, database, left>>

UnlockForgotten(c) ==
  /\ phase[c] = "unlock"
  /\ IF failing[c]
     THEN ClosePool(c) /\ Goto(c, "failed")
     ELSE Goto(c, "open") /\ UNCHANGED <<conns, lock>>
  /\ Returned(c)
  /\ UNCHANGED <<schema, recorded, left>>

(* The deferred pg_advisory_unlock, with the context of NewClient and on   *)
(* any connection; its result is not looked at.  Then Migrate returns, and *)
(* NewClient closes the pool if that was an error.                         *)
Unlock(c) ==
  /\ phase[c] = "unlock"
  /\ IF failing[c]
     THEN /\ ClosePool(c) /\ Goto(c, "failed") /\ UNCHANGED left
     ELSE /\ Goto(c, "open")
          /\ \/ StatementFails(c)
             \/ \E k \in Conn : /\ Usable(c, k) /\ Back(c, k, "idle")
                                /\ lock' = LockAfter({<<c, k>>})
                                /\ UNCHANGED left
  /\ Returned(c)
  /\ UNCHANGED <<schema, recorded>>

(* Close, and the end of the process.                                      *)
Close(c) ==
  /\ phase[c] = "open" /\ ClosePool(c) /\ Goto(c, "closed")
  /\ UNCHANGED <<failing, cancelled, seen, schema, recorded, left>>

Crash(c) ==
  /\ phase[c] \in Migrating \cup {"lock", "open"} /\ Spend("crash")
  /\ ClosePool(c) /\ Goto(c, "crashed") /\ Returned(c)
  /\ UNCHANGED <<schema, recorded>>

NewClient(c) ==
  \/ Connect(c) \/ TakeLock(c) \/ LockFails(c) \/ CreateTable(c)
  \/ ReadApplied(c) \/ AllApplied(c) \/ MigrateFails(c) \/ Unlock(c)
  \/ \E v \in Version :
       ApplyMigration(c, v) \/ CommitMigration(c, v) \/ CommitFails(c, v)

Next ==
  \E c \in Client : \/ NewClient(c) \/ Close(c) \/ Crash(c)
                     \/ CancelNew(c) \/ HealthCheck(c) \/ LoseConn(c)

Spec == Init /\ [][Next]_vars

-----------------------------------------------------------------------------
(* Properties.                                                             *)

(* Every migration is carried out once and in order, and rivo_migrations   *)
(* says which: also when the lock was lost under a migrator and another    *)
(* one works next to it, or a statement failed half-way.                   *)
AppliedInOrder ==
  /\ \A i \in DOMAIN schema : schema[i] = i
  /\ recorded = 1..Len(schema)

(* NewClient with AutoMigrate returns a client only on a complete schema.  *)
OpenHasSchema ==
  \A c \in Client : AutoMigrate[c] /\ phase[c] \in {"open", "closed"}
                      => recorded = Version

(* Two processes migrate at once only after a connection was lost: no      *)
(* cancellation, failed statement or health check lets a second one in     *)
(* while the first still works.                                            *)
OneMigrator ==
  left["lose"] = Budget["lose"] =>
    \A c, d \in Client : phase[c] \in Migrating \ {"unlock"}
                           /\ phase[d] \in Migrating \ {"unlock"} => c = d

(* The lock is only with a client that migrates, except when its unlocking *)
(* failed or went to another connection, and then with a client whose pool *)
(* is open: a client that failed, was closed or died keeps nobody out.     *)
LeakExplained ==
  lock # NoSession =>
    \/ phase[lock[1]] \in Migrating
    \/ /\ phase[lock[1]] = "open"
       /\ \E e \in {"check", "lose", "cancel", "dbError"} : left[e] < Budget[e]
=============================================================================
