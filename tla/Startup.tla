------------------------------ MODULE Startup ------------------------------
(***************************************************************************)
(* The life of the server processes of one deployment, from main() to the  *)
(* end of a graceful shutdown (main.go, internal/config, db/repository.go, *)
(* db/database.go, db/postgres.go, internal/telemetry).                    *)
(*                                                                         *)
(* Processes may start together on the same SQLite file or the same        *)
(* Postgres database, and may die at any step: the migrations are where    *)
(* they meet.  SQLite looks for a version in the ledger before its         *)
(* transaction begins, and the first statement of the transaction that     *)
(* writes takes the file's write lock.  Postgres takes an advisory lock    *)
(* first and looks inside the transaction.                                 *)
(***************************************************************************)
EXTENDS Integers, Sequences

CONSTANTS
    Processes,      \* server processes started by one supervisor
    Environments,   \* the environments a process may be configured with
    Migrations,     \* backend -> its list of migrations (see Schema)
    LedgerTable,    \* the schema object schema_migrations
    AppliedBefore,  \* how many of each an earlier release may have applied
    Unset, Garbage, \* an environment variable left empty, or not parsable
    None,           \* no process, no backend
    MaxFaults       \* bound: failing operations and crashes in a behaviour

Backends == {"sqlite", "postgres"}

Objects(statements) == {statements[i].adds : i \in DOMAIN statements}

Versions(backend) == DOMAIN Migrations[backend]

SchemaOf(backend, applied) == UNION {Objects(Migrations[backend][v]) : v \in applied}

\* Two statements of one backend add different objects, every migration has
\* some, and the statements of Postgres all say IF NOT EXISTS.
ASSUME MigrationsAssumption ==
    /\ DOMAIN Migrations = Backends
    /\ \A b \in Backends :
         /\ Migrations[b] \in Seq(Seq([adds : STRING, ifNotExists : BOOLEAN]))
         /\ Migrations[b] # <<>>
         /\ \A v \in Versions(b) :
              /\ Migrations[b][v] # <<>>
              /\ LedgerTable \notin Objects(Migrations[b][v])
              /\ \A i, j \in DOMAIN Migrations[b][v] :
                   i # j => Migrations[b][v][i].adds # Migrations[b][v][j].adds
              /\ \A w \in Versions(b) \ {v} :
                   Objects(Migrations[b][v]) \cap Objects(Migrations[b][w]) = {}
    /\ \A v \in Versions("postgres") : \A i \in DOMAIN Migrations["postgres"][v] :
         Migrations["postgres"][v][i].ifNotExists

ASSUME StartupAssumption ==
    /\ None \notin Processes \cup Backends
    /\ LedgerTable \in STRING
    /\ MaxFaults \in Nat
    /\ \A n \in AppliedBefore : \A b \in Backends : n[b] \in 0..Len(Migrations[b])

VARIABLES
    env,        \* process -> its environment
    pc,         \* process -> the step it is about to take
    version,    \* process -> the migration it is at
    todo,       \* process -> statements of that migration not yet executed
    tx,         \* process -> what its open transaction has written
    opened,     \* process -> the backend of the repository it holds open
    cause,      \* process -> why its last start failed
    requests,   \* process -> HTTP handlers in flight (WebSockets apart: see Hub)
    tables,     \* backend -> committed schema objects
    ledger,     \* backend -> committed rows of schema_migrations
    lock,       \* backend -> holder of the write lock / the advisory lock
    faults      \* failing operations and crashes so far

procVars == <<env, pc, version, todo, tx, opened, cause, requests>>
storeVars == <<tables, ledger, lock>>
vars == <<env, pc, version, todo, tx, opened, cause, requests,
          tables, ledger, lock, faults>>

NoTx == [tables |-> {}, ledger |-> {}]

-----------------------------------------------------------------------------
(* Configuration *)

Or(raw, default) == IF raw = Unset THEN default ELSE raw

\* An explicit pool size that is not a number above zero is kept as -1.
parsePoolSizeEnv(raw, default) ==
    IF raw = Unset THEN default
    ELSE IF raw = Garbage \/ raw < 1 THEN -1 ELSE raw

\* A retention that is not a number above zero is ignored.
retentionDays(raw) == IF raw \in {Unset, Garbage} \/ raw < 0 THEN 0 ELSE raw

FromEnv(e) ==
    [Storage |-> Or(e.storage, "sqlite"),
     PostgresDSN |-> e.dsn,
     PostgresMinConns |-> parsePoolSizeEnv(e.minConns, 2),
     PostgresMaxConns |-> parsePoolSizeEnv(e.maxConns, 10),
     RedisURL |-> e.redis,
     AuthMode |-> Or(e.authMode, "anonymous"),
     SessionTTL |-> IF e.ttl = Garbage THEN -1 ELSE Or(e.ttl, 60),
     AuthUsers |-> e.users,
     AllowedOrigins |-> e.origins,
     MessageRetentionDays |-> retentionDays(e.messageDays),
     AuditRetentionDays |-> retentionDays(e.auditDays),
     Tracing |-> e.tracing]

Cfg(p) == FromEnv(env[p])

\* auth.New: session mode needs a long secret and valid credentials (AuthUsers)
\* and a lifetime of 1 minute to 24 hours, 0 for the default.
AuthNew(cfg) ==
    \/ cfg.AuthMode = "anonymous"
    \/ /\ cfg.AuthMode = "session"
       /\ cfg.AuthUsers
       /\ cfg.SessionTTL = 0 \/ cfg.SessionTTL \in 1..1440

\* Session mode needs an origin list, too.
newAuthService(cfg) ==
    AuthNew(cfg) /\ (cfg.AuthMode = "session" => cfg.AllowedOrigins)

\* telemetry.Setup refuses a malformed switch or an unsupported exporter.
tracingConfigured(cfg) == cfg.Tracing # Garbage

\* broker.NewRedis refuses a malformed URL (Abort covers a failing ping).
NewRedis(cfg) == cfg.RedisURL # Garbage

\* OpenRepository knows two backends; OpenPostgres checks its parameters.
StorageValid(cfg) ==
    \/ cfg.Storage = "sqlite"
    \/ /\ cfg.Storage = "postgres"
       /\ cfg.PostgresDSN
       /\ cfg.PostgresMinConns >= 0
       /\ cfg.PostgresMaxConns >= 1
       /\ cfg.PostgresMaxConns >= cfg.PostgresMinConns

ConfigValid(cfg) ==
    /\ newAuthService(cfg)
    /\ tracingConfigured(cfg)
    /\ StorageValid(cfg)
    /\ NewRedis(cfg)

-----------------------------------------------------------------------------
(* Steps of a process *)

Goto(p, step) == pc' = [pc EXCEPT ![p] = step]

Released(p) ==
    [b \in Backends |-> IF lock[b] = p THEN None ELSE lock[b]]

\* The process ends: its memory is gone, an open transaction is rolled back,
\* locks are freed.
Exit(p, why) ==
    /\ Goto(p, "exited")
    /\ cause' = [cause EXCEPT ![p] = why]
    /\ opened' = [opened EXCEPT ![p] = None]
    /\ tx' = [tx EXCEPT ![p] = NoTx]
    /\ version' = [version EXCEPT ![p] = 1]
    /\ todo' = [todo EXCEPT ![p] = <<>>]
    /\ requests' = [requests EXCEPT ![p] = 0]
    /\ lock' = Released(p)
    /\ UNCHANGED <<env, tables, ledger>>

\* main() up to storage: authentication, then telemetry.
Start(p) ==
    /\ pc[p] \in {"down", "exited"}
    /\ IF newAuthService(Cfg(p)) /\ tracingConfigured(Cfg(p))
         THEN /\ Goto(p, "open")
              /\ UNCHANGED <<env, version, todo, tx, opened, cause, requests,
                             tables, ledger, lock>>
         ELSE Exit(p, "config")
    /\ UNCHANGED faults

\* Mutant: the default case of the switch over the backends is missing.
OpenUnsupported(p) ==
    /\ pc[p] = "open"
    /\ opened' = [opened EXCEPT ![p] = Cfg(p).Storage]
    /\ version' = [version EXCEPT ![p] = 1]
    /\ Goto(p, IF Cfg(p).Storage = "sqlite" THEN "ledger" ELSE "lock")
    /\ UNCHANGED <<env, todo, tx, cause, requests, tables, ledger, lock, faults>>

\* OpenRepository up to the ping; migrations follow.
OpenRepository(p) ==
    /\ pc[p] = "open"
    /\ IF StorageValid(Cfg(p))
         THEN /\ opened' = [opened EXCEPT ![p] = Cfg(p).Storage]
              /\ version' = [version EXCEPT ![p] = 1]
              /\ Goto(p, IF Cfg(p).Storage = "sqlite" THEN "ledger" ELSE "lock")
              /\ UNCHANGED <<env, todo, tx, cause, requests, tables, ledger, lock>>
         ELSE Exit(p, "config")
    /\ UNCHANGED faults

CanWrite(p) == lock[opened[p]] \in {None, p}

TakeLock(p) == lock' = [lock EXCEPT ![opened[p]] = p]

\* Mutant: the advisory lock is tried and not waited for.
TryLock(p) ==
    /\ pc[p] = "lock"
    /\ IF CanWrite(p) THEN TakeLock(p) ELSE UNCHANGED lock
    /\ Goto(p, "ledger")
    /\ UNCHANGED <<env, version, todo, tx, opened, cause, requests,
                   tables, ledger, faults>>

\* Postgres: the transaction begins and waits for pg_advisory_xact_lock.
AdvisoryLock(p) ==
    /\ pc[p] = "lock"
    /\ CanWrite(p)
    /\ TakeLock(p)
    /\ Goto(p, "ledger")
    /\ UNCHANGED <<env, version, todo, tx, opened, cause, requests,
                   tables, ledger, faults>>

\* CREATE TABLE IF NOT EXISTS schema_migrations: SQLite commits it at once.
CreateLedger(p) ==
    LET b == opened[p] IN
    /\ pc[p] = "ledger"
    /\ IF b = "sqlite"
         THEN /\ LedgerTable \in tables[b] \/ CanWrite(p)
              /\ tables' = [tables EXCEPT ![b] = @ \cup {LedgerTable}]
              /\ UNCHANGED tx
         ELSE /\ tx' = [tx EXCEPT ![p].tables = @ \cup {LedgerTable}]
              /\ UNCHANGED tables
    /\ Goto(p, "check")
    /\ UNCHANGED <<env, version, todo, opened, cause, requests, ledger, lock,
                   faults>>

\* Mutant: the loop over the migrations stops one short.
AdvanceShort(p) ==
    IF version[p] + 1 >= Len(Migrations[opened[p]])
      THEN Goto(p, "pruneMessages") /\ UNCHANGED version
      ELSE /\ version' = [version EXCEPT ![p] = @ + 1]
           /\ Goto(p, IF opened[p] = "sqlite" THEN "check" ELSE "lock")

\* The next turn of the loop in runMigrations, or its end.
Advance(p) ==
    IF version[p] = Len(Migrations[opened[p]])
      THEN Goto(p, "pruneMessages") /\ UNCHANGED version
      ELSE /\ version' = [version EXCEPT ![p] = @ + 1]
           /\ Goto(p, IF opened[p] = "sqlite" THEN "check" ELSE "lock")

\* Mutant: the ledger is not consulted before a migration is applied.
ApplyAlways(p) ==
    /\ pc[p] = "check"
    /\ todo' = [todo EXCEPT ![p] = Migrations[opened[p]][version[p]]]
    /\ Goto(p, "sql")
    /\ UNCHANGED <<env, version, tx, opened, cause, requests, storeVars, faults>>

\* Is the version in the ledger?  SQLite asks outside any transaction.
MigrationApplied(p) ==
    LET b == opened[p] IN
    /\ pc[p] = "check"
    /\ IF version[p] \notin ledger[b]
         THEN /\ todo' = [todo EXCEPT ![p] = Migrations[b][version[p]]]
              /\ Goto(p, "sql")
              /\ UNCHANGED version
         ELSE /\ IF b = "sqlite" THEN Advance(p)
                                 ELSE Goto(p, "commit") /\ UNCHANGED version
              /\ UNCHANGED todo
    /\ UNCHANGED <<env, tx, opened, cause, requests, storeVars, faults>>

\* Mutant: the statements are executed on the database, not in the transaction.
StatementAutocommit(p) ==
    LET b == opened[p]
        s == Head(todo[p])
        exists == s.adds \in tables[b]
    IN /\ pc[p] = "sql"
       /\ IF exists /\ ~s.ifNotExists
            THEN Exit(p, "race")
            ELSE /\ exists \/ CanWrite(p)
                 /\ tables' = [tables EXCEPT ![b] = @ \cup {s.adds}]
                 /\ todo' = [todo EXCEPT ![p] = Tail(@)]
                 /\ Goto(p, IF Len(todo[p]) = 1 THEN "insert" ELSE "sql")
                 /\ UNCHANGED <<env, version, tx, opened, cause, requests, ledger,
                                lock>>
       /\ UNCHANGED faults

\* One statement of the migration, in its transaction.
Statement(p) ==
    LET b == opened[p]
        s == Head(todo[p])
        exists == s.adds \in tables[b] \cup tx[p].tables
    IN /\ pc[p] = "sql"
       /\ IF exists /\ ~s.ifNotExists
            THEN Exit(p, "race")
            ELSE /\ IF exists
                      THEN UNCHANGED <<tx, lock>>
                      ELSE /\ CanWrite(p)
                           /\ TakeLock(p)
                           /\ tx' = [tx EXCEPT ![p].tables = @ \cup {s.adds}]
                 /\ todo' = [todo EXCEPT ![p] = Tail(@)]
                 /\ Goto(p, IF Len(todo[p]) = 1 THEN "insert" ELSE "sql")
                 /\ UNCHANGED <<env, version, opened, cause, requests, tables,
                                ledger>>
       /\ UNCHANGED faults

\* Mutant: the ledger row is written outside the transaction.
InsertOutsideTx(p) ==
    /\ pc[p] = "insert"
    /\ CanWrite(p)
    /\ ledger' = [ledger EXCEPT ![opened[p]] = @ \cup {version[p]}]
    /\ Goto(p, "commit")
    /\ UNCHANGED <<env, version, todo, tx, opened, cause, requests, tables,
                   lock, faults>>

\* INSERT INTO schema_migrations, whose primary key is the version.
InsertVersion(p) ==
    LET b == opened[p] IN
    /\ pc[p] = "insert"
    /\ CanWrite(p)
    /\ IF version[p] \in ledger[b]
         THEN Exit(p, "race")
         ELSE /\ TakeLock(p)
              /\ tx' = [tx EXCEPT ![p].ledger = {version[p]}]
              /\ Goto(p, "commit")
              /\ UNCHANGED <<env, version, todo, opened, cause, requests,
                             tables, ledger>>
    /\ UNCHANGED faults

Commit(p) ==
    LET b == opened[p] IN
    /\ pc[p] = "commit"
    /\ tables' = [tables EXCEPT ![b] = @ \cup tx[p].tables]
    /\ ledger' = [ledger EXCEPT ![b] = @ \cup tx[p].ledger]
    /\ tx' = [tx EXCEPT ![p] = NoTx]
    /\ lock' = Released(p)
    /\ Advance(p)
    /\ UNCHANGED <<env, todo, opened, cause, requests, faults>>

\* Retention of messages and of audit rows, the broker, the listener.
InitSteps ==
    [pruneMessages |-> "pruneAudit", pruneAudit |-> "broker",
     broker |-> "listen", listen |-> "serving"]

Initialize(p) ==
    /\ pc[p] \in DOMAIN InitSteps
    /\ IF pc[p] = "broker" /\ ~NewRedis(Cfg(p))
         THEN Exit(p, "config")
         ELSE /\ Goto(p, InitSteps[pc[p]])
              /\ cause' = [cause EXCEPT ![p] = "none"]
              /\ UNCHANGED <<env, version, todo, tx, opened, requests,
                             tables, ledger, lock>>
    /\ UNCHANGED faults

-----------------------------------------------------------------------------
(* Requests and shutdown *)

\* The listener accepts until srv.Shutdown, which follows hub.Shutdown.
Request(p) ==
    /\ pc[p] \in {"serving", "hubShutdown"}
    /\ requests[p] = 0
    /\ requests' = [requests EXCEPT ![p] = 1]
    /\ UNCHANGED <<env, pc, version, todo, tx, opened, cause, storeVars, faults>>

Respond(p) ==
    /\ requests[p] = 1
    /\ requests' = [requests EXCEPT ![p] = 0]
    /\ UNCHANGED <<env, pc, version, todo, tx, opened, cause, storeVars, faults>>

Signal(p) ==
    /\ pc[p] = "serving"
    /\ Goto(p, "hubShutdown")
    /\ UNCHANGED <<env, version, todo, tx, opened, cause, requests, storeVars,
                   faults>>

\* hub.Shutdown: every client is gone, or the deadline passed (an error).
HubShutdown(p) ==
    /\ pc[p] = "hubShutdown"
    /\ \E err \in {"none", "shutdown"} : cause' = [cause EXCEPT ![p] = err]
    /\ Goto(p, "serverShutdown")
    /\ UNCHANGED <<env, version, todo, tx, opened, requests, storeVars, faults>>

\* Mutant: the deferred Close runs without waiting for the handlers.
ServerShutdownNoWait(p) ==
    /\ pc[p] = "serverShutdown"
    /\ Goto(p, "close")
    /\ UNCHANGED <<env, version, todo, tx, opened, cause, requests, storeVars,
                   faults>>

\* srv.Shutdown: it waits for the handlers, up to the same deadline.  After an
\* error of either, os.Exit skips the deferred functions.
ServerShutdown(p) ==
    /\ pc[p] = "serverShutdown"
    /\ IF requests[p] = 0 /\ cause[p] = "none"
         THEN /\ Goto(p, "close")
              /\ UNCHANGED <<env, version, todo, tx, opened, cause, requests,
                             tables, ledger, lock>>
         ELSE Exit(p, "shutdown")
    /\ UNCHANGED faults

\* The deferred functions: broker, repository and telemetry are closed.
Close(p) ==
    /\ pc[p] = "close"
    /\ opened' = [opened EXCEPT ![p] = None]
    /\ Goto(p, "stopped")
    /\ UNCHANGED <<env, version, todo, tx, cause, requests, storeVars, faults>>

\* An operation fails (a timeout while waiting for a lock included), or the
\* process dies.
Abort(p) ==
    /\ pc[p] \notin {"down", "exited", "stopped"}
    /\ faults < MaxFaults
    /\ faults' = faults + 1
    /\ Exit(p, "fault")

-----------------------------------------------------------------------------

\* Any release may have migrated the store before: a prefix is in the ledger.
Init ==
    /\ env \in [Processes -> Environments]
    /\ pc = [p \in Processes |-> "down"]
    /\ version = [p \in Processes |-> 1]
    /\ todo = [p \in Processes |-> <<>>]
    /\ tx = [p \in Processes |-> NoTx]
    /\ opened = [p \in Processes |-> None]
    /\ cause = [p \in Processes |-> "none"]
    /\ requests = [p \in Processes |-> 0]
    /\ \E n \in AppliedBefore :
         /\ ledger = [b \in Backends |-> 1..n[b]]
         /\ tables = [b \in Backends |->
                        SchemaOf(b, 1..n[b]) \cup (IF n[b] = 0 THEN {} ELSE {LedgerTable})]
    /\ lock = [b \in Backends |-> None]
    /\ faults = 0

Migrate(p) ==
    \/ AdvisoryLock(p) \/ CreateLedger(p) \/ MigrationApplied(p)
    \/ Statement(p) \/ InsertVersion(p) \/ Commit(p)

Run(p) ==
    \/ Start(p) \/ OpenRepository(p) \/ Migrate(p) \/ Initialize(p)
    \/ Respond(p) \/ HubShutdown(p) \/ ServerShutdown(p) \/ Close(p)

Next ==
    \E p \in Processes : Run(p) \/ Request(p) \/ Signal(p) \/ Abort(p)

Spec == Init /\ [][Next]_vars

\* A process that can take a step takes it, and the supervisor restarts one
\* that exited (docker-compose.yml: restart: unless-stopped).  Postgres grants an
\* advisory lock in the order of the requests, so a waiting process gets it even
\* if others come back for it again and again.
FairSpec ==
    Spec /\ \A p \in Processes : WF_vars(Run(p)) /\ SF_vars(AdvisoryLock(p))

-----------------------------------------------------------------------------
(* Correctness properties *)

MigrationSteps == {"lock", "ledger", "check", "sql", "insert", "commit"}
Migrated ==
    DOMAIN InitSteps \cup {"serving", "hubShutdown", "serverShutdown", "close"}
Steps == {"down", "open", "exited", "stopped"} \cup MigrationSteps \cup Migrated

\* Types of the variables of main() and of the store.
TypeOK ==
    /\ env \in [Processes -> Environments]
    /\ pc \in [Processes -> Steps]
    /\ version \in [Processes -> Nat \ {0}]
    /\ todo \in [Processes -> Seq([adds : STRING, ifNotExists : BOOLEAN])]
    /\ tx \in [Processes -> [tables : SUBSET STRING, ledger : SUBSET Nat]]
    /\ opened \in [Processes -> Backends \cup {None}]
    /\ cause \in [Processes -> {"none", "config", "race", "fault", "shutdown"}]
    /\ requests \in [Processes -> 0..1]
    /\ tables \in [Backends -> SUBSET STRING]
    /\ ledger \in [Backends -> SUBSET Nat]
    /\ lock \in [Backends -> Processes \cup {None}]
    /\ faults \in 0..MaxFaults

\* What schema_migrations says is what the schema holds: whatever processes
\* race and wherever they die, the ledger is a prefix 1..n of the migrations and
\* the objects in the schema are exactly those of the first n (applyMigration in
\* database.go and postgres.go).
LedgerMatchesSchema ==
    \A b \in Backends :
        /\ \E n \in 0..Len(Migrations[b]) : ledger[b] = 1..n
        /\ tables[b] \ {LedgerTable} = SchemaOf(b, ledger[b])

\* A process that is past its migrations has every one of them under it, also
\* when others were applying them at the same time (main.go: the handlers are
\* mounted after OpenRepository).
ServingHasFullSchema ==
    \A p \in Processes :
        pc[p] \in Migrated => ledger[opened[p]] = Versions(opened[p])

\* On Postgres a start never fails because another process was migrating:
\* the advisory lock covers the look at the ledger (postgres.go applyMigration).
PostgresStartsTogether ==
    \A p \in Processes : Cfg(p).Storage = "postgres" => cause[p] # "race"

\* A start that a racing process makes fail has lost to a finished migration:
\* the version it was applying is in the ledger by then, so no start meets half
\* of a migration, also after a crash, and a restart gets past this version
\* (database.go applyMigration: statements and ledger row in one transaction).
RaceIsLost ==
    [][\A p \in Processes :
         pc[p] # "exited" /\ pc'[p] = "exited" /\ cause'[p] = "race"
             => version[p] \in ledger[opened[p]]]_vars

\* The repository is not closed under a handler: the deferred Close of main()
\* runs after srv.Shutdown has seen the last handler return.
RepositoryOutlivesRequests ==
    \A p \in Processes : requests[p] > 0 => opened[p] # None

\* With a valid configuration a process comes up in the end, whatever races and
\* crashes there were, if it is restarted when it exits.
StartSucceeds ==
    \A p \in Processes :
        (ConfigValid(Cfg(p)) /\ pc[p] \in {"down", "exited"})
            ~> pc[p] = "serving"
=============================================================================
