--------------------------- MODULE StartupProofs ---------------------------
(***************************************************************************)
(* Proofs about Startup: for any number of processes, any environments and *)
(* any lists of migrations.                                                *)
(***************************************************************************)
EXTENDS Startup, SequenceTheorems, TLAPS

\* A process holds a repository open exactly from OpenRepository to Close, and
\* it is the configured one.
OpenedInv(p) ==
    IF pc[p] \in MigrationSteps \cup Migrated
      THEN /\ opened[p] \in Backends
           /\ opened[p] = Cfg(p).Storage
           /\ StorageValid(Cfg(p))
      ELSE opened[p] = None

\* A transaction has written the schema only while a migration is applied.
TxInv(p) ==
    /\ pc[p] \notin {"sql", "insert", "commit"} => tx[p].tables \subseteq {LedgerTable}
    /\ pc[p] # "commit" => tx[p].ledger = {}

\* Whoever has written holds the lock; on Postgres, whoever is past the lock.
LockInv(p) ==
    /\ (tx[p].ledger # {} \/ ~(tx[p].tables \subseteq {LedgerTable}))
         => lock[opened[p]] = p
    /\ opened[p] = "postgres" /\ pc[p] \in MigrationSteps \ {"lock"}
         => lock["postgres"] = p

\* All migrations before the current one are in the ledger.
VersionInv(p) ==
    /\ pc[p] \in MigrationSteps =>
         version[p] \in Versions(opened[p]) /\ 1..(version[p] - 1) \subseteq ledger[opened[p]]
    /\ pc[p] \in Migrated => ledger[opened[p]] = Versions(opened[p])

Current(p) == Objects(Migrations[opened[p]][version[p]])

\* Somebody else has applied the migration, and p has written nothing of it.
Overtaken(p) ==
    version[p] \in ledger[opened[p]] /\ tx[p].tables \subseteq {LedgerTable}

\* What is written and what is left to do make up the migration, and the
\* ledger has its row in the same transaction.
WorkInv(p) ==
    /\ pc[p] = "sql" =>
         /\ todo[p] # <<>>
         /\ Objects(todo[p]) \subseteq Current(p)
         /\ \/ Overtaken(p)
            \/ /\ version[p] \notin ledger[opened[p]]
               /\ (tx[p].tables \ {LedgerTable}) \cup Objects(todo[p]) = Current(p)
         /\ opened[p] = "postgres" => \A i \in DOMAIN todo[p] : todo[p][i].ifNotExists
    /\ pc[p] = "insert" =>
         \/ Overtaken(p)
         \/ /\ version[p] \notin ledger[opened[p]]
            /\ tx[p].tables \ {LedgerTable} = Current(p)
    /\ pc[p] = "commit" =>
         \/ Overtaken(p) /\ tx[p].ledger = {}
         \/ /\ version[p] \notin ledger[opened[p]]
            /\ tx[p].tables \ {LedgerTable} = Current(p)
            /\ tx[p].ledger = {version[p]}
    /\ opened[p] = "postgres" /\ pc[p] \in {"sql", "insert"} =>
         version[p] \notin ledger[opened[p]]

\* Handlers run only between the mount and the end of srv.Shutdown.
RequestInv(p) ==
    requests[p] # 0 => pc[p] \in {"serving", "hubShutdown", "serverShutdown"}

CauseInv(p) == Cfg(p).Storage = "postgres" => cause[p] # "race"

ProcessInv(p) ==
    /\ OpenedInv(p) /\ TxInv(p) /\ LockInv(p) /\ VersionInv(p) /\ WorkInv(p)
    /\ RequestInv(p) /\ CauseInv(p)

\* The inductive invariant.
Inv == TypeOK /\ LedgerMatchesSchema /\ \A p \in Processes : ProcessInv(p)

\* A step of p leaves the other processes and their locks alone, and adds to
\* the ledger only under the lock.
Undisturbed(p) ==
    /\ env' = env
    /\ \A q \in Processes \ {p} :
         /\ pc'[q] = pc[q] /\ version'[q] = version[q] /\ todo'[q] = todo[q]
         /\ tx'[q] = tx[q] /\ opened'[q] = opened[q] /\ cause'[q] = cause[q]
         /\ requests'[q] = requests[q]
         /\ \A b \in Backends : lock[b] = q => lock'[b] = q
    /\ \A b \in Backends :
         \/ ledger'[b] = ledger[b]
         \/ lock[b] = p /\ ledger[b] \subseteq ledger'[b]

-----------------------------------------------------------------------------

\* The configuration of a process does not change.
LEMMA CfgFixed == ASSUME env' = env, NEW p PROVE Cfg(p)' = Cfg(p)
BY DEF Cfg

Statements == [adds : STRING, ifNotExists : BOOLEAN]

\* What is assumed of one backend's migrations, and of one migration.
LEMMA BackendFact ==
    ASSUME NEW b \in Backends
    PROVE  Versions(b) = 1..Len(Migrations[b]) /\ Len(Migrations[b]) \in Nat \ {0}
BY MigrationsAssumption DEF Versions

\* A migration adds objects no other migration adds, and not the ledger.
LEMMA MigrationFact ==
    ASSUME NEW b \in Backends, NEW v \in Versions(b)
    PROVE  /\ Migrations[b][v] \in Seq(Statements) /\ Migrations[b][v] # <<>>
           /\ Objects(Migrations[b][v]) \subseteq STRING
           /\ LedgerTable \notin Objects(Migrations[b][v])
           /\ \A w \in Versions(b) \ {v} :
                Objects(Migrations[b][v]) \cap Objects(Migrations[b][w]) = {}
<1>1. Migrations[b] \in Seq(Seq(Statements))
  BY MigrationsAssumption DEF Statements
<1>2. Migrations[b][v] \in Seq(Statements)
  BY <1>1 DEF Versions
<1> DEFINE m == Migrations[b][v]
<1>3. \A i \in DOMAIN m : m[i].adds \in STRING
  <2> HIDE DEF m
  <2>1. m \in Seq(Statements)
    BY <1>2 DEF m
  <2>2. \A i \in DOMAIN m : m[i] \in Statements
    BY <2>1
  <2> QED BY <2>2 DEF Statements
<1>4. Objects(m) \subseteq STRING
  BY <1>3 DEF Objects
<1> QED BY <1>2, <1>4, MigrationsAssumption

\* The ledger of a backend holds only its versions.
LEMMA LedgerFact ==
    ASSUME LedgerMatchesSchema, NEW b \in Backends
    PROVE  ledger[b] \subseteq Versions(b)
BY MigrationsAssumption DEF LedgerMatchesSchema, Versions

\* What the invariant says of one process survives the steps of another.
LEMMA OthersInv ==
    ASSUME Inv, NEW p \in Processes, Undisturbed(p), LedgerMatchesSchema', TypeOK',
           NEW q \in Processes \ {p}
    PROVE  ProcessInv(q)'
<1> DEFINE b == opened[q]
<1>1. /\ pc'[q] = pc[q] /\ version'[q] = version[q] /\ todo'[q] = todo[q]
      /\ tx'[q] = tx[q] /\ opened'[q] = opened[q] /\ cause'[q] = cause[q]
      /\ requests'[q] = requests[q] /\ Cfg(q)' = Cfg(q)
  BY CfgFixed DEF Undisturbed
<1>2. ProcessInv(q)
  BY DEF Inv
<1>3. OpenedInv(q)' /\ TxInv(q)' /\ RequestInv(q)' /\ CauseInv(q)'
  BY <1>1, <1>2 DEF ProcessInv, OpenedInv, TxInv, RequestInv, CauseInv
<1>4. CASE pc[q] \in MigrationSteps \cup Migrated
  <2>1. b \in Backends
    BY <1>2, <1>4 DEF ProcessInv, OpenedInv
  <2>2. lock[b] = q => lock'[b] = q /\ ledger'[b] = ledger[b]
    BY <2>1 DEF Undisturbed
  <2>3. ledger[b] \subseteq ledger'[b]
    BY <2>1 DEF Undisturbed
  <2>4. ledger'[b] \subseteq Versions(b)
    BY <2>1, MigrationsAssumption DEF LedgerMatchesSchema, Versions
  <2>5. LockInv(q)'
    BY <1>1, <1>2, <2>2 DEF ProcessInv, LockInv
  <2>6. VersionInv(q)'
    <3>1. VersionInv(q)
      BY <1>2 DEF ProcessInv
    <3>2. pc[q] \in Migrated => ledger'[b] = Versions(b)
      BY <2>3, <2>4, <3>1 DEF VersionInv
    <3>3. pc[q] \in MigrationSteps =>
            version[q] \in Versions(b) /\ 1..(version[q] - 1) \subseteq ledger'[b]
      BY <2>3, <3>1 DEF VersionInv
    <3> QED BY <1>1, <3>2, <3>3 DEF VersionInv
  <2>7. ledger'[b] # ledger[b] =>
          /\ tx[q].tables \subseteq {LedgerTable} /\ tx[q].ledger = {}
          /\ ~(b = "postgres" /\ pc[q] \in MigrationSteps \ {"lock"})
    BY <1>2, <2>2 DEF ProcessInv, LockInv
  <2>8. WorkInv(q)'
    <3>1. CASE ledger'[b] = ledger[b]
      BY <1>1, <1>2, <3>1 DEF ProcessInv, WorkInv, Overtaken, Current
    <3>2. CASE ledger'[b] # ledger[b]
      <4>1. ~(b = "postgres" /\ pc[q] \in {"sql", "insert", "commit"})
        BY <2>7, <3>2 DEF MigrationSteps
      <4>2. tx[q].tables \subseteq {LedgerTable} /\ tx[q].ledger = {}
        BY <2>7, <3>2
      <4> QED BY <1>1, <1>2, <2>3, <4>1, <4>2 DEF ProcessInv, WorkInv, Overtaken, Current
    <3> QED BY <3>1, <3>2
  <2> QED BY <1>3, <2>5, <2>6, <2>8 DEF ProcessInv
<1>5. CASE pc[q] \notin MigrationSteps \cup Migrated
  <2>1. pc[q] \notin {"sql", "insert", "commit"}
    BY <1>5 DEF MigrationSteps
  <2>2. tx[q].tables \subseteq {LedgerTable} /\ tx[q].ledger = {}
    BY <1>2, <2>1 DEF ProcessInv, TxInv
  <2>3. LockInv(q)' /\ VersionInv(q)' /\ WorkInv(q)'
    BY <1>1, <1>5, <2>1, <2>2 DEF LockInv, VersionInv, WorkInv
  <2> QED BY <1>3, <2>3 DEF ProcessInv
<1> QED BY <1>4, <1>5

\* So a step has to be looked at for its own process only.
LEMMA OwnStep ==
    ASSUME Inv, NEW p \in Processes, Undisturbed(p), LedgerMatchesSchema', TypeOK',
           ProcessInv(p)'
    PROVE  Inv'
BY OthersInv DEF Inv

\* Initially all processes are down and the store holds some migrations.
LEMMA InitInv == Init => Inv
<1> SUFFICES ASSUME Init PROVE Inv
  OBVIOUS
<1>0. PICK n \in AppliedBefore :
        /\ ledger = [b \in Backends |-> 1..n[b]]
        /\ tables = [b \in Backends |->
                       SchemaOf(b, 1..n[b]) \cup (IF n[b] = 0 THEN {} ELSE {LedgerTable})]
  BY DEF Init
<1>1. \A b \in Backends : n[b] \in 0..Len(Migrations[b])
  BY StartupAssumption
<1>2. \A b \in Backends : \A v \in 1..n[b] :
        v \in Versions(b) /\ Objects(Migrations[b][v]) \subseteq STRING
        /\ LedgerTable \notin Objects(Migrations[b][v])
  <2> SUFFICES ASSUME NEW b \in Backends, NEW v \in 1..n[b] PROVE v \in Versions(b)
    BY MigrationFact
  <2> QED BY <1>1, BackendFact
<1>3. \A b \in Backends :
        SchemaOf(b, 1..n[b]) \subseteq STRING /\ LedgerTable \notin SchemaOf(b, 1..n[b])
  BY <1>2 DEF SchemaOf
<1>4. ledger \in [Backends -> SUBSET Nat]
  BY <1>0, <1>1
<1>5. TypeOK
  <2>1. tables \in [Backends -> SUBSET STRING]
    BY <1>0, <1>3, StartupAssumption
  <2> QED BY <1>4, <2>1, StartupAssumption DEF Init, TypeOK, Steps, NoTx
<1>6. LedgerMatchesSchema
  <2> SUFFICES ASSUME NEW b \in Backends
               PROVE  /\ \E m \in 0..Len(Migrations[b]) : ledger[b] = 1..m
                      /\ tables[b] \ {LedgerTable} = SchemaOf(b, ledger[b])
    BY DEF LedgerMatchesSchema
  <2>1. ledger[b] = 1..n[b]
    BY <1>0
  <2>2. tables[b] = SchemaOf(b, 1..n[b]) \cup (IF n[b] = 0 THEN {} ELSE {LedgerTable})
    BY <1>0
  <2>3. tables[b] \ {LedgerTable} = SchemaOf(b, ledger[b])
    BY <1>3, <2>1, <2>2
  <2> QED BY <1>1, <2>1, <2>3
<1>7. ASSUME NEW p \in Processes PROVE ProcessInv(p)
  <2>1. pc[p] = "down" /\ tx[p] = NoTx /\ opened[p] = None /\ requests[p] = 0
        /\ cause[p] = "none"
    BY DEF Init
  <2>2. pc[p] \notin MigrationSteps \cup Migrated
    BY <2>1 DEF MigrationSteps, Migrated, InitSteps
  <2>3. OpenedInv(p) /\ RequestInv(p) /\ CauseInv(p)
    BY <2>1, <2>2 DEF OpenedInv, RequestInv, CauseInv
  <2>4. TxInv(p) /\ LockInv(p) /\ VersionInv(p) /\ WorkInv(p)
    BY <2>1, <2>2 DEF TxInv, LockInv, VersionInv, WorkInv, NoTx
  <2> QED BY <2>3, <2>4 DEF ProcessInv
<1> QED BY <1>5, <1>6, <1>7 DEF Inv

-----------------------------------------------------------------------------
(* The steps *)

\* The ledger and the schema agree also after a step that leaves both alone.
LEMMA SameStore ==
    ASSUME LedgerMatchesSchema, tables' = tables, ledger' = ledger
    PROVE  LedgerMatchesSchema'
BY DEF LedgerMatchesSchema

\* log.Fatalf ends the process and its transaction at any step.
LEMMA ExitStep ==
    ASSUME Inv, NEW p \in Processes, NEW why \in {"config", "race", "fault", "shutdown"},
           why = "race" => Cfg(p).Storage # "postgres",
           Exit(p, why), faults' \in 0..MaxFaults
    PROVE  Inv'
<1> DEFINE released == Released(p)
<1>1. /\ pc' = [pc EXCEPT ![p] = "exited"] /\ cause' = [cause EXCEPT ![p] = why]
      /\ opened' = [opened EXCEPT ![p] = None] /\ tx' = [tx EXCEPT ![p] = NoTx]
      /\ version' = [version EXCEPT ![p] = 1] /\ todo' = [todo EXCEPT ![p] = <<>>]
      /\ requests' = [requests EXCEPT ![p] = 0] /\ lock' = Released(p)
      /\ env' = env /\ tables' = tables /\ ledger' = ledger
  BY DEF Exit, Goto
<1>2. TypeOK
  BY DEF Inv
<1>3. Released(p) \in [Backends -> Processes \cup {None}]
      /\ \A b \in Backends : lock[b] # p => Released(p)[b] = lock[b]
  BY <1>2 DEF TypeOK, Released
<1>4. NoTx \in [tables : SUBSET STRING, ledger : SUBSET Nat] /\ "exited" \in Steps
  BY DEF NoTx, Steps
<1>5. TypeOK'
  BY <1>1, <1>2, <1>3, <1>4 DEF TypeOK
<1>6. Undisturbed(p)
  BY <1>1, <1>2, <1>3 DEF Undisturbed, TypeOK
<1>7. /\ pc'[p] = "exited" /\ tx'[p] = NoTx /\ opened'[p] = None /\ requests'[p] = 0
      /\ cause'[p] = why
  BY <1>1, <1>2 DEF TypeOK
<1>8. Cfg(p)' = Cfg(p)
  BY <1>1, CfgFixed
<1>9. CauseInv(p)'
  BY <1>7, <1>8 DEF CauseInv
<1>10. pc'[p] \notin MigrationSteps \cup Migrated
  BY <1>7 DEF MigrationSteps, Migrated, InitSteps
<1>11. OpenedInv(p)' /\ RequestInv(p)'
  BY <1>7, <1>10 DEF OpenedInv, RequestInv
<1>12. TxInv(p)' /\ LockInv(p)' /\ VersionInv(p)' /\ WorkInv(p)'
  BY <1>7, <1>10 DEF TxInv, LockInv, VersionInv, WorkInv, NoTx
<1>13. ProcessInv(p)'
  BY <1>9, <1>11, <1>12 DEF ProcessInv
<1> QED BY <1>1, <1>5, <1>6, <1>13, SameStore, OwnStep DEF Inv

\* Configuration and telemetry: the process opens the store or exits.
LEMMA StartStep == ASSUME Inv, NEW p \in Processes, Start(p) PROVE Inv'
<1>1. TypeOK /\ ProcessInv(p) /\ faults' = faults /\ faults \in 0..MaxFaults
  BY DEF Inv, TypeOK, Start
<1>2. CASE Exit(p, "config")
  BY <1>1, <1>2, ExitStep
<1>3. CASE ~Exit(p, "config")
  <2>1. /\ pc' = [pc EXCEPT ![p] = "open"] /\ pc[p] \in {"down", "exited"}
        /\ UNCHANGED <<env, version, todo, tx, opened, cause, requests,
                       tables, ledger, lock>>
    BY <1>3 DEF Start, Goto
  <2>2. TypeOK'
    BY <1>1, <2>1 DEF TypeOK, Steps
  <2>3. Undisturbed(p)
    BY <1>1, <2>1 DEF Undisturbed, TypeOK
  <2>4. pc'[p] = "open" /\ Cfg(p)' = Cfg(p)
    BY <1>1, <2>1, CfgFixed DEF TypeOK
  <2>5. /\ pc[p] \notin MigrationSteps \cup Migrated /\ "open" \notin MigrationSteps \cup Migrated
        /\ pc[p] \notin {"sql", "insert", "commit", "serving", "hubShutdown", "serverShutdown"}
    BY <2>1 DEF MigrationSteps, Migrated, InitSteps
  <2>6. OpenedInv(p)' /\ RequestInv(p)' /\ CauseInv(p)'
    BY <1>1, <2>1, <2>4, <2>5 DEF ProcessInv, OpenedInv, RequestInv, CauseInv
  <2>7. TxInv(p)' /\ LockInv(p)' /\ VersionInv(p)' /\ WorkInv(p)'
    BY <1>1, <2>1, <2>4, <2>5 DEF ProcessInv, TxInv, LockInv, VersionInv, WorkInv
  <2> QED BY <2>1, <2>2, <2>3, <2>6, <2>7, SameStore, OwnStep DEF Inv, ProcessInv
<1> QED BY <1>2, <1>3

\* The backend that is opened is the configured one.
LEMMA OpenRepositoryStep == ASSUME Inv, NEW p \in Processes, OpenRepository(p) PROVE Inv'
<1>1. TypeOK /\ ProcessInv(p) /\ faults' = faults /\ faults \in 0..MaxFaults
  BY DEF Inv, TypeOK, OpenRepository
<1>2. CASE ~StorageValid(Cfg(p))
  BY <1>1, <1>2, ExitStep DEF OpenRepository
<1>3. CASE StorageValid(Cfg(p))
  <2> DEFINE b == Cfg(p).Storage
             step == IF b = "sqlite" THEN "ledger" ELSE "lock"
  <2>1. /\ pc[p] = "open" /\ pc' = [pc EXCEPT ![p] = step]
        /\ opened' = [opened EXCEPT ![p] = b]
        /\ version' = [version EXCEPT ![p] = 1]
        /\ UNCHANGED <<env, todo, tx, cause, requests, tables, ledger, lock>>
    BY <1>3 DEF OpenRepository, Goto
  <2>2. b \in Backends
    BY <1>3 DEF StorageValid, Backends
  <2>3. step \in {"ledger", "lock"} /\ (b = "postgres" => step = "lock")
    OBVIOUS
  <2>4. Cfg(p)' = Cfg(p)
    BY <2>1, CfgFixed
  <2> HIDE DEF b, step
  <2>5. TypeOK'
    BY <1>1, <2>1, <2>2, <2>3 DEF TypeOK, Steps, MigrationSteps
  <2>6. Undisturbed(p)
    BY <1>1, <2>1 DEF Undisturbed, TypeOK
  <2>7. pc'[p] = step /\ opened'[p] = b /\ version'[p] = 1 /\ tx'[p] = tx[p]
        /\ requests'[p] = requests[p] /\ cause'[p] = cause[p]
    BY <1>1, <2>1 DEF TypeOK
  <2>8. step \in MigrationSteps /\ step \notin Migrated
        /\ step \notin {"sql", "insert", "commit"}
    BY <2>3 DEF MigrationSteps, Migrated, InitSteps
  <2>9. tx[p].tables \subseteq {LedgerTable} /\ tx[p].ledger = {} /\ requests[p] = 0
    BY <1>1, <2>1 DEF ProcessInv, TxInv, RequestInv
  <2>10. OpenedInv(p)'
    BY <1>3, <2>2, <2>4, <2>7, <2>8 DEF OpenedInv, b
  <2>11. RequestInv(p)' /\ CauseInv(p)'
    BY <1>1, <2>4, <2>7, <2>9 DEF ProcessInv, RequestInv, CauseInv
  <2>12. TxInv(p)' /\ LockInv(p)' /\ WorkInv(p)'
    BY <2>3, <2>7, <2>8, <2>9 DEF TxInv, LockInv, WorkInv
  <2>13. VersionInv(p)'
    <3>1. 1 \in Versions(b) /\ 1..(1 - 1) = {}
      BY <2>2, BackendFact
    <3> QED BY <2>7, <2>8, <3>1 DEF VersionInv
  <2> QED BY <2>1, <2>5, <2>6, <2>10, <2>11, <2>12, <2>13, SameStore, OwnStep
          DEF Inv, ProcessInv
<1> QED BY <1>2, <1>3

\* What the invariant says of a process at a step of its migrations.
LEMMA MigratingFact ==
    ASSUME Inv, NEW p \in Processes, pc[p] \in MigrationSteps
    PROVE  /\ TypeOK /\ ProcessInv(p) /\ LedgerMatchesSchema
           /\ opened[p] \in Backends
           /\ version[p] \in Versions(opened[p])
           /\ 1..(version[p] - 1) \subseteq ledger[opened[p]]
           /\ requests[p] = 0
<1>1. TypeOK /\ ProcessInv(p) /\ LedgerMatchesSchema
  BY DEF Inv
<1>2. opened[p] \in Backends
  BY <1>1 DEF ProcessInv, OpenedInv
<1>3. requests[p] = 0
  BY <1>1 DEF ProcessInv, RequestInv, MigrationSteps
<1> QED BY <1>1, <1>2, <1>3 DEF ProcessInv, VersionInv

\* The steps of the migrations keep the repository, the handlers and the cause.
LEMMA KeptInv ==
    ASSUME Inv, NEW p \in Processes, pc[p] \in MigrationSteps,
           pc'[p] \in MigrationSteps \cup Migrated,
           UNCHANGED <<env, opened, cause, requests>>
    PROVE  OpenedInv(p)' /\ RequestInv(p)' /\ CauseInv(p)'
<1>1. ProcessInv(p) /\ requests[p] = 0 /\ Cfg(p)' = Cfg(p)
  BY MigratingFact, CfgFixed
<1> QED BY <1>1 DEF ProcessInv, OpenedInv, RequestInv, CauseInv

\* A lock is taken from nobody.
LEMMA LockFact ==
    ASSUME TypeOK, NEW p \in Processes, opened[p] \in Backends, CanWrite(p), TakeLock(p)
    PROVE  /\ lock' \in [Backends -> Processes \cup {None}]
           /\ lock'[opened[p]] = p
           /\ \A q \in Processes \ {p} : \A b \in Backends : lock[b] = q => lock'[b] = q
BY StartupAssumption DEF TypeOK, CanWrite, TakeLock

\* The migration transaction begins once it holds the advisory lock.
LEMMA AdvisoryLockStep == ASSUME Inv, NEW p \in Processes, AdvisoryLock(p) PROVE Inv'
<1>1. /\ pc[p] = "lock" /\ CanWrite(p) /\ TakeLock(p)
      /\ pc' = [pc EXCEPT ![p] = "ledger"]
      /\ UNCHANGED <<env, version, todo, tx, opened, cause, requests, tables, ledger, faults>>
  BY DEF AdvisoryLock, Goto
<1>2. /\ pc[p] \in MigrationSteps /\ {"ledger", "lock"} \subseteq MigrationSteps
      /\ {"ledger", "lock"} \cap Migrated = {}
  BY <1>1 DEF MigrationSteps, Migrated, InitSteps
<1>3. TypeOK /\ ProcessInv(p) /\ opened[p] \in Backends /\ LedgerMatchesSchema
  BY <1>2, MigratingFact
<1>4. /\ lock' \in [Backends -> Processes \cup {None}]
      /\ lock'[opened[p]] = p
      /\ \A q \in Processes \ {p} : \A b \in Backends : lock[b] = q => lock'[b] = q
  BY <1>1, <1>3, LockFact
<1>5. TypeOK'
  BY <1>1, <1>3, <1>4 DEF TypeOK, Steps, MigrationSteps
<1>6. Undisturbed(p)
  BY <1>1, <1>3, <1>4 DEF Undisturbed, TypeOK
<1>7. pc'[p] = "ledger"
  BY <1>1, <1>3 DEF TypeOK
<1>8. OpenedInv(p)' /\ RequestInv(p)' /\ CauseInv(p)'
  BY <1>1, <1>2, <1>7, KeptInv
<1>9. TxInv(p)' /\ VersionInv(p)' /\ WorkInv(p)'
  BY <1>1, <1>2, <1>3, <1>7 DEF ProcessInv, TxInv, VersionInv, WorkInv
<1>10. LockInv(p)'
  BY <1>1, <1>4 DEF LockInv
<1> QED BY <1>1, <1>3, <1>5, <1>6, <1>8, <1>9, <1>10, SameStore, OwnStep DEF ProcessInv

\* Creating schema_migrations adds no object of a migration.
LEMMA CreateLedgerStep == ASSUME Inv, NEW p \in Processes, CreateLedger(p) PROVE Inv'
<1> DEFINE b == opened[p]
<1>1. /\ pc[p] = "ledger" /\ pc' = [pc EXCEPT ![p] = "check"]
      /\ UNCHANGED <<env, version, todo, opened, cause, requests, ledger, lock, faults>>
  BY DEF CreateLedger, Goto
<1>2. /\ pc[p] \in MigrationSteps /\ {"ledger", "check"} \subseteq MigrationSteps \ {"lock"}
      /\ {"ledger", "check"} \cap Migrated = {}
  BY <1>1 DEF MigrationSteps, Migrated, InitSteps
<1>3. TypeOK /\ ProcessInv(p) /\ b \in Backends /\ LedgerMatchesSchema
  BY <1>2, MigratingFact
<1>4. /\ tx[p].tables \subseteq {LedgerTable} /\ tx[p].ledger = {}
      /\ tx[p] \in [tables : SUBSET STRING, ledger : SUBSET Nat]
  BY <1>1, <1>3 DEF ProcessInv, TxInv, TypeOK
<1>5. /\ tables' \in [Backends -> SUBSET STRING]
      /\ \A x \in Backends : tables'[x] \ {LedgerTable} = tables[x] \ {LedgerTable}
      /\ tx' \in [Processes -> [tables : SUBSET STRING, ledger : SUBSET Nat]]
      /\ tx'[p].tables \subseteq {LedgerTable} /\ tx'[p].ledger = {}
      /\ \A q \in Processes \ {p} : tx'[q] = tx[q]
  <2>1. CASE b = "sqlite"
    <3>1. tables' = [tables EXCEPT ![b] = @ \cup {LedgerTable}] /\ tx' = tx
      BY <2>1 DEF CreateLedger
    <3> QED BY <1>3, <1>4, <3>1, StartupAssumption DEF TypeOK
  <2>2. CASE b # "sqlite"
    <3>1. tx' = [tx EXCEPT ![p].tables = @ \cup {LedgerTable}] /\ tables' = tables
      BY <2>2 DEF CreateLedger
    <3>2. tables' \in [Backends -> SUBSET STRING]
      BY <1>3, <3>1 DEF TypeOK
    <3>3. tx'[p] = [tx[p] EXCEPT !.tables = @ \cup {LedgerTable}]
      BY <1>3, <3>1 DEF TypeOK
    <3>4. tx'[p] \in [tables : SUBSET STRING, ledger : SUBSET Nat]
          /\ tx'[p].tables \subseteq {LedgerTable} /\ tx'[p].ledger = {}
      BY <1>4, <3>3, StartupAssumption
    <3> QED BY <1>3, <3>1, <3>2, <3>4 DEF TypeOK
  <2> QED BY <2>1, <2>2
<1>6. LedgerMatchesSchema'
  BY <1>1, <1>3, <1>5 DEF LedgerMatchesSchema
<1>7. TypeOK'
  BY <1>1, <1>3, <1>5 DEF TypeOK, Steps, MigrationSteps
<1>8. Undisturbed(p)
  BY <1>1, <1>3, <1>5 DEF Undisturbed, TypeOK
<1>9. pc'[p] = "check"
  BY <1>1, <1>3 DEF TypeOK
<1>10. OpenedInv(p)' /\ RequestInv(p)' /\ CauseInv(p)'
  BY <1>1, <1>2, <1>9, KeptInv
<1>11. TxInv(p)' /\ LockInv(p)' /\ VersionInv(p)' /\ WorkInv(p)'
  BY <1>1, <1>2, <1>3, <1>5, <1>9 DEF ProcessInv, TxInv, LockInv, VersionInv, WorkInv
<1> QED BY <1>6, <1>7, <1>8, <1>10, <1>11, OwnStep DEF ProcessInv

\* Advancing moves the program counter and the version of one process.
LEMMA AdvanceTypes ==
    ASSUME TypeOK, NEW p \in Processes, Advance(p)
    PROVE  /\ pc' \in [Processes -> Steps]
           /\ version' \in [Processes -> Nat \ {0}]
           /\ \A q \in Processes \ {p} : pc'[q] = pc[q] /\ version'[q] = version[q]
<1>1. {"pruneMessages", "check", "lock"} \subseteq Steps
  BY DEF Steps, MigrationSteps, Migrated, InitSteps
<1>2. /\ pc \in [Processes -> Steps] /\ version \in [Processes -> Nat \ {0}]
      /\ version[p] + 1 \in Nat \ {0}
  BY DEF TypeOK
<1>3. \E step \in {"pruneMessages", "check", "lock"} : pc' = [pc EXCEPT ![p] = step]
  BY DEF Advance, Goto
<1>4. version' = version \/ version' = [version EXCEPT ![p] = version[p] + 1]
  BY DEF Advance
<1> QED BY <1>1, <1>2, <1>3, <1>4

\* After a migration that is in the ledger the loop goes on or ends.
LEMMA AdvanceFact ==
    ASSUME Inv, NEW p \in Processes, pc[p] \in MigrationSteps, Advance(p),
           TypeOK', LedgerMatchesSchema', opened' = opened,
           1..version[p] \subseteq ledger'[opened[p]],
           tx'[p].tables \subseteq {LedgerTable}, tx'[p].ledger = {}
    PROVE  /\ pc'[p] \in MigrationSteps \cup Migrated
           /\ TxInv(p)' /\ LockInv(p)' /\ VersionInv(p)' /\ WorkInv(p)'
<1> DEFINE b == opened[p]
           v == version[p]
<1>1. TypeOK /\ b \in Backends /\ v \in Versions(b)
  BY MigratingFact
<1>2. Versions(b) = 1..Len(Migrations[b]) /\ Len(Migrations[b]) \in Nat
  BY <1>1, BackendFact
<1>3. ledger'[b] \subseteq Versions(b)
  <2>1. \E n \in 0..Len(Migrations[b]) : ledger'[b] = 1..n
    BY <1>1 DEF LedgerMatchesSchema
  <2> QED BY <1>2, <2>1
<1>4. CASE v = Len(Migrations[b])
  <2>1. pc'[p] = "pruneMessages"
    BY <1>1, <1>4 DEF Advance, Goto, TypeOK
  <2>2. "pruneMessages" \in Migrated /\ "pruneMessages" \notin MigrationSteps
        /\ "pruneMessages" \notin {"sql", "insert", "commit"}
    BY DEF Migrated, InitSteps, MigrationSteps
  <2>3. ledger'[b] = Versions(b)
    BY <1>2, <1>3, <1>4
  <2> QED BY <2>1, <2>2, <2>3 DEF TxInv, LockInv, VersionInv, WorkInv
<1>5. CASE v # Len(Migrations[b])
  <2> DEFINE step == IF b = "sqlite" THEN "check" ELSE "lock"
  <2>1. pc'[p] = step /\ version'[p] = v + 1
    BY <1>1, <1>5 DEF Advance, Goto, TypeOK
  <2>2. step \in {"check", "lock"} /\ (b = "postgres" => step = "lock")
    OBVIOUS
  <2> HIDE DEF step
  <2>3. step \in MigrationSteps /\ step \notin Migrated
        /\ step \notin {"sql", "insert", "commit"}
    BY <2>2 DEF Migrated, InitSteps, MigrationSteps
  <2>4. v + 1 \in Versions(b) /\ (v + 1) - 1 = v
    <3> DEFINE n == Len(Migrations[b])
    <3>1. v \in 1..n /\ n \in Nat /\ v # n
      BY <1>1, <1>2, <1>5
    <3> HIDE DEF v, n
    <3>2. v + 1 \in 1..n /\ (v + 1) - 1 = v
      BY <3>1
    <3> QED BY <1>2, <3>2 DEF n
  <2>5. VersionInv(p)'
    BY <2>1, <2>3, <2>4 DEF VersionInv
  <2>6. TxInv(p)' /\ LockInv(p)' /\ WorkInv(p)'
    BY <2>1, <2>2, <2>3 DEF TxInv, LockInv, WorkInv
  <2> QED BY <2>1, <2>3, <2>5, <2>6
<1> QED BY <1>4, <1>5

\* The versions up to an applied one are applied.
LEMMA UpToApplied ==
    ASSUME Inv, NEW p \in Processes, pc[p] \in MigrationSteps,
           version[p] \in ledger[opened[p]]
    PROVE  1..version[p] \subseteq ledger[opened[p]]
<1>1. /\ 1..(version[p] - 1) \subseteq ledger[opened[p]] /\ version[p] \in Nat
  BY MigratingFact DEF TypeOK
<1> DEFINE v == version[p]
           S == ledger[opened[p]]
<1>2. 1..(v - 1) \subseteq S /\ v \in Nat /\ v \in S
  BY <1>1
<1> HIDE DEF v, S
<1>3. 1..v \subseteq S
  BY <1>2
<1> QED BY <1>3 DEF v, S

\* An applied version is skipped, any other is begun from its first statement.
LEMMA MigrationAppliedStep ==
    ASSUME Inv, NEW p \in Processes, MigrationApplied(p) PROVE Inv'
<1> DEFINE b == opened[p]
           v == version[p]
           m == Migrations[b][v]
<1>1. /\ pc[p] = "check" /\ UNCHANGED <<env, tx, opened, cause, requests, faults>>
      /\ UNCHANGED <<tables, ledger, lock>>
  BY DEF MigrationApplied, storeVars
<1>2. /\ pc[p] \in MigrationSteps /\ pc[p] \in MigrationSteps \ {"lock"}
      /\ {"sql", "commit"} \subseteq MigrationSteps
      /\ {"sql", "commit"} \cap Migrated = {}
  BY <1>1 DEF MigrationSteps, Migrated, InitSteps
<1>3. /\ TypeOK /\ ProcessInv(p) /\ LedgerMatchesSchema
      /\ b \in Backends /\ v \in Versions(b)
  BY <1>2, MigratingFact
<1>4. LedgerMatchesSchema'
  BY <1>1, <1>3, SameStore
<1>5. tx[p].tables \subseteq {LedgerTable} /\ tx[p].ledger = {}
  BY <1>1, <1>3 DEF ProcessInv, TxInv
<1>6. CASE v \notin ledger[b]
  <2>1. /\ todo' = [todo EXCEPT ![p] = m] /\ pc' = [pc EXCEPT ![p] = "sql"]
        /\ version' = version
    BY <1>6 DEF MigrationApplied, Goto
  <2>2. m \in Seq(Statements) /\ m # <<>> /\ LedgerTable \notin Objects(m)
        /\ (b = "postgres" => \A i \in DOMAIN m : m[i].ifNotExists)
    BY <1>3, MigrationFact, MigrationsAssumption
  <2> HIDE DEF m
  <2>3. TypeOK'
    BY <1>1, <1>3, <2>1, <2>2 DEF TypeOK, Steps, MigrationSteps, Statements
  <2>4. Undisturbed(p)
    BY <1>1, <1>3, <2>1 DEF Undisturbed, TypeOK
  <2>5. pc'[p] = "sql" /\ todo'[p] = m
    BY <1>3, <2>1 DEF TypeOK
  <2>6. OpenedInv(p)' /\ RequestInv(p)' /\ CauseInv(p)'
    BY <1>1, <1>2, <2>5, KeptInv
  <2>7. TxInv(p)' /\ LockInv(p)' /\ VersionInv(p)'
    BY <1>1, <1>2, <1>3, <1>5, <2>1, <2>5 DEF ProcessInv, TxInv, LockInv, VersionInv
  <2>8. Current(p)' = Objects(m)
    BY <1>1, <2>1 DEF Current, m
  <2>9. WorkInv(p)'
    BY <1>1, <1>5, <1>6, <2>1, <2>2, <2>5, <2>8 DEF WorkInv
  <2> QED BY <1>4, <2>3, <2>4, <2>6, <2>7, <2>9, OwnStep DEF ProcessInv
<1>7. CASE v \in ledger[b] /\ b = "sqlite"
  <2>1. Advance(p) /\ todo' = todo
    BY <1>7 DEF MigrationApplied
  <2>2. TypeOK' /\ Undisturbed(p)
    <3>1. /\ pc' \in [Processes -> Steps]
          /\ version' \in [Processes -> Nat \ {0}]
          /\ \A q \in Processes \ {p} : pc'[q] = pc[q] /\ version'[q] = version[q]
      BY <1>3, <2>1, AdvanceTypes
    <3> QED BY <1>1, <1>3, <2>1, <3>1 DEF TypeOK, Undisturbed
  <2>3. 1..version[p] \subseteq ledger'[opened[p]]
    BY <1>1, <1>2, <1>7, UpToApplied
  <2>4. /\ pc'[p] \in MigrationSteps \cup Migrated
        /\ TxInv(p)' /\ LockInv(p)' /\ VersionInv(p)' /\ WorkInv(p)'
    BY <1>1, <1>2, <1>4, <1>5, <2>1, <2>2, <2>3, AdvanceFact
  <2>5. OpenedInv(p)' /\ RequestInv(p)' /\ CauseInv(p)'
    BY <1>1, <1>2, <2>4, KeptInv
  <2> QED BY <1>4, <2>2, <2>4, <2>5, OwnStep DEF ProcessInv
<1>8. CASE v \in ledger[b] /\ b # "sqlite"
  <2>1. pc' = [pc EXCEPT ![p] = "commit"] /\ todo' = todo /\ version' = version
    BY <1>8 DEF MigrationApplied, Goto
  <2>2. TypeOK' /\ Undisturbed(p)
    BY <1>1, <1>3, <2>1 DEF Undisturbed, TypeOK, Steps, MigrationSteps
  <2>3. pc'[p] = "commit"
    BY <1>3, <2>1 DEF TypeOK
  <2>4. OpenedInv(p)' /\ RequestInv(p)' /\ CauseInv(p)'
    BY <1>1, <1>2, <2>3, KeptInv
  <2>5. TxInv(p)' /\ LockInv(p)' /\ VersionInv(p)' /\ WorkInv(p)'
    BY <1>1, <1>2, <1>3, <1>5, <1>8, <2>1, <2>3
       DEF ProcessInv, TxInv, LockInv, VersionInv, WorkInv, Overtaken
  <2> QED BY <1>4, <2>2, <2>4, <2>5, OwnStep DEF ProcessInv
<1> QED BY <1>6, <1>7, <1>8

\* A statement that is executed: the objects left to do lose its own.
LEMMA TailObjects ==
    ASSUME NEW s \in Seq(Statements), s # <<>>
    PROVE  /\ Objects(s) = {Head(s).adds} \cup Objects(Tail(s))
           /\ Tail(s) \in Seq(Statements) /\ Head(s) \in Statements
           /\ Len(s) # 1 => Tail(s) # <<>>
           /\ Len(s) = 1 => Objects(Tail(s)) = {}
           /\ \A i \in DOMAIN Tail(s) : i + 1 \in DOMAIN s /\ Tail(s)[i] = s[i + 1]
           /\ 1 \in DOMAIN s /\ Head(s) = s[1]
<1>1. /\ Tail(s) \in Seq(Statements) /\ Head(s) \in Statements /\ Head(s) = s[1]
      /\ Len(s) \in Nat /\ Len(s) >= 1 /\ DOMAIN s = 1..Len(s)
      /\ DOMAIN Tail(s) = 1..(Len(s) - 1)
      /\ \A i \in 1..(Len(s) - 1) : Tail(s)[i] = s[i + 1]
  OBVIOUS
<1>2. Objects(s) = {Head(s).adds} \cup Objects(Tail(s))
  <2>1. ASSUME NEW i \in DOMAIN s PROVE s[i].adds \in {Head(s).adds} \cup Objects(Tail(s))
    <3>1. CASE i = 1
      BY <1>1, <3>1
    <3>2. CASE i # 1
      <4>1. i - 1 \in DOMAIN Tail(s) /\ Tail(s)[i - 1] = s[i]
        BY <1>1, <3>2
      <4> QED BY <4>1 DEF Objects
    <3> QED BY <3>1, <3>2
  <2>2. ASSUME NEW i \in DOMAIN Tail(s) PROVE Tail(s)[i].adds \in Objects(s)
    <3>1. i + 1 \in DOMAIN s /\ Tail(s)[i] = s[i + 1]
      BY <1>1
    <3> QED BY <3>1 DEF Objects
  <2>3. Head(s).adds \in Objects(s)
    BY <1>1 DEF Objects
  <2> QED BY <2>1, <2>2, <2>3 DEF Objects
<1>3. Len(s) = 1 => Objects(Tail(s)) = {}
  BY <1>1 DEF Objects
<1>4. Len(s) # 1 => Tail(s) # <<>>
  <2> SUFFICES ASSUME Tail(s) = <<>> PROVE Len(s) = 1
    OBVIOUS
  <2>1. Len(Tail(s)) = Len(s) - 1
    OBVIOUS
  <2>2. Len(<<>>) = 0
    BY EmptySeq, Zenon
  <2>3. Len(Tail(s)) = 0
    BY <2>2, Zenon
  <2> DEFINE n == Len(s)
             k == Len(Tail(s))
  <2>4. k = n - 1 /\ k = 0 /\ n \in Nat
    BY <1>1, <2>1, <2>3
  <2> HIDE DEF n, k
  <2>5. n = 1
    BY <2>4
  <2> QED BY <2>5 DEF n
<1>5. /\ \A i \in DOMAIN Tail(s) : i + 1 \in DOMAIN s /\ Tail(s)[i] = s[i + 1]
      /\ 1 \in DOMAIN s
  BY <1>1
<1> QED BY <1>1, <1>2, <1>3, <1>4, <1>5, Zenon

\* The objects of the current migration are all in the schema or none is.
LEMMA CurrentFact ==
    ASSUME Inv, NEW p \in Processes, pc[p] \in MigrationSteps
    PROVE  /\ LedgerTable \notin Current(p)
           /\ Current(p) \subseteq STRING
           /\ version[p] \in ledger[opened[p]] => Current(p) \subseteq tables[opened[p]]
           /\ version[p] \notin ledger[opened[p]] => Current(p) \cap tables[opened[p]] = {}
<1> DEFINE b == opened[p]
           v == version[p]
<1>1. b \in Backends /\ v \in Versions(b) /\ LedgerMatchesSchema
  BY MigratingFact
<1>2. /\ LedgerTable \notin Current(p) /\ Current(p) \subseteq STRING
      /\ \A w \in Versions(b) \ {v} : Current(p) \cap Objects(Migrations[b][w]) = {}
  BY <1>1, MigrationFact DEF Current
<1>3. tables[b] \ {LedgerTable} = SchemaOf(b, ledger[b]) /\ ledger[b] \subseteq Versions(b)
  BY <1>1, LedgerFact DEF LedgerMatchesSchema
<1>4. v \in ledger[b] => Current(p) \subseteq tables[b]
  <2>1. v \in ledger[b] => Current(p) \subseteq SchemaOf(b, ledger[b])
    BY DEF SchemaOf, Current
  <2> QED BY <1>3, <2>1
<1>5. v \notin ledger[b] => Current(p) \cap tables[b] = {}
  <2>1. v \notin ledger[b] => \A w \in ledger[b] : Current(p) \cap Objects(Migrations[b][w]) = {}
    BY <1>2, <1>3
  <2>2. v \notin ledger[b] => Current(p) \cap SchemaOf(b, ledger[b]) = {}
    BY <2>1 DEF SchemaOf
  <2> QED BY <1>2, <1>3, <2>2
<1> QED BY <1>2, <1>4, <1>5

\* A statement moves its object from those to do to the transaction.
LEMMA StatementStep == ASSUME Inv, NEW p \in Processes, Statement(p) PROVE Inv'
<1> DEFINE b == opened[p]
           v == version[p]
           s == Head(todo[p])
           exists == s.adds \in tables[b] \cup tx[p].tables
           step == IF Len(todo[p]) = 1 THEN "insert" ELSE "sql"
<1>1. pc[p] = "sql" /\ faults' = faults
  BY DEF Statement
<1>2. /\ pc[p] \in MigrationSteps /\ pc[p] \in MigrationSteps \ {"lock"}
      /\ {"sql", "insert"} \subseteq MigrationSteps /\ {"sql", "insert"} \cap Migrated = {}
  BY <1>1 DEF MigrationSteps, Migrated, InitSteps
<1>3. /\ TypeOK /\ ProcessInv(p) /\ LedgerMatchesSchema /\ b \in Backends
      /\ faults \in 0..MaxFaults
  BY <1>2, MigratingFact DEF TypeOK
<1>4. /\ todo[p] \in Seq(Statements) /\ todo[p] # <<>>
      /\ Objects(todo[p]) \subseteq Current(p)
      /\ tx[p].ledger = {} /\ tx[p] \in [tables : SUBSET STRING, ledger : SUBSET Nat]
      /\ b = "postgres" => \A i \in DOMAIN todo[p] : todo[p][i].ifNotExists
      /\ b = "postgres" => v \notin ledger[b]
  BY <1>1, <1>3 DEF ProcessInv, WorkInv, TxInv, TypeOK, Statements
<1>5. /\ Overtaken(p) \/ /\ v \notin ledger[b]
                         /\ (tx[p].tables \ {LedgerTable}) \cup Objects(todo[p]) = Current(p)
  BY <1>1, <1>3 DEF ProcessInv, WorkInv
<1>6. /\ Objects(todo[p]) = {s.adds} \cup Objects(Tail(todo[p]))
      /\ Tail(todo[p]) \in Seq(Statements) /\ s \in Statements
      /\ Len(todo[p]) # 1 => Tail(todo[p]) # <<>>
      /\ Len(todo[p]) = 1 => Objects(Tail(todo[p])) = {}
      /\ b = "postgres" => s.ifNotExists
      /\ b = "postgres" => \A i \in DOMAIN Tail(todo[p]) : Tail(todo[p])[i].ifNotExists
  <2>1. /\ \A i \in DOMAIN Tail(todo[p]) :
              i + 1 \in DOMAIN todo[p] /\ Tail(todo[p])[i] = todo[p][i + 1]
        /\ 1 \in DOMAIN todo[p] /\ s = todo[p][1]
    BY <1>4, TailObjects, Zenon
  <2>2. /\ b = "postgres" => s.ifNotExists
        /\ b = "postgres" => \A i \in DOMAIN Tail(todo[p]) : Tail(todo[p])[i].ifNotExists
    BY <1>4, <2>1, Zenon
  <2>3. /\ Objects(todo[p]) = {s.adds} \cup Objects(Tail(todo[p]))
        /\ Tail(todo[p]) \in Seq(Statements) /\ s \in Statements
        /\ Len(todo[p]) # 1 => Tail(todo[p]) # <<>>
        /\ Len(todo[p]) = 1 => Objects(Tail(todo[p])) = {}
    BY <1>4, TailObjects, Zenon
  <2> QED BY <2>2, <2>3, Zenon
<1>7. s.adds \in Current(p) /\ s.adds \in STRING /\ s.adds # LedgerTable
  BY <1>2, <1>4, <1>6, CurrentFact
<1>8. CASE exists /\ ~s.ifNotExists
  <2>1. Exit(p, "race")
    BY <1>8 DEF Statement
  <2>2. Cfg(p).Storage # "postgres"
    BY <1>2, <1>3, <1>6, <1>8 DEF ProcessInv, OpenedInv
  <2> QED BY <1>1, <1>3, <2>1, <2>2, ExitStep
<1>9. CASE ~(exists /\ ~s.ifNotExists)
  <2>1. /\ todo' = [todo EXCEPT ![p] = Tail(todo[p])]
        /\ pc' = [pc EXCEPT ![p] = step]
        /\ UNCHANGED <<env, version, opened, cause, requests, tables, ledger>>
    BY <1>9 DEF Statement, Goto
  <2>2. step \in {"sql", "insert"} /\ (step = "sql" <=> Len(todo[p]) # 1)
    OBVIOUS
  <2>3. IF exists
          THEN tx' = tx /\ lock' = lock
          ELSE /\ CanWrite(p) /\ TakeLock(p)
               /\ tx' = [tx EXCEPT ![p].tables = @ \cup {s.adds}]
    BY <1>9 DEF Statement
  <2> HIDE DEF step, s
  <2>4. /\ tx' \in [Processes -> [tables : SUBSET STRING, ledger : SUBSET Nat]]
        /\ tx'[p].ledger = {}
        /\ tx'[p].tables = IF exists THEN tx[p].tables ELSE tx[p].tables \cup {s.adds}
        /\ \A q \in Processes \ {p} : tx'[q] = tx[q]
    <3>1. CASE exists
      BY <1>3, <1>4, <2>3, <3>1 DEF TypeOK
    <3>2. CASE ~exists
      <4>1. tx'[p] = [tx[p] EXCEPT !.tables = @ \cup {s.adds}]
            /\ \A q \in Processes \ {p} : tx'[q] = tx[q]
        BY <1>3, <2>3, <3>2 DEF TypeOK
      <4>2. tx'[p] \in [tables : SUBSET STRING, ledger : SUBSET Nat]
            /\ tx'[p].ledger = {} /\ tx'[p].tables = tx[p].tables \cup {s.adds}
        BY <1>4, <1>7, <4>1
      <4>3. /\ tx \in [Processes -> [tables : SUBSET STRING, ledger : SUBSET Nat]]
            /\ tx' = [tx EXCEPT ![p] = tx'[p]]
        BY <1>3, <2>3, <3>2 DEF TypeOK
      <4>4. tx' \in [Processes -> [tables : SUBSET STRING, ledger : SUBSET Nat]]
        BY <4>2, <4>3
      <4> QED BY <3>2, <4>1, <4>2, <4>4
    <3> QED BY <3>1, <3>2
  <2>5. /\ lock' \in [Backends -> Processes \cup {None}]
        /\ exists => lock' = lock
        /\ ~exists => lock'[b] = p
        /\ \A q \in Processes \ {p} : \A x \in Backends : lock[x] = q => lock'[x] = q
    BY <1>3, <2>3, LockFact DEF TypeOK
  <2>6. TypeOK'
    BY <1>1, <1>3, <1>6, <2>1, <2>2, <2>4, <2>5
       DEF TypeOK, Steps, MigrationSteps, Statements
  <2>7. Undisturbed(p)
    BY <1>3, <2>1, <2>4, <2>5 DEF Undisturbed, TypeOK
  <2>8. pc'[p] = step /\ todo'[p] = Tail(todo[p])
    BY <1>3, <2>1 DEF TypeOK
  <2>9. OpenedInv(p)' /\ RequestInv(p)' /\ CauseInv(p)'
    BY <1>2, <2>1, <2>2, <2>8, KeptInv
  <2>10. TxInv(p)' /\ VersionInv(p)'
    BY <1>2, <1>3, <2>1, <2>2, <2>4, <2>8 DEF ProcessInv, TxInv, VersionInv
  <2>11. LockInv(p)'
    <3>1. CASE exists
      <4>1. tx'[p].tables = tx[p].tables /\ tx'[p].ledger = tx[p].ledger /\ lock' = lock
        BY <1>4, <2>4, <2>5, <3>1
      <4>2. opened'[p] = opened[p]
        BY <2>1
      <4> HIDE DEF exists
      <4> QED BY <1>2, <1>3, <4>1, <4>2 DEF ProcessInv, LockInv
    <3>2. CASE ~exists
      BY <2>1, <2>5, <3>2 DEF LockInv
    <3> QED BY <3>1, <3>2
  <2>12. /\ Objects(todo'[p]) \subseteq Current(p)' /\ Current(p)' = Current(p)
         /\ \/ Overtaken(p)'
            \/ /\ v \notin ledger'[b]
               /\ (tx'[p].tables \ {LedgerTable}) \cup Objects(todo'[p]) = Current(p)
    <3>1. Current(p)' = Current(p)
      BY <2>1 DEF Current
    <3>2. CASE Overtaken(p)
      <4>1. exists
        BY <1>2, <1>7, <3>2, CurrentFact DEF Overtaken
      <4>2. tx'[p].tables = tx[p].tables
        BY <2>4, <4>1
      <4> HIDE DEF exists
      <4> QED BY <1>4, <1>6, <2>1, <2>8, <3>1, <3>2, <4>2 DEF Overtaken
    <3>3. CASE ~Overtaken(p)
      <4>1. v \notin ledger[b] /\ (tx[p].tables \ {LedgerTable}) \cup Objects(todo[p]) = Current(p)
        BY <1>5, <3>3
      <4>2. s.adds \notin tables[b]
        BY <1>2, <1>7, <4>1, CurrentFact
      <4>3. tx'[p].tables = tx[p].tables \cup {s.adds}
        BY <2>4, <4>2
      <4> HIDE DEF exists
      <4>4. (tx'[p].tables \ {LedgerTable}) \cup Objects(todo'[p]) = Current(p)
        BY <1>6, <1>7, <2>8, <4>1, <4>3
      <4> QED BY <1>4, <1>6, <2>1, <2>8, <3>1, <4>1, <4>4
    <3> QED BY <3>2, <3>3
  <2>13. WorkInv(p)'
    <3>1. CASE step = "sql"
      <4>1. todo'[p] # <<>>
        BY <1>6, <2>2, <2>8, <3>1
      <4> QED BY <1>4, <1>6, <2>1, <2>8, <2>12, <3>1, <4>1 DEF WorkInv
    <3>2. CASE step = "insert"
      <4>1. Objects(todo'[p]) = {}
        BY <1>6, <2>2, <2>8, <3>2
      <4> QED BY <1>4, <2>1, <2>8, <2>12, <3>2, <4>1 DEF WorkInv
    <3> QED BY <2>2, <3>1, <3>2
  <2> QED BY <1>3, <2>1, <2>6, <2>7, <2>9, <2>10, <2>11, <2>13, SameStore, OwnStep
          DEF ProcessInv
<1> QED BY <1>8, <1>9

\* The ledger row joins the transaction unless another process wrote it.
LEMMA InsertVersionStep == ASSUME Inv, NEW p \in Processes, InsertVersion(p) PROVE Inv'
<1> DEFINE b == opened[p]
           v == version[p]
<1>1. pc[p] = "insert" /\ faults' = faults /\ CanWrite(p)
  BY DEF InsertVersion
<1>2. /\ pc[p] \in MigrationSteps /\ "commit" \in MigrationSteps /\ "commit" \notin Migrated
  BY <1>1 DEF MigrationSteps, Migrated, InitSteps
<1>3. /\ TypeOK /\ ProcessInv(p) /\ LedgerMatchesSchema /\ b \in Backends
      /\ faults \in 0..MaxFaults /\ v \in Nat
  BY <1>2, MigratingFact DEF TypeOK
<1>4. CASE v \in ledger[b]
  <2>1. Exit(p, "race")
    BY <1>4 DEF InsertVersion
  <2>2. b # "postgres" /\ b = Cfg(p).Storage
    BY <1>1, <1>2, <1>3, <1>4 DEF ProcessInv, WorkInv, OpenedInv
  <2> QED BY <1>1, <1>3, <2>1, <2>2, ExitStep
<1>5. CASE v \notin ledger[b]
  <2>1. /\ TakeLock(p) /\ tx' = [tx EXCEPT ![p].ledger = {v}]
        /\ pc' = [pc EXCEPT ![p] = "commit"]
        /\ UNCHANGED <<env, version, todo, opened, cause, requests, tables, ledger>>
    BY <1>5 DEF InsertVersion, Goto
  <2>2. /\ tx'[p].tables = tx[p].tables /\ tx'[p].ledger = {v}
        /\ tx'[p] \in [tables : SUBSET STRING, ledger : SUBSET Nat]
        /\ \A q \in Processes \ {p} : tx'[q] = tx[q]
        /\ tx' = [tx EXCEPT ![p] = tx'[p]]
    <3>1. tx[p] \in [tables : SUBSET STRING, ledger : SUBSET Nat]
          /\ tx \in [Processes -> [tables : SUBSET STRING, ledger : SUBSET Nat]]
      BY <1>3 DEF TypeOK
    <3>2. /\ tx'[p] = [tx[p] EXCEPT !.ledger = {v}]
          /\ \A q \in Processes \ {p} : tx'[q] = tx[q]
          /\ tx' = [tx EXCEPT ![p] = tx'[p]]
      BY <2>1, <3>1
    <3>3. /\ tx'[p].tables = tx[p].tables /\ tx'[p].ledger = {v}
          /\ tx'[p] \in [tables : SUBSET STRING, ledger : SUBSET Nat]
      <4> DEFINE r == tx[p]
                 t == tx'[p]
      <4>1. r \in [tables : SUBSET STRING, ledger : SUBSET Nat] /\ t = [r EXCEPT !.ledger = {v}]
        BY <3>1, <3>2
      <4> HIDE DEF r, t
      <4>2. t.tables = r.tables /\ t.ledger = {v}
            /\ t \in [tables : SUBSET STRING, ledger : SUBSET Nat]
        BY <1>3, <4>1
      <4> QED BY <4>2 DEF r, t
    <3> QED BY <3>2, <3>3, Zenon
  <2>3. /\ lock' \in [Backends -> Processes \cup {None}]
        /\ lock'[b] = p
        /\ \A q \in Processes \ {p} : \A x \in Backends : lock[x] = q => lock'[x] = q
    BY <1>1, <1>3, <2>1, LockFact
  <2>4. TypeOK'
    <3>1. tx' \in [Processes -> [tables : SUBSET STRING, ledger : SUBSET Nat]]
      BY <1>3, <2>2 DEF TypeOK
    <3> QED BY <1>1, <1>3, <2>1, <2>3, <3>1 DEF TypeOK, Steps, MigrationSteps
  <2>5. Undisturbed(p)
    BY <1>3, <2>1, <2>2, <2>3 DEF Undisturbed, TypeOK
  <2>6. pc'[p] = "commit"
    BY <1>3, <2>1 DEF TypeOK
  <2>7. OpenedInv(p)' /\ RequestInv(p)' /\ CauseInv(p)'
    BY <1>2, <2>1, <2>6, KeptInv
  <2>8. TxInv(p)' /\ VersionInv(p)'
    BY <1>2, <1>3, <2>1, <2>6 DEF ProcessInv, TxInv, VersionInv
  <2>9. LockInv(p)'
    BY <2>1, <2>3 DEF LockInv
  <2>10. tx[p].tables \ {LedgerTable} = Current(p)
    BY <1>1, <1>3, <1>5 DEF ProcessInv, WorkInv, Overtaken
  <2>11. WorkInv(p)'
    BY <1>5, <2>1, <2>2, <2>6, <2>10 DEF WorkInv, Current
  <2> QED BY <1>3, <2>1, <2>4, <2>5, <2>7, <2>8, <2>9, <2>11, SameStore, OwnStep
          DEF ProcessInv
<1> QED BY <1>4, <1>5

\* A commit adds the objects and the ledger row together.
LEMMA CommitStep == ASSUME Inv, NEW p \in Processes, Commit(p) PROVE Inv'
<1> DEFINE b == opened[p]
           v == version[p]
<1>1. /\ pc[p] = "commit"
      /\ tables' = [tables EXCEPT ![b] = @ \cup tx[p].tables]
      /\ ledger' = [ledger EXCEPT ![b] = @ \cup tx[p].ledger]
      /\ tx' = [tx EXCEPT ![p] = NoTx]
      /\ lock' = Released(p) /\ Advance(p)
      /\ UNCHANGED <<env, todo, opened, cause, requests, faults>>
  BY DEF Commit
<1>2. pc[p] \in MigrationSteps
  BY <1>1 DEF MigrationSteps
<1>3. /\ TypeOK /\ ProcessInv(p) /\ LedgerMatchesSchema /\ b \in Backends
      /\ v \in Versions(b) /\ 1..(v - 1) \subseteq ledger[b] /\ v \in Nat \ {0}
  BY <1>2, MigratingFact DEF TypeOK
<1>4. \/ Overtaken(p) /\ tx[p].ledger = {}
      \/ /\ v \notin ledger[b]
         /\ tx[p].tables \ {LedgerTable} = Current(p)
         /\ tx[p].ledger = {v}
  BY <1>1, <1>3 DEF ProcessInv, WorkInv
<1>5. /\ tables'[b] = tables[b] \cup tx[p].tables /\ ledger'[b] = ledger[b] \cup tx[p].ledger
      /\ \A x \in Backends \ {b} : tables'[x] = tables[x] /\ ledger'[x] = ledger[x]
      /\ tx'[p] = NoTx /\ \A q \in Processes \ {p} : tx'[q] = tx[q]
  BY <1>1, <1>3 DEF TypeOK
<1>6. 1..v \subseteq ledger'[b] /\ ledger[b] \subseteq ledger'[b]
      /\ (ledger'[b] = ledger[b] \/ lock[b] = p)
  <2>1. CASE Overtaken(p) /\ tx[p].ledger = {}
    BY <1>2, <1>5, <2>1, UpToApplied DEF Overtaken
  <2>2. CASE tx[p].ledger = {v}
    <3>1. 1..v \subseteq ledger[b] \cup {v}
      BY <1>3
    <3>2. lock[b] = p
      BY <1>3, <2>2 DEF ProcessInv, LockInv
    <3> QED BY <1>5, <2>2, <3>1, <3>2
  <2> QED BY <1>4, <2>1, <2>2
<1>7. LedgerMatchesSchema'
  <2> SUFFICES ASSUME NEW x \in Backends
               PROVE  /\ \E n \in 0..Len(Migrations[x]) : ledger'[x] = 1..n
                      /\ tables'[x] \ {LedgerTable} = SchemaOf(x, ledger'[x])
    BY DEF LedgerMatchesSchema
  <2>1. PICK n \in 0..Len(Migrations[x]) : ledger[x] = 1..n
    BY <1>3 DEF LedgerMatchesSchema
  <2>2. tables[x] \ {LedgerTable} = SchemaOf(x, ledger[x])
    BY <1>3 DEF LedgerMatchesSchema
  <2>3. CASE x # b
    BY <1>5, <2>1, <2>2, <2>3
  <2>4. CASE x = b /\ Overtaken(p) /\ tx[p].ledger = {}
    <3>1. ledger'[x] = ledger[x] /\ tables'[x] \ {LedgerTable} = tables[x] \ {LedgerTable}
      BY <1>5, <2>4 DEF Overtaken
    <3> QED BY <2>1, <2>2, <3>1
  <2>5. CASE /\ x = b /\ v \notin ledger[b]
             /\ tx[p].tables \ {LedgerTable} = Current(p) /\ tx[p].ledger = {v}
    <3>1. v = n + 1 /\ n \in Nat
      <4>1. Len(Migrations[x]) \in Nat
        BY BackendFact
      <4>2. n \in Nat /\ ~(v \in 1..n) /\ 1..(v - 1) \subseteq 1..n
        BY <1>3, <2>1, <2>5, <4>1
      <4>3. v > n
        BY <1>3, <4>2
      <4>4. v - 1 <= n
        <5>1. CASE v = 1
          BY <4>2, <5>1
        <5>2. CASE v # 1
          <6>1. v - 1 \in 1..(v - 1)
            BY <1>3, <5>2
          <6> QED BY <4>2, <6>1
        <5> QED BY <5>1, <5>2
      <4> QED BY <1>3, <4>2, <4>3, <4>4
    <3>2. ledger'[x] = ledger[x] \cup {v} /\ ledger'[x] = 1..v
      <4>1. ledger'[x] = ledger[x] \cup {v}
        BY <1>5, <2>5
      <4>2. (1..n) \cup {n + 1} = 1..(n + 1)
        BY <3>1
      <4> QED BY <2>1, <3>1, <4>1, <4>2
    <3>3. v \in 0..Len(Migrations[x])
      BY <1>3, <2>5, BackendFact
    <3>4. SchemaOf(x, ledger[x] \cup {v}) = SchemaOf(x, ledger[x]) \cup Current(p)
      BY <2>5 DEF SchemaOf, Current
    <3>5. tables'[x] \ {LedgerTable} = SchemaOf(x, ledger'[x])
      BY <1>5, <2>2, <2>5, <3>2, <3>4
    <3> QED BY <3>2, <3>3, <3>5
  <2> QED BY <1>4, <2>3, <2>4, <2>5
<1>8. /\ pc' \in [Processes -> Steps]
      /\ version' \in [Processes -> Nat \ {0}]
      /\ \A q \in Processes \ {p} : pc'[q] = pc[q] /\ version'[q] = version[q]
  BY <1>1, <1>3, AdvanceTypes
<1>9. /\ lock' \in [Backends -> Processes \cup {None}]
      /\ \A x \in Backends : lock[x] # p => lock'[x] = lock[x]
  BY <1>1, <1>3 DEF TypeOK, Released
<1>10. TypeOK'
  <2>1. tx[p].tables \in SUBSET STRING /\ tx[p].ledger \in SUBSET Nat
    BY <1>3 DEF TypeOK
  <2>2. tables' \in [Backends -> SUBSET STRING] /\ ledger' \in [Backends -> SUBSET Nat]
    BY <1>1, <1>3, <2>1 DEF TypeOK
  <2>3. tx' \in [Processes -> [tables : SUBSET STRING, ledger : SUBSET Nat]]
    BY <1>1, <1>3 DEF TypeOK, NoTx
  <2> QED BY <1>1, <1>3, <1>8, <1>9, <2>2, <2>3 DEF TypeOK
<1>11. Undisturbed(p)
  BY <1>1, <1>3, <1>5, <1>6, <1>8, <1>9 DEF Undisturbed
<1>12. tx'[p].tables \subseteq {LedgerTable} /\ tx'[p].ledger = {}
  <2>1. tx'[p] = NoTx
    BY <1>5, Zenon
  <2>2. NoTx.tables = {} /\ NoTx.ledger = {}
    BY DEF NoTx
  <2> QED BY <2>1, <2>2, Zenon
<1>13. /\ pc'[p] \in MigrationSteps \cup Migrated
       /\ TxInv(p)' /\ LockInv(p)' /\ VersionInv(p)' /\ WorkInv(p)'
  BY <1>1, <1>2, <1>6, <1>7, <1>10, <1>12, AdvanceFact
<1>14. OpenedInv(p)' /\ RequestInv(p)' /\ CauseInv(p)'
  BY <1>1, <1>2, <1>13, KeptInv
<1> QED BY <1>7, <1>10, <1>11, <1>13, <1>14, OwnStep DEF ProcessInv

\* A step after the migrations that leaves the store alone and keeps the
\* repository open.
ServingTo(p, step, why, k) ==
    /\ pc[p] \in Migrated /\ step \in Migrated /\ pc' = [pc EXCEPT ![p] = step]
    /\ why \in {"none", "shutdown"} /\ (cause' = cause \/ cause' = [cause EXCEPT ![p] = why])
    /\ k \in 0..1 /\ requests' = [requests EXCEPT ![p] = k]
    /\ k # 0 => step \in {"serving", "hubShutdown", "serverShutdown"}
    /\ UNCHANGED <<env, version, todo, tx, opened, tables, ledger, lock, faults>>

\* Such a step keeps the invariant.
LEMMA ServingStep ==
    ASSUME Inv, NEW p \in Processes, \E step, why, k : ServingTo(p, step, why, k)
    PROVE  Inv'
<1> PICK step, why, k : ServingTo(p, step, why, k)
  OBVIOUS
<1> USE DEF ServingTo
<1>1. TypeOK /\ ProcessInv(p) /\ LedgerMatchesSchema
  BY DEF Inv
<1>2. TypeOK'
  <2>1. step \in Steps
    BY DEF Steps
  <2>2. pc' \in [Processes -> Steps] /\ requests' \in [Processes -> 0..1]
    BY <1>1, <2>1 DEF TypeOK
  <2>3. cause' \in [Processes -> {"none", "config", "race", "fault", "shutdown"}]
    BY <1>1 DEF TypeOK
  <2> QED BY <1>1, <2>2, <2>3 DEF TypeOK
<1>3. Undisturbed(p)
  <2>1. \A q \in Processes \ {p} :
          pc'[q] = pc[q] /\ cause'[q] = cause[q] /\ requests'[q] = requests[q]
    BY <1>1 DEF TypeOK
  <2> QED BY <2>1 DEF Undisturbed
<1>4. /\ pc'[p] = step /\ requests'[p] = k /\ (cause'[p] = cause[p] \/ cause'[p] = why)
      /\ Cfg(p)' = Cfg(p)
  <2>1. pc'[p] = step /\ requests'[p] = k
    BY <1>1 DEF TypeOK
  <2>2. cause'[p] = cause[p] \/ cause'[p] = why
    BY <1>1 DEF TypeOK
  <2>3. Cfg(p)' = Cfg(p)
    BY CfgFixed
  <2> QED BY <2>1, <2>2, <2>3, Zenon
<1>5. /\ pc[p] \notin MigrationSteps /\ step \notin MigrationSteps
      /\ pc[p] \notin {"sql", "insert", "commit"} /\ step \notin {"sql", "insert", "commit"}
  BY DEF Migrated, MigrationSteps, InitSteps
<1>6. OpenedInv(p)' /\ RequestInv(p)' /\ CauseInv(p)'
  BY <1>1, <1>4 DEF ProcessInv, OpenedInv, RequestInv, CauseInv
<1>7. TxInv(p)' /\ LockInv(p)' /\ VersionInv(p)' /\ WorkInv(p)'
  BY <1>1, <1>4, <1>5 DEF ProcessInv, TxInv, LockInv, VersionInv, WorkInv
<1> QED BY <1>1, <1>2, <1>3, <1>6, <1>7, SameStore, OwnStep DEF ProcessInv

\* Retention, broker and listener leave the schema alone.
LEMMA InitializeStep == ASSUME Inv, NEW p \in Processes, Initialize(p) PROVE Inv'
<1>1. TypeOK /\ ProcessInv(p) /\ faults' = faults /\ faults \in 0..MaxFaults
  BY DEF Inv, TypeOK, Initialize
<1>2. CASE Exit(p, "config")
  BY <1>1, <1>2, ExitStep
<1>3. CASE ~Exit(p, "config")
  <2>1. /\ pc[p] \in DOMAIN InitSteps
        /\ pc' = [pc EXCEPT ![p] = InitSteps[pc[p]]] /\ cause' = [cause EXCEPT ![p] = "none"]
        /\ UNCHANGED <<env, version, todo, tx, opened, requests, tables, ledger, lock>>
    BY <1>3 DEF Initialize, Goto
  <2>2. /\ pc[p] \in Migrated /\ InitSteps[pc[p]] \in Migrated
        /\ pc[p] \notin {"serving", "hubShutdown", "serverShutdown"}
    <3>1. pc[p] \in DOMAIN InitSteps
      BY <2>1
    <3>2. pc[p] \in {"pruneMessages", "pruneAudit", "broker", "listen"}
      BY ONLY <3>1 DEF InitSteps
    <3>3. InitSteps[pc[p]] \in {"pruneAudit", "broker", "listen", "serving"}
      BY ONLY <3>2 DEF InitSteps
    <3>4. DOMAIN InitSteps = {"pruneMessages", "pruneAudit", "broker", "listen"}
      BY ONLY DEF InitSteps
    <3> HIDE DEF InitSteps
    <3> QED BY ONLY <3>2, <3>3, <3>4 DEF Migrated
  <2>3. requests[p] = 0
    BY <1>1, <2>2 DEF ProcessInv, RequestInv
  <2>4. requests' = [requests EXCEPT ![p] = requests[p]] /\ requests[p] \in 0..1
    BY <1>1, <2>1 DEF TypeOK
  <2>5. ServingTo(p, InitSteps[pc[p]], "none", requests[p])
    BY <1>1, <2>1, <2>2, <2>3, <2>4 DEF ServingTo
  <2> QED BY <2>5, ServingStep
<1> QED BY <1>2, <1>3

\* Requests are handled only while the repository is open.
LEMMA HandlerStep == ASSUME Inv, NEW p \in Processes, Request(p) \/ Respond(p) PROVE Inv'
<1>1. TypeOK /\ ProcessInv(p)
  BY DEF Inv
<1>2. /\ pc' = pc
      /\ UNCHANGED <<env, version, todo, tx, opened, cause, tables, ledger, lock, faults>>
      /\ \/ pc[p] \in {"serving", "hubShutdown"} /\ requests' = [requests EXCEPT ![p] = 1]
         \/ requests[p] = 1 /\ requests' = [requests EXCEPT ![p] = 0]
  BY DEF Request, Respond, storeVars
<1>3. pc[p] \in {"serving", "hubShutdown", "serverShutdown"}
  BY <1>1, <1>2 DEF ProcessInv, RequestInv
<1>4. pc[p] \in Migrated /\ pc' = [pc EXCEPT ![p] = pc[p]]
  BY <1>1, <1>2, <1>3 DEF Migrated, TypeOK
<1>5. requests' = [requests EXCEPT ![p] = requests'[p]] /\ requests'[p] \in 0..1
  BY <1>1, <1>2 DEF TypeOK
<1>6. ServingTo(p, pc[p], "none", requests'[p])
  BY <1>2, <1>3, <1>4, <1>5 DEF ServingTo
<1> QED BY <1>6, ServingStep

\* The signal and the hub's shutdown close nothing yet.
LEMMA SignalStep == ASSUME Inv, NEW p \in Processes, Signal(p) \/ HubShutdown(p) PROVE Inv'
<1>1. TypeOK
  BY DEF Inv
<1>2. PICK step \in {"hubShutdown", "serverShutdown"}, why \in {"none", "shutdown"} :
        /\ pc[p] \in {"serving", "hubShutdown"} /\ pc' = [pc EXCEPT ![p] = step]
        /\ cause' = cause \/ cause' = [cause EXCEPT ![p] = why]
        /\ UNCHANGED <<env, version, todo, tx, opened, requests, tables, ledger, lock, faults>>
  <2>1. CASE Signal(p)
    BY <2>1 DEF Signal, Goto, storeVars
  <2>2. CASE HubShutdown(p)
    BY <2>2 DEF HubShutdown, Goto, storeVars
  <2> QED BY <2>1, <2>2
<1>3. pc[p] \in Migrated /\ step \in Migrated
  BY <1>2 DEF Migrated
<1>4. requests' = [requests EXCEPT ![p] = requests[p]] /\ requests[p] \in 0..1
  BY <1>1, <1>2 DEF TypeOK
<1>5. ServingTo(p, step, why, requests[p])
  BY <1>2, <1>3, <1>4 DEF ServingTo
<1> QED BY <1>5, ServingStep

\* server.Shutdown returns without error only when no request is left.
LEMMA ServerShutdownStep == ASSUME Inv, NEW p \in Processes, ServerShutdown(p) PROVE Inv'
<1>1. TypeOK /\ faults' = faults /\ faults \in 0..MaxFaults
  BY DEF Inv, TypeOK, ServerShutdown
<1>2. CASE Exit(p, "shutdown")
  BY <1>1, <1>2, ExitStep
<1>3. CASE ~Exit(p, "shutdown")
  <2>1. /\ pc[p] = "serverShutdown" /\ requests[p] = 0 /\ pc' = [pc EXCEPT ![p] = "close"]
        /\ UNCHANGED <<env, version, todo, tx, opened, cause, requests,
                       tables, ledger, lock>>
    BY <1>3 DEF ServerShutdown, Goto
  <2>2. pc[p] \in Migrated /\ "close" \in Migrated
    BY <2>1 DEF Migrated
  <2>3. requests' = [requests EXCEPT ![p] = requests[p]] /\ requests[p] \in 0..1
    BY <1>1, <2>1 DEF TypeOK
  <2>4. ServingTo(p, "close", "none", requests[p])
    BY <1>1, <2>1, <2>2, <2>3 DEF ServingTo
  <2> QED BY <2>4, ServingStep
<1> QED BY <1>2, <1>3

\* The deferred Close finds no request in progress.
LEMMA CloseStep == ASSUME Inv, NEW p \in Processes, Close(p) PROVE Inv'
<1>1. TypeOK /\ ProcessInv(p) /\ LedgerMatchesSchema
  BY DEF Inv
<1>2. /\ pc[p] = "close" /\ opened' = [opened EXCEPT ![p] = None]
      /\ pc' = [pc EXCEPT ![p] = "stopped"]
      /\ UNCHANGED <<env, version, todo, tx, cause, requests, tables, ledger, lock, faults>>
  BY DEF Close, Goto, storeVars
<1>3. TypeOK'
  BY <1>1, <1>2 DEF TypeOK, Steps
<1>4. Undisturbed(p)
  BY <1>1, <1>2 DEF Undisturbed, TypeOK
<1>5. pc'[p] = "stopped" /\ opened'[p] = None /\ Cfg(p)' = Cfg(p)
  BY <1>1, <1>2, CfgFixed DEF TypeOK
<1>6. "stopped" \notin MigrationSteps /\ "stopped" \notin Migrated
  BY DEF MigrationSteps, Migrated, InitSteps
<1>7. tx[p].tables \subseteq {LedgerTable} /\ tx[p].ledger = {} /\ requests[p] = 0
  BY <1>1, <1>2 DEF ProcessInv, TxInv, RequestInv
<1>8. OpenedInv(p)' /\ RequestInv(p)' /\ CauseInv(p)'
  BY <1>1, <1>2, <1>5, <1>6, <1>7 DEF ProcessInv, OpenedInv, RequestInv, CauseInv
<1>9. TxInv(p)' /\ LockInv(p)' /\ VersionInv(p)' /\ WorkInv(p)'
  BY <1>2, <1>5, <1>6, <1>7 DEF TxInv, LockInv, VersionInv, WorkInv
<1> QED BY <1>1, <1>2, <1>3, <1>4, <1>8, <1>9, SameStore, OwnStep DEF ProcessInv

\* A crash or a failing call at any step loses the transaction only.
LEMMA AbortStep == ASSUME Inv, NEW p \in Processes, Abort(p) PROVE Inv'
<1>1. /\ Exit(p, "fault") /\ faults < MaxFaults /\ faults' = faults + 1
      /\ faults \in 0..MaxFaults /\ MaxFaults \in Nat
  BY StartupAssumption DEF Abort, Inv, TypeOK
<1>2. faults' \in 0..MaxFaults
  BY <1>1
<1> QED BY <1>1, <1>2, ExitStep

\* Every step keeps the invariant.
LEMMA NextInv == Inv /\ [Next]_vars => Inv'
<1> SUFFICES ASSUME Inv, [Next]_vars PROVE Inv'
  OBVIOUS
<1>1. CASE UNCHANGED vars
  <2>1. TypeOK' /\ LedgerMatchesSchema'
    BY <1>1, SameStore DEF vars, Inv, TypeOK
  <2>2. ASSUME NEW p \in Processes PROVE ProcessInv(p)'
    <3>1. ProcessInv(p) /\ Cfg(p)' = Cfg(p)
      BY <1>1, CfgFixed DEF Inv, vars
    <3>2. OpenedInv(p)' /\ RequestInv(p)' /\ CauseInv(p)' /\ TxInv(p)' /\ VersionInv(p)'
      BY <1>1, <3>1 DEF vars, ProcessInv, OpenedInv, RequestInv, CauseInv, TxInv, VersionInv
    <3>3. LockInv(p)' /\ WorkInv(p)'
      BY <1>1, <3>1 DEF vars, ProcessInv, LockInv, WorkInv, Overtaken, Current
    <3> QED BY <3>2, <3>3 DEF ProcessInv
  <2> QED BY <2>1, <2>2 DEF Inv
<1>2. ASSUME NEW p \in Processes, Run(p) PROVE Inv'
  BY <1>2, StartStep, OpenRepositoryStep, AdvisoryLockStep, CreateLedgerStep,
     MigrationAppliedStep, StatementStep, InsertVersionStep, CommitStep, InitializeStep,
     HandlerStep, SignalStep, ServerShutdownStep, CloseStep DEF Run, Migrate
<1>3. ASSUME NEW p \in Processes, Request(p) \/ Signal(p) \/ Abort(p) PROVE Inv'
  BY <1>3, HandlerStep, SignalStep, AbortStep
<1> QED BY <1>1, <1>2, <1>3 DEF Next

\* The invariant holds throughout.
LEMMA InvHolds == Spec => []Inv
BY InitInv, NextInv, PTL DEF Spec

-----------------------------------------------------------------------------
(* Races *)

\* The statements left to do add objects that differ from each other and from
\* what the transaction has added.
FreshTodo(p) ==
    pc[p] = "sql" =>
        /\ \A i, j \in DOMAIN todo[p] : i # j => todo[p][i].adds # todo[p][j].adds
        /\ tx[p].tables \cap Objects(todo[p]) = {}

TodoInv == \A p \in Processes : FreshTodo(p)

\* The begin of a migration, and a statement that does not fail, leave the rest
\* of the statements fresh.
LEMMA FreshBegin ==
    ASSUME Inv, NEW p \in Processes, MigrationApplied(p)
    PROVE  FreshTodo(p)'
<1> SUFFICES ASSUME pc'[p] = "sql" PROVE FreshTodo(p)'
  BY DEF FreshTodo
<1> DEFINE b == opened[p]
           m == Migrations[b][version[p]]
<1>1. pc[p] = "check" /\ tx' = tx
  BY DEF MigrationApplied
<1>2. pc[p] \in MigrationSteps
  BY <1>1 DEF MigrationSteps
<1>3. TypeOK /\ ProcessInv(p) /\ b \in Backends /\ version[p] \in Versions(b)
  BY <1>2, MigratingFact
<1>4. version[p] \notin ledger[b]
  <2>1. CASE version[p] \in ledger[b]
    <3>1. Advance(p) \/ pc' = [pc EXCEPT ![p] = "commit"]
      BY <2>1 DEF MigrationApplied, Goto
    <3>2. \E step \in {"pruneMessages", "check", "lock", "commit"} :
            pc' = [pc EXCEPT ![p] = step]
      BY <3>1 DEF Advance, Goto
    <3> QED BY <1>3, <3>2 DEF TypeOK
  <2> QED BY <2>1
<1>5. todo'[p] = m
  BY <1>3, <1>4 DEF MigrationApplied, TypeOK
<1>6. /\ \A i, j \in DOMAIN m : i # j => m[i].adds # m[j].adds
      /\ LedgerTable \notin Objects(m)
  BY <1>3, MigrationsAssumption
<1>7. tx[p].tables \subseteq {LedgerTable}
  BY <1>1, <1>3 DEF ProcessInv, TxInv
<1> HIDE DEF m
<1> QED BY <1>1, <1>5, <1>6, <1>7 DEF FreshTodo

\* See FreshBegin.
LEMMA FreshStatement ==
    ASSUME Inv, NEW p \in Processes, FreshTodo(p), Statement(p)
    PROVE  FreshTodo(p)'
<1> SUFFICES ASSUME pc'[p] = "sql" PROVE FreshTodo(p)'
  BY DEF FreshTodo
<1> DEFINE s == todo[p]
<1>1. pc[p] = "sql" /\ TypeOK /\ ProcessInv(p)
  BY DEF Statement, Inv
<1>2. s \in Seq(Statements) /\ s # <<>> /\ tx[p] \in [tables : SUBSET STRING, ledger : SUBSET Nat]
  BY <1>1 DEF ProcessInv, WorkInv, TypeOK, Statements
<1>3. /\ todo' = [todo EXCEPT ![p] = Tail(s)]
      /\ tx' = tx \/ tx' = [tx EXCEPT ![p].tables = @ \cup {Head(s).adds}]
  <2>1. ~Exit(p, "race")
    BY <1>1 DEF Exit, Goto, TypeOK
  <2> QED BY <2>1 DEF Statement
<1>4. todo'[p] = Tail(s) /\ tx'[p].tables \subseteq tx[p].tables \cup {Head(s).adds}
  BY <1>1, <1>2, <1>3 DEF TypeOK
<1>5. /\ \A i, j \in DOMAIN s : i # j => s[i].adds # s[j].adds
      /\ tx[p].tables \cap Objects(s) = {}
  BY <1>1 DEF FreshTodo
<1>6. /\ Objects(s) = {Head(s).adds} \cup Objects(Tail(s))
      /\ \A i \in DOMAIN Tail(s) : i + 1 \in DOMAIN s /\ Tail(s)[i] = s[i + 1]
      /\ 1 \in DOMAIN s /\ Head(s) = s[1]
  BY <1>2, TailObjects, Zenon
<1> DEFINE t == Tail(s)
<1>7. \A i \in DOMAIN t : i \in Nat /\ i + 1 \in DOMAIN s /\ t[i] = s[i + 1] /\ i # 0
  <2>1. \A i \in DOMAIN t : i \in Nat /\ i # 0
    <3>1. t \in Seq(Statements)
      BY <1>2
    <3> HIDE DEF t
    <3> QED BY <3>1
  <2> QED BY <1>6, <2>1, Zenon
<1> HIDE DEF s, t
<1>8. \A i, j \in DOMAIN t : i # j => t[i].adds # t[j].adds
  <2> SUFFICES ASSUME NEW i \in DOMAIN t, NEW j \in DOMAIN t, i # j
               PROVE  t[i].adds # t[j].adds
    OBVIOUS
  <2>1. i + 1 # j + 1
    BY <1>7
  <2> QED BY <1>5, <1>7, <2>1
<1>9. \A i \in DOMAIN t : t[i].adds # Head(s).adds
  <2> SUFFICES ASSUME NEW i \in DOMAIN t PROVE t[i].adds # Head(s).adds
    OBVIOUS
  <2>1. i + 1 # 1
    BY <1>7
  <2> QED BY <1>5, <1>6, <1>7, <2>1
<1>10. Head(s).adds \notin Objects(t) /\ Objects(t) \subseteq Objects(s)
  BY <1>6, <1>9 DEF Objects, t
<1>11. tx'[p].tables \cap Objects(t) = {}
  BY <1>4, <1>5, <1>10
<1> QED BY <1>4, <1>8, <1>11 DEF FreshTodo, t

\* Where the steps before serving lead.
LEMMA InitStepsFact ==
    ASSUME NEW step \in DOMAIN InitSteps
    PROVE  InitSteps[step] \in {"pruneAudit", "broker", "listen", "serving"}
<1>1. step \in {"pruneMessages", "pruneAudit", "broker", "listen"}
  BY DEF InitSteps
<1> QED BY ONLY <1>1 DEF InitSteps

\* No other step brings a process to a statement or writes into its transaction
\* there.
LEMMA StatementsKept ==
    ASSUME TypeOK, NEW p \in Processes, NEW q \in Processes,
           Run(p) \/ Request(p) \/ Signal(p) \/ Abort(p),
           q = p => ~MigrationApplied(p) /\ ~Statement(p)
    PROVE  \/ pc'[q] # "sql"
           \/ pc'[q] = pc[q] /\ todo'[q] = todo[q] /\ tx'[q] = tx[q]
<1> USE DEF TypeOK
<1>1. ASSUME \E why : Exit(p, why)
      PROVE  pc'[q] # "sql" \/ (pc'[q] = pc[q] /\ todo'[q] = todo[q] /\ tx'[q] = tx[q])
  <2>1. CASE q = p
    <3>1. pc'[q] = "exited"
      BY <1>1, <2>1 DEF Exit, Goto
    <3> QED BY <3>1
  <2>2. CASE q # p
    BY <1>1, <2>2 DEF Exit, Goto
  <2> QED BY <2>1, <2>2
<1>2. CASE Start(p) \/ OpenRepository(p) \/ Initialize(p) \/ ServerShutdown(p) \/ Abort(p)
  <2>1. CASE \E why : Exit(p, why)
    BY <1>1, <2>1
  <2>2. CASE ~\E why : Exit(p, why)
    <3>1. CASE Initialize(p)
      <4>1. /\ pc[p] \in DOMAIN InitSteps /\ pc' = [pc EXCEPT ![p] = InitSteps[pc[p]]]
            /\ todo' = todo /\ tx' = tx
        BY <2>2, <3>1 DEF Initialize, Goto
      <4>2. InitSteps[pc[p]] # "sql"
        BY <4>1, InitStepsFact
      <4> QED BY <4>1, <4>2
    <3>2. CASE ~Initialize(p)
      BY <1>2, <2>2, <3>2 DEF Start, OpenRepository, ServerShutdown, Abort, Goto
    <3> QED BY <3>1, <3>2
  <2> QED BY <2>1, <2>2
<1>3. CASE AdvisoryLock(p) \/ CreateLedger(p) \/ InsertVersion(p)
  <2>1. CASE AdvisoryLock(p) \/ CreateLedger(p)
    BY <2>1 DEF AdvisoryLock, CreateLedger, Goto
  <2>2. CASE InsertVersion(p)
    BY <1>1, <2>2 DEF InsertVersion, Goto
  <2> QED BY <1>3, <2>1, <2>2
<1>4. CASE Commit(p)
  <2>1. todo' = todo /\ tx' = [tx EXCEPT ![p] = NoTx]
    BY <1>4 DEF Commit
  <2>2. \E step \in {"pruneMessages", "check", "lock"} : pc' = [pc EXCEPT ![p] = step]
    BY <1>4 DEF Commit, Advance, Goto
  <2> QED BY <2>1, <2>2
<1>5. CASE Respond(p) \/ Request(p) \/ Signal(p) \/ HubShutdown(p) \/ Close(p)
  BY <1>5 DEF Respond, Request, Signal, HubShutdown, Close, Goto
<1>6. CASE q # p /\ MigrationApplied(p)
  BY <1>6 DEF MigrationApplied, Advance, Goto
<1>7. CASE q # p /\ Statement(p)
  BY <1>1, <1>7 DEF Statement, Goto
<1> QED BY <1>2, <1>3, <1>4, <1>5, <1>6, <1>7 DEF Run, Migrate

\* So the statements left to do stay fresh.
LEMMA TodoInvHolds == Spec => []TodoInv
<1>1. Init => TodoInv
  BY DEF Init, TodoInv, FreshTodo
<1>2. Inv /\ TodoInv /\ [Next]_vars => TodoInv'
  <2> SUFFICES ASSUME Inv, TodoInv, [Next]_vars, NEW q \in Processes
               PROVE  FreshTodo(q)'
    BY DEF TodoInv
  <2>1. FreshTodo(q) /\ TypeOK
    BY DEF TodoInv, Inv
  <2>2. CASE UNCHANGED vars
    BY <2>1, <2>2 DEF vars, FreshTodo
  <2>3. ASSUME NEW p \in Processes, Run(p) \/ Request(p) \/ Signal(p) \/ Abort(p)
        PROVE  FreshTodo(q)'
    <3>1. CASE q = p /\ (MigrationApplied(p) \/ Statement(p))
      BY <2>1, <3>1, FreshBegin, FreshStatement
    <3>2. CASE ~(q = p /\ (MigrationApplied(p) \/ Statement(p)))
      <4>1. pc'[q] # "sql" \/ (pc'[q] = pc[q] /\ todo'[q] = todo[q] /\ tx'[q] = tx[q])
        <5>1. q = p => ~MigrationApplied(p) /\ ~Statement(p)
          BY <3>2
        <5> QED BY <2>1, <2>3, <5>1, StatementsKept
      <4> QED BY <2>1, <4>1 DEF FreshTodo
    <3> QED BY <3>1, <3>2
  <2> QED BY <2>2, <2>3 DEF Next
<1> QED BY <1>1, <1>2, InvHolds, PTL DEF Spec

\* What a failing step of a migration ran into was committed by another process.
LEMMA LostRace ==
    ASSUME Inv, TodoInv, NEW p \in Processes, Statement(p) \/ InsertVersion(p),
           Exit(p, "race")
    PROVE  version[p] \in ledger[opened[p]]
<1>1. CASE InsertVersion(p)
  <2>1. TypeOK
    BY DEF Inv
  <2>2. pc'[p] # "commit"
    BY <2>1 DEF Exit, Goto, TypeOK
  <2> QED BY <1>1, <2>1, <2>2 DEF InsertVersion, Goto, TypeOK
<1>2. CASE Statement(p)
  <2> DEFINE b == opened[p]
             s == todo[p]
  <2>1. pc[p] = "sql" /\ TypeOK /\ ProcessInv(p) /\ FreshTodo(p)
    BY <1>2 DEF Statement, Inv, TodoInv
  <2>2. pc[p] \in MigrationSteps
    BY <2>1 DEF MigrationSteps
  <2>3. s \in Seq(Statements) /\ s # <<>> /\ Objects(s) \subseteq Current(p)
    BY <2>1 DEF ProcessInv, WorkInv, TypeOK, Statements
  <2>4. Head(s).adds \in tables[b] \cup tx[p].tables
    <3>1. pc'[p] = "exited"
      BY <2>1 DEF Exit, Goto, TypeOK
    <3> QED BY <1>2, <2>1, <3>1 DEF Statement, Goto, TypeOK
  <2>5. Head(s).adds \in Objects(s)
    BY <2>3, TailObjects, Zenon
  <2>6. Head(s).adds \in tables[b] /\ Head(s).adds \in Current(p)
    BY <2>1, <2>3, <2>4, <2>5 DEF FreshTodo
  <2> QED BY <2>2, <2>6, CurrentFact
<1> QED BY <1>1, <1>2

\* Only these two steps end a process with this cause.
LEMMA RaceStep ==
    ASSUME Inv, TodoInv, [Next]_vars
    PROVE  [\A p \in Processes :
              pc[p] # "exited" /\ pc'[p] = "exited" /\ cause'[p] = "race"
                  => version[p] \in ledger[opened[p]]]_vars
<1> SUFFICES ASSUME Next, NEW p \in Processes,
                    pc[p] # "exited", pc'[p] = "exited", cause'[p] = "race"
             PROVE  version[p] \in ledger[opened[p]]
  OBVIOUS
<1>1. TypeOK
  BY DEF Inv
<1>2. PICK q \in Processes : Run(q) \/ Request(q) \/ Signal(q) \/ Abort(q)
  BY DEF Next
<1>3. \/ \E why : Exit(q, why)
      \/ pc' = pc
      \/ \E step : step # "exited" /\ pc' = [pc EXCEPT ![q] = step]
  <2>1. CASE Start(q) \/ OpenRepository(q) \/ ServerShutdown(q) \/ Abort(q)
    BY <2>1 DEF Start, OpenRepository, ServerShutdown, Abort, Goto
  <2>2. CASE Initialize(q)
    <3>1. \/ Exit(q, "config")
          \/ pc[q] \in DOMAIN InitSteps /\ pc' = [pc EXCEPT ![q] = InitSteps[pc[q]]]
      BY <2>2 DEF Initialize, Goto
    <3>2. pc[q] \in DOMAIN InitSteps => InitSteps[pc[q]] # "exited"
      BY InitStepsFact
    <3> QED BY <3>1, <3>2
  <2>3. CASE AdvisoryLock(q) \/ CreateLedger(q)
    BY <2>3 DEF AdvisoryLock, CreateLedger, Goto
  <2>4. CASE MigrationApplied(q) \/ Commit(q)
    BY <2>4 DEF MigrationApplied, Commit, Advance, Goto
  <2>5. CASE Statement(q) \/ InsertVersion(q)
    BY <2>5 DEF Statement, InsertVersion, Goto
  <2>6. CASE Respond(q) \/ Request(q) \/ Signal(q) \/ HubShutdown(q) \/ Close(q)
    BY <2>6 DEF Respond, Request, Signal, HubShutdown, Close, Goto
  <2> QED BY <1>2, <2>1, <2>2, <2>3, <2>4, <2>5, <2>6 DEF Run, Migrate
<1>4. q = p /\ \E why : Exit(q, why)
  BY <1>1, <1>3 DEF TypeOK, Exit, Goto
<1>5. PICK why : Exit(p, why)
  BY <1>4
<1>6. why = "race"
  BY <1>1, <1>5 DEF TypeOK, Exit
<1>7. Statement(p) \/ InsertVersion(p)
  <2>1. cause'[p] = "race" /\ pc'[p] = "exited"
    OBVIOUS
  <2>2. ~Start(p) /\ ~OpenRepository(p) /\ ~ServerShutdown(p) /\ ~Abort(p) /\ ~Initialize(p)
    <3>1. \A w \in {"config", "shutdown", "fault"} : ~Exit(p, w)
      BY <1>1, <2>1 DEF TypeOK, Exit
    <3>2. ~Initialize(p)
      BY <1>1, <2>1, <3>1 DEF TypeOK, Initialize
    <3>3. ~Start(p) /\ ~OpenRepository(p)
      BY <1>1, <2>1, <3>1 DEF TypeOK, Start, OpenRepository, Goto
    <3>4. ~ServerShutdown(p) /\ ~Abort(p)
      BY <1>1, <2>1, <3>1 DEF TypeOK, ServerShutdown, Abort, Goto
    <3> QED BY <3>2, <3>3, <3>4
  <2>3. ~AdvisoryLock(p) /\ ~CreateLedger(p) /\ ~MigrationApplied(p) /\ ~Commit(p)
    BY <1>1, <2>1 DEF TypeOK, AdvisoryLock, CreateLedger, MigrationApplied, Commit, Advance, Goto
  <2>4. ~Respond(p) /\ ~Request(p) /\ ~Signal(p) /\ ~HubShutdown(p) /\ ~Close(p)
    BY <1>1, <2>1 DEF TypeOK, Respond, Request, Signal, HubShutdown, Close, Goto
  <2> QED BY <1>2, <1>4, <2>2, <2>3, <2>4 DEF Run, Migrate
<1> QED BY <1>5, <1>6, <1>7, LostRace

-----------------------------------------------------------------------------
(* The theorems *)

\* The types of main() and of the store hold, for any processes.
THEOREM StartupTypes == Spec => []TypeOK
<1>1. Inv => TypeOK
  BY DEF Inv
<1> QED BY <1>1, InvHolds, PTL

\* However many processes race through any list of migrations and wherever
\* they die, the ledger and the schema agree (applyMigration).
THEOREM StartupLedger == Spec => []LedgerMatchesSchema
<1>1. Inv => LedgerMatchesSchema
  BY DEF Inv
<1> QED BY <1>1, InvHolds, PTL

\* No process serves before all migrations are committed.
THEOREM StartupSchema == Spec => []ServingHasFullSchema
<1>1. Inv => ServingHasFullSchema
  BY DEF Inv, ProcessInv, VersionInv, ServingHasFullSchema
<1> QED BY <1>1, InvHolds, PTL

\* The advisory lock lets any number of processes start together on Postgres.
THEOREM StartupTogether == Spec => []PostgresStartsTogether
<1>1. Inv => PostgresStartsTogether
  BY DEF Inv, ProcessInv, CauseInv, PostgresStartsTogether
<1> QED BY <1>1, InvHolds, PTL

\* A start fails in a race only when the migration it was at is in the ledger.
THEOREM StartupRace == Spec => RaceIsLost
<1>1. Inv /\ TodoInv /\ [Next]_vars =>
        [\A p \in Processes :
           pc[p] # "exited" /\ pc'[p] = "exited" /\ cause'[p] = "race"
               => version[p] \in ledger[opened[p]]]_vars
  BY RaceStep
<1> QED BY <1>1, InvHolds, TodoInvHolds, PTL DEF Spec, RaceIsLost

\* The repository is open while a handler runs.
THEOREM StartupRequests == Spec => []RepositoryOutlivesRequests
<1>1. ASSUME Inv, NEW p \in Processes, requests[p] > 0 PROVE opened[p] # None
  <2>1. requests[p] # 0
    BY <1>1 DEF Inv, TypeOK
  <2>2. pc[p] \in Migrated
    BY <1>1, <2>1 DEF Inv, ProcessInv, RequestInv, Migrated
  <2> QED BY <1>1, <2>2, StartupAssumption DEF Inv, ProcessInv, OpenedInv
<1>2. Inv => RepositoryOutlivesRequests
  BY <1>1 DEF RepositoryOutlivesRequests
<1> QED BY <1>2, InvHolds, PTL
=============================================================================
