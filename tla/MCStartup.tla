----------------------------- MODULE MCStartup -----------------------------
(* Startup with the migrations of the code, for TLC. *)
EXTENDS Startup, Schema

MCMigrations == [sqlite |-> sqliteMigrations, postgres |-> postgresMigrations]

\* A new store, one of a release before rooms, an up-to-date one.
MCAppliedBefore == {[b \in Backends |-> n] : n \in {0, 4, 6}}

Defaults ==
    [storage |-> Unset, dsn |-> FALSE, minConns |-> Unset, maxConns |-> Unset,
     redis |-> Unset, authMode |-> Unset, ttl |-> Unset, users |-> FALSE,
     origins |-> FALSE, messageDays |-> Unset, auditDays |-> Garbage,
     tracing |-> Unset]

Postgres ==
    [Defaults EXCEPT !.storage = "postgres", !.dsn = TRUE, !.maxConns = 4,
                     !.redis = "redis", !.authMode = "session", !.ttl = 30,
                     !.users = TRUE, !.origins = TRUE, !.messageDays = 30]

\* Two that start, and five that must not: an unsupported backend, a pool bound
\* or a session lifetime that does not parse, a malformed tracing switch, a
\* Redis URL that does not parse.
MCEnvironments ==
    {Defaults, Postgres,
     [Postgres EXCEPT !.maxConns = Garbage],
     [Postgres EXCEPT !.storage = "mysql"],
     [Postgres EXCEPT !.ttl = Garbage],
     [Defaults EXCEPT !.redis = Garbage],
     [Defaults EXCEPT !.tracing = Garbage]}
=============================================================================
