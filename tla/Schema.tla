------------------------------- MODULE Schema -------------------------------
(***************************************************************************)
(* The two lists of migrations (db/database.go and db/postgres.go).  A     *)
(* migration is the sequence of the statements of its SQL text, a          *)
(* statement the schema object it adds and whether it says IF NOT EXISTS:  *)
(* such a statement does nothing when the object is there, the other kind  *)
(* fails.                                                                  *)
(***************************************************************************)
LOCAL Ensure(object) == [adds |-> object, ifNotExists |-> TRUE]
LOCAL Add(object) == [adds |-> object, ifNotExists |-> FALSE]

\* SQLite has no ADD COLUMN IF NOT EXISTS, so migrations 5 and 6 say ADD COLUMN.
sqliteMigrations ==
    << << Ensure("messages") >>,
       << Ensure("moderation_audit_log"),
          Ensure("idx_moderation_audit_log_timestamp") >>,
       << Ensure("idx_messages_timestamp") >>,
       << Ensure("idx_moderation_audit_log_julianday_timestamp") >>,
       << Add("messages.room"), Ensure("idx_messages_room_timestamp") >>,
       << Add("messages.user_id"), Add("moderation_audit_log.user_id"),
          Ensure("idx_messages_user_id_timestamp") >> >>

postgresMigrations ==
    << << Ensure("messages") >>,
       << Ensure("moderation_audit_log") >>,
       << Ensure("idx_messages_timestamp") >>,
       << Ensure("idx_moderation_audit_log_timestamp") >>,
       << Ensure("messages.room"), Ensure("idx_messages_room_timestamp") >>,
       << Ensure("messages.user_id"), Ensure("moderation_audit_log.user_id"),
          Ensure("idx_messages_user_id_timestamp") >> >>
=============================================================================
