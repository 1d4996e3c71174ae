------------------------------ MODULE History ------------------------------
(***************************************************************************)
(* The durable history of the rooms: rows of the table messages            *)
(* (db/database.go, db/postgres.go), the pages GET /api/messages serves    *)
(* (server.go) and the cursors between them (history_cursor.go).           *)
(*                                                                         *)
(* A row is ordered by its timestamp and, between equal timestamps, by its *)
(* id.  The two disagree: the timestamp is taken when a save begins (by    *)
(* the process for SQLite, at the start of the transaction for Postgres),  *)
(* the id when the row is inserted, and the row is visible when the insert *)
(* has committed.                                                          *)
(***************************************************************************)
EXTENDS Naturals, Sequences, FiniteSets

CONSTANTS
    Rooms,
    Writers,    \* read loops that may be saving a message at the same time
    PageSize,   \* rows of a page, and of the replay to a new socket (50)
    Grain,      \* clock ticks the order does not tell apart: julianday() is
                \* good to a millisecond, a Postgres timestamp is exact (1)
    Histories,  \* the tables a behaviour may start from, and the rows (id 0)
    LateRows,   \* whose save may then be under way since long ago
    MaxRows,    \* bound: rows of such a table and messages saved later
    MaxTime,    \* bound: the clock
    None

Row == [room : Rooms, ts : 0..MaxTime, id : 0..MaxRows]

ASSUME HistoryAssumption ==
    /\ PageSize \in Nat \ {0} /\ Grain \in Nat \ {0}
    /\ MaxRows \in Nat /\ MaxTime \in Nat
    /\ IsFiniteSet(Writers) /\ None \notin Row
    /\ \A S \in Histories :
         /\ S \subseteq Row /\ IsFiniteSet(S)
         /\ {r.id : r \in S} = 1..Cardinality(S)
         /\ Cardinality(S) + Cardinality(Writers) <= MaxRows
    /\ \A r \in LateRows : r \in Row /\ r.id = 0

VARIABLES
    rows,       \* committed rows of messages
    saving,     \* writer -> the row it is saving (id 0: not yet inserted)
    unsent,     \* committed rows the hub has not broadcast yet
    lastID,     \* the last id given out
    now         \* the clock

historyVars == <<rows, saving, unsent, lastID, now>>

\* ORDER BY timestamp, id.
Before(a, b) ==
    \/ a.ts \div Grain < b.ts \div Grain
    \/ a.ts \div Grain = b.ts \div Grain /\ a.id < b.id

Sorted(S) ==
    [i \in 1..Cardinality(S) |->
        CHOOSE r \in S : Cardinality({q \in S : Before(q, r)}) = i - 1]

\* ORDER BY ... DESC LIMIT n, put back into chronological order.
Newest(S, n) == Sorted({r \in S : Cardinality({q \in S : Before(r, q)}) < n})

GetRecentMessages(room, limit) == Newest({r \in rows : r.room = room}, limit)

\* Mutant: the cursor of a page is compared by its timestamp alone.
GetMessagesBeforeTimestamp(room, cursor, limit) ==
    Newest({r \in rows : r.room = room /\ r.ts \div Grain < cursor.ts \div Grain},
           limit)

GetMessagesBefore(room, cursor, limit) ==
    Newest({r \in rows : r.room = room /\ Before(r, cursor)}, limit)

\* A cursor is the room, the timestamp and the id of a row.
encodeHistoryCursor(room, m) == [room |-> room, ts |-> m.ts, id |-> m.id]

\* A cursor of another room, or of no row, is refused.
decodeHistoryCursor(cursor, room) == cursor.id >= 1 /\ cursor.room = room

\* Mutant: the extra row is sent along.
messagesHandlerUncut(room, before) ==
    LET fetched == IF before = None
                     THEN GetRecentMessages(room, PageSize + 1)
                     ELSE GetMessagesBefore(room, before, PageSize + 1)
    IN [messages |-> fetched,
        nextCursor |-> IF Len(fetched) > PageSize
                         THEN encodeHistoryCursor(room, fetched[1]) ELSE None]

\* messagesHandler: one row more than asked for tells whether there are more,
\* and the cursor is the oldest row of a page that is not the last.
messagesHandler(room, before) ==
    LET fetched == IF before = None
                     THEN GetRecentMessages(room, PageSize + 1)
                     ELSE GetMessagesBefore(room, before, PageSize + 1)
        hasMore == Len(fetched) > PageSize
        messages == IF hasMore THEN Tail(fetched) ELSE fetched
    IN [messages |-> messages,
        nextCursor |-> IF hasMore THEN encodeHistoryCursor(room, messages[1]) ELSE None]

-----------------------------------------------------------------------------
(* Saving a message, in three steps *)

Saved == lastID + Cardinality({w \in Writers : saving[w] # None /\ saving[w].id = 0})

BeginSave(w, room) ==
    /\ saving[w] = None
    /\ Saved < MaxRows
    /\ saving' = [saving EXCEPT ![w] = [room |-> room, ts |-> now, id |-> 0]]
    /\ UNCHANGED <<rows, unsent, lastID, now>>

Insert(w) ==
    /\ saving[w] # None
    /\ saving[w].id = 0
    /\ lastID' = lastID + 1
    /\ saving' = [saving EXCEPT ![w].id = lastID']
    /\ UNCHANGED <<rows, unsent, now>>

CommitRow(w) ==
    /\ saving[w] # None
    /\ saving[w].id # 0
    /\ rows' = rows \cup {saving[w]}
    /\ unsent' = unsent \cup {saving[w]}
    /\ saving' = [saving EXCEPT ![w] = None]
    /\ UNCHANGED <<lastID, now>>

Tick ==
    /\ now < MaxTime
    /\ now' = now + 1
    /\ UNCHANGED <<rows, saving, unsent, lastID>>

PruneMessagesBefore(cutoff) ==
    rows' = {r \in rows : ~(r.ts \div Grain < cutoff \div Grain)}

\* The server restarts: what it held in memory is lost, and rows before the
\* cutoff of CHATSTER_MESSAGE_RETENTION_DAYS are deleted.
RestartServer(cutoff) ==
    /\ PruneMessagesBefore(cutoff)
    /\ saving' = [w \in Writers |-> None]
    /\ unsent' = {}
    /\ UNCHANGED <<lastID, now>>

HistoryInit ==
    /\ rows \in Histories
    /\ saving \in [Writers -> LateRows \cup {None}]
    /\ unsent = {}
    /\ lastID = Cardinality(rows)
    /\ now \in {r.ts : r \in rows}
    /\ \A r \in rows : r.ts <= now

HistoryNext ==
    \/ \E w \in Writers :
         (\E room \in Rooms : BeginSave(w, room)) \/ Insert(w) \/ CommitRow(w)
    \/ Tick

HistoryTypeOK ==
    /\ rows \in SUBSET Row
    /\ saving \in [Writers -> Row \cup {None}]
    /\ unsent \in SUBSET Row
    /\ lastID \in 0..MaxRows
    /\ now \in 0..MaxTime
=============================================================================
