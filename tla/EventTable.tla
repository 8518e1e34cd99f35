----------------------------- MODULE EventTable -----------------------------
(***************************************************************************)
(* The table events of the SQLite store (src/store/sqlite.rs): processes   *)
(* that open the file, one of them perhaps adding the column ts_millis to  *)
(* a file of an older version; the append of an event, whose time is read  *)
(* before the connection's mutex is taken; and what a later load returns.  *)
(* Rows are text: see EventCodec.                                          *)
(***************************************************************************)
EXTENDS EventCodec

CONSTANTS
    Clients,        \* threads, each with a store of its own on the same file
    Appendable,     \* the events they append
    MaxEvents,      \* bound on the rows
    MaxMillis       \* bound on the clock

ASSUME TableAssumption ==
    /\ \A e \in Appendable : IsEvent(e)
    /\ MaxEvents \in Nat /\ MaxMillis \in Nat

VARIABLES
    schema,     \* of the table: "none", "old" without ts_millis, or "new"
    events,     \* its rows in the order of their ids
    conn,       \* conn[c]: how far SqliteStore::new has come, or "failed"
    pending,    \* pending[c]: the append under way, or NoAppend
    millis,     \* the clock, in milliseconds since the epoch
    appended    \* the appends that have returned, in the order of the ids:
                \* there for properties to speak of

table == <<schema, events, conn, pending, millis, appended>>

NoAppend == [event |-> Malformed, ts |-> 0, after |-> 0]

Row(e, ts) == [workflow |-> WorkflowOf(e), payload |-> Encode(e), ts |-> ts]

\* A new file, or one of a version before ts_millis with an event in it.  The column
\* is DEFAULT 0, so that such a row reads as one with time 0.
TableInit ==
    /\ schema \in {"none", "old"}
    /\ \/ events = <<>> /\ appended = <<>>
       \/ /\ schema = "old"
          /\ \E e \in Appendable : /\ events = <<Row(e, 0)>>
                                   /\ appended = <<[event |-> e, ts |-> 0, after |-> 0]>>
    /\ conn = [c \in Clients |-> "closed"]
    /\ pending = [c \in Clients |-> NoAppend]
    /\ millis = 1

(***************************************************************************)
(* SqliteStore::new                                                        *)
(***************************************************************************)

SetConn(c, st) == conn' = [conn EXCEPT ![c] = st]

\* CREATE TABLE IF NOT EXISTS.  An open that failed may be tried again.
CreateTables(c) ==
    /\ conn[c] \in {"closed", "failed"}
    /\ schema' = IF schema = "none" THEN "new" ELSE schema
    /\ SetConn(c, "inspect")
    /\ UNCHANGED <<events, pending, millis, appended>>

\* Slip: the schema of an existing table is taken to be the new one.
Inspect_Trusts(c) ==
    /\ conn[c] = "inspect"
    /\ SetConn(c, "open")
    /\ UNCHANGED <<schema, events, pending, millis, appended>>

\* PRAGMA table_info
Inspect(c) ==
    /\ conn[c] = "inspect"
    /\ SetConn(c, IF schema = "new" THEN "open" ELSE "alter")
    /\ UNCHANGED <<schema, events, pending, millis, appended>>

\* Slip: the table is made anew, and its rows are gone.
AddColumn_Recreates(c) ==
    /\ conn[c] = "alter"
    /\ schema' = "new" /\ events' = <<>> /\ SetConn(c, "open")
    /\ UNCHANGED <<pending, millis, appended>>

\* ALTER TABLE .. ADD COLUMN, which is an error when the column has come meanwhile.
AddColumn(c) ==
    /\ conn[c] = "alter"
    /\ schema' = "new"
    /\ SetConn(c, IF schema = "new" THEN "failed" ELSE "open")
    /\ UNCHANGED <<events, pending, millis, appended>>

(***************************************************************************)
(* append_event and load_events                                            *)
(***************************************************************************)

\* Slip: the milliseconds are cut to a narrower integer.
Now_Narrow == millis % 2

Now == millis

InFlight == {c \in Clients : pending[c] # NoAppend}

\* The text and the time of the row are made before lock_conn.
Prepare(c, e) ==
    /\ conn[c] = "open" /\ pending[c] = NoAppend
    /\ Len(events) + Cardinality(InFlight) < MaxEvents
    /\ pending' = [pending EXCEPT ![c] = [event |-> e, ts |-> Now, after |-> Len(events)]]
    /\ UNCHANGED <<schema, events, conn, millis, appended>>

\* INSERT and commit, under the mutex.
Insert(c) ==
    /\ pending[c] # NoAppend
    /\ events' = Append(events, Row(pending[c].event, pending[c].ts))
    /\ appended' = Append(appended, pending[c])
    /\ pending' = [pending EXCEPT ![c] = NoAppend]
    /\ UNCHANGED <<schema, conn, millis>>

\* The store is dropped, or its process dies, between any two of these steps.
Close(c) ==
    /\ conn[c] # "closed"
    /\ SetConn(c, "closed")
    /\ pending' = [pending EXCEPT ![c] = NoAppend]
    /\ UNCHANGED <<schema, events, millis, appended>>

\* ORDER BY id
InOrder(ids) ==
    CHOOSE f \in [1..Cardinality(ids) -> ids] :
        \A i, j \in DOMAIN f : i < j => f[i] < f[j]

\* load_events_with_timestamps: SELECT .. WHERE workflow_id = ? ORDER BY id.
LoadEventsWithTimestamps(workflow) ==
    LET ids == InOrder({i \in DOMAIN events : events[i].workflow = workflow})
    IN  [k \in DOMAIN ids |-> [event |-> Decode(events[ids[k]].payload),
                               ts    |-> events[ids[k]].ts]]

\* The wall clock; it is taken not to step back.
MillisPass ==
    /\ millis < MaxMillis
    /\ millis' = millis + 1
    /\ UNCHANGED <<schema, events, conn, pending, appended>>

TableNext ==
    \/ \E c \in Clients : CreateTables(c)
    \/ \E c \in Clients : Inspect(c)
    \/ \E c \in Clients : AddColumn(c)
    \/ \E c \in Clients, e \in Appendable : Prepare(c, e)
    \/ \E c \in Clients : Insert(c)
    \/ \E c \in Clients : Close(c)
    \/ MillisPass

TableSpec == TableInit /\ [][TableNext]_table

(***************************************************************************)
(* Properties                                                              *)
(***************************************************************************)

\* A load gives back the events that were appended for the workflow, in their order
\* and character by character, from before a migration as from after it
\* (sqlite.rs:49-138, 524-755).
LoadReturnsAppended ==
    \A w \in {WorkflowOf(e) : e \in Appendable} :
        LET mine == InOrder({i \in DOMAIN appended : WorkflowOf(appended[i].event) = w})
        IN  LoadEventsWithTimestamps(w) =
                [k \in DOMAIN mine |-> [event |-> appended[mine[k]].event,
                                        ts    |-> appended[mine[k]].ts]]

\* Nobody uses the table without the column, and whoever loses the race to add it
\* finds it when the open is tried again (sqlite.rs:71-94).
OpenMeansMigrated ==
    \A c \in Clients : conn[c] \in {"open", "failed"} => schema = "new"

\* Times follow the ids for appends that do not overlap: an append that began after
\* another had returned has no smaller time.  Nothing more holds, since the time is
\* read before the mutex is taken (sqlite.rs:107-111).
StampsFollowReturns ==
    \A i, j \in DOMAIN events :
        i <= appended[j].after => events[i].ts <= events[j].ts
=============================================================================
