------------------------------- MODULE Storage -------------------------------
(***************************************************************************)
(* The storage engine under concurrent connections: each connection runs   *)
(* one statement at a time (Connection::execute_statement, Executor),      *)
(* against InMemoryStorage directly or through its open Transaction.       *)
(*                                                                         *)
(* A step is what a task does between two points at which others can get   *)
(* in between: an await, or the release of the RwLock around the tables.   *)
(* Every write checks under the read lock, appends to the log, and applies *)
(* under the write lock.  The log is represented by the database that      *)
(* replaying it would rebuild: appending an entry applies it there.  An    *)
(* append is one step, at the point the record is durable (LogWriter).     *)
(***************************************************************************)
EXTENDS Tables

CONSTANTS Conns,       \* the connections
          Statements,  \* Statements[c]: what connection c may send
          InitialDb,   \* the database found at startup
          LogErrors,   \* what a failed append can leave in the log, a subset
                       \* of {"absent", "present"}
          MaxCrashes,  \* bound: crashes of the server
          MaxRows,     \* bound: rows per table, in memory or in the log, after
                       \* which no insert is sent
          MaxNext      \* bound: AUTO_INCREMENT value likewise

ASSUME StorageAssumption ==
    /\ LogErrors \subseteq {"absent", "present"}
    /\ MaxCrashes \in Nat
    /\ MaxRows \in Nat
    /\ MaxNext \in Nat

VARIABLES
    tables,    \* InMemoryStorage::tables
    databases, \* InMemoryStorage::databases
    durable,   \* the database a replay of the log rebuilds
    op,        \* the statement each connection executes, and how far it is
    tx,        \* Connection::transaction: is one open, and its pending rows
    held,      \* the tables whose write lock the connection holds
    reserved,  \* history: the values next_auto_increment has given out
    crashes    \* crashes so far

vars == <<tables, databases, durable, op, tx, held, reserved, crashes>>

UnknownType == <<"Unknown">>  \* a type that ColumnType::from_name has no name for
NoList == <<>>                \* an INSERT that names no columns
NoSchema == [columns |-> <<>>, primary_key |-> NoKey]
NoTx == [open |-> FALSE, pending |-> EmptyMap]
Idle == [stage |-> "ok", stmt |-> [op |-> "none"], schema |-> NoSchema,
         batch |-> EmptyMap, done |-> 0]

(* The last statement has been answered, with OK or with ERR. *)
Ready(c) == op[c].stage \in {"ok", "err"}

Stage(c, s) == op' = [op EXCEPT ![c].stage = s]

(* The statement is answered.  The autocommit guard, or the locks of a     *)
(* transaction that commit has consumed, are dropped.                      *)
Answer(c, result) ==
    /\ op' = [op EXCEPT ![c] = [@ EXCEPT !.stage = result, !.schema = NoSchema,
                                         !.batch = EmptyMap]]
    /\ held' = IF tx'[c].open THEN held ELSE [held EXCEPT ![c] = {}]

Live == [tables |-> tables, databases |-> databases]

-----------------------------------------------------------------------------
Init ==
    /\ tables = InitialDb.tables
    /\ databases = InitialDb.databases
    /\ durable = InitialDb
    /\ op = [c \in Conns |-> Idle]
    /\ tx = [c \in Conns |-> NoTx]
    /\ held = [c \in Conns |-> {}]
    /\ reserved = [t \in {} |-> {}]
    /\ crashes = 0

(* execute_statement: INSERT.  The table lock comes first, unless the open *)
(* transaction already has it (Transaction::ensure_locked).                *)
Insert(c, s) ==
    /\ Ready(c)
    /\ s.op = "insert"
    /\ \A ts \in {tables, durable.tables} : s.table \in DOMAIN ts =>
         Len(ts[s.table].rows) < MaxRows /\ ts[s.table].next < MaxNext
    /\ op' = [op EXCEPT ![c] = [Idle EXCEPT !.stmt = s,
                !.stage = IF s.table \in held[c] THEN "schema" ELSE "lock"]]
    /\ UNCHANGED <<tables, databases, durable, tx, held, reserved, crashes>>

(* column_def_to_schema: the type is known, and a primary key is NOT NULL. *)
KnownType(def) == def.type # UnknownType

ColumnDefToSchema(def) ==
    [name |-> def.name, type |-> def.type, nullable |-> ~ def.is_primary_key /\ def.nullable,
     auto_increment |-> def.auto_increment]

(* execute_create_table: at most one primary key and one AUTO_INCREMENT    *)
(* column, which is the key.                                               *)
KeyColumns(s) == {i \in DOMAIN s.columns : s.columns[i].is_primary_key}

CanDefine(s) ==
    LET autos == {i \in DOMAIN s.columns : s.columns[i].auto_increment}
    IN  /\ \A i \in DOMAIN s.columns : KnownType(s.columns[i])
        /\ Cardinality(KeyColumns(s)) <= 1
        /\ Cardinality(autos) <= 1
        /\ \A i \in autos, k \in KeyColumns(s) : s.columns[i].name = s.columns[k].name
        /\ autos # {} => KeyColumns(s) # {}

(* execute_alter_table: MODIFY COLUMN says nothing of the primary key. *)
CanChange(s) ==
    s.change.kind \in {"AddColumn", "ModifyColumn"} =>
        /\ KnownType(s.change.column)
        /\ s.change.kind = "ModifyColumn" => ~ s.change.column.is_primary_key

(* What create_table and alter_table are given. *)
Translated(s) ==
    CASE s.op = "createTable" ->
           [op |-> s.op, table |-> s.table,
            columns |-> [i \in DOMAIN s.columns |-> ColumnDefToSchema(s.columns[i])],
            primary_key |-> IF KeyColumns(s) = {} THEN NoKey
                            ELSE s.columns[CHOOSE i \in KeyColumns(s) : TRUE].name]
      [] s.op = "alterTable" ->
           [op |-> s.op, table |-> s.table,
            change |-> [kind |-> s.change.kind, column |-> ColumnDefToSchema(s.change.column),
                        is_primary_key |-> s.change.column.is_primary_key]]
      [] OTHER -> s

(* execute_statement: CREATE TABLE, ALTER TABLE, CREATE and DROP DATABASE  *)
(* go straight to the engine, whether a transaction is open or not.        *)
Define(c, s) ==
    /\ Ready(c)
    /\ s.op \in {"createTable", "alterTable", "createDatabase", "dropDatabase"}
    /\ op' = [op EXCEPT ![c] = [Idle EXCEPT !.stmt = Translated(s),
                !.stage = IF /\ s.op = "createTable" => CanDefine(s)
                             /\ s.op = "alterTable" => CanChange(s)
                            THEN "check" ELSE "err"]]
    /\ UNCHANGED <<tables, databases, durable, tx, held, reserved, crashes>>

(* begin_transaction and commit_transaction: the open transaction, if any, *)
(* is taken and its rows go to insert_rows, which has nothing to do if     *)
(* there are none.                                                         *)
EndByCommit(c, s) ==
    /\ Ready(c)
    /\ s.op \in {"begin", "commit"}
    /\ IF tx[c].pending # EmptyMap
         THEN /\ op' = [op EXCEPT ![c] = [Idle EXCEPT !.stmt = s, !.stage = "check",
                                                      !.batch = tx[c].pending]]
              /\ tx' = [tx EXCEPT ![c] = NoTx]
              /\ UNCHANGED held
         ELSE /\ op' = [op EXCEPT ![c] = [Idle EXCEPT !.stmt = s]]
              /\ tx' = [tx EXCEPT ![c] = [NoTx EXCEPT !.open = s.op = "begin"]]
              /\ held' = [held EXCEPT ![c] = {}]
    /\ UNCHANGED <<tables, databases, durable, reserved, crashes>>

(* Mutant: the locks of the transaction are kept. *)
RollbackKeepingLocks(c, s) ==
    /\ Ready(c)
    /\ s.op = "rollback"
    /\ op' = [op EXCEPT ![c] = [Idle EXCEPT !.stmt = s]]
    /\ tx' = [tx EXCEPT ![c] = NoTx]
    /\ UNCHANGED <<tables, databases, durable, held, reserved, crashes>>

(* rollback_transaction, and what closing the connection does: the         *)
(* transaction is dropped with its rows and locks.                         *)
Rollback(c, s) ==
    /\ Ready(c)
    /\ s.op = "rollback"
    /\ op' = [op EXCEPT ![c] = [Idle EXCEPT !.stmt = s]]
    /\ tx' = [tx EXCEPT ![c] = NoTx]
    /\ held' = [held EXCEPT ![c] = {}]
    /\ UNCHANGED <<tables, databases, durable, reserved, crashes>>

-----------------------------------------------------------------------------
(* Mutant: the lock is taken whoever has it. *)
LockTableShared(c) ==
    /\ op[c].stage = "lock"
    /\ held' = [held EXCEPT ![c] = @ \cup {op[c].stmt.table}]
    /\ Stage(c, "schema")
    /\ UNCHANGED <<tables, databases, durable, tx, reserved, crashes>>

(* lock_table: the lock is free. *)
LockTable(c) ==
    /\ op[c].stage = "lock"
    /\ \A d \in Conns : op[c].stmt.table \notin held[d]
    /\ held' = [held EXCEPT ![c] = @ \cup {op[c].stmt.table}]
    /\ Stage(c, "schema")
    /\ UNCHANGED <<tables, databases, durable, tx, reserved, crashes>>

(* Mutant: after the timeout the wait starts again. *)
LockWaitAgain(c) ==
    /\ op[c].stage = "lock"
    /\ UNCHANGED vars

(* lock_table: LOCK_WAIT_TIMEOUT has passed.  An open transaction stays    *)
(* open and keeps its other locks.                                         *)
LockWaitTimeout(c) ==
    /\ op[c].stage = "lock"
    /\ \E d \in Conns : op[c].stmt.table \in held[d]
    /\ UNCHANGED <<tables, databases, durable, tx, reserved, crashes>>
    /\ Answer(c, "err")

(* execute_insert: table_schema *)
TableSchema(c) ==
    LET t == op[c].stmt.table
    IN  /\ op[c].stage = "schema"
        /\ UNCHANGED <<tables, databases, durable, tx, reserved, crashes>>
        /\ IF t \in DOMAIN tables
             THEN /\ op' = [op EXCEPT ![c].stage = "bind", ![c].batch = [x \in {t} |-> <<>>],
                              ![c].schema = [columns |-> tables[t].columns,
                                             primary_key |-> tables[t].primary_key]]
                  /\ UNCHANGED held
             ELSE Answer(c, "err")

(* reorder_exprs: the values in the order of the table's columns.  Of two  *)
(* values for one column the last one counts; a column without one is NULL *)
(* if it is AUTO_INCREMENT.  An error is a row that fits no table.         *)
ReorderExprs(columns, named, values) ==
    LET given(column) == {j \in DOMAIN named : named[j] = column.name}
    IN  IF \/ Len(named) # Len(values)
           \/ \E j \in DOMAIN named : Position(columns, named[j]) = 0
           \/ \E i \in DOMAIN columns : given(columns[i]) = {} /\ ~ columns[i].auto_increment
          THEN <<>>
        ELSE [i \in DOMAIN columns |->
                IF given(columns[i]) = {} THEN Null ELSE values[Max(given(columns[i]))]]

(* execute_insert: the next row of VALUES is converted value by value, and *)
(* AUTO_INCREMENT columns that are NULL reserve a value                    *)
(* (next_auto_increment), up to the first value that is in error.          *)
BindRow(c) ==
    LET t       == op[c].stmt.table
        columns == op[c].schema.columns
        given   == op[c].stmt.rows[Len(op[c].batch[t]) + 1]
        exprs   == IF op[c].stmt.columns = NoList THEN given
                   ELSE ReorderExprs(columns, op[c].stmt.columns, given)
        values  == [i \in DOMAIN exprs |-> Coerce(exprs[i], columns[i].type)]
        auto(i) == columns[i].auto_increment /\ values[i] = Null
        fits    == Len(exprs) = Len(columns)
        counts  == AutoPos(tables[t]) # 0
        bad     == {i \in DOMAIN exprs :
                      \/ values[i] = Invalid
                      \/ values[i] = Null /\ ~ auto(i) /\ ~ columns[i].nullable
                      \/ auto(i) /\ ~ counts}
        assign  == {i \in DOMAIN exprs : auto(i) /\ \A j \in bad : i < j}
        value(i) == Wrap(tables[t].next + Cardinality({j \in assign : j < i}))
        row     == [i \in DOMAIN exprs |-> IF i \in assign THEN <<"Int", value(i)>>
                                                           ELSE values[i]]
        rows    == Append(op[c].batch[t], row)
    IN  /\ op[c].stage = "bind"
        /\ IF fits /\ assign # {}
             THEN /\ tables' = [tables EXCEPT ![t].next = Wrap(@ + Cardinality(assign))]
                  /\ reserved' = Inserted(reserved, t,
                                    {value(i) : i \in assign} \cup
                                    IF t \in DOMAIN reserved THEN reserved[t] ELSE {})
             ELSE UNCHANGED <<tables, reserved>>
        /\ UNCHANGED <<databases, durable, tx, crashes>>
        /\ IF fits /\ bad = {}
             THEN /\ op' = [op EXCEPT ![c].batch[t] = rows,
                              ![c].stage = IF Len(rows) < Len(op[c].stmt.rows) THEN "bind"
                                           ELSE IF tx[c].open THEN "buffer" ELSE "check"]
                  /\ UNCHANGED held
             ELSE Answer(c, "err")

(* Transaction::insert_row, called for one row after the other by the      *)
(* trait's insert_rows: table_schema and the column count.                 *)
BufferSchema(c) ==
    LET t == op[c].stmt.table
    IN  /\ op[c].stage = "buffer"
        /\ UNCHANGED <<tables, databases, durable, tx, reserved, crashes>>
        /\ IF t \in DOMAIN tables /\ Len(op[c].batch[t][op[c].done + 1]) = Len(tables[t].columns)
             THEN /\ op' = [op EXCEPT ![c].stage = "pending",
                              ![c].schema = [columns |-> tables[t].columns,
                                             primary_key |-> tables[t].primary_key]]
                  /\ UNCHANGED held
             ELSE Answer(c, "err")

(* Mutants: the key is looked up in one of the two places only. *)
Buffers(c, taken) ==
    LET t == op[c].stmt.table
        pending == IF t \in DOMAIN tx[c].pending THEN tx[c].pending[t] ELSE <<>>
    IN  /\ op[c].stage = "pending"
        /\ ~ taken
        /\ tx' = [tx EXCEPT ![c].pending =
                    Inserted(@, t, Append(pending, op[c].batch[t][op[c].done + 1]))]
        /\ op' = [op EXCEPT ![c].done = @ + 1,
                    ![c].stage = IF op[c].done + 1 < Len(op[c].batch[t]) THEN "buffer" ELSE "ok"]
        /\ UNCHANGED <<tables, databases, durable, held, reserved, crashes>>

BufferRowAmongPending(c) ==
    Buffers(c, LET t == op[c].stmt.table
               IN  t \in DOMAIN tx[c].pending /\ op[c].batch[t][op[c].done + 1] \in Range(tx[c].pending[t]))

BufferRowAmongCommitted(c) ==
    Buffers(c, LET t == op[c].stmt.table
               IN  op[c].batch[t][op[c].done + 1][1] \in DOMAIN tables[t].index)

(* Transaction::insert_row: the key is looked up among the committed and   *)
(* the pending rows, and the row becomes pending.                          *)
BufferRow(c) ==
    LET t       == op[c].stmt.table
        row     == op[c].batch[t][op[c].done + 1]
        key     == KeyPos(op[c].schema)
        pending == IF t \in DOMAIN tx[c].pending THEN tx[c].pending[t] ELSE <<>>
        taken   == /\ key # 0
                   /\ \/ row[key] \in DOMAIN tables[t].index
                      \/ \E i \in DOMAIN pending : Cell(pending[i], key) = row[key]
    IN  /\ op[c].stage = "pending"
        /\ UNCHANGED <<tables, databases, durable, reserved, crashes>>
        /\ IF taken
             THEN UNCHANGED tx /\ Answer(c, "err")
             ELSE /\ tx' = [tx EXCEPT ![c].pending = Inserted(@, t, Append(pending, row))]
                  /\ UNCHANGED held
                  /\ op' = [op EXCEPT ![c].done = @ + 1,
                              ![c].stage = IF op[c].done + 1 < Len(op[c].batch[t])
                                             THEN "buffer" ELSE "ok"]

-----------------------------------------------------------------------------
(* insert_rows: the checks, for INSERT and for COMMIT. *)
Insertable(c) ==
    \A t \in DOMAIN op[c].batch :
        t \in DOMAIN tables /\ CheckInsertable(tables[t], op[c].batch[t])

(* create_table, alter_table, insert_rows, create_database, drop_database: *)
(* what each checks under the read lock before it writes to the log.       *)
Checked(c) ==
    LET s == op[c].stmt
    IN  CASE s.op = "createTable" ->
               /\ s.primary_key # NoKey => Position(s.columns, s.primary_key) # 0
               /\ s.table \notin DOMAIN tables
          [] s.op = "alterTable" ->
               s.table \in DOMAIN tables /\ CanAlter(tables[s.table], s.change)
          [] s.op \in {"insert", "commit", "begin"} -> Insertable(c)
          [] s.op = "createDatabase" -> s.name \notin databases
          [] s.op = "dropDatabase"   -> s.name \in databases \/ s.lenient

(* A failed check is an error, but for CREATE DATABASE IF NOT EXISTS. *)
Check(c) ==
    /\ op[c].stage = "check"
    /\ UNCHANGED <<tables, databases, durable, tx, reserved, crashes>>
    /\ IF Checked(c)
         THEN Stage(c, "log") /\ UNCHANGED held
         ELSE Answer(c, IF op[c].stmt.op = "createDatabase" /\ op[c].stmt.lenient
                          THEN "ok" ELSE "err")

(* The record the statement writes to the log. *)
Entry(c) ==
    LET s == op[c].stmt
    IN  CASE s.op = "createTable" ->
               [kind |-> "CreateTable", table |-> s.table, columns |-> s.columns,
                primary_key |-> s.primary_key]
          [] s.op = "alterTable" ->
               [kind |-> "AlterTable", table |-> s.table, change |-> s.change]
          [] s.op \in {"insert", "commit", "begin"} ->
               [kind |-> "Transaction", rows |-> op[c].batch]
          [] s.op = "createDatabase" -> [kind |-> "CreateDatabase", name |-> s.name]
          [] s.op = "dropDatabase"   -> [kind |-> "DropDatabase", name |-> s.name]

(* Mutant: the statement goes on without the log. *)
AppendLater(c) ==
    /\ op[c].stage = "log"
    /\ Stage(c, "apply")
    /\ UNCHANGED <<tables, databases, durable, tx, held, reserved, crashes>>

(* append_* returns Ok: the record is durable. *)
AppendLog(c) ==
    /\ op[c].stage = "log"
    /\ durable' = ApplyEntry(durable, Entry(c))
    /\ Stage(c, "apply")
    /\ UNCHANGED <<tables, databases, tx, held, reserved, crashes>>

(* append_* returns Err: `?` ends the statement before it changes memory.  *)
(* After a failed sync the record is in the log all the same.              *)
AppendFails(c) ==
    /\ op[c].stage = "log"
    /\ \/ "absent" \in LogErrors /\ UNCHANGED durable
       \/ "present" \in LogErrors /\ durable' = ApplyEntry(durable, Entry(c))
    /\ UNCHANGED <<tables, databases, tx, reserved, crashes>>
    /\ Answer(c, "err")

(* insert_rows: under the write lock, without another check. *)
ApplyRows(c) ==
    /\ op[c].stage = "apply"
    /\ op[c].stmt.op \in {"insert", "commit", "begin"}
    /\ tables' = PushInto(tables, op[c].batch)
    /\ tx' = [tx EXCEPT ![c] = [NoTx EXCEPT !.open = op[c].stmt.op = "begin"]]
    /\ op' = [op EXCEPT ![c] = [Idle EXCEPT !.stmt = op[c].stmt]]
    /\ held' = [held EXCEPT ![c] = {}]
    /\ UNCHANGED <<databases, durable, reserved, crashes>>

(* create_table: under the write lock, checked once more. *)
ApplyCreateTable(c) ==
    LET s == op[c].stmt
    IN  /\ op[c].stage = "apply"
        /\ s.op = "createTable"
        /\ UNCHANGED <<databases, durable, tx, reserved, crashes>>
        /\ IF s.table \notin DOMAIN tables
             THEN /\ tables' = Inserted(tables, s.table, NewTable(s.columns, s.primary_key))
                  /\ Answer(c, "ok")
             ELSE UNCHANGED tables /\ Answer(c, "err")

(* alter_table: under the write lock, checked once more. *)
ApplyAlterTable(c) ==
    LET s == op[c].stmt
    IN  /\ op[c].stage = "apply"
        /\ s.op = "alterTable"
        /\ UNCHANGED <<databases, durable, tx, reserved, crashes>>
        /\ IF CanAlter(tables[s.table], s.change)
             THEN /\ tables' = [tables EXCEPT ![s.table] = Altered(@, s.change)]
                  /\ Answer(c, "ok")
             ELSE UNCHANGED tables /\ Answer(c, "err")

(* create_database, drop_database: under the write lock, checked once more. *)
ApplyDatabase(c) ==
    LET s == op[c].stmt
        present == s.name \in databases
        create == s.op = "createDatabase"
    IN  /\ op[c].stage = "apply"
        /\ s.op \in {"createDatabase", "dropDatabase"}
        /\ databases' = IF create THEN databases \cup {s.name} ELSE databases \ {s.name}
        /\ UNCHANGED <<tables, durable, tx, reserved, crashes>>
        /\ Answer(c, IF present # create \/ s.lenient THEN "ok" ELSE "err")

(* The server dies, or is shut down with statements under way, and starts  *)
(* again: connections and memory are gone, the log is replayed.            *)
Restart ==
    /\ crashes < MaxCrashes
    /\ crashes' = crashes + 1
    /\ tables' = durable.tables
    /\ databases' = durable.databases
    /\ op' = [c \in Conns |-> Idle]
    /\ tx' = [c \in Conns |-> NoTx]
    /\ held' = [c \in Conns |-> {}]
    /\ UNCHANGED <<durable, reserved>>

-----------------------------------------------------------------------------
(* Every stored row has as many values as the table has columns. *)
RowsFit(db) ==
    \A t \in DOMAIN db : \A i \in DOMAIN db[t].rows :
        Len(db[t].rows[i]) = Len(db[t].columns)

Begin(c) ==
    \E s \in Statements[c] :
        Insert(c, s) \/ Define(c, s) \/ EndByCommit(c, s) \/ Rollback(c, s)

Step(c) ==
    \/ LockTable(c) \/ LockWaitTimeout(c)
    \/ TableSchema(c) \/ BindRow(c)
    \/ BufferSchema(c) \/ BufferRow(c)
    \/ Check(c) \/ AppendFails(c) \/ AppendLog(c)
    \/ ApplyRows(c) \/ ApplyCreateTable(c) \/ ApplyAlterTable(c) \/ ApplyDatabase(c)

(* The model ends with a row that does not fit its table: reading it is an *)
(* index out of bounds.                                                    *)
Next ==
    /\ RowsFit(tables) /\ RowsFit(durable.tables)
    /\ \/ \E c \in Conns : Begin(c) \/ Step(c)
       \/ Restart

Spec == Init /\ [][Next]_vars

(* A task that can go on is polled again, the log writer answers, and      *)
(* LOCK_WAIT_TIMEOUT bounds the wait for a lock.  Clients need not send    *)
(* anything.                                                               *)
FairSpec == Spec /\ \A c \in Conns : WF_vars(Step(c))

-----------------------------------------------------------------------------
(* What a client can see of a database: all but the AUTO_INCREMENT counter. *)
Content(db) ==
    [tables |-> [t \in DOMAIN db.tables |-> [db.tables[t] EXCEPT !.next = 0]],
     databases |-> db.databases]

(* Log before memory: at every moment, replaying the log gives what memory *)
(* holds plus what the statements between append and apply are about to    *)
(* add, no more and no less.                                               *)
LiveMatchesReplay ==
    Content(durable) =
    Content(FoldSet(LAMBDA c, db : ApplyEntry(db, Entry(c)), Live,
                    {c \in Conns : op[c].stage = "apply"}))

(* A restart between statements changes nothing a client can see. *)
ReplayReproduces == (\A c \in Conns : Ready(c)) => Content(durable) = Content(Live)

(* Primary keys are unique and the index finds every row by its key, in    *)
(* memory and after a replay, although insert_rows checks the key in one   *)
(* critical section and pushes the row in a later one.                     *)
KeysUnique ==
    \A ts \in {tables, durable.tables} : \A t \in DOMAIN ts :
        LET key == KeyPos(ts[t])
        IN  key # 0 => /\ Distinct(ts[t].rows, key)
                       /\ DOMAIN ts[t].index = {r[key] : r \in Range(ts[t].rows)}
                       /\ \A i \in DOMAIN ts[t].rows : ts[t].index[ts[t].rows[i][key]] = i

(* Transaction::commit: the locks a transaction holds since it buffered    *)
(* its rows keep everything that could make insert_rows reject them away.  *)
CommitNeverConflicts ==
    \A c \in Conns : op[c].stage = "check" /\ op[c].stmt.op \in {"begin", "commit"}
                        => Insertable(c)

(* Locks go with the transaction or the statement that took them, on every *)
(* way out; a table with uncommitted rows is locked by their connection.   *)
LocksMatchWork ==
    \A c \in Conns :
        /\ Ready(c) /\ ~ tx[c].open => held[c] = {}
        /\ DOMAIN tx[c].pending \subseteq held[c]
        /\ DOMAIN op[c].batch \subseteq held[c]
        /\ \A d \in Conns \ {c} : held[c] \cap held[d] = {}

(* An INSERT that fails leaves none of its rows behind, also in a          *)
(* transaction.                                                            *)
StatementAllOrNothing ==
    \A c \in Conns : op[c].stage = "err" => op[c].done = 0

(* Every stored row has one value for each column, of the column's type,   *)
(* NULL only where the column allows it.                                   *)
RowsMatchSchema ==
    \A ts \in {tables, durable.tables} :
        /\ RowsFit(ts)
        /\ \A t \in DOMAIN ts : \A row \in Range(ts[t].rows) : \A i \in DOMAIN row :
             LET column == ts[t].columns[i]
             IN  IF row[i] = Null THEN column.nullable
                                  ELSE row[i][1] = column.type[1]

(* A value next_auto_increment gave out is never given out again ("a       *)
(* reserved value is never reused", Storage::next_auto_increment).         *)
NeverReusedAtAll ==
    \A t \in DOMAIN reserved : tables[t].next \notin reserved[t]

(* A value next_auto_increment gave out is not given out again while the   *)
(* server runs, whatever became of the insert that asked for it and        *)
(* whatever keys others have given.                                        *)
NeverReused == crashes = 0 => NeverReusedAtAll

(* The counter stays ahead of every value in its column, in memory and     *)
(* after a replay, whatever ALTER TABLE has rebuilt.                       *)
StaysAhead ==
    \A ts \in {tables, durable.tables} : \A t \in DOMAIN ts :
        LET auto == AutoPos(ts[t])
        IN  auto # 0 => \A row \in Range(ts[t].rows) : row[auto][2] < ts[t].next

(* Only the primary key is AUTO_INCREMENT. *)
AutoIncrementIsKey ==
    \A t \in DOMAIN tables : \A i \in DOMAIN tables[t].columns :
        tables[t].columns[i].auto_increment =>
            tables[t].columns[i].name = tables[t].primary_key

(* A primary-key column does not allow NULL. *)
KeyNotNullable ==
    \A t \in DOMAIN tables :
        KeyPos(tables[t]) # 0 => ~ tables[t].columns[KeyPos(tables[t])].nullable

(* A checkpoint loses nothing: the CreateTable and Transaction records it  *)
(* writes for a table rebuild exactly the table that the log they replace  *)
(* rebuilds, counter and index included.                                   *)
CheckpointEquivalent ==
    \A t \in DOMAIN durable.tables :
        LET table == durable.tables[t]
        IN  Rebuild(table.columns, table.primary_key, table.rows) = table

(* Every statement is answered: with two transactions that wait for each   *)
(* other's tables, because the wait for a lock is bounded.                 *)
EveryStatementAnswered ==
    \A c \in Conns : ~ Ready(c) ~> Ready(c)

(* The engine implements TxStore: what is buffered is what a transaction   *)
(* has inserted, until the log has it; what is committed is what the log   *)
(* has.                                                                    *)
Buffered(c, t) ==
    LET rows == IF op[c].stmt.op \in {"begin", "commit"} /\ op[c].stage \in {"check", "log"}
                  THEN op[c].batch ELSE tx[c].pending
    IN  IF t \in DOMAIN rows THEN rows[t] ELSE <<>>

TableKeys == [t \in DOMAIN InitialDb.tables |-> KeyPos(InitialDb.tables[t])]
Committed == [t \in DOMAIN InitialDb.tables |-> durable.tables[t].rows]
Buffer    == [c \in Conns |-> [t \in DOMAIN InitialDb.tables |-> Buffered(c, t)]]

TS == INSTANCE TxStore WITH Key <- TableKeys, committed <- Committed, buffer <- Buffer

ImplementsTxStore == TS!Spec
=============================================================================
