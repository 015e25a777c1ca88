-------------------------------- MODULE Tables --------------------------------
(***************************************************************************)
(* struct Table and the functions that build and rebuild one: Table::new,  *)
(* push_trusted, check_insertable, compute_altered_table, and apply_entry, *)
(* which rebuilds the whole database from the log.                         *)
(*                                                                         *)
(* A database is a record [tables, databases]; tables maps the names of    *)
(* the tables that exist to their contents.                                *)
(***************************************************************************)
EXTENDS Values, Sequences, FiniteSetsExt

NoKey == ""  \* primary_key: None

EmptyMap == [x \in {} |-> x]

(* HashMap::insert: the map f with the value v at x. *)
Inserted(f, x, v) == [y \in DOMAIN f \cup {x} |-> IF y = x THEN v ELSE f[y]]

(* Vec::remove: the sequence s without its element i. *)
Removed(s, i) == SubSeq(s, 1, i - 1) \o SubSeq(s, i + 1, Len(s))

(* Iterator::position: the first of the positions at, 0 if there is none. *)
First(at) == IF at = {} THEN 0 ELSE Min(at)

(* The position of the column called name. *)
Position(columns, name) == First({i \in 1..Len(columns) : columns[i].name = name})

(* Positions of the primary key and of the AUTO_INCREMENT column. *)
KeyPos(t) == Position(t.columns, t.primary_key)

AutoPos(t) == First({i \in 1..Len(t.columns) : t.columns[i].auto_increment})

(* Table::new.  next is the second half of auto_increment: Some((i, next)). *)
NewTable(columns, primary_key) ==
    [columns |-> columns, primary_key |-> primary_key, rows |-> <<>>,
     index |-> EmptyMap, next |-> 1]

(* row[i]; a row that is too short for it makes the code panic. *)
Cell(row, i) == IF i <= Len(row) THEN row[i] ELSE Invalid

(* Table::push_trusted for one row after the other.  The index keeps the    *)
(* last position of a key; the counter is moved past every value, never    *)
(* back.                                                                   *)
Indexed(t, rows) ==
    LET key     == KeyPos(t)
        keys    == {Cell(rows[n], key) : n \in DOMAIN rows}
        last(k) == Max({n \in DOMAIN rows : Cell(rows[n], key) = k})
    IN  IF key = 0 THEN t.index
        ELSE [k \in DOMAIN t.index \cup keys |->
                IF k \in keys THEN Len(t.rows) + last(k) ELSE t.index[k]]

(* Mutant: the counter follows the last row, also downwards. *)
CountedLast(t, rows) ==
    IF AutoPos(t) = 0 \/ rows = <<>> THEN t.next ELSE rows[Len(rows)][AutoPos(t)][2] + 1

Counted(t, rows) ==
    LET auto   == AutoPos(t)
        values == {Cell(rows[n], auto) : n \in DOMAIN rows}
    IN  IF auto = 0 THEN t.next
        ELSE Max({t.next} \cup {Wrap(v[2] + 1) : v \in {w \in values : w[1] = "Int"}})

PushTrusted(t, rows) ==
    [t EXCEPT !.index = Indexed(t, rows), !.next = Counted(t, rows), !.rows = @ \o rows]

Rebuild(columns, primary_key, rows) == PushTrusted(NewTable(columns, primary_key), rows)

(* Table::check_insertable for each row of a batch, with the column count  *)
(* and the duplicates within the batch (InMemoryStorage::insert_rows).     *)
CheckInsertable(t, rows) ==
    LET key == KeyPos(t)
    IN  /\ \A i \in DOMAIN rows : Len(rows[i]) = Len(t.columns)
        /\ key # 0 => \A i \in DOMAIN rows :
                         /\ rows[i][key] \notin DOMAIN t.index
                         /\ \A j \in 1..i - 1 : rows[j][key] # rows[i][key]

-------------------------------------------------------------------------------
(* The rows of t with the values of column i converted to a type. *)
RetypeColumn(t, i, type) ==
    [n \in DOMAIN t.rows |-> [t.rows[n] EXCEPT ![i] = RetypeValue(@, type)]]

(* Does t[i] hold NULL in some row? *)
HasNull(rows, i) == \E n \in DOMAIN rows : rows[n][i] = Null

Distinct(rows, i) == \A m, n \in DOMAIN rows : rows[m][i] = rows[n][i] => m = n

(* compute_altered_table: the checks. *)
CanAlter(t, change) ==
    LET pos == Position(t.columns, change.column.name)
        new == change.column
        retyped == RetypeColumn(t, pos, new.type)
    IN  CASE change.kind = "AddColumn" ->
               /\ pos = 0
               /\ t.rows # <<>> => new.nullable /\ ~ change.is_primary_key
               /\ change.is_primary_key => t.primary_key = NoKey
          [] change.kind = "DropColumn" ->
               pos # 0 /\ Len(t.columns) > 1
          [] change.kind = "ModifyColumn" ->
               /\ pos # 0
               /\ new.auto_increment => t.primary_key = new.name
               /\ \A n \in DOMAIN t.rows : RetypeValue(t.rows[n][pos], new.type) # Invalid
               /\ ~ new.nullable => ~ HasNull(retyped, pos)
          [] change.kind = "AddPrimaryKey" ->
               /\ t.primary_key = NoKey
               /\ pos # 0
               /\ ~ HasNull(t.rows, pos)
               /\ Distinct(t.rows, pos)
          [] change.kind = "DropPrimaryKey" ->
               t.primary_key # NoKey

(* Mutants: DROP COLUMN leaves the index alone; MODIFY COLUMN leaves the    *)
(* values alone.                                                           *)
AlteredInPlace(t, change) ==
    LET pos == Position(t.columns, change.column.name)
    IN  IF change.kind = "DropColumn"
          THEN [t EXCEPT !.columns = Removed(@, pos),
                         !.primary_key = IF @ = change.column.name THEN NoKey ELSE @,
                         !.rows = [n \in DOMAIN t.rows |-> Removed(t.rows[n], pos)]]
          ELSE t

AlteredKeepingValues(t, change) ==
    LET pos == Position(t.columns, change.column.name)
    IN  IF change.kind = "ModifyColumn"
          THEN Rebuild([t.columns EXCEPT ![pos] = change.column], t.primary_key, t.rows)
          ELSE t

(* compute_altered_table: the table it builds when the checks pass. *)
Altered(t, change) ==
    LET pos == Position(t.columns, change.column.name)
        new == change.column
    IN  CASE change.kind = "AddColumn" ->
               Rebuild(Append(t.columns, new),
                       IF change.is_primary_key THEN new.name ELSE t.primary_key,
                       [n \in DOMAIN t.rows |-> Append(t.rows[n], Null)])
          [] change.kind = "DropColumn" ->
               Rebuild(Removed(t.columns, pos),
                       IF t.primary_key = new.name THEN NoKey ELSE t.primary_key,
                       [n \in DOMAIN t.rows |-> Removed(t.rows[n], pos)])
          [] change.kind = "ModifyColumn" ->
               Rebuild([t.columns EXCEPT ![pos] = new], t.primary_key,
                       RetypeColumn(t, pos, new.type))
          [] change.kind = "AddPrimaryKey" ->
               Rebuild([t.columns EXCEPT ![pos].nullable = FALSE], new.name, t.rows)
          [] change.kind = "DropPrimaryKey" ->
               Rebuild([i \in DOMAIN t.columns |->
                          IF t.columns[i].name = t.primary_key
                            THEN [t.columns[i] EXCEPT !.auto_increment = FALSE]
                            ELSE t.columns[i]],
                       NoKey, t.rows)

-------------------------------------------------------------------------------
(* Rows for several tables at once: rows is a function from table names.   *)
PushInto(tables, rows) ==
    [name \in DOMAIN tables |->
        IF name \in DOMAIN rows THEN PushTrusted(tables[name], rows[name]) ELSE tables[name]]

(* Mutant: DropDatabase records are not replayed. *)
ApplyEntryKeepingDatabases(db, e) ==
    CASE e.kind = "CreateTable" ->
           [db EXCEPT !.tables = Inserted(@, e.table, NewTable(e.columns, e.primary_key))]
      [] e.kind = "Transaction" ->
           [db EXCEPT !.tables = PushInto(@, e.rows)]
      [] e.kind = "CreateDatabase" ->
           [db EXCEPT !.databases = @ \cup {e.name}]
      [] OTHER -> db

(* apply_entry: what replay does with one record of the log. *)
ApplyEntry(db, e) ==
    CASE e.kind = "CreateTable" ->
           [db EXCEPT !.tables = Inserted(@, e.table, NewTable(e.columns, e.primary_key))]
      [] e.kind = "Transaction" ->
           [db EXCEPT !.tables = PushInto(@, e.rows)]
      [] e.kind = "CreateDatabase" ->
           [db EXCEPT !.databases = @ \cup {e.name}]
      [] e.kind = "DropDatabase" ->
           [db EXCEPT !.databases = @ \ {e.name}]
      [] e.kind = "AlterTable" ->
           IF e.table \in DOMAIN db.tables /\ CanAlter(db.tables[e.table], e.change)
             THEN [db EXCEPT !.tables[e.table] = Altered(@, e.change)]
             ELSE db
===============================================================================
