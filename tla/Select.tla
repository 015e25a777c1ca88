------------------------------- MODULE Select --------------------------------
(***************************************************************************)
(* One connection runs SELECT and SHOW statements while others commit rows *)
(* and alter tables.                                                       *)
(*                                                                         *)
(* Every read of the storage engine is one critical section of the tables  *)
(* lock, and a SELECT makes several: table_schema and then a scan for each *)
(* table it names.  A commit, or an ALTER TABLE, is one critical section   *)
(* too (module Storage models how they get there), and falls between any   *)
(* two reads.                                                              *)
(***************************************************************************)
EXTENDS Introspection

CONSTANTS
    Workloads,   \* by name, what there is and what is done:
                 \*   tables   possible contents of the database
                 \*   pending  possible pending rows of the reader's transaction
                 \*   queries  SELECT statements of the reader
                 \*   asks     what it asks without reading a table
                 \*   databases  the databases there are
                 \*   batches  what the others commit: rows by table
                 \*   alters   what the others alter: [table, change]
    MaxWrites    \* bound on commits and alterations

VARIABLES
    workload, \* the name of one of them
    tables,   \* InMemoryStorage::tables
    pending,  \* Transaction::pending of the reader (empty: no transaction)
    reader,   \* where the reader's SELECT is and what it has read
    seen,     \* ghost: contents of the database since this SELECT began
    writes

vars == <<workload, tables, pending, reader, seen, writes>>

Load == Workloads[workload]

NoQuery == [joins |-> <<>>]
NoAsk == [op |-> "none"]

Idle == [pc |-> "idle", query |-> NoQuery, ask |-> NoAsk, scope |-> <<>>, primary_key |-> NoKey,
         on |-> <<>>, rows |-> <<>>, result |-> Error,
         scanned |-> <<>>, widths |-> <<>>]  \* ghosts: what each scan returned, schema widths

Init ==
    /\ workload \in DOMAIN Workloads
    /\ tables \in Load.tables
    /\ pending \in Load.pending
    /\ reader = Idle
    /\ seen = {}
    /\ writes = 0

Answer(result) == [reader EXCEPT !.pc = "done", !.result = result]

-------------------------------------------------------------------------------
(* Storage::scan, through the reader's transaction. *)
Scan(db, table) ==
    db[table].rows \o (IF table \in DOMAIN pending THEN pending[table] ELSE <<>>)

(* Mutant: the reader's own pending rows are not looked up. *)
LookupCommitted(db, table, key) ==
    LET t == db[table]
    IN  IF key \in DOMAIN t.index THEN <<t.rows[t.index[key]]>> ELSE <<>>

(* Storage::lookup_by_primary_key: the committed row, or else the first    *)
(* pending one.  Transaction::lookup_by_primary_key reads the schema under *)
(* an acquisition of its own; here it is the one the row was looked up     *)
(* under, which differs only when ALTER TABLE moves the key in between.    *)
LookupByPrimaryKey(db, table, key) ==
    LET t     == db[table]
        own   == IF table \in DOMAIN pending THEN pending[table] ELSE <<>>
        first == SelectInSeq(own, LAMBDA r : Cell(r, KeyPos(t)) = key)
    IN  IF key \in DOMAIN t.index THEN <<t.rows[t.index[key]]>>
        ELSE IF KeyPos(t) = 0 \/ first = 0 THEN <<>> ELSE <<own[first]>>

(* scan_and_filter, with the schema read before. *)
ScanAndFilter(q) ==
    LET scope    == reader.scope
        idx      == TryResolve(scope, q.where.column)
        expected == Coerce(q.where.value, scope[idx].type)
        all      == Scan(tables, q.table)
    IN  IF q.where = NoWhere THEN Rows(all)
        ELSE IF idx = 0 \/ expected = Invalid THEN Error
        ELSE IF q.where.op = "Eq" /\ reader.primary_key = scope[idx].name
          THEN Rows(LookupByPrimaryKey(tables, q.table, expected))
        ELSE IF OutOfBounds(all, {idx}) THEN Panic
        ELSE Rows(SelectSeq(all, LAMBDA r : CompareValues(r[idx], q.where.op, expected)))

(* execute_select: the first table's schema is read. *)
ReadSchema ==
    /\ reader.pc = "idle"
    /\ \E q \in Load.queries :
         /\ seen' = {tables}
         /\ reader' =
              IF q.table \notin DOMAIN tables
                THEN [Answer(Error) EXCEPT !.query = q]
                ELSE [reader EXCEPT !.pc = "scan", !.query = q,
                        !.scope = ScopeOf(q.qualifier, tables[q.table].columns),
                        !.primary_key = tables[q.table].primary_key,
                        !.widths = <<Len(tables[q.table].columns)>>]
    /\ UNCHANGED <<workload, tables, pending, writes>>

(* resolve_from for one table. *)
ScanTable ==
    /\ reader.pc = "scan"
    /\ reader.query.joins = <<>>
    /\ LET read == ScanAndFilter(reader.query)
       IN  reader' = IF read.status # "rows" THEN Answer(read)
                     ELSE [reader EXCEPT !.pc = "tail", !.rows = read.rows,
                                         !.scanned = <<Scan(tables, reader.query.table)>>]
    /\ UNCHANGED <<workload, tables, pending, seen, writes>>

(* resolve_joins: the first table's rows. *)
ScanFirst ==
    /\ reader.pc = "scan"
    /\ reader.query.joins # <<>>
    /\ LET rows == Scan(tables, reader.query.table)
       IN  reader' = [reader EXCEPT !.pc = "join", !.rows = rows, !.scanned = <<rows>>]
    /\ UNCHANGED <<workload, tables, pending, seen, writes>>

(* The JOIN that comes next. *)
Join == reader.query.joins[Len(reader.scanned)]

JoinsLeft == Len(reader.scanned) <= Len(reader.query.joins)

(* resolve_joins: the schema of the table joined next, and its ON columns. *)
ReadJoinSchema ==
    /\ reader.pc = "join"
    /\ JoinsLeft
    /\ LET columns   == tables[Join.table].columns
           new_scope == ScopeOf(Join.qualifier, columns)
           on        == JoinColumns(reader.scope, new_scope, Join)
       IN  reader' = IF Join.table \notin DOMAIN tables \/ on = <<>> THEN Answer(Error)
                     ELSE [reader EXCEPT !.pc = "joinScan",
                             !.on = [columns |-> on, scope |-> new_scope],
                             !.widths = Append(@, Len(columns))]
    /\ UNCHANGED <<workload, tables, pending, seen, writes>>

(* resolve_joins: the rows of that table, joined to those read so far. *)
ScanJoined ==
    /\ reader.pc = "joinScan"
    /\ LET new == Scan(tables, Join.table)
           on  == reader.on.columns
       IN  reader' =
             IF OutOfBounds(reader.rows, {on[1]}) \/ OutOfBounds(new, {on[2]}) THEN Answer(Panic)
             ELSE [reader EXCEPT !.pc = "join", !.on = <<>>,
                     !.scope = @ \o reader.on.scope,
                     !.scanned = Append(@, new),
                     !.rows = HashJoin(@, on[1], new, on[2], Len(reader.on.scope), Join.type)]
    /\ UNCHANGED <<workload, tables, pending, seen, writes>>

(* resolve_from after the joins: the WHERE clause. *)
FilterJoined ==
    /\ reader.pc = "join"
    /\ ~ JoinsLeft
    /\ LET kept == ApplyWhere(reader.rows, reader.scope, reader.query.where)
       IN  reader' = IF kept.status # "rows" THEN Answer(kept)
                     ELSE [reader EXCEPT !.pc = "tail", !.rows = kept.rows]
    /\ UNCHANGED <<workload, tables, pending, seen, writes>>

(* execute_select: execute_aggregate or execute_projected. *)
Compute ==
    /\ reader.pc = "tail"
    /\ \E result \in IF IsAggregateQuery(reader.query)
                       THEN ExecuteAggregate(reader.scope, reader.rows, reader.query)
                       ELSE ExecuteProjected(reader.scope, reader.rows, reader.query) :
         reader' = Answer(result)
    /\ UNCHANGED <<workload, tables, pending, seen, writes>>

(* A statement that reads no table is answered at once. *)
Ask ==
    /\ reader.pc = "idle"
    /\ \E s \in Load.asks :
         reader' = [Idle EXCEPT !.pc = "told", !.ask = s,
                                !.result = Execute(s, Load.databases, DOMAIN tables)]
    /\ UNCHANGED <<workload, tables, pending, seen, writes>>

(* The answer is sent; the connection takes its next statement. *)
NextStatement ==
    /\ reader.pc \in {"done", "told"}
    /\ reader' = Idle
    /\ seen' = {}
    /\ UNCHANGED <<workload, tables, pending, writes>>

-------------------------------------------------------------------------------
Watched(db) == IF reader.pc \in {"idle", "done", "told"} THEN seen ELSE seen \cup {db}

(* insert_rows of another connection, at the moment it applies its batch.  *)
(* It holds the locks of the tables it writes, so none of them has pending *)
(* rows.                                                                   *)
Commit ==
    /\ writes < MaxWrites
    /\ \E rows \in Load.batches :
         /\ DOMAIN rows \subseteq DOMAIN tables \ DOMAIN pending
         /\ \A t \in DOMAIN rows : CheckInsertable(tables[t], rows[t])
         /\ tables' = PushInto(tables, rows)
    /\ seen' = Watched(tables')
    /\ writes' = writes + 1
    /\ UNCHANGED <<workload, pending, reader>>

(* alter_table of another connection: it takes no table lock. *)
Alter ==
    /\ writes < MaxWrites
    /\ \E a \in Load.alters :
         /\ CanAlter(tables[a.table], a.change)
         /\ tables' = [tables EXCEPT ![a.table] = Altered(@, a.change)]
    /\ seen' = Watched(tables')
    /\ writes' = writes + 1
    /\ UNCHANGED <<workload, pending, reader>>

Next ==
    \/ ReadSchema \/ ScanTable \/ ScanFirst \/ ReadJoinSchema \/ ScanJoined
    \/ FilterJoined \/ Compute \/ Ask \/ NextStatement
    \/ Commit \/ Alter

Spec == Init /\ [][Next]_vars

-------------------------------------------------------------------------------
(* What SQL means by the FROM and WHERE clauses.  inputs holds the rows of *)
(* each table; a row of the result is one position in each of them, 0 for  *)
(* a table that a LEFT JOIN found no partner in.                           *)

Parts(inputs, widths, p) ==
    [k \in DOMAIN inputs |-> IF p[k] = 0 THEN [i \in 1..widths[k] |-> Null] ELSE inputs[k][p[k]]]

Upto(inputs, widths, p, k) == FlattenSeq(SubSeq(Parts(inputs, widths, p), 1, k))

ScopeFrom(k, widths) ==
    LET start == FoldLeft(LAMBDA a, b : a + b, 0, SubSeq(widths, 1, k - 1))
    IN  SubSeq(reader.scope, start + 1, start + widths[k])

ScopeUpto(k, widths) ==
    SubSeq(reader.scope, 1, FoldLeft(LAMBDA a, b : a + b, 0, SubSeq(widths, 1, k)))

(* Are the positions p those of one row of the join? *)
Joined(q, inputs, widths, p) ==
    /\ p[1] # 0
    /\ \A k \in 2..Len(inputs) :
         LET join == q.joins[k - 1]
             on   == JoinColumns(ScopeUpto(k - 1, widths), ScopeFrom(k, widths), join)
             left == Upto(inputs, widths, p, k - 1)[on[1]]
             Partner(n) == CompareValues(left, "Eq", inputs[k][n][on[2]])
         IN  IF p[k] # 0 THEN Partner(p[k])
             ELSE join.type = "Left" /\ \A n \in DOMAIN inputs[k] : ~ Partner(n)

(* Does WHERE keep this row? *)
Kept(q, row) ==
    LET idx == TryResolve(reader.scope, q.where.column)
    IN  q.where = NoWhere
        \/ CompareValues(row[idx], q.where.op, Coerce(q.where.value, reader.scope[idx].type))

(* Are rows what FROM and WHERE make of the inputs, each as often as it    *)
(* should be?                                                              *)
SelectedFrom(rows, inputs) ==
    LET q     == reader.query
        w     == reader.widths
        n     == Len(inputs)
        most  == CHOOSE m \in {Len(inputs[k]) : k \in 1..n} : \A k \in 1..n : Len(inputs[k]) <= m
        picks == {p \in [1..n -> 0..most] :
                    /\ \A k \in 1..n : p[k] <= Len(inputs[k])
                    /\ Joined(q, inputs, w, p)
                    /\ Kept(q, Upto(inputs, w, p, n))}
        Row(p) == Upto(inputs, w, p, n)
    IN  /\ Len(rows) = Cardinality(picks)
        /\ \A i \in DOMAIN rows :
             Cardinality({j \in DOMAIN rows : rows[j] = rows[i]})
               = Cardinality({p \in picks : Row(p) = rows[i]})

TableAt(k) == IF k = 1 THEN reader.query.table ELSE reader.query.joins[k - 1].table

-------------------------------------------------------------------------------
(* The rows a SELECT works on are what its FROM and WHERE clauses select   *)
(* in the committed contents of the database at one moment between its     *)
(* start and its end, with the reader's own pending rows on top.           *)
FromOneState ==
    reader.pc = "tail" =>
        \E db \in seen :
            SelectedFrom(reader.rows, [k \in DOMAIN reader.widths |-> Scan(db, TableAt(k))])

(* A SELECT of one table reads one committed state, whether it scans,      *)
(* filters or looks the primary key up, and whatever is committed between  *)
(* its read of the schema and its read of the rows (resolve_from).         *)
RowsFromOneState == reader.query.joins = <<>> => FromOneState

(* The same of a JOIN: "the latest committed state (never a stale          *)
(* snapshot)" (Transaction).                                               *)
JoinFromOneState == FromOneState

(* A JOIN finds exactly the pairs whose ON columns are equal as WHERE      *)
(* understands equality, keeps the others of a LEFT JOIN with NULLs, and   *)
(* loses or repeats none, whatever it scanned (resolve_joins, hash_join,   *)
(* apply_where).                                                           *)
JoinIsEquality ==
    reader.pc = "tail" => SelectedFrom(reader.rows, reader.scanned)

(* No SELECT indexes a row past its end: the task of the connection never  *)
(* panics (compare_values, hash_join, sort_and_paginate, projections).     *)
NoPanic ==
    reader.result.status # "panic"

OfType(value, type) ==
    \/ value = Null
    \/ value[1] = type[1] /\ (type[1] = "Decimal" => value[3] = type[2])

CellsMatchColumns ==
    \A n \in DOMAIN reader.result.rows :
        /\ Len(reader.result.rows[n]) = Len(reader.result.columns)
        /\ \A i \in DOMAIN reader.result.columns :
             OfType(reader.result.rows[n][i], reader.result.columns[i])

ShowsVariables == reader.ask.op = "show" /\ reader.ask.show = "Variables"

(* The columns announced to the client are those of the rows that follow,  *)
(* although they were read from a schema before the rows were: as many     *)
(* cells, each NULL or of its column's type and scale, "so text and binary *)
(* rows stay self-consistent" (QueryResult), and no row is too short to be *)
(* read.  SHOW VARIABLES is left out: see EveryCellMatches.                *)
AnswersWellTyped == NoPanic /\ (~ ShowsVariables => CellsMatchColumns)

(* The same of every statement. *)
EveryCellMatches == CellsMatchColumns

(* What LIKE means: the text can be cut into one piece for each character  *)
(* of the pattern, any piece for a %, and one character for the others.    *)
Like(pattern, text) ==
    \E cut \in [0..Len(pattern) -> 0..Len(text)] :
        /\ cut[0] = 0 /\ cut[Len(pattern)] = Len(text)
        /\ \A i \in DOMAIN pattern :
             IF pattern[i] = "%" THEN cut[i - 1] <= cut[i]
             ELSE /\ cut[i] = cut[i - 1] + 1
                  /\ pattern[i] = "_" \/ LowerCase(pattern[i]) = LowerCase(text[cut[i]])

(* SHOW VARIABLES LIKE shows each variable whose name the pattern matches, *)
(* once, and no other, with the value a SELECT of the variable gives       *)
(* whatever its scope; SHOW VARIABLES shows them all (execute_show,        *)
(* like_matches, system_variable).                                         *)
VariablesAsAsked ==
    ShowsVariables =>
        LET shown == [n \in DOMAIN reader.result.rows |-> reader.result.rows[n][1][2][2]]
            names == {KnownVariables[n][1] : n \in DOMAIN KnownVariables}
        IN  /\ IsInjective(shown)
            /\ ToSet(shown) = {name \in names : reader.ask.like = <<>>
                                                \/ Like(reader.ask.like[1], name)}
            /\ \A n \in DOMAIN shown : \A scope \in {"", "session", "global", "local"} :
                 reader.result.rows[n][2] = SystemVariable(scope, shown[n])

(* Every row the answer shows is a row that was selected, none twice, in   *)
(* ORDER BY order, and the page starts and ends where OFFSET and LIMIT put *)
(* it in the sorted rows, although only offset + limit rows are ever       *)
(* sorted (sort_and_paginate).                                             *)
PageCorrect ==
    (reader.pc = "done" /\ reader.result.status = "rows" /\ ~ IsAggregateQuery(reader.query)) =>
        LET q        == reader.query
            rows     == reader.rows
            page     == reader.result.rows
            selected == ResolveProjection(reader.scope, q.projection)
            keys     == SortKeys(ResolveAll(reader.scope,
                           [k \in DOMAIN q.order_by |-> q.order_by[k].column]), q.order_by)
            Shown(n) == [i \in DOMAIN selected |-> rows[n][selected[i]]]
            Before(n) == {m \in DOMAIN rows : RowOrdering(rows[m], rows[n], keys) < 0}
            UpTo(n)   == {m \in DOMAIN rows : RowOrdering(rows[m], rows[n], keys) <= 0}
            left     == IF q.offset < Len(rows) THEN Len(rows) - q.offset ELSE 0
        IN  /\ Len(page) = IF q.limit < left THEN q.limit ELSE left
            /\ \E f \in Injection(DOMAIN page, DOMAIN rows) :
                 \A i \in DOMAIN page :
                    /\ page[i] = Shown(f[i])
                    /\ keys = <<>> => f[i] = q.offset + i
                    /\ Cardinality(Before(f[i])) < q.offset + i
                    /\ q.offset + i <= Cardinality(UpTo(f[i]))

-------------------------------------------------------------------------------
(* What the aggregates mean.  present holds the values that are not NULL.  *)
Total(values) == MapThenSumSet(LAMBDA n : values[n][2], DOMAIN values)

Exact(fn, cells, value) ==
    LET present == SelectSeq(cells, LAMBDA v : v # Null)
        n       == Len(present)
        off     == value[2] * n - Total(present) * 10 ^ 4
    IN  CASE fn = "COUNT" -> value = <<"Int", n>>
          [] fn # "COUNT" /\ n = 0 -> value = Null
          [] fn = "SUM" /\ n > 0 -> value[2] = Total(present) /\ InRange(value[2])
          [] fn = "AVG" /\ n > 0 ->
               /\ 2 * Abs(off) <= n
               /\ 2 * Abs(off) = n => Abs(value[2]) * n > Abs(Total(present)) * 10 ^ 4
          [] fn = "MIN" /\ n > 0 -> \A i \in 1..n : ValueOrdering(value, present[i]) <= 0
          [] fn = "MAX" /\ n > 0 -> \A i \in 1..n : ValueOrdering(value, present[i]) >= 0

(* Each row of an aggregate's answer is one group, each group at most one  *)
(* row, and its values are the exact count, sum, average rounded half away *)
(* from zero, minimum and maximum of the group's values that are not NULL; *)
(* groups come in the order of their keys unless ORDER BY says otherwise;  *)
(* a query without GROUP BY has one group (execute_aggregate).             *)
AggregateRows ==
    (reader.pc = "done" /\ reader.result.status = "rows" /\ IsAggregateQuery(reader.query)) =>
        LET q        == reader.query
            rows     == reader.rows
            page     == reader.result.rows
            by       == ResolveAll(reader.scope, q.group_by)
            Key(r)   == [g \in DOMAIN by |-> r[by[g]]]
            groups   == IF by = <<>> THEN {<<>>} ELSE {Key(rows[n]) : n \in DOMAIN rows}
            Cells(key, item) ==
                LET group == SelectSeq(rows, LAMBDA r : Key(r) = key)
                    idx   == TryResolve(reader.scope, item.column)
                IN  [n \in DOMAIN group |-> IF idx = 0 THEN <<"Row">> ELSE group[n][idx]]
            left     == IF q.offset < Cardinality(groups) THEN Cardinality(groups) - q.offset ELSE 0
        IN  /\ Len(page) = IF q.limit < left THEN q.limit ELSE left
            /\ \E f \in Injection(DOMAIN page, groups) :
                 /\ \A n \in DOMAIN page : \A i \in DOMAIN q.projection :
                      LET item  == q.projection[i]
                          cells == Cells(f[n], item)
                      IN  IF item.fn = "" THEN \A c \in DOMAIN cells : page[n][i] = cells[c]
                                          ELSE Exact(item.fn, cells, page[n][i])
                 /\ q.order_by = <<>> =>
                      \A m, n \in DOMAIN page : m < n => KeyOrdering(f[m], f[n]) < 0

(* An aggregate that names existing columns of fitting types fails only    *)
(* when its values can really exceed an i64: some of them added up, or     *)
(* added up and scaled by 10^4 for AVG (evaluate_aggregate).               *)
AggregateErrors ==
    (/\ reader.pc = "done" /\ reader.result.status = "error"
     /\ reader.scanned # <<>> /\ Len(reader.scanned) = Len(reader.query.joins) + 1
     /\ IsAggregateQuery(reader.query)) =>
        LET q == reader.query
            Resolves(item) ==
                /\ item.fn # "*"
                /\ item.fn = "" => \E g \in DOMAIN q.group_by :
                     TryResolve(reader.scope, q.group_by[g]) = TryResolve(reader.scope, item.column)
                /\ item.fn \in {"SUM", "AVG", "MIN", "MAX"} => item.column # NoColumn
                /\ item.column # NoColumn => TryResolve(reader.scope, item.column) # 0
                /\ item.fn \in {"SUM", "AVG"} =>
                     Numeric(reader.scope[TryResolve(reader.scope, item.column)].type)
            Size(item) ==
                LET idx == TryResolve(reader.scope, item.column)
                IN  MapThenSumSet(LAMBDA n : IF reader.rows[n][idx] = Null THEN 0
                                             ELSE Abs(reader.rows[n][idx][2]), DOMAIN reader.rows)
        IN  \/ \E i \in DOMAIN q.projection : ~ Resolves(q.projection[i])
            \/ \E k \in DOMAIN q.order_by : \A i \in DOMAIN q.projection :
                 q.projection[i].name # q.order_by[k].column.column
            \/ \E i \in DOMAIN q.projection :
                 /\ q.projection[i].fn \in {"SUM", "AVG"}
                 /\ Size(q.projection[i]) * (IF q.projection[i].fn = "AVG" THEN 10 ^ 4 ELSE 1) > MaxInt

(* Aggregates are exact or fail for a reason: see the two parts above      *)
(* (execute_aggregate, evaluate_aggregate).                                *)
AggregatesExact == AggregateRows /\ AggregateErrors
===============================================================================
