-------------------------------- MODULE Query --------------------------------
(***************************************************************************)
(* What a SELECT computes once its rows have been read (query/executor.rs): *)
(* names are resolved against a scope, tables are joined, rows filtered,   *)
(* grouped, aggregated, sorted and cut to a page.                          *)
(*                                                                         *)
(* A scope is a sequence of [qualifier, name, type].  A column reference   *)
(* is [table, column], table = NoTable when it has no qualifier.  An item  *)
(* of the SELECT list is [fn, column, name]: fn = "" for a bare column,    *)
(* column = NoColumn for COUNT( * ), name the alias or the default name.   *)
(* A result is [status, columns, rows], columns the types it reports.      *)
(***************************************************************************)
EXTENDS Tables, SequencesExt

CONSTANT TextRank(_)  \* place of to_display_string(v) in the order of texts

NoTable == ""
NoColumn == [table |-> NoTable, column |-> ""]
NoWhere == [op |-> "None"]
NoLimit == 2 * MaxInt + 1  \* u64::MAX
Wildcard == [fn |-> "*"]

Answered(columns, rows) == [status |-> "rows", columns |-> columns, rows |-> rows]
Rows(rows) == Answered(<<>>, rows)
Error == [status |-> "error", columns |-> <<>>, rows |-> <<>>]
Panic == [status |-> "panic", columns |-> <<>>, rows |-> <<>>]

Sign(n) == IF n < 0 THEN -1 ELSE IF n > 0 THEN 1 ELSE 0

-------------------------------------------------------------------------------
(* Values in order: value_ordering, scale_up, compare_values. *)

Saturate(n) == IF n > MaxInt THEN MaxInt ELSE IF n < -(MaxInt + 1) THEN -(MaxInt + 1) ELSE n

ScaleUp(unscaled, extra) ==
    IF InRange(10 ^ extra) THEN Saturate(unscaled * 10 ^ extra)
    ELSE IF unscaled < 0 THEN -(MaxInt + 1) ELSE MaxInt

ValueOrdering(a, b) ==
    CASE a = Null \/ b = Null ->
           IF a = b THEN 0 ELSE IF a = Null THEN -1 ELSE 1
      [] a[1] = "Int" /\ b[1] = "Int" -> Sign(a[2] - b[2])
      [] a[1] = "Decimal" /\ b[1] = "Decimal" ->
           Sign(IF a[3] < b[3] THEN ScaleUp(a[2], b[3] - a[3]) - b[2]
                               ELSE a[2] - ScaleUp(b[2], a[3] - b[3]))
      [] OTHER -> Sign(TextRank(a) - TextRank(b))

CompareValues(actual, op, expected) ==
    LET ordering == ValueOrdering(actual, expected)
    IN  /\ actual # Null /\ expected # Null
        /\ CASE op = "Eq"    -> ordering = 0
             [] op = "NotEq" -> ordering # 0
             [] op = "Lt"    -> ordering < 0
             [] op = "Gt"    -> ordering > 0
             [] op = "Le"    -> ordering <= 0
             [] op = "Ge"    -> ordering >= 0

-------------------------------------------------------------------------------
(* Names: Scope and resolve_single_table_column. *)

ScopeOf(qualifier, columns) ==
    [i \in DOMAIN columns |->
        [qualifier |-> qualifier, name |-> columns[i].name, type |-> columns[i].type]]

(* Scope::try_resolve: 0 when the name is unknown, or ambiguous. *)
TryResolve(scope, ref) ==
    LET named == {i \in DOMAIN scope : /\ scope[i].name = ref.column
                                       /\ ref.table \in {NoTable, scope[i].qualifier}}
    IN  IF named = {} \/ (ref.table = NoTable /\ Cardinality(named) > 1) THEN 0
        ELSE CHOOSE i \in named : \A j \in named : i <= j

ResolveAll(scope, refs) == [i \in DOMAIN refs |-> TryResolve(scope, refs[i])]

Unresolved(indices) == \E i \in DOMAIN indices : indices[i] = 0

(* Columns of the accumulated rows and of the new table that ON compares:  *)
(* both ways round are tried; <<>> when neither resolves.                  *)
JoinColumns(scope, new_scope, join) ==
    LET Pair(a, b) == <<TryResolve(scope, a), TryResolve(new_scope, b)>>
        straight   == Pair(join.left, join.right)
        swapped    == Pair(join.right, join.left)
    IN  IF ~ Unresolved(straight) THEN straight
        ELSE IF ~ Unresolved(swapped) THEN swapped ELSE <<>>

(* Would row[i] panic for some row and some of these columns? *)
OutOfBounds(rows, indices) ==
    \E n \in DOMAIN rows : \E i \in indices : i > Len(rows[n])

-------------------------------------------------------------------------------
(* Mutant: a NULL key joins with a NULL key. *)
HashJoinNulls(left, left_idx, right, right_idx, right_width, join_type) ==
    LET Matches(row) == SelectSeq(right, LAMBDA r : r[right_idx] = row[left_idx])
    IN  FlattenSeq([n \in DOMAIN left |->
            LET found == Matches(left[n])
            IN  IF found # <<>> THEN [i \in DOMAIN found |-> left[n] \o found[i]]
                ELSE IF join_type = "Left" THEN <<left[n] \o [i \in 1..right_width |-> Null]>>
                ELSE <<>>])

(* hash_join: the index holds the new table's rows by the value of their   *)
(* ON column, equal meaning the same variant with the same contents.       *)
HashJoin(left, left_idx, right, right_idx, right_width, join_type) ==
    LET Matches(row) == SelectSeq(right, LAMBDA r : /\ r[right_idx] # Null
                                                    /\ r[right_idx] = row[left_idx])
    IN  FlattenSeq([n \in DOMAIN left |->
            LET found == Matches(left[n])
            IN  IF found # <<>> THEN [i \in DOMAIN found |-> left[n] \o found[i]]
                ELSE IF join_type = "Left" THEN <<left[n] \o [i \in 1..right_width |-> Null]>>
                ELSE <<>>])

(* apply_where *)
ApplyWhere(rows, scope, where) ==
    LET idx      == TryResolve(scope, where.column)
        expected == Coerce(where.value, scope[idx].type)
    IN  IF where = NoWhere THEN Rows(rows)
        ELSE IF idx = 0 \/ expected = Invalid THEN Error
        ELSE IF OutOfBounds(rows, {idx}) THEN Panic
        ELSE Rows(SelectSeq(rows, LAMBDA r : CompareValues(r[idx], where.op, expected)))

-------------------------------------------------------------------------------
(* Sorting and pages: sort_and_paginate.  A sort key is [idx, descending]. *)

RowOrdering(a, b, keys) ==
    LET Ord(k) == (IF keys[k].descending THEN -1 ELSE 1)
                    * ValueOrdering(a[keys[k].idx], b[keys[k].idx])
        differ == {k \in DOMAIN keys : Ord(k) # 0}
    IN  IF differ = {} THEN 0 ELSE Ord(CHOOSE k \in differ : \A j \in differ : k <= j)

(* slice::sort_by is stable. *)
StableSort(rows, keys) ==
    LET order == SetToSortSeq(DOMAIN rows, LAMBDA i, j :
                    LET o == RowOrdering(rows[i], rows[j], keys) IN o < 0 \/ (o = 0 /\ i < j))
    IN  [n \in DOMAIN rows |-> rows[order[n]]]

(* select_nth_unstable_by(keep - 1) and truncate(keep): keep rows that no  *)
(* dropped row precedes, in any order.                                     *)
Selections(rows, keys, keep) ==
    {[n \in 1..keep |-> rows[p[n]]] : p \in
        UNION {SetToSeqs(K) : K \in
            {K \in kSubset(keep, DOMAIN rows) :
                \A i \in K, j \in DOMAIN rows \ K : RowOrdering(rows[i], rows[j], keys) <= 0}}}

(* Mutant: only limit rows are kept before the offset is skipped. *)
SortAndPaginateShort(rows, keys, limit, offset) ==
    LET chosen == CASE keys = <<>> -> {rows}
                    [] keys # <<>> /\ limit > 0 /\ limit < Len(rows) ->
                         {StableSort(s, keys) : s \in Selections(rows, keys, limit)}
                    [] OTHER -> {StableSort(rows, keys)}
    IN  {SubSeq(s, offset + 1, IF limit < Len(s) - offset THEN offset + limit ELSE Len(s)) :
            s \in chosen}

(* The pages the code may return: the order of rows that compare equal is  *)
(* the selection's choice.                                                 *)
SortAndPaginate(rows, keys, limit, offset) ==
    LET keep   == IF limit = NoLimit THEN NoLimit ELSE offset + limit
        chosen == CASE keys = <<>> -> {rows}
                    [] keys # <<>> /\ keep > 0 /\ keep < Len(rows) ->
                         {StableSort(s, keys) : s \in Selections(rows, keys, keep)}
                    [] OTHER -> {StableSort(rows, keys)}
    IN  {SubSeq(s, offset + 1, IF limit < Len(s) - offset THEN offset + limit ELSE Len(s)) :
            s \in chosen}

(* A sort of at least two rows looks at their first key, and at a later    *)
(* one when they agree on the keys before it.                              *)
SortOutOfBounds(rows, keys) ==
    \E m, n \in DOMAIN rows, k \in DOMAIN keys :
        /\ m # n
        /\ keys[k].idx > Len(rows[m])
        /\ \A j \in 1..k - 1 : keys[j].idx <= Len(rows[m]) /\ keys[j].idx <= Len(rows[n])
        /\ RowOrdering(rows[m], rows[n], SubSeq(keys, 1, k - 1)) = 0

SortKeys(indices, order_by) ==
    [k \in DOMAIN indices |-> [idx |-> indices[k], descending |-> order_by[k].descending]]

(* resolve_projection: <<0>> stands for an error. *)
ResolveProjection(scope, projection) ==
    IF projection = <<Wildcard>> THEN [i \in DOMAIN scope |-> i]
    ELSE [i \in DOMAIN projection |->
            IF projection[i].fn = "" THEN TryResolve(scope, projection[i].column) ELSE 0]

(* execute_projected: the results it may return. *)
ExecuteProjected(scope, rows, q) ==
    LET selected == ResolveProjection(scope, q.projection)
        columns  == ResolveAll(scope, [k \in DOMAIN q.order_by |-> q.order_by[k].column])
        keys     == SortKeys(columns, q.order_by)
        types    == [i \in DOMAIN selected |-> scope[selected[i]].type]
        Project(page) == [n \in DOMAIN page |-> [i \in DOMAIN selected |-> page[n][selected[i]]]]
    IN  IF Unresolved(selected) \/ Unresolved(columns) THEN {Error}
        ELSE IF SortOutOfBounds(rows, keys) THEN {Panic}
        ELSE {IF OutOfBounds(page, {selected[i] : i \in DOMAIN selected})
                THEN Panic ELSE Answered(types, Project(page)) :
              page \in SortAndPaginate(rows, keys, q.limit, q.offset)}

-------------------------------------------------------------------------------
(* Aggregates: is_aggregate_query, aggregate_result_type,                  *)
(* evaluate_aggregate and execute_aggregate.                               *)

IsAggregateQuery(q) ==
    q.group_by # <<>> \/ \E i \in DOMAIN q.projection : q.projection[i].fn \notin {"", "*"}

Numeric(type) == type[1] \in {"Int", "Decimal"}

(* resolve_aggregate_arg and aggregate_result_type: may fn be applied to   *)
(* column idx of scope?  No column stands for COUNT( * ).                  *)
AggregateOk(fn, column, idx, scope) ==
    IF column = NoColumn THEN fn = "COUNT"
    ELSE idx # 0 /\ (fn \in {"SUM", "AVG"} => Numeric(scope[idx].type))

(* Mutant: an average is reported with the scale of its column. *)
AggregateResultTypeNarrow(fn, type) ==
    CASE fn = "COUNT"                -> <<"Int">>
      [] fn \in {"SUM", "MIN", "MAX"} -> type
      [] fn = "AVG"                  -> <<"Decimal", IF type[1] = "Int" THEN 4 ELSE type[2]>>

(* aggregate_result_type: the type that is reported for the column. *)
AggregateResultType(fn, type) ==
    CASE fn = "COUNT"                -> <<"Int">>
      [] fn \in {"SUM", "MIN", "MAX"} -> type
      [] fn = "AVG"                  -> <<"Decimal", IF type[1] = "Int" THEN 4
                                                    ELSE IF type[2] + 4 < 30 THEN type[2] + 4
                                                    ELSE 30>>

(* checked_add along the values: Invalid from the first overflow on. *)
CheckedSum(values) ==
    FoldLeft(LAMBDA sum, v : IF sum = Invalid \/ ~ InRange(sum[2] + v) THEN Invalid
                             ELSE <<"Ok", sum[2] + v>>, <<"Ok", 0>>, values)

(* Mutant: the average is cut off, not rounded. *)
AverageTruncated(sum, count, scale) ==
    LET scaled == sum * 10 ^ 4
    IN  IF ~ InRange(scaled) THEN Invalid
        ELSE <<"Decimal", Sign(scaled) * (Abs(scaled) \div count), scale + 4>>

(* AVG: four more digits, half away from zero. *)
Average(sum, count, scale) ==
    LET avg_scale == IF scale + 4 < 30 THEN scale + 4 ELSE 30
        scaled    == sum * 10 ^ (avg_scale - scale)
        rounded   == (Abs(scaled) + count \div 2) \div count
    IN  IF ~ InRange(scaled) \/ ~ InRange(rounded) THEN Invalid
        ELSE <<"Decimal", IF scaled < 0 THEN -rounded ELSE rounded, avg_scale>>

EvaluateAggregate(fn, column, idx, type, rows) ==
    LET cells   == IF column = NoColumn THEN <<>> ELSE [n \in DOMAIN rows |-> rows[n][idx]]
        present == SelectSeq(cells, LAMBDA v : v # Null)
        numbers == SelectSeq(cells, LAMBDA v :
                       v[1] \in IF fn = "SUM" THEN {type[1]} ELSE {"Int", "Decimal"})
        sum     == CheckedSum([n \in DOMAIN numbers |-> numbers[n][2]])
        scale   == IF type[1] = "Decimal" THEN type[2] ELSE 0
        Best(better(_)) == FoldLeft(LAMBDA best, v :
                       IF best = Null \/ better(ValueOrdering(v, best)) THEN v ELSE best,
                       Null, present)
    IN  CASE fn = "COUNT" /\ column = NoColumn -> <<"Int", Len(rows)>>
          [] fn = "COUNT" /\ column # NoColumn -> <<"Int", Len(present)>>
          [] fn = "MIN" -> Best(LAMBDA o : o < 0)
          [] fn = "MAX" -> Best(LAMBDA o : o > 0)
          [] fn \in {"SUM", "AVG"} ->
               CASE numbers = <<>> -> Null
                 [] numbers # <<>> /\ sum = Invalid -> Invalid
                 [] OTHER -> IF fn = "AVG" THEN Average(sum[2], Len(numbers), scale)
                             ELSE IF type[1] = "Int" THEN <<"Int", sum[2]>>
                             ELSE <<"Decimal", sum[2], scale>>

KeyOrdering(a, b) ==
    RowOrdering(a, b, [i \in DOMAIN a |-> [idx |-> i, descending |-> FALSE]])

(* execute_aggregate: the results it may return.  ORDER BY names columns   *)
(* of the output.  A row without one of the columns used is a panic.       *)
ExecuteAggregate(scope, rows, q) ==
    LET group_by == ResolveAll(scope, q.group_by)
        items    == q.projection
        arg      == [i \in DOMAIN items |->
                       IF items[i].fn = "*" THEN 0 ELSE TryResolve(scope, items[i].column)]
        ItemOk(i) == CASE items[i].fn = "*" -> FALSE
                       [] items[i].fn = ""  ->
                            arg[i] # 0 /\ \E g \in DOMAIN group_by : group_by[g] = arg[i]
                       [] OTHER -> AggregateOk(items[i].fn, items[i].column, arg[i], scope)
        Type(i)  == IF arg[i] = 0 THEN <<"Int">> ELSE scope[arg[i]].type
        types    == [i \in DOMAIN items |-> IF items[i].fn = "" THEN Type(i)
                                             ELSE AggregateResultType(items[i].fn, Type(i))]
        order    == [k \in DOMAIN q.order_by |->
                       SelectInSeq(items, LAMBDA it : it.name = q.order_by[k].column.column)]
        used     == {group_by[g] : g \in DOMAIN group_by} \cup {arg[i] : i \in DOMAIN items}
        Key(row) == [g \in DOMAIN group_by |-> row[group_by[g]]]
        keys     == IF group_by = <<>> THEN <<<<>>>>
                    ELSE SetToSortSeq({Key(rows[n]) : n \in DOMAIN rows},
                                      LAMBDA a, b : KeyOrdering(a, b) < 0)
        Out(key) == LET group == SelectSeq(rows, LAMBDA r : Key(r) = key)
                    IN  [i \in DOMAIN items |->
                           IF items[i].fn = ""
                             THEN key[CHOOSE g \in DOMAIN group_by : group_by[g] = arg[i]]
                             ELSE EvaluateAggregate(items[i].fn, items[i].column, arg[i], Type(i), group)]
        output   == [n \in DOMAIN keys |-> Out(keys[n])]
    IN  IF Unresolved(group_by) \/ \E i \in DOMAIN items : ~ ItemOk(i) THEN {Error}
        ELSE IF OutOfBounds(rows, used) THEN {Panic}
        ELSE IF \E n \in DOMAIN output : Invalid \in {output[n][i] : i \in DOMAIN items} THEN {Error}
        ELSE IF Unresolved(order) THEN {Error}
        ELSE {Answered(types, page) : page \in
                SortAndPaginate(output, SortKeys(order, q.order_by), q.limit, q.offset)}
===============================================================================
