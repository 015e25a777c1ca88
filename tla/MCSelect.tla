------------------------------ MODULE MCSelect -------------------------------
(* Model-checking instances of Select. *)
EXTENDS Select

INT == <<"Int">>
DEC(scale) == <<"Decimal", scale>>
I(n) == <<"Int", n>>
D(u, s) == <<"Decimal", u, s>>

(* The texts of these values, in the order of their numbers. *)
Text(v) == IF v[1] = "Decimal" THEN v[2] ELSE v[2] * 10

Column(name, type, nullable) ==
    [name |-> name, type |-> type, nullable |-> nullable, auto_increment |-> FALSE]

Ref(column) == [table |-> NoTable, column |-> column]
Of(table, column) == [table |-> table, column |-> column]
Col(column) == [fn |-> "", column |-> Ref(column), name |-> column]
Agg(fn, column) == [fn |-> fn, column |-> Ref(column), name |-> fn]
CountAll == [fn |-> "COUNT", column |-> NoColumn, name |-> "n"]
Where(column, op, value) == [op |-> op, column |-> column, value |-> value]
By(column, descending) == [column |-> Ref(column), descending |-> descending]

(* SELECT * FROM t, and its variations. *)
From(table, joins) ==
    [table |-> table, qualifier |-> table, joins |-> joins, where |-> NoWhere,
     projection |-> <<Wildcard>>, group_by |-> <<>>, order_by |-> <<>>,
     limit |-> NoLimit, offset |-> 0]

Table(columns, key, rows) == Rebuild(columns, key, rows)

NoPending == {EmptyMap}

Workload(dbs, own, queries, batches, alters) ==
    [tables |-> dbs, pending |-> own, queries |-> queries, batches |-> batches,
     alters |-> alters, asks |-> {}, databases |-> {}]

-----------------------------------------------------------------------------
(* One table: a key, a group and an amount. *)
T(rows) == Table(<<Column("id", INT, FALSE), Column("g", INT, TRUE),
                   Column("d", DEC(1), TRUE)>>, "id", rows)

R(id, g, d) == <<I(id), g, d>>

OneTable ==
    {("t" :> T(<<>>)),
     ("t" :> T(<<R(2, I(1), D(5, 1)), R(1, Null, D(-2, 1)), R(3, I(1), Null)>>)),
     ("t" :> T(<<R(1, I(1), D(MaxInt, 1)), R(2, I(0), D(2, 1)), R(3, I(1), D(1, 1)),
                 R(4, Null, D(-1, 1))>>)),
     ("t" :> T(<<R(1, I(0), D(1, 1)), R(3, I(0), D(1, 1)), R(4, I(0), D(0, 1))>>))}

OnePending == {EmptyMap, ("t" :> <<R(7, I(0), D(4, 1))>>), ("t" :> <<R(5, Null, Null), R(6, I(1), Null)>>)}

OneQueries ==
    LET t == From("t", <<>>)
    IN  {From("x", <<>>), t} \cup
        {[t EXCEPT !.where = Where(Ref(c), op, v)] :
            c \in {"id", "g", "z"}, op \in {"Eq", "NotEq", "Lt", "Ge"}, v \in {I(1), I(7), Null}} \cup
        {[t EXCEPT !.where = Where(Of(q, "d"), op, D(2, 2))] :
            q \in {"t", "s"}, op \in {"Eq", "Le", "Gt"}} \cup
        {[t EXCEPT !.projection = <<Col("id"), Col("d")>>, !.order_by = order,
                   !.limit = l, !.offset = o] :
            order \in {<<>>, <<By("g", TRUE)>>, <<By("g", FALSE), By("d", TRUE)>>, <<By("z", TRUE)>>},
            l \in {0, 1, 2, NoLimit}, o \in {0, 1, 3}}

OneAggregates ==
    LET t == From("t", <<>>)
    IN  {[t EXCEPT !.group_by = g, !.projection = p, !.order_by = o] :
            g \in {<<>>, <<Ref("g")>>},
            p \in {<<CountAll, Agg("COUNT", "d")>>, <<Agg("SUM", "d")>>, <<Agg("AVG", "d")>>,
                   <<Agg("MIN", "d"), Agg("MAX", "d")>>, <<Agg("AVG", "id"), CountAll>>,
                   <<Col("g"), Agg("SUM", "id")>>, <<Wildcard, CountAll>>},
            o \in {<<>>, <<By("n", TRUE)>>}} \cup
        {[t EXCEPT !.group_by = <<Ref("g")>>, !.projection = <<Col("g"), CountAll>>,
                   !.order_by = <<By("n", d)>>, !.limit = 1, !.offset = o] :
            d \in BOOLEAN, o \in {0, 1}}

OneBatches == {("t" :> <<R(8, I(1), D(3, 1))>>), ("t" :> <<R(7, I(0), Null), R(9, Null, D(1, 1))>>),
               ("t" :> <<Append(R(8, I(1), Null), I(1))>>)}

AddLast == {[table |-> "t", change |-> [kind |-> "AddColumn", column |-> Column("e", INT, TRUE),
                                        is_primary_key |-> FALSE]]}

DropLast == {[table |-> "t", change |-> [kind |-> "DropColumn", column |-> Column("d", DEC(1), TRUE),
                                         is_primary_key |-> FALSE]]}

(* A scan that filters on the last column. *)
LastColumn == {[From("t", <<>>) EXCEPT !.where = Where(Ref("d"), "Gt", I(0))]}

(* A plain scan of everything. *)
AllColumns == {From("t", <<>>)}

-----------------------------------------------------------------------------
(* Three tables: u refers to t, v to u. *)
U(rows) == Table(<<Column("k", INT, FALSE), Column("id", INT, TRUE), Column("a", DEC(1), TRUE)>>, "k", rows)
V(rows) == Table(<<Column("k", INT, TRUE), Column("b", DEC(2), TRUE)>>, NoKey, rows)

S(rows) == Table(<<Column("id", INT, FALSE), Column("g", INT, TRUE)>>, "id", rows)

Database(s, u, v) == ("t" :> S(s)) @@ ("u" :> U(u)) @@ ("v" :> V(v))

ThreeTables ==
    {Database(<<<<I(1), I(2)>>, <<I(2), Null>>>>,
              <<<<I(10), I(1), D(15, 1)>>, <<I(11), Null, D(20, 1)>>, <<I(12), I(1), Null>>>>,
              <<<<I(10), D(150, 2)>>, <<Null, Null>>, <<I(12), D(5, 2)>>>>),
     Database(<<<<I(1), Null>>>>, <<>>, <<<<Null, D(150, 2)>>>>),
     Database(<<>>, <<<<I(10), Null, D(15, 1)>>>>, <<>>)}

JOIN(type, table, alias, left, right) ==
    [type |-> type, table |-> table, qualifier |-> alias, left |-> left, right |-> right]

JoinQueries ==
    LET tu(type) == JOIN(type, "u", "u", Of("t", "id"), Of("u", "id"))
        ut(type) == JOIN(type, "u", "u", Of("u", "id"), Of("t", "id"))
        uv(type) == JOIN(type, "v", "v", Of("u", "k"), Of("v", "k"))
        gg       == JOIN("Left", "t", "s", Of("t", "g"), Of("s", "g"))
        vague    == JOIN("Inner", "u", "u", Ref("id"), Ref("zz"))
        absent   == JOIN("Inner", "w", "w", Of("t", "id"), Of("w", "id"))
    IN  {From("t", <<tu(a)>>) : a \in {"Inner", "Left"}} \cup
        {From("t", <<ut(a), uv(b)>>) : a \in {"Inner", "Left"}, b \in {"Inner", "Left"}} \cup
        {[From("t", <<tu("Left"), uv("Left")>>) EXCEPT !.where = Where(c, op, I(10))] :
            c \in {Of("v", "k"), Of("u", "k"), Ref("id")}, op \in {"Eq", "Gt"}} \cup
        {From("t", <<j>>) : j \in {gg, vague, absent}} \cup
        {[From("t", <<tu("Left")>>) EXCEPT !.projection = <<Agg("SUM", "a"), CountAll>>]}

JoinBatches ==
    {("t" :> <<<<I(3), I(2)>>>>) @@ ("u" :> <<<<I(13), I(3), D(1, 1)>>, <<I(14), I(1), Null>>>>),
     ("v" :> <<<<I(10), Null>>, <<I(13), D(5, 2)>>>>)}

JoinPending == {EmptyMap, ("u" :> <<<<I(15), I(2), D(5, 1)>>>>)}

(* One join, one commit that touches both of its tables. *)
PairQuery == {From("t", <<JOIN("Inner", "u", "u", Of("t", "id"), Of("u", "id"))>>)}

(* A join of DECIMAL columns of different scales. *)
ScaleQuery == {From("u", <<JOIN("Inner", "v", "v", Of("u", "a"), Of("v", "b"))>>)}

-----------------------------------------------------------------------------
(* What is asked without a table. *)
Small(c) == CASE c = "TIMEOUT" -> "timeout" [] c = "GLOBAL" -> "global" [] OTHER -> c

Rank(name) == CHOOSE n \in 1..5 : <<"d", "e", "t", "u", "v">>[n] = name

SomeVariables ==
    << <<<<"sql", "_", "mode">>, Word("")>>, <<<<"autocommit">>, I(1)>>,
       <<<<"net", "_", "read", "_", "timeout">>, I(30)>>, <<<<"socket">>, Null>> >>

SHOW(show) == [op |-> "show", show |-> show, like |-> <<>>]
SHOW_VARIABLES_LIKE(pattern) == [op |-> "show", show |-> "Variables", like |-> <<pattern>>]
SELECT(items, limit, offset) ==
    [op |-> "values", items |-> items, limit |-> limit, offset |-> offset]

Variable(scope, name) == <<"Variable", scope, name>>
VersionText == <<"word", "8.0.36-mysql-rust">>
TIMEOUT == <<"wait", "_", "TIMEOUT">>

Asks ==
    {SHOW(s) : s \in {"Databases", "Tables", "CharacterSet", "Collation", "Warnings",
                      "Variables", "Other"}} \cup
    {SHOW_VARIABLES_LIKE(p) :
        p \in {<<>>, <<"%">>, <<"%", "TIMEOUT">>, <<"socket", "%">>, <<"_">>, <<"%", "_", "%">>,
               <<"sql", "%", "mode", "%">>, <<"%", "net", "%", "%">>, <<"sql", "_", "_">>}} \cup
    {SELECT(<<v, D(15, 1)>>, l, o) :
        v \in {Variable("GLOBAL", TIMEOUT), Variable("", <<"socket">>), Variable("other", TIMEOUT),
               <<"Function", "version">>, <<"Function", "now">>, Null, Word("a"), <<"Date", 1>>},
        l \in {0, 1, NoLimit}, o \in {0, 1}} \cup
    {SELECT(<<I(1), e>>, 1, 0) : e \in {<<"Wildcard">>, <<"Column">>, <<"Placeholder">>}} \cup
    {[op |-> "set"], [op |-> "use"]}

Told ==
    [Workload(ThreeTables, NoPending, {}, JoinBatches, {}) EXCEPT
        !.asks = Asks, !.databases = {"e", "d"}]

-----------------------------------------------------------------------------
(* Scans, aggregates while a column is added, and joins. *)
Reads ==
    ("scans"      :> Workload(OneTable, OnePending, OneQueries, OneBatches, {})) @@
    ("aggregates" :> Workload(OneTable, NoPending, OneAggregates, OneBatches, AddLast)) @@
    ("joins"      :> Workload(ThreeTables, JoinPending, JoinQueries, JoinBatches, {})) @@
    ("asks"       :> Told)

(* What the runs that contradict a comment do. *)
PendingAlter == ("pending alter" :> Workload(OneTable, OnePending, AllColumns, {}, AddLast))
DropRace == ("drop race" :> Workload(OneTable, NoPending, LastColumn, {}, DropLast))
JoinRace == ("join race" :> Workload(ThreeTables, NoPending, PairQuery, JoinBatches, {}))
Scales == ("scales" :> Workload(ThreeTables, NoPending, ScaleQuery, {}, {}))
===============================================================================
