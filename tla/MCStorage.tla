------------------------------ MODULE MCStorage ------------------------------
(* Model-checking instances of Storage. *)
EXTENDS Storage, TLC

CONSTANTS c1, c2

INT == <<"Int">>
VARCHAR == <<"Varchar">>
I(n) == <<"Int", n>>

Column(name, type, nullable, auto) ==
    [name |-> name, type |-> type, nullable |-> nullable, auto_increment |-> auto]

Id == Column("id", INT, FALSE, FALSE)
AutoId == Column("id", INT, FALSE, TRUE)
V(type) == Column("v", type, TRUE, FALSE)
X(auto) == Column("x", INT, TRUE, auto)
Text(n, k) == <<"Varchar", <<"num", n, 0, k>>>>

(* A column as the parser gives it. *)
Def(column, key) ==
    [name |-> column.name, type |-> column.type, nullable |-> TRUE,
     auto_increment |-> column.auto_increment, is_primary_key |-> key]

INSERT(table, rows) == [op |-> "insert", table |-> table, columns |-> NoList, rows |-> rows]
INSERT_INTO(table, columns, rows) ==
    [op |-> "insert", table |-> table, columns |-> columns, rows |-> rows]
CREATE(table, defs) == [op |-> "createTable", table |-> table, columns |-> defs]
ALTER(table, kind, column, key) ==
    [op |-> "alterTable", table |-> table,
     change |-> [kind |-> kind, column |-> Def(column, key)]]
CREATE_DATABASE(name, lenient) == [op |-> "createDatabase", name |-> name, lenient |-> lenient]
DROP_DATABASE(name, lenient) == [op |-> "dropDatabase", name |-> name, lenient |-> lenient]
BEGIN == [op |-> "begin"]
COMMIT == [op |-> "commit"]
ROLLBACK == [op |-> "rollback"]

TwoConns == {c1, c2}

(* Two tables with a key, generated in one of them. *)
MixedTables ==
    [tables |-> [t \in {"t", "u"} |-> NewTable(<<IF t = "t" THEN AutoId ELSE Id>>, "id")],
     databases |-> {}]

(* Both connections insert one row or two, with given and with generated   *)
(* keys, in transactions and outside.                                      *)
Dml ==
    (c1 :> {INSERT("t", <<<<I(2)>>, <<I(1)>>>>), INSERT("u", <<<<I(1)>>>>),
            BEGIN, COMMIT, ROLLBACK}) @@
    (c2 :> {INSERT("t", <<<<Null>>, <<I(2)>>>>), INSERT("u", <<<<I(1)>>>>),
            BEGIN, COMMIT})

Empty == [tables |-> EmptyMap, databases |-> {}]
One(table, t) == [tables |-> (table :> t), databases |-> {}]

(* A table with an AUTO_INCREMENT key and one VARCHAR column. *)
AutoTable == One("t", NewTable(<<AutoId, V(VARCHAR)>>, "id"))

(* One connection changes the schema of t in every way and inserts into    *)
(* it; the other creates and fills another table.                          *)
Ddl ==
    (c1 :> {ALTER("t", "AddColumn", X(FALSE), FALSE),
            ALTER("t", "DropColumn", X(FALSE), FALSE),
            ALTER("t", "DropColumn", AutoId, FALSE),
            ALTER("t", "ModifyColumn", V(INT), FALSE),
            ALTER("t", "ModifyColumn", V(VARCHAR), FALSE),
            ALTER("t", "AddPrimaryKey", Id, FALSE),
            ALTER("t", "DropPrimaryKey", Id, FALSE),
            INSERT_INTO("t", <<"v">>, <<<<Text(1, 1)>>>>),
            INSERT_INTO("t", <<"x", "v", "id">>, <<<<Null, I(1), I(2)>>>>)}) @@
    (c2 :> {CREATE("u", <<Def(Id, TRUE)>>), CREATE("u", <<Def(Id, TRUE), Def(AutoId, TRUE)>>), INSERT("u", <<<<I(1)>>>>),
            CREATE_DATABASE("d", TRUE), DROP_DATABASE("d", FALSE)})

-----------------------------------------------------------------------------
(* What the runs that contradict a comment send. *)
CreateRace ==
    (c1 :> {CREATE("t", <<Def(Id, TRUE)>>)}) @@
    (c2 :> {CREATE("t", <<Def(Id, TRUE)>>), INSERT("t", <<<<I(1)>>>>)})

DatabaseRace ==
    (c1 :> {CREATE_DATABASE("d", FALSE)}) @@ (c2 :> {DROP_DATABASE("d", TRUE)})

AlterRace ==
    (c1 :> {ALTER("t", "AddColumn", X(FALSE), FALSE)}) @@
    (c2 :> {ALTER("t", "AddColumn", V(INT), FALSE)})

InsertAlter ==
    (c1 :> {INSERT("t", <<<<I(1)>>>>), BEGIN, COMMIT}) @@
    (c2 :> {ALTER("t", "AddColumn", X(FALSE), FALSE)})

PartialInsert ==
    [c \in TwoConns |-> {BEGIN, INSERT("t", <<<<I(1)>>, <<I(1)>>>>)}]

BurnedValue ==
    [c \in TwoConns |-> {INSERT("t", <<<<Null, Null>>, <<I(1), Null>>>>)}]

LargestInt ==
    [c \in TwoConns |-> {INSERT("t", <<<<I(MaxInt), Null>>>>)}]

SecondAuto ==
    [c \in TwoConns |-> {ALTER("t", "AddColumn", X(TRUE), FALSE)}]

ModifyKey ==
    [c \in TwoConns |-> {ALTER("t", "ModifyColumn", Column("id", INT, TRUE, FALSE), FALSE),
                         INSERT("t", <<<<Text(1, 0)>>, <<Text(1, 1)>>>>)}]

KeyedTable == One("t", NewTable(<<Id>>, "id"))
TextTable == One("t", NewTable(<<Column("id", VARCHAR, FALSE, FALSE)>>, "id"))
=============================================================================
