------------------------------- MODULE Grammar -------------------------------
(***************************************************************************)
(* The recursive-descent parser of query/parser.rs.                        *)
(*                                                                         *)
(* Each parse_ function is the list of the things it does next, chosen by  *)
(* the tokens ahead of it: la[1] is peek(), la[2] is peek_at(1).  Calls    *)
(* are made with a stack of such lists and a stack of the values the       *)
(* functions have in their local variables; module Sql takes the steps.    *)
(* A node of the syntax tree is a tuple: its variant, then its fields.     *)
(***************************************************************************)
EXTENDS Lexer, FiniteSets

None == <<"None">>
Some(v) == <<"Some", v>>

(* Steps of a function. *)
Skip == <<"skip">>                     \* self.pos += 1
Expect(token) == <<"expect", token>>   \* expect_punct
Word(w) == <<"word", {w}>>             \* expect_ident_ci
Take(kind) == <<"take", kind>>         \* advance(), the token's value is kept
Forget == <<"forget">>                 \* a value that is not used
SkipTo(tokens) == <<"skipTo", tokens>> \* up to one of them or the end
AtEnd == <<"atEnd">>                   \* nothing may follow
Call(f) == <<"call", f, None>>
CallWith(f, x) == <<"call", f, x>>
Push(v) == <<"push", v>>
Build(node, n) == <<"build", node, n>> \* a node of the last n values
Define == <<"define">>                 \* a ColumnDef of a name and a type
Store(field, v) == <<"store", field, v>>  \* into that ColumnDef
Add == <<"add">>                       \* Vec::push
Swap == <<"swap">>                     \* the last two values, the other way round
Placeholder == <<"placeholder">>
Keyed == <<"keyed">>                   \* apply_primary_key_constraint
OnlyOne == <<"onlyOne">>               \* let [name] = list
Reject == <<"reject">>

Kw(k) == <<"Keyword", k>>

(* peek_is_ident_ci: quoted or not, an identifier is an identifier. *)
IsWord(token, w) == token[1] = "Ident" /\ Upper(token[2]) = <<w>>

(* is_database_ident *)
IsDatabaseIdent(token) == IsWord(token, "DATABASE") \/ IsWord(token, "SCHEMA")

Optional(present, steps) == IF present THEN <<Skip>> \o steps ELSE <<>>

(* eat_semicolon_and_ensure_end *)
ensure_end(la) == Optional(la[1] = <<";">>, <<>>) \o <<AtEnd>>

(* Items up to a closing parenthesis: after one, `,` or `)` must come. *)
until_closed(la, item) ==
    CASE la[1] = <<",">> -> <<Skip, Call(item), Add, CallWith("until_closed", item)>>
      [] la[1] = <<")">> -> <<Skip>>
      [] OTHER           -> <<Reject>>

(* Items for as long as a comma follows. *)
more(la, item) == Optional(la[1] = <<",">>, <<Call(item), Add, CallWith("more", item)>>)

(* expect_qualified_ident: the last segment. *)
segments(la) ==
    Optional(la[1] = <<".">>, <<Forget, Take("Ident"), Call("segments")>>)
qualified_ident(la) == <<Take("Ident"), Call("segments")>>

eat_optional_name(la) == Optional(la[1][1] = "Ident", <<>>)

(* parse_parenthesized_column_list: a prefix length is read past. *)
index_column(la) == <<Take("Ident"), Call("prefix_length")>>
prefix_length(la) == Optional(la[1] = <<"(">>, <<Take("Integer"), Forget, Expect(<<")">>)>>)
parenthesized_column_list(la) ==
    <<Expect(<<"(">>), Push(<<>>), Call("index_column"), Add, CallWith("until_closed", "index_column")>>

-------------------------------------------------------------------------------
(* Expressions. *)

finish_column_ref(la) ==
    IF la[1] = <<".">> THEN <<Skip, Take("Ident"), Build("ColumnRef", 2)>>
                       ELSE <<Build("ColumnRef", 1)>>
column_ref(la) == <<Take("Ident"), Call("finish_column_ref")>>

(* parse_function_call, at its opening parenthesis. *)
function_call(la, name) ==
    CASE Upper(name) = <<"COUNT">> /\ la[2] = <<"*">> ->
           <<Skip, Skip, Expect(<<")">>), Push(<<>>), Build("Function", 2)>>
      [] la[2] = <<")">> -> <<Skip, Push(<<>>), Skip, Build("Function", 2)>>
      [] OTHER ->
           <<Skip, Push(<<>>), Call("expr"), Add, CallWith("more", "expr"),
             Expect(<<")">>), Build("Function", 2)>>

(* parse_expr at an identifier. *)
ident_expr(la) ==
    IF IsWord(la[1], "TRUE") THEN <<Skip, Push(<<"Int", 1>>)>>
    ELSE IF IsWord(la[1], "FALSE") THEN <<Skip, Push(<<"Int", 0>>)>>
    ELSE IF la[2] = <<"(">> THEN <<Take("Ident"), CallWith("function_call", la[1][2])>>
    ELSE <<Call("column_ref"), Build("Column", 1)>>

(* parse_expr *)
expr(la, allow_placeholders) ==
    CASE la[1][1] = "Integer"                  -> <<Skip, Push(<<"Int", la[1][2]>>)>>
      [] la[1][1] = "Str"                      -> <<Skip, Push(<<"Varchar", la[1][2]>>)>>
      [] la[1][1] \in {"Decimal", "SystemVariable"} -> <<Skip, Push(la[1])>>
      [] la[1] = Kw("NULL")                    -> <<Skip, Push(Null)>>
      [] la[1][1] = "Ident"                    -> ident_expr(la)
      [] la[1] = <<"?">> /\ allow_placeholders -> <<Skip, Placeholder>>
      [] OTHER                                 -> <<Reject>>

(* parse_condition *)
CompareOps == {<<"=">>, <<"<>">>, <<"<">>, <<">">>, <<"<=">>, <<">=">>}
condition(la) == <<Call("column_ref"), Call("compare_op"), Call("expr"), Build("Condition", 3)>>
compare_op(la) == IF la[1] \in CompareOps THEN <<Skip, Push(la[1])>> ELSE <<Reject>>

(* expect_unsigned_integer *)
unsigned_integer(la) ==
    IF la[1][1] = "Integer" /\ la[1][2] >= 0 THEN <<Take("Integer")>> ELSE <<Reject>>

-------------------------------------------------------------------------------
(* SELECT. *)

(* parse_optional_alias *)
alias(la) ==
    CASE la[1] = Kw("AS")     -> <<Skip, Take("Ident"), Build("Some", 1)>>
      [] la[1][1] = "Ident"   -> <<Take("Ident"), Build("Some", 1)>>
      [] OTHER                -> <<Push(None)>>

select_item(la) ==
    IF la[1] = <<"*">> THEN <<Skip, Push(<<"Wildcard">>)>>
                       ELSE <<Call("expr"), Call("alias"), Build("Expr", 2)>>

table_ref(la) == <<Call("qualified_ident"), Call("alias"), Build("TableRef", 2)>>

(* parse_from_clause *)
from_clause(la) ==
    IF la[1] = Kw("FROM")
      THEN <<Skip, Call("table_ref"), Push(<<>>), Call("joins"), Build("From", 2),
             Build("Some", 1), Call("where")>>
      ELSE <<Push(None), Push(None)>>
where(la) ==
    IF la[1] = Kw("WHERE") THEN <<Skip, Call("condition"), Build("Some", 1)>> ELSE <<Push(None)>>
joins(la) ==
    LET joined == <<Call("table_ref"), Expect(Kw("ON")), Call("column_ref"), Expect(<<"=">>),
                    Call("column_ref"), Build("Join", 4), Add, Call("joins")>>
    IN  CASE la[1] = Kw("JOIN")  -> <<Skip, Push("Inner")>> \o joined
          [] la[1] = Kw("INNER") -> <<Skip, Expect(Kw("JOIN")), Push("Inner")>> \o joined
          [] la[1] = Kw("LEFT")  -> <<Skip>> \o Optional(la[2] = Kw("OUTER"), <<>>)
                                    \o <<Expect(Kw("JOIN")), Push("Left")>> \o joined
          [] OTHER               -> <<>>

(* parse_optional_group_by *)
group_by(la) ==
    <<Push(<<>>)>> \o Optional(la[1] = Kw("GROUP"),
        <<Expect(Kw("BY")), Call("column_ref"), Add, CallWith("more", "column_ref")>>)

(* Mutant: ORDER alone is enough. *)
order_by_lenient(la) ==
    <<Push(<<>>)>> \o Optional(la[1] = Kw("ORDER"),
        Optional(la[2] = Kw("BY"), <<>>) \o <<Call("order_item"), Add, CallWith("more", "order_item")>>)

(* parse_optional_order_by *)
order_by(la) ==
    <<Push(<<>>)>> \o Optional(la[1] = Kw("ORDER"),
        <<Expect(Kw("BY")), Call("order_item"), Add, CallWith("more", "order_item")>>)
order_item(la) == <<Call("column_ref"), Call("descending"), Build("OrderBy", 2)>>
descending(la) ==
    Optional(IsWord(la[1], "DESC") \/ IsWord(la[1], "ASC"), <<>>) \o <<Push(IsWord(la[1], "DESC"))>>

(* Mutant: LIMIT a, b is read like LIMIT a OFFSET b. *)
limit_rest_in_order(la) ==
    IF la[1] = <<",">> \/ IsWord(la[1], "OFFSET")
      THEN <<Skip, Call("unsigned_integer"), Build("Some", 1)>> ELSE <<Push(None)>>

(* parse_optional_limit: the limit, then the offset. *)
limit_rest(la) ==
    CASE la[1] = <<",">>          -> <<Skip, Call("unsigned_integer"), Build("Some", 1), Swap>>
      [] IsWord(la[1], "OFFSET")  -> <<Skip, Call("unsigned_integer"), Build("Some", 1)>>
      [] OTHER                    -> <<Push(None)>>
limit(la) ==
    IF la[1] = Kw("LIMIT")
      THEN <<Skip, Call("unsigned_integer"), Build("Some", 1), Call("limit_rest")>>
      ELSE <<Push(None), Push(None)>>

parse_select(la) ==
    <<Skip, Push(<<>>), Call("select_item"), Add, CallWith("more", "select_item"),
      Call("from_clause"), Call("group_by"), Call("order_by"), Call("limit"),
      Call("ensure_end"), Build("Select", 7)>>

-------------------------------------------------------------------------------
(* INSERT. *)

column_name(la) == <<Take("Ident")>>
insert_columns(la) ==
    IF la[1] = <<"(">>
      THEN <<Skip, Push(<<>>), Call("column_name"), Add, CallWith("until_closed", "column_name"),
             Build("Some", 1)>>
      ELSE <<Push(None)>>
insert_row(la) ==
    <<Expect(<<"(">>), Push(<<>>), Call("expr"), Add, CallWith("until_closed", "expr")>>
parse_insert(la) ==
    <<Skip, Expect(Kw("INTO")), Call("qualified_ident"), Call("insert_columns"),
      Expect(Kw("VALUES")), Push(<<>>), Call("insert_row"), Add, CallWith("more", "insert_row"),
      Call("ensure_end"), Build("Insert", 3)>>

-------------------------------------------------------------------------------
(* CREATE TABLE and ALTER TABLE. *)

(* parse_column_def: name and type, then attributes in any order.  The     *)
(* size is kept with the type.                                             *)
column_def(la) ==
    <<Take("Ident"), Take("Ident"), Call("type_size"), Build("Type", 2), Call("numeric_attributes"),
      Define, Call("attributes")>>
size(la) == <<Take("Integer")>>
type_size(la) ==
    <<Push(<<>>)>> \o Optional(la[1] = <<"(">>, <<Call("size"), Add, CallWith("until_closed", "size")>>)
numeric_attributes(la) ==
    Optional(IsWord(la[1], "UNSIGNED") \/ IsWord(la[1], "ZEROFILL"), <<Call("numeric_attributes")>>)

attributes(la) ==
    LET again == <<Call("attributes")>>
    IN  CASE la[1] = Kw("NULL") -> <<Skip, Store("nullable", TRUE)>> \o again
          [] IsWord(la[1], "NOT") /\ la[2] = Kw("NULL") ->
               <<Skip, Skip, Store("nullable", FALSE)>> \o again
          [] IsWord(la[1], "AUTO_INCREMENT")  -> <<Skip, Store("auto_increment", TRUE)>> \o again
          [] la[1] = Kw("PRIMARY") ->
               <<Skip, Expect(Kw("KEY")), Store("is_primary_key", TRUE)>> \o again
          [] IsWord(la[1], "UNIQUE")  -> <<Skip>> \o Optional(la[2] = Kw("KEY"), <<>>) \o again
          [] IsWord(la[1], "DEFAULT") -> <<Skip, Call("expr"), Forget>> \o again
          [] IsWord(la[1], "COMMENT") -> <<Skip, Take("Str"), Forget>> \o again
          [] OTHER                    -> <<>>

(* peek_is_table_constraint_start *)
IsConstraintStart(token) ==
    \/ token \in {Kw("PRIMARY"), Kw("KEY")}
    \/ \E w \in {"CONSTRAINT", "UNIQUE", "INDEX", "FOREIGN"} : IsWord(token, w)

(* parse_table_constraint: only PRIMARY KEY has an effect. *)
table_constraint(la) ==
    IF IsWord(la[1], "CONSTRAINT") THEN <<Skip, Call("eat_optional_name"), Call("constraint_body")>>
                                   ELSE <<Call("constraint_body")>>
constraint_body(la) ==
    LET columns  == <<Call("parenthesized_column_list")>>
        is_index == la[1] = Kw("KEY") \/ IsWord(la[1], "INDEX")
    IN  CASE la[1] = Kw("PRIMARY") -> <<Skip, Expect(Kw("KEY"))>> \o columns \o <<Keyed>>
          [] IsWord(la[1], "UNIQUE") ->
               <<Skip>> \o Optional(la[2] = Kw("KEY") \/ IsWord(la[2], "INDEX"), <<>>)
               \o <<Call("eat_optional_name")>> \o columns \o <<Forget>>
          [] is_index -> <<Skip, Call("eat_optional_name")>> \o columns \o <<Forget>>
          [] IsWord(la[1], "FOREIGN") ->
               <<Skip, Expect(Kw("KEY")), Call("eat_optional_name")>> \o columns
               \o <<Forget, Word("REFERENCES"), Call("qualified_ident"), Forget>> \o columns
               \o <<Forget, SkipTo({<<",">>, <<")">>})>>
          [] OTHER -> <<Reject>>

(* parse_create_table: what follows the closing parenthesis is read past. *)
table_item(la) ==
    IF IsConstraintStart(la[1]) THEN <<Call("table_constraint")>> ELSE <<Call("column_def"), Add>>
table_items(la) ==
    CASE la[1] = <<",">> -> <<Skip, Call("table_item"), Call("table_items")>>
      [] la[1] = <<")">> -> <<Skip>>
      [] OTHER           -> <<Reject>>
parse_create_table(la) ==
    <<Skip, Expect(Kw("TABLE")), Call("qualified_ident"), Expect(<<"(">>), Push(<<>>),
      Call("table_item"), Call("table_items"), SkipTo({<<";">>}), Call("ensure_end"),
      Build("CreateTable", 2)>>

(* parse_alter_table: what follows the first action is read past. *)
parse_alter_table(la) ==
    <<Skip, Expect(Kw("TABLE")), Call("qualified_ident"), Call("alter_action"),
      SkipTo({<<";">>}), Call("ensure_end"), Build("AlterTable", 2)>>
alter_action(la) ==
    CASE IsWord(la[1], "ADD")    -> <<Skip, Call("alter_add_action")>>
      [] la[1] = Kw("DROP")      -> <<Skip, Call("alter_drop_action")>>
      [] IsWord(la[1], "MODIFY") ->
           <<Skip>> \o Optional(IsWord(la[2], "COLUMN"), <<>>)
           \o <<Call("column_def"), Build("ModifyColumn", 1)>>
      [] OTHER                   -> <<Reject>>
add_primary_key(la) ==
    IF la[1] = Kw("PRIMARY")
      THEN <<Skip, Expect(Kw("KEY")), Call("parenthesized_column_list"), OnlyOne,
             Build("AddPrimaryKey", 1)>>
      ELSE <<Reject>>
alter_add_action(la) ==
    CASE IsWord(la[1], "CONSTRAINT") -> <<Skip, Call("eat_optional_name"), Call("add_primary_key")>>
      [] la[1] = Kw("PRIMARY")       -> <<Call("add_primary_key")>>
      [] OTHER -> Optional(IsWord(la[1], "COLUMN"), <<>>) \o <<Call("column_def"), Build("AddColumn", 1)>>
alter_drop_action(la) ==
    IF la[1] = Kw("PRIMARY") THEN <<Skip, Expect(Kw("KEY")), Build("DropPrimaryKey", 0)>>
    ELSE Optional(IsWord(la[1], "COLUMN"), <<>>) \o <<Take("Ident"), Build("DropColumn", 1)>>

-------------------------------------------------------------------------------
(* The other statements. *)

database_word == <<"word", {"DATABASE", "SCHEMA"}>>  \* expect_database_or_schema
eat_if(la, words) ==
    IF IsWord(la[1], "IF") THEN <<Skip>> \o [i \in DOMAIN words |-> Word(words[i])] \o <<Push(TRUE)>>
                           ELSE <<Push(FALSE)>>
parse_create_database(la) ==
    <<Skip, database_word, CallWith("eat_if", <<"NOT", "EXISTS">>), Take("Ident"), SkipTo({<<";">>}),
      Call("ensure_end"), Build("CreateDatabase", 2)>>
parse_drop_database(la) ==
    <<Skip, database_word, CallWith("eat_if", <<"EXISTS">>), Take("Ident"), Call("ensure_end"),
      Build("DropDatabase", 2)>>

(* parse_set, parse_use: accepted and ignored. *)
read_past(node) == <<Skip, SkipTo({<<";">>}), Call("ensure_end"), Build(node, 0)>>

(* parse_show and parse_optional_like. *)
like(la) ==
    IF IsWord(la[1], "LIKE") THEN <<Skip, Take("Str"), Build("Some", 1)>> ELSE <<Push(None)>>
ShowKind(la) ==
    LET is(words) == \E w \in words : IsWord(la[2], w)
    IN  CASE is({"WARNINGS", "ERRORS"})   -> "Warnings"
          [] is({"DATABASES", "SCHEMAS"}) -> "Databases"
          [] is({"TABLES"})               -> "Tables"
          [] is({"CHARSET"}) \/ (is({"CHARACTER"}) /\ la[3] = Kw("SET")) -> "CharacterSet"
          [] is({"COLLATION"})            -> "Collation"
          [] is({"VARIABLES", "STATUS"})  -> "Variables"
          [] OTHER                        -> "Other"
parse_show(la) ==
    LET kind == ShowKind(la)
    IN  <<Skip>> \o (IF kind = "Variables" THEN <<Skip, Call("like")>> ELSE <<>>)
        \o <<SkipTo({<<";">>}), Call("ensure_end"),
              Build(kind, IF kind = "Variables" THEN 1 ELSE 0), Build("Show", 1)>>

(* parse_begin, parse_start_transaction, parse_simple. *)
only(node) == <<Skip, Call("ensure_end"), Build(node, 0)>>

parse_statement(la) ==
    CASE la[1] = Kw("CREATE") -> IF IsDatabaseIdent(la[2]) THEN parse_create_database(la)
                                                          ELSE parse_create_table(la)
      [] la[1] = Kw("DROP")     -> parse_drop_database(la)
      [] la[1] = Kw("ALTER")    -> parse_alter_table(la)
      [] la[1] = Kw("INSERT")   -> parse_insert(la)
      [] la[1] = Kw("SELECT")   -> parse_select(la)
      [] la[1] = Kw("BEGIN")    -> only("Begin")
      [] la[1] = Kw("START")    -> <<Skip, Expect(Kw("TRANSACTION")), Call("ensure_end"), Build("Begin", 0)>>
      [] la[1] = Kw("COMMIT")   -> only("Commit")
      [] la[1] = Kw("ROLLBACK") -> only("Rollback")
      [] la[1] = Kw("SET")      -> read_past("Set")
      [] la[1] = Kw("USE")      -> read_past("Use")
      [] la[1] = Kw("SHOW")     -> parse_show(la)
      [] OTHER                  -> <<Reject>>

(* The function a call names. *)
Body(f, la, x, allow_placeholders) ==
    CASE f = "expr" -> expr(la, allow_placeholders)
      [] f = "until_closed" -> until_closed(la, x)    [] f = "more" -> more(la, x)
      [] f = "function_call" -> function_call(la, x)  [] f = "eat_if" -> eat_if(la, x)
      [] f = "parse_statement" -> parse_statement(la) [] f = "ensure_end" -> ensure_end(la)
      [] f = "segments" -> segments(la)               [] f = "qualified_ident" -> qualified_ident(la)
      [] f = "eat_optional_name" -> eat_optional_name(la)
      [] f = "index_column" -> index_column(la)       [] f = "prefix_length" -> prefix_length(la)
      [] f = "parenthesized_column_list" -> parenthesized_column_list(la)
      [] f = "finish_column_ref" -> finish_column_ref(la)
      [] f = "column_ref" -> column_ref(la)           [] f = "condition" -> condition(la)
      [] f = "compare_op" -> compare_op(la)           [] f = "unsigned_integer" -> unsigned_integer(la)
      [] f = "alias" -> alias(la)                     [] f = "select_item" -> select_item(la)
      [] f = "table_ref" -> table_ref(la)             [] f = "from_clause" -> from_clause(la)
      [] f = "where" -> where(la)                     [] f = "joins" -> joins(la)
      [] f = "group_by" -> group_by(la)               [] f = "order_by" -> order_by(la)
      [] f = "order_item" -> order_item(la)           [] f = "descending" -> descending(la)
      [] f = "limit" -> limit(la)                     [] f = "limit_rest" -> limit_rest(la)
      [] f = "column_name" -> column_name(la)         [] f = "insert_columns" -> insert_columns(la)
      [] f = "insert_row" -> insert_row(la)           [] f = "column_def" -> column_def(la)
      [] f = "size" -> size(la)                       [] f = "type_size" -> type_size(la)
      [] f = "numeric_attributes" -> numeric_attributes(la)
      [] f = "attributes" -> attributes(la)           [] f = "table_constraint" -> table_constraint(la)
      [] f = "constraint_body" -> constraint_body(la) [] f = "table_item" -> table_item(la)
      [] f = "table_items" -> table_items(la)         [] f = "alter_action" -> alter_action(la)
      [] f = "add_primary_key" -> add_primary_key(la) [] f = "alter_add_action" -> alter_add_action(la)
      [] f = "alter_drop_action" -> alter_drop_action(la)
      [] f = "like" -> like(la)
===============================================================================
