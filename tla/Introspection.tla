---------------------------- MODULE Introspection ----------------------------
(***************************************************************************)
(* Statements the executor answers without reading a table: SHOW, SET,     *)
(* USE, and a SELECT without FROM (query/executor.rs).                     *)
(*                                                                         *)
(* A name is a sequence of characters; a word of the name of a variable is *)
(* written as one character, as in module Lexer.  A statement is a record  *)
(* [op, ...].  An expression is a value, <<"Variable", scope, name>>,       *)
(* <<"Function", name>>, <<"Column">>, <<"Placeholder">> or <<"Wildcard">>. *)
(***************************************************************************)
EXTENDS Query

CONSTANTS
    LowerCase(_),     \* to_ascii_lowercase of a character
    NameRank(_),      \* place of a database or table name in the order of names
    Version,          \* SystemVariables: the text of the version
    MaxAllowedPacket, \* SystemVariables: a u64
    WaitTimeout,      \* SystemVariables: a u64
    FixedVariables    \* the variables whose values are literals in the code:
                      \* a sequence of <<name, value>>

ASSUME IntrospectionAssumption == MaxAllowedPacket \in Nat /\ WaitTimeout \in Nat

TEXT == <<"Varchar">>
INTEGER == <<"Int">>
Word(w) == <<"Varchar", <<"word", w>>>>

Lower(name) == [i \in DOMAIN name |-> LowerCase(name[i])]

-------------------------------------------------------------------------------
(* Mutant: % matches no empty run. *)
LikeMatchesSome(pattern, text) ==
    LET p == Lower(pattern)
        t == Lower(text)
        dp[i \in 0..Len(p), j \in 0..Len(t)] ==
          IF i = 0 \/ j = 0 THEN i = j
          ELSE CASE p[i] = "%" -> dp[i - 1, j - 1] \/ dp[i, j - 1]
                 [] p[i] = "_" -> dp[i - 1, j - 1]
                 [] OTHER      -> dp[i - 1, j - 1] /\ p[i] = t[j]
    IN  dp[Len(p), Len(t)]

(* like_matches: does the pattern match the text?  dp[i, j] says it of the *)
(* first i characters of the one and the first j of the other.             *)
LikeMatches(pattern, text) ==
    LET p == Lower(pattern)
        t == Lower(text)
        dp[i \in 0..Len(p), j \in 0..Len(t)] ==
          CASE i = 0           -> j = 0
            [] i > 0 /\ j = 0  -> p[i] = "%" /\ dp[i - 1, 0]
            [] i > 0 /\ j > 0  ->
                 CASE p[i] = "%" -> dp[i - 1, j] \/ dp[i, j - 1]
                   [] p[i] = "_" -> dp[i - 1, j - 1]
                   [] OTHER      -> dp[i - 1, j - 1] /\ p[i] = t[j]
    IN  dp[Len(p), Len(t)]

(* known_variables: those that come from the configuration are clamped to  *)
(* an i64.                                                                 *)
AsInt(n) == <<"Int", IF n < MaxInt THEN n ELSE MaxInt>>

KnownVariables ==
    << <<<<"version">>, <<"Varchar", Version>>>>,
       <<<<"max", "_", "allowed", "_", "packet">>, AsInt(MaxAllowedPacket)>>,
       <<<<"wait", "_", "timeout">>, AsInt(WaitTimeout)>>,
       <<<<"interactive", "_", "timeout">>, AsInt(WaitTimeout)>> >> \o FixedVariables

(* system_variable: one of the three scopes, in any case, is stripped; an  *)
(* unknown variable, or an unknown scope, is NULL.                         *)
SystemVariable(scope, name) ==
    LET n == SelectInSeq(KnownVariables, LAMBDA v : v[1] = Lower(name))
    IN  IF LowerCase(scope) \notin {"", "session", "global", "local"} \/ n = 0 THEN Null
        ELSE KnownVariables[n][2]

(* evaluate_function: the arguments are not looked at. *)
EvaluateFunction(name) ==
    CASE LowerCase(name) = "version"        -> <<"Varchar", Version>>
      [] LowerCase(name) = "connection_id"  -> <<"Int", 1>>
      [] LowerCase(name) = "last_insert_id" -> <<"Int", 0>>
      [] OTHER                              -> Null

(* execute_select_without_table: the value of an item, Invalid if it is an *)
(* error, and the type its column is given.                                *)
ItemValue(e) ==
    CASE e[1] = "Variable"                             -> SystemVariable(e[2], e[3])
      [] e[1] = "Function"                             -> EvaluateFunction(e[2])
      [] e[1] \in {"Wildcard", "Column", "Placeholder"} -> Invalid
      [] OTHER                                         -> e

TypeOf(value) ==
    CASE value[1] = "Int"               -> INTEGER
      [] value[1] = "Decimal"           -> <<"Decimal", value[3]>>
      [] value[1] = "Date"              -> <<"Date">>
      [] value[1] \in {"Varchar", "Null"} -> TEXT

ExecuteSelectWithoutTable(s) ==
    LET values == [i \in DOMAIN s.items |-> ItemValue(s.items[i])]
    IN  IF \E i \in DOMAIN values : values[i] = Invalid THEN Error
        ELSE Answered([i \in DOMAIN values |-> TypeOf(values[i])],
                      IF s.offset >= 1 \/ s.limit = 0 THEN <<>> ELSE <<values>>)

(* execute_show, with the names the storage engine has. *)
NamesInOrder(names) ==
    LET sorted == SetToSortSeq(names, LAMBDA a, b : NameRank(a) < NameRank(b))
    IN  Answered(<<TEXT>>, [n \in DOMAIN sorted |-> <<Word(sorted[n])>>])

ExecuteShow(s, databases, names) ==
    CASE s.show = "Databases" -> NamesInOrder(databases)
      [] s.show = "Tables"    -> NamesInOrder(names)
      [] s.show = "CharacterSet" ->
           Answered(<<TEXT, TEXT, TEXT, INTEGER>>,
                    <<<<Word("utf8mb4"), Word("UTF-8 Unicode"), Word("utf8mb4_general_ci"),
                        <<"Int", 4>>>>>>)
      [] s.show = "Collation" ->
           Answered(<<TEXT, TEXT, INTEGER, TEXT, TEXT, INTEGER>>,
                    <<<<Word("utf8mb4_general_ci"), Word("utf8mb4"), <<"Int", 45>>, Word("Yes"),
                        Word("Yes"), <<"Int", 1>>>>>>)
      [] s.show = "Warnings"  -> Answered(<<TEXT, TEXT, TEXT>>, <<>>)
      [] s.show = "Variables" ->
           LET listed == SelectSeq(KnownVariables, LAMBDA v :
                            s.like = <<>> \/ LikeMatches(s.like[1], v[1]))
           IN  Answered(<<TEXT, TEXT>>,
                        [n \in DOMAIN listed |-> <<Word(listed[n][1]), listed[n][2]>>])
      [] s.show = "Other"     -> Answered(<<>>, <<>>)

(* Executor::execute for these statements. *)
Execute(s, databases, names) ==
    CASE s.op = "values"        -> ExecuteSelectWithoutTable(s)
      [] s.op = "show"          -> ExecuteShow(s, databases, names)
      [] s.op \in {"set", "use"} -> Answered(<<>>, <<>>)
===============================================================================
