--------------------------------- MODULE Sql ---------------------------------
(***************************************************************************)
(* From a text to statements: parse, parse_many (COM_QUERY of a client     *)
(* that may send several statements) and parse_prepared with               *)
(* bind_parameters (COM_STMT_PREPARE and COM_STMT_EXECUTE).                *)
(*                                                                         *)
(* The steps are the iterations of tokenize and, for each statement, the   *)
(* steps of the functions of module Grammar.                               *)
(***************************************************************************)
EXTENDS Grammar

CONSTANT Requests  \* what may be asked: [entry, text] and what the properties need

VARIABLES
    request,    \* one of them
    pc,         \* "lex", "parse" or "done"
    frames,     \* the texts being tokenized, innermost first: [chars, at]
    tokens,     \* what tokenize has found
    pending,   \* statements not parsed yet, each a sequence of tokens
    parser,     \* the statement being parsed: tokens left, steps left, values
    statements, \* statements parsed
    outcome     \* "none", "ok" or "error"

vars == <<request, pc, frames, tokens, pending, parser, statements, outcome>>

NoParser == [input |-> <<>>, calls |-> <<>>, values |-> <<>>, param_count |-> 0]

Init ==
    /\ request \in Requests
    /\ pc = "lex"
    /\ frames = <<[chars |-> request.text, at |-> 1]>>
    /\ tokens = <<>> /\ pending = <<>> /\ statements = <<>>
    /\ parser = NoParser
    /\ outcome = "none"

Fail ==
    /\ pc' = "done" /\ outcome' = "error"
    /\ UNCHANGED <<request, frames, tokens, pending, parser, statements>>

-------------------------------------------------------------------------------
(* tokenize *)

Frame == Head(frames)
Current == Iteration(Frame.chars, Frame.at)
InText == pc = "lex" /\ frames # <<>> /\ Frame.at <= Len(Frame.chars)

(* What an executable comment holds is tokenized before the rest. *)
Tokenize ==
    /\ InText /\ Current.next # 0
    /\ tokens' = tokens \o Current.tokens
    /\ frames' = (IF Current.inner = <<>> THEN <<>> ELSE <<[chars |-> Current.inner, at |-> 1]>>)
                 \o <<[Frame EXCEPT !.at = Current.next]>> \o Tail(frames)
    /\ UNCHANGED <<request, pc, pending, parser, statements, outcome>>

TokenizeError == InText /\ Current.next = 0 /\ Fail

EndOfText ==
    /\ pc = "lex" /\ frames # <<>> /\ Frame.at > Len(Frame.chars)
    /\ frames' = Tail(frames)
    /\ UNCHANGED <<request, pc, tokens, pending, parser, statements, outcome>>

(* tokens.split on semicolons *)
SplitOnSemicolons(all) ==
    FoldLeft(LAMBDA parts, t : IF t = <<";">> THEN Append(parts, <<>>)
                               ELSE Append(Front(parts), Append(Last(parts), t)),
             <<<<>>>>, all)

(* What there is to parse: one statement, or for parse_many every segment  *)
(* that is not empty.                                                      *)
Segments(entry, all) ==
    SelectSeq(IF entry = "parse_many" THEN SplitOnSemicolons(all) ELSE <<all>>, LAMBDA s : s # <<>>)

Tokenized ==
    /\ pc = "lex" /\ frames = <<>>
    /\ Segments(request.entry, tokens) # <<>>
    /\ pc' = "parse"
    /\ pending' = Segments(request.entry, tokens)
    /\ UNCHANGED <<request, frames, tokens, parser, statements, outcome>>

EmptyStatement ==
    /\ pc = "lex" /\ frames = <<>>
    /\ Segments(request.entry, tokens) = <<>>
    /\ Fail

-------------------------------------------------------------------------------
(* Parser *)

Ahead(input) == [i \in 1 .. 3 |-> IF i <= Len(input) THEN input[i] ELSE <<"Eof">>]
Step == Head(parser.calls)
Next1 == Ahead(parser.input)[1]

(* apply_primary_key_constraint and the other checks a step may fail. *)
Accepted ==
    LET v == parser.values
    IN  CASE Step[1] = "expect"  -> Next1 = Step[2]
          [] Step[1] = "word"    -> \E w \in Step[2] : IsWord(Next1, w)
          [] Step[1] = "take"    -> Next1[1] = Step[2]
          [] Step[1] = "atEnd"   -> parser.input = <<>>
          [] Step[1] = "onlyOne" -> Len(Last(v)) = 1
          [] Step[1] = "keyed"   -> /\ Len(Last(v)) = 1
                                    /\ \E c \in Range(v[Len(v) - 1]) : c.name = Last(v)[1]
          [] Step[1] = "reject"  -> FALSE
          [] OTHER               -> TRUE

(* Tokens the step reads. *)
Reads ==
    LET input == parser.input
        stop  == SelectInSeq(input, LAMBDA t : t \in Step[2])
    IN  CASE Step[1] \in {"skip", "expect", "word", "take"} -> 1
          [] Step[1] = "skipTo" -> IF stop = 0 THEN Len(input) ELSE stop - 1
          [] OTHER -> 0

(* The primary-key flag of the first column of that name. *)
WithKey(columns, name) ==
    LET i == SelectInSeq(columns, LAMBDA c : c.name = name)
    IN  [columns EXCEPT ![i].is_primary_key = TRUE]

(* The values after the step. *)
Evaluated ==
    LET v == parser.values
        n == Len(v)
        Replace(k, new) == SubSeq(v, 1, n - k) \o new  \* the last k of them
    IN  CASE Step[1] = "take"        -> Append(v, Next1[2])
          [] Step[1] = "push"        -> Append(v, Step[2])
          [] Step[1] = "placeholder" -> Append(v, <<"Placeholder", parser.param_count>>)
          [] Step[1] = "forget"      -> Front(v)
          [] Step[1] = "add"         -> Replace(2, <<Append(v[n - 1], v[n])>>)
          [] Step[1] = "swap"        -> Replace(2, <<v[n], v[n - 1]>>)
          [] Step[1] = "build"       -> Replace(Step[3], <<<<Step[2]>> \o SubSeq(v, n - Step[3] + 1, n)>>)
          [] Step[1] = "onlyOne"     -> Replace(1, <<v[n][1]>>)
          [] Step[1] = "keyed"       -> Replace(2, <<WithKey(v[n - 1], v[n][1])>>)
          [] Step[1] = "define"      -> Replace(2, <<[name |-> v[n - 1], type |-> v[n], nullable |-> TRUE,
                                              is_primary_key |-> FALSE, auto_increment |-> FALSE]>>)
          [] Step[1] = "store"       -> Replace(1, <<[v[n] EXCEPT ![Step[2]] = Step[3]]>>)
          [] OTHER                   -> v

Entered ==
    IF Step[1] = "call"
      THEN Body(Step[2], Ahead(parser.input), Step[3], request.entry = "parse_prepared") ELSE <<>>

(* Parser::new for the next statement. *)
Begin ==
    /\ pc = "parse" /\ parser.calls = <<>> /\ parser.values = <<>> /\ pending # <<>>
    /\ parser' = [NoParser EXCEPT !.input = Head(pending), !.calls = <<Call("parse_statement")>>]
    /\ pending' = Tail(pending)
    /\ UNCHANGED <<request, pc, frames, tokens, statements, outcome>>

Advance ==
    /\ pc = "parse" /\ parser.calls # <<>> /\ Accepted
    /\ parser' = [input  |-> SubSeq(parser.input, Reads + 1, Len(parser.input)),
                  calls  |-> Entered \o Tail(parser.calls),
                  values |-> Evaluated,
                  param_count |-> parser.param_count + IF Step = Placeholder THEN 1 ELSE 0]
    /\ UNCHANGED <<request, pc, frames, tokens, pending, statements, outcome>>

ParseError == pc = "parse" /\ parser.calls # <<>> /\ ~ Accepted /\ Fail

(* A statement is complete; after the last one its caller has the result. *)
Complete ==
    /\ pc = "parse" /\ parser.calls = <<>> /\ parser.values # <<>>
    /\ statements' = statements \o parser.values
    /\ IF pending = <<>>
         THEN pc' = "done" /\ outcome' = "ok" /\ UNCHANGED parser
         ELSE parser' = NoParser /\ UNCHANGED <<pc, outcome>>
    /\ UNCHANGED <<request, frames, tokens, pending>>

(* The caller keeps the result. *)
Returned == pc = "done" /\ UNCHANGED vars

Next ==
    \/ Tokenize \/ TokenizeError \/ EndOfText \/ Tokenized \/ EmptyStatement
    \/ Begin \/ Advance \/ ParseError \/ Complete
    \/ Returned

Spec == Init /\ [][Next]_vars

-------------------------------------------------------------------------------
(* bind_parameters *)

RECURSIVE Missing(_, _)
Missing(e, params) ==
    \/ e[1] = "Placeholder" /\ e[2] >= Len(params)
    \/ e[1] = "Function" /\ \E i \in DOMAIN e[3] : Missing(e[3][i], params)

(* Mutant: the arguments of a function are left alone. *)
BindExprShallow(e, params) == IF e[1] = "Placeholder" THEN params[e[2] + 1] ELSE e

RECURSIVE BindExpr(_, _)
BindExpr(e, params) ==
    CASE e[1] = "Placeholder" -> params[e[2] + 1]
      [] e[1] = "Function"    -> <<"Function", e[2], [i \in DOMAIN e[3] |-> BindExpr(e[3][i], params)]>>
      [] OTHER                -> e

(* The statement, or Invalid when a parameter is missing. *)
BindParameters(stmt, params) ==
    LET item(x)   == IF x[1] = "Expr" THEN <<"Expr", BindExpr(x[2], params), x[3]>> ELSE x
        lacks(es) == \E e \in es : Missing(e, params)
    IN  CASE stmt[1] = "Insert" ->
               IF lacks(UNION {Range(row) : row \in Range(stmt[4])}) THEN Invalid
               ELSE [stmt EXCEPT ![4] = [i \in DOMAIN @ |->
                       [j \in DOMAIN @[i] |-> BindExpr(@[i][j], params)]]]
          [] stmt[1] = "Select" ->
               IF \/ lacks({x[2] : x \in {y \in Range(stmt[2]) : y[1] = "Expr"}})
                  \/ stmt[4] # None /\ Missing(stmt[4][2][4], params)
                 THEN Invalid
                 ELSE [stmt EXCEPT ![2] = [i \in DOMAIN @ |-> item(@[i])],
                                   ![4] = IF @ = None THEN None
                                          ELSE [@ EXCEPT ![2][4] = BindExpr(@, params)]]
          [] OTHER -> stmt
===============================================================================
