-------------------------------- MODULE MCSql --------------------------------
(***************************************************************************)
(* Texts for module Sql, each built together with what it means: a piece   *)
(* is [ast, words], words being lexemes [c, noise] with c the characters   *)
(* and noise marking what the parser documents that it reads past.         *)
(***************************************************************************)
EXTENDS Sql

CONSTANT Suites  \* which of the sets of texts below to run

LowerToUpper == [select |-> "SELECT", from |-> "FROM", null |-> "NULL", true |-> "TRUE",
                 count |-> "COUNT", limit |-> "LIMIT", a |-> "A", b |-> "B", t |-> "T", u |-> "U",
                 offset |-> "OFFSET", primary |-> "PRIMARY", not |-> "NOT"]
MCUpperCase(c) == IF c \in DOMAIN LowerToUpper THEN LowerToUpper[c] ELSE c
LowerCase(c) ==
    IF \E l \in DOMAIN LowerToUpper : LowerToUpper[l] = c
      THEN CHOOSE l \in DOMAIN LowerToUpper : LowerToUpper[l] = c ELSE c
MCLetters ==
    DOMAIN LowerToUpper \cup Keywords \cup
    {"TRUE", "FALSE", "COUNT", "DATABASE", "SCHEMA", "DATABASES", "TABLES", "WARNINGS", "VARIABLES",
     "STATUS", "CHARACTER", "CHARSET", "COLLATION", "GRANTS", "IF", "NOT", "EXISTS", "LIKE", "ADD",
     "COLUMN", "MODIFY", "CONSTRAINT", "UNIQUE", "INDEX", "FOREIGN", "REFERENCES", "AUTO_INCREMENT",
     "DEFAULT", "COMMENT", "UNSIGNED", "INT", "DECIMAL", "VARCHAR", "ENGINE", "DELETE", "CASCADE",
     "ASC", "DESC", "OFFSET", "x", "session", "NAMES"}

K(w) == <<[c |-> <<w>>, noise |-> FALSE]>>
Spelled(chars) == <<[c |-> chars, noise |-> FALSE]>>
Ks(ws) == [i \in DOMAIN ws |-> [c |-> <<ws[i]>>, noise |-> FALSE]]
Noise(ws) == [i \in DOMAIN ws |-> [c |-> <<ws[i]>>, noise |-> TRUE]]

RECURSIVE Concat(_)
Concat(seqs) ==
    CASE Len(seqs) = 0 -> <<>>
      [] Len(seqs) = 1 -> seqs[1]
      [] Len(seqs) > 1 -> LET half == Len(seqs) \div 2
                          IN  Concat(SubSeq(seqs, 1, half)) \o Concat(SubSeq(seqs, half + 1, Len(seqs)))

Piece(ast, words) == [ast |-> ast, words |-> words]
Absent == Piece(None, <<>>)
(* Pieces with a comma between them. *)
Listed(pieces) ==
    Piece([i \in DOMAIN pieces |-> pieces[i].ast],
          Concat([i \in DOMAIN pieces |-> (IF i = 1 THEN <<>> ELSE K(",")) \o pieces[i].words]))
InParens(p) == Piece(p.ast, K("(") \o p.words \o K(")"))

-------------------------------------------------------------------------------
(* Names and expressions. *)

Plain(n) == Piece(<<n>>, K(n))
QuotedKeyword == Piece(<<"KEY">>, Spelled(<<Backtick, "KEY", Backtick>>))
Names == {
    Plain("a"), Plain("STATUS"), Piece(<<"x", "1">>, Spelled(<<"x", "1">>)), QuotedKeyword,
    Piece(<<"a", Backtick, " ">>, Spelled(<<Backtick, "a", Backtick, Backtick, " ", Backtick>>))}

Column(t, n) ==
    IF t = Absent THEN Piece(<<"ColumnRef", n.ast>>, n.words)
                  ELSE Piece(<<"ColumnRef", t.ast, n.ast>>, t.words \o K(".") \o n.words)
AsExpr(column) == Piece(<<"Column", column.ast>>, column.words)
a == Column(Absent, Plain("a"))
ta == Column(Plain("t"), Plain("a"))

Five == Piece(<<"Int", 5>>, K("5"))
Str(text, chars) == Piece(<<"Varchar", text>>, Spelled(<<"'">> \o chars \o <<"'">>))
Fn(name, args) == Piece(<<"Function", <<name>>, args.ast>>, K(name) \o InParens(args).words)

Exprs == {
    Five, Piece(<<"Int", 99>>, Spelled(<<"9", "9">>)), Piece(<<"Int", -100>>, Spelled(<<"-", "1", "0", "0">>)),
    Piece(<<"Decimal", 15, 1>>, Spelled(<<"1", ".", "5">>)),
    Piece(<<"Decimal", -5, 2>>, Spelled(<<"-", "0", ".", "0", "5">>)),
    Str(<<>>, <<>>), Str(<<"a", "'">>, <<"a", "'", "'">>), Str(<<";">>, <<";">>),
    Str(<<"-", "-", " ", "/", "*">>, <<"-", "-", " ", "/", "*">>),
    Piece(Null, K("NULL")), Piece(<<"Int", 1>>, K("TRUE")), Piece(<<"Int", 0>>, K("FALSE")),
    Piece(<<"SystemVariable", <<"x">>>>, Spelled(<<"@", "@", "x">>)),
    Piece(<<"SystemVariable", <<"session", ".", "x">>>>, Spelled(<<"@", "@", "session", ".", "x">>)),
    Piece(<<"Function", <<"COUNT">>, <<>>>>, Ks(<<"COUNT", "(">>) \o Noise(<<"*">>) \o K(")")),
    Fn("x", Listed(<<>>)), Fn("COUNT", Listed(<<AsExpr(ta)>>)), Fn("x", Listed(<<Five, Fn("u", Listed(<<Five>>))>>)),
    AsExpr(ta)} \cup {AsExpr(Column(Absent, n)) : n \in Names}

-------------------------------------------------------------------------------
(* SELECT and INSERT. *)

Named(words, name) == Piece(Some(name.ast), words \o name.words)
Aliases == {Absent, Named(<<>>, Plain("b")), Named(Noise(<<"AS">>), Plain("b")), Named(Noise(<<"AS">>), QuotedKeyword)}
Item(e, label) == Piece(<<"Expr", e.ast, label.ast>>, e.words \o label.words)
Star == Piece(<<"Wildcard">>, K("*"))

Table(name, label) == Piece(<<"TableRef", name.ast, label.ast>>, name.words \o label.words)
Qualified(name) == Piece(name.ast, Noise(<<"u", ".">>) \o name.words)
Joined(type, words, table, l, r) ==
    Piece(<<"Join", type, table.ast, l.ast, r.ast>>,
          words \o table.words \o K("ON") \o l.words \o K("=") \o r.words)
Joins(table) == {
    Joined("Inner", K("JOIN"), table, a, ta), Joined("Inner", Noise(<<"INNER">>) \o K("JOIN"), table, ta, a),
    Joined("Left", Ks(<<"LEFT", "JOIN">>), table, ta, ta),
    Joined("Left", K("LEFT") \o Noise(<<"OUTER">>) \o K("JOIN"), table, ta, ta)}
From(table, js) ==
    Piece(Some(<<"From", table.ast, [i \in DOMAIN js |-> js[i].ast]>>),
          K("FROM") \o table.words \o Concat([i \in DOMAIN js |-> js[i].words]))
Where(c, op, e) ==
    Piece(Some(<<"Condition", c.ast, <<op>>, e.ast>>),
          K("WHERE") \o c.words \o Spelled(IF op = "<>" THEN <<"!", "=">> ELSE
              CASE op = "<=" -> <<"<", "=">> [] op = ">=" -> <<">", "=">> [] OTHER -> <<op>>) \o e.words)
GroupBy(cs) == LET l == Listed(cs) IN Piece(l.ast, Ks(<<"GROUP", "BY">>) \o l.words)
Ordered(c, desc, words) == Piece(<<"OrderBy", c.ast, desc>>, c.words \o words)
OrderBy(os) == LET l == Listed(os) IN Piece(l.ast, Ks(<<"ORDER", "BY">>) \o l.words)
Orders == {Ordered(a, FALSE, <<>>), Ordered(ta, FALSE, Noise(<<"ASC">>)), Ordered(a, TRUE, K("DESC"))}

Select(p, f, w, g, o, l) ==
    Piece(<<"Select", p.ast, f.ast, w.ast, g.ast, o.ast>> \o l.ast,
          K("SELECT") \o p.words \o f.words \o w.words \o g.words \o o.words \o l.words)
Empty == Listed(<<>>)
NoLimit == Piece(<<None, None>>, <<>>)
Limits == {
    Piece(<<Some(1), None>>, Ks(<<"LIMIT", "1">>)), Piece(<<Some(1), Some(2)>>, Ks(<<"LIMIT", "1", "OFFSET", "2">>)),
    Piece(<<Some(1), Some(2)>>, Ks(<<"LIMIT", "2", ",", "1">>))}

T == Table(Plain("t"), Absent)
U == Table(Qualified(Plain("t")), Named(<<>>, Plain("u")))
FullFrom == From(U, <<Joined("Inner", K("JOIN"), T, a, ta), Joined("Left", Ks(<<"LEFT", "JOIN">>), U, a, ta)>>)
FullWhere == Where(ta, "<=", Five)
FullGroup == GroupBy(<<a, ta>>)
FullOrder == OrderBy(<<Ordered(a, TRUE, K("DESC")), Ordered(ta, FALSE, <<>>)>>)
FullLimit == Piece(<<Some(1), Some(2)>>, Ks(<<"LIMIT", "2", ",", "1">>))

SelectExprs == {Select(Listed(<<Item(e, Absent)>>), Absent, Absent, Empty, Empty, NoLimit) : e \in Exprs}
SelectClauses ==
    {Select(Listed(<<Item(e, x), Star, Item(Five, Absent)>>), From(T, <<>>), Absent, Empty, Empty, NoLimit) :
        e \in {Five, AsExpr(ta)}, x \in Aliases}
    \cup {Select(Listed(<<Star>>), From(Table(n, x), <<>>), Absent, Empty, Empty, NoLimit) :
        n \in Names \cup {Qualified(Plain("t"))}, x \in Aliases}
    \cup {Select(Listed(<<Star>>), From(T, <<j>>), Absent, g, o, NoLimit) :
        j \in Joins(T) \cup Joins(U), g \in {Empty, FullGroup}, o \in {Empty, FullOrder}}
    \cup {Select(Listed(<<Star>>), f, Where(c, op, Five), Empty, Empty, l) :
        f \in {From(T, <<>>), FullFrom}, c \in {a, ta}, op \in {"=", "<>", "<", ">", "<=", ">="}, l \in {NoLimit, FullLimit}}
    \cup {Select(Listed(<<Star>>), f, w, g, OrderBy(<<o>>), l) :
        f \in {FullFrom}, w \in {Absent, FullWhere}, g \in {Empty, GroupBy(<<a>>)}, o \in Orders,
        l \in Limits \cup {NoLimit}}

Insert(table, columns, rows) ==
    LET r == Listed(rows)
    IN  Piece(<<"Insert", table.ast, columns.ast, r.ast>>,
              Ks(<<"INSERT", "INTO">>) \o table.words \o columns.words \o K("VALUES") \o r.words)
Columns(names) == LET l == InParens(Listed(names)) IN Piece(Some(l.ast), l.words)
Row(es) == InParens(Listed(es))
Inserts ==
    {Insert(t, cs, <<Row(<<e>>)>>) :
        t \in {Plain("t")}, cs \in {Absent, Columns(<<Plain("a")>>)}, e \in Exprs}
    \cup {Insert(Qualified(n), Columns(<<n, Plain("b")>>), <<Row(<<Five, Five>>), Row(<<Five, Piece(Null, K("NULL"))>>)>>) :
        n \in Names}

-------------------------------------------------------------------------------
(* Tables, databases and the rest. *)

Type(name, sizes) ==
    Piece(<<"Type", <<name>>, [i \in DOMAIN sizes |-> sizes[i].ast[2]]>>,
          K(name) \o (IF sizes = <<>> THEN <<>> ELSE InParens(Listed(sizes)).words))
Types == {Type("INT", <<>>), Type("VARCHAR", <<Five>>), Type("DECIMAL", <<Five, Five>>)}
Defined(name, type, attrs, nullable, key, auto) ==
    Piece([name |-> name.ast, type |-> type.ast, nullable |-> nullable, is_primary_key |-> key,
           auto_increment |-> auto], name.words \o type.words \o attrs)
IntType == Type("INT", <<>>)
ColumnDefs ==
    {Defined(n, IntType, <<>>, TRUE, FALSE, FALSE) : n \in Names}
    \cup {Defined(Plain("a"), ty, Noise(<<"UNSIGNED">>) \o Ks(<<"NOT", "NULL">>), FALSE, FALSE, FALSE) : ty \in Types}
    \cup {Defined(Plain("a"), IntType, Ks(<<"NOT", "NULL", "PRIMARY", "KEY", "AUTO_INCREMENT">>), FALSE, TRUE, TRUE),
          Defined(Plain("a"), IntType, K("AUTO_INCREMENT") \o Noise(<<"NULL", "UNIQUE", "KEY">>) \o Ks(<<"PRIMARY", "KEY">>), TRUE, TRUE, TRUE),
          Defined(Plain("a"), IntType, Noise(<<"DEFAULT", "5", "COMMENT">>) \o <<[c |-> <<"'", ",", "'">>, noise |-> TRUE]>>
              \o Ks(<<"NOT", "NULL">>) \o Noise(<<"UNIQUE">>), FALSE, FALSE, FALSE)}
b == Defined(Plain("b"), IntType, <<>>, TRUE, FALSE, FALSE)
Keyed_b == [b EXCEPT !.ast.is_primary_key = TRUE]

(* Constraints read past, and the one that names the key. *)
NoiseConstraints == {
    Noise(<<"UNIQUE", "KEY", "x", "(", "b", ")">>), Noise(<<"UNIQUE", "INDEX", "(", "b", ",", "a", ")">>),
    Noise(<<"KEY", "x", "(", "b", "(", "5", ")", ")">>), Noise(<<"INDEX", "(", "b", ")">>),
    Noise(<<"CONSTRAINT", "x", "FOREIGN", "KEY", "(", "b", ")", "REFERENCES", "u", ".", "t", "(", "a", ")",
            "ON", "DELETE", "CASCADE">>)}
KeyConstraints == {Ks(<<"PRIMARY", "KEY", "(", "b", ")">>),
                   Noise(<<"CONSTRAINT", "x">>) \o Ks(<<"PRIMARY", "KEY", "(", "b", ")">>),
                   Noise(<<"CONSTRAINT">>) \o Ks(<<"PRIMARY", "KEY", "(", "b", ")">>)}
CreateTable(table, items, words, options) ==
    Piece(<<"CreateTable", table.ast, [i \in DOMAIN items |-> items[i].ast]>>,
          Ks(<<"CREATE", "TABLE">>) \o table.words \o K("(") \o words \o K(")") \o options)
CreateTables ==
    {CreateTable(t, <<d, b>>, Listed(<<d, b>>).words, o) :
        t \in {Plain("t"), Qualified(Plain("t"))}, d \in ColumnDefs, o \in {<<>>, Noise(<<"ENGINE", "=", "x", "(", ")">>)}}
    \cup {CreateTable(Plain("t"), <<b>>, b.words \o Noise(<<",">>) \o c, <<>>) : c \in NoiseConstraints}
    \cup {CreateTable(Plain("t"), <<Keyed_b>>, b.words \o K(",") \o c \o n, <<>>) :
        c \in KeyConstraints, n \in {<<>>} \cup {Noise(<<",">>) \o x : x \in NoiseConstraints}}

Alter(action, words) == Piece(<<"AlterTable", <<"t">>, action>>, Ks(<<"ALTER", "TABLE", "t">>) \o words)
Alters ==
    {Alter(<<"AddColumn", d.ast>>, K("ADD") \o w \o d.words) : d \in ColumnDefs, w \in {<<>>, Noise(<<"COLUMN">>)}}
    \cup {Alter(<<"ModifyColumn", d.ast>>, K("MODIFY") \o w \o d.words) : d \in ColumnDefs, w \in {<<>>, Noise(<<"COLUMN">>)}}
    \cup {Alter(<<"DropColumn", n.ast>>, K("DROP") \o w \o n.words) : n \in Names, w \in {<<>>, Noise(<<"COLUMN">>)}}
    \cup {Alter(<<"AddPrimaryKey", <<"b">>>>, K("ADD") \o c) : c \in KeyConstraints}
    \cup {Alter(<<"DropPrimaryKey">>, Ks(<<"DROP", "PRIMARY", "KEY">>))}

Database(n, ast, verb, w, flag, words, options) ==
    Piece(<<ast, flag, n.ast>>, K(verb) \o K(w) \o words \o n.words \o options)
Show(kind, words) == Piece(<<"Show", kind>>, K("SHOW") \o words)
Others ==
    {Database(n, "CreateDatabase", "CREATE", w, c.ast, c.words, o) : n \in Names, w \in {"DATABASE", "SCHEMA"},
        c \in {Piece(FALSE, <<>>), Piece(TRUE, Ks(<<"IF", "NOT", "EXISTS">>))}, o \in {<<>>, Noise(<<"CHARACTER", "SET", "x">>)}}
    \cup {Database(n, "DropDatabase", "DROP", w, c.ast, c.words, <<>>) : n \in Names, w \in {"DATABASE", "SCHEMA"},
        c \in {Piece(FALSE, <<>>), Piece(TRUE, Ks(<<"IF", "EXISTS">>))}}
    \cup {Piece(<<"Begin">>, K("BEGIN")), Piece(<<"Begin">>, Ks(<<"START", "TRANSACTION">>)), Piece(<<"Commit">>, K("COMMIT")),
          Piece(<<"Rollback">>, K("ROLLBACK")), Piece(<<"Set">>, K("SET") \o Noise(<<"NAMES", "x">>)),
          Piece(<<"Use">>, K("USE") \o Noise(<<"x">>)), Piece(<<"Set">>, K("SET") \o Noise(<<"@", "=", "(", "5">>)),
          Show(<<"Warnings">>, K("WARNINGS")), Show(<<"Databases">>, K("DATABASES")), Show(<<"Tables">>, K("TABLES") \o Noise(<<"FROM", "x">>)),
          Show(<<"CharacterSet">>, K("CHARSET")), Show(<<"CharacterSet">>, Ks(<<"CHARACTER", "SET">>)), Show(<<"Collation">>, K("COLLATION")),
          Show(<<"Other">>, Noise(<<"GRANTS">>)), Show(<<"Variables", None>>, K("VARIABLES")),
          Show(<<"Variables", Some(<<"x">>)>>, Ks(<<"STATUS", "LIKE">>) \o Spelled(<<"'", "x", "'">>))}

Statements == SelectExprs \cup SelectClauses \cup Inserts \cup CreateTables \cup Alters \cup Others

-------------------------------------------------------------------------------
(* Texts. *)

WordChars == MCLetters \cup Digits \cup {"@"}
NeedsGap(x, y) ==
    \/ Last(x.c) \in WordChars /\ y.c[1] \in WordChars
    \/ Last(x.c) = Backtick /\ y.c[1] = Backtick
    \/ Last(x.c) = "'" /\ y.c[1] = "'"

(* The lexemes of a statement, with a separator between them or none. *)
Text(words, gap) ==
    Concat([i \in DOMAIN words |->
              (IF i = 1 \/ (gap = <<>> /\ ~ NeedsGap(words[i - 1], words[i])) THEN <<>>
               ELSE IF gap = <<>> THEN <<" ">> ELSE gap) \o words[i].c])
Spaced(words) == Text(words, <<" ">>)

Executable(words) ==
    Spaced(SubSeq(words, 1, 1)) \o <<"/", "*", "!", "4", "0", " ">>
    \o Spaced(SubSeq(words, 2, Len(words))) \o <<"*", "/", ";">>
Lowered(words) == [i \in DOMAIN Spaced(words) |-> LowerCase(Spaced(words)[i])]

Ask(entry, text, meant) == [entry |-> entry, text |-> text, meant |-> meant, params |-> <<>>, drops |-> FALSE]
Ok(asts) == <<"ok", asts>>
Error == <<"error", <<>>>>

Gaps == {<<" ">>, <<>>, <<" ", "#", "'", "\n">>, <<"/", "*", "a", "*", "/">>}
Spellings ==
    {Ask("parse", Text(s.words, gap), Ok(<<s.ast>>)) : s \in Statements, gap \in Gaps}
    \cup {Ask("parse_many", Text(s.words, <<" ", "-", "-", " ", ";", "\n">>), Ok(<<s.ast>>)) : s \in Statements}
    \cup {Ask("parse", Executable(s.words), Ok(<<s.ast>>)) : s \in Statements}

(* Keywords in small letters, where the names have none to change. *)
Caseless == {Ask("parse", Lowered(s.words), Ok(<<s.ast>>)) :
    s \in {Select(Listed(<<Item(Piece(Null, K("NULL")), Absent), Item(Piece(<<"Int", 1>>, K("TRUE")), Absent)>>),
                  From(T, <<>>), Absent, Empty, Empty, FullLimit)}}

(* One lexeme left out that is not read past. *)
Without(words, i) == SubSeq(words, 1, i - 1) \o SubSeq(words, i + 1, Len(words))
Drops ==
    UNION {{[Ask("parse", Spaced(Without(s.words, i)), Ok(<<s.ast>>)) EXCEPT !.drops = TRUE] :
              i \in {k \in DOMAIN s.words : ~ s.words[k].noise}} : s \in Statements}

(* Several statements, and one that is wrong among them. *)
Few == {Insert(Plain("t"), Absent, <<Row(<<e>>)>>) : e \in {Five, Str(<<";">>, <<";">>)}}
       \cup {Piece(<<"Begin">>, K("BEGIN")), Piece(<<"Set">>, K("SET") \o Noise(<<"x", "=", "5">>))}
Batches ==
    {Ask("parse_many", Spaced(s.words \o sep \o s2.words \o end), Ok(<<s.ast, s2.ast>>)) :
        s \in Few, s2 \in Few, sep \in {K(";"), Ks(<<";", ";">>)}, end \in {<<>>, K(";")}}
    \cup {Ask("parse_many", Spaced(s.words \o K(";") \o x), Error) : s \in Few, x \in {Ks(<<"INSERT", "INTO">>), Ks(<<"x", ";">>)}}
    \cup {Ask(e, x, Error) : e \in {"parse", "parse_many", "parse_prepared"}, x \in {<<>>, <<";">>, <<"#", "a">>}}
    \cup {Ask("parse", Spaced(s.words \o K(";") \o s2.words), Error) : s \in Few, s2 \in Few}

(* What tokenize refuses. *)
Refused == {Ask("parse", Spaced(K("SELECT")) \o <<" ">> \o x, Error) : x \in {
    <<"1", "0", "0">>, <<"-", "1", "0", "1">>, <<"1", "0", ".", "0">>, <<"'", "a">>, <<"'", "a", "'", "'">>,
    <<Backtick, "a">>, <<Backtick, Backtick>>, <<"5", "/", "*", "a">>, <<"!">>, <<"@", "@">>, <<"-", "-", "5">>, <<"?">>, <<"%">>}}

(* Prepared statements: holes and the values for them. *)
Hole(params, i) == Piece(params[i], K("?"))
Prepared(params) ==
    LET h(i) == Hole(params, i)
        str  == Item(Str(<<"?">>, <<"?">>), Absent)
    IN  {[holes |-> 0, s |-> Select(Listed(<<str>>), From(T, <<>>), Absent, Empty, Empty, NoLimit)],
         [holes |-> 1, s |-> Select(Listed(<<str, Star>>), FullFrom, Where(ta, "=", h(1)), FullGroup, FullOrder, FullLimit)],
         [holes |-> 3, s |-> Select(Listed(<<Item(Fn("x", Listed(<<h(1), Five, Fn("u", Listed(<<h(2)>>))>>)), Absent), Star>>),
                                    From(T, <<>>), Where(a, "<", h(3)), Empty, Empty, NoLimit)],
         [holes |-> 2, s |-> Insert(Plain("t"), Absent, <<Row(<<h(1), Five>>), Row(<<Str(<<"?">>, <<"?">>), h(2)>>)>>)],
         [holes |-> 3, s |-> Insert(Plain("t"), Absent, <<Row(<<h(1), h(2)>>), Row(<<Fn("x", Listed(<<h(3)>>)), Five>>)>>)]}
Values3 == {<<<<"Int", 1>>, <<"Varchar", <<"?">>>>, Null>>, <<<<"Int", 1>>, <<"Int", 2>>, <<"Int", 3>>>>}
Bound ==
    UNION {{[Ask("parse_prepared", Text(p.s.words, gap), Ok(<<p.s.ast>>)) EXCEPT
               !.params = SubSeq(params, 1, n)] : p \in Prepared(params), n \in 0 .. 3, gap \in {<<" ">>, <<>>}} :
           params \in Values3}
    \cup {Ask("parse", Spaced(p.s.words), Error) : p \in {q \in Prepared(<<Null, Null, Null>>) : q.holes > 0}}

(* Words that are no keywords, as names in quotes. *)
QuotedWord(w) == Piece(<<w>>, Spelled(<<Backtick, w, Backtick>>))
QuotedWords ==
    {Ask("parse", Spaced(s.words), Ok(<<s.ast>>)) : s \in
       {CreateTable(Plain("t"), <<d>>, d.words, <<>>) : d \in {Defined(QuotedWord("INDEX"), IntType, <<>>, TRUE, FALSE, FALSE)}}
       \cup {Select(Listed(<<Item(AsExpr(Column(Absent, QuotedWord("TRUE"))), Absent)>>), From(T, <<>>), Absent, Empty, Empty, NoLimit)}}

LongFractions ==
    {Ask("parse", Spaced(s.words), Ok(<<s.ast>>)) :
       s \in {Select(Listed(<<Item(Piece(<<"Decimal", 5, 4>>, Spelled(<<"0", ".", "0", "0", "0", "5">>)), Absent)>>),
                     Absent, Absent, Empty, Empty, NoLimit)}}

MCRequests ==
    UNION {CASE s = "spellings"     -> Spellings \cup Caseless
             [] s = "drops"         -> Drops
             [] s = "batches"       -> Batches \cup Refused
             [] s = "prepared"      -> Bound
             [] s = "quotedWords"   -> QuotedWords
             [] s = "longFractions" -> LongFractions : s \in Suites}

-------------------------------------------------------------------------------
(* Properties. *)

Result == IF outcome = "ok" THEN Ok(statements) ELSE Error
Holes == Cardinality({i \in DOMAIN tokens : tokens[i] = <<"?">>})

(* A statement means the same however it is written: with any white space, *)
(* comments or none between its words, in an executable comment, in small  *)
(* letters, with optional words or without them, alone or in a batch, and  *)
(* a batch that has one wrong statement is refused whole (tokenize,        *)
(* parse_statement and all it calls, parse_many).                          *)
ParsesAsMeant ==
    pc = "done" /\ ~ request.drops /\ request.entry # "parse_prepared" => Result = request.meant

(* bind_parameters of a parsed prepared statement is the statement that has *)
(* the i-th value where the i-th question mark stood, also in the arguments *)
(* of a function; parse_prepared asks for as many values as there are       *)
(* question marks in what it parses (one in a clause it reads past is not   *)
(* counted, and the texts have none there), and with fewer values the       *)
(* statement is not executed.                                               *)
BindIsSubstitution ==
    pc = "done" /\ request.entry = "parse_prepared" /\ request.meant # Error =>
        /\ outcome = "ok" /\ parser.param_count = Holes
        /\ BindParameters(statements[1], request.params) =
               IF Len(request.params) < Holes THEN Invalid ELSE request.meant[2][1]

(* No word of a statement is lost: without it the text is refused or means *)
(* something else, unless the parser documents that it reads past it.      *)
EveryWordCounts == pc = "done" /\ request.drops => Result # request.meant
===============================================================================
