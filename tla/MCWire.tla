------------------------------- MODULE MCWire -------------------------------
(* Bounded instances of Wire for TLC: bytes of four bits. *)
EXTENDS Wire

CONSTANTS
    Sizes,        \* the lengths of a row of one long text
    CommandSizes  \* the lengths of a long query

Fill(n) == [i \in 1 .. n |-> i % Byte]
Text(n) == <<"Text", Fill(n)>>
Number(n) == <<"Int", n>>
Null == <<"Null">>

Column(n, type) == [name |-> Fill(n), type |-> type]
Result(columns, rows, status) == [kind |-> "result", columns |-> columns, rows |-> rows, status |-> status]
Query == [kind |-> "query", text |-> Fill(3)]
Execute(params) == [kind |-> "execute", id |-> 300, params |-> params]
Param(type, cell) == [type |-> type, cell |-> cell]

\* Cells on both sides of each length an encoding changes at, and the ends
\* of the integers.
Cells == {Null, Number(0), Number(-1), Number(-2147483647), Number(2147483647)}
         \cup {Text(n) : n \in {0, 10, 11, 12, 255, 256}}

TypeOf(cell) == IF cell[1] = "Int" THEN "Int" ELSE "Text"

\* Two columns; their second row is NULL where the first is not.
TwoColumns ==
    {Result(<<Column(1, TypeOf(c)), Column(12, TypeOf(d))>>, <<<<c, d>>, <<Null, d>>>>, StatusAutocommit) :
        c \in Cells, d \in {Null, Number(-1), Text(11)}}

\* More columns than a byte of the bitmap holds, and more packets than there
\* are sequence ids.
Wide == Result([i \in 1 .. 7 |-> Column(1, IF i % 2 = 0 THEN "Int" ELSE "Text")],
               [j \in 1 .. 9 |-> [i \in 1 .. 7 |-> IF i = j THEN Null ELSE IF i % 2 = 0 THEN Number(i) ELSE Text(j)]],
               StatusAutocommit + StatusMoreResults)

\* A row of exactly n bytes in the text protocol, n > 300.
LongRow(n) == Result(<<Column(1, "Text")>>, <<<<Text(n - 4)>>, <<Text(1)>>>>, StatusAutocommit)

Others == {[kind |-> "ok", affected |-> n, status |-> StatusAutocommit] : n \in {0, 10, 11, 255, 256, 4095, 4096}}
          \cup {[kind |-> "err", code |-> 25, message |-> Fill(n)] : n \in {0, 5}}
          \cup {Result(<<Column(0, "Int")>>, <<>>, StatusAutocommit)}

\* The pieces the socket cuts short, and long, exchanges into.
Small == {1, 3, 50}
Large == {700, 4096, 5000}

\* As in the code's configuration, a command may be longer than a packet.
Limited(command, response, deprecate, chunks, allowed) ==
    [command |-> command, response |-> response, deprecate |-> deprecate, chunks |-> chunks,
     allowed |-> allowed]
Exchange(command, response, deprecate, chunks) ==
    Limited(command, response, deprecate, chunks, 4 * MaxPayload)

\* A query of n bytes, and a short answer.
LongQuery(n, allowed) ==
    Limited([kind |-> "query", text |-> Fill(n - 1)], [kind |-> "err", code |-> 25, message |-> Fill(5)],
            TRUE, Large, allowed)

Params ==
    {<<>>} \cup {<<Param(t, Number(n))>> : t \in {1, 2, 3, 8}, n \in {-8, -1, 7}}
    \cup {<<Param(t, Text(n)), Param(6, Null), Param(1, Number(-3))>> : t \in StringTypes, n \in {0, 11}}
    \cup {[i \in 1 .. 6 |-> IF i \in S THEN Param(15, Null) ELSE Param(2, Number(i))] : S \in {{1}, {2, 5}, {6}, 1 .. 6}}

MCExchanges ==
    {Exchange(c, r, d, Small \cup {7}) : c \in {Query, Execute(<<>>)}, r \in TwoColumns, d \in BOOLEAN}
    \cup {Exchange(c, r, d, {4, 11, 30}) : c \in {Query, Execute(<<>>)}, r \in {Wide}, d \in BOOLEAN}
    \cup {Exchange(c, r, FALSE, Small) : c \in {Query, Execute(<<>>)}, r \in Others}
    \cup {Exchange(Execute(p), [kind |-> "ok", affected |-> 1, status |-> 2], FALSE, Small) : p \in Params}
    \cup {Exchange([kind |-> "prepare", text |-> Fill(4)], [kind |-> "prepared", id |-> 300, params |-> n], d, {2, 5, 24}) :
            n \in {0, 1, 18}, d \in BOOLEAN}
    \cup {Exchange(Query, LongRow(n), d, Large) : n \in Sizes, d \in BOOLEAN}
    \cup {LongQuery(n, 4000) : n \in {4000, 4001}}
    \cup {LongQuery(n, 4 * MaxPayload) : n \in CommandSizes}
=============================================================================
