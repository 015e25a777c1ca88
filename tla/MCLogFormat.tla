----------------------------- MODULE MCLogFormat -----------------------------
(***************************************************************************)
(* Entries of every kind for module LogFormat.                             *)
(***************************************************************************)
EXTENDS LogFormat

(* The check value the tests of log.rs use: 0xCBF43926 for "123456789". *)
ASSUME CheckValue ==
    CrcBytes(Crc32([i \in 1 .. 9 |-> 48 + i])) = <<38, 57, 244, 203>>

t == <<116>>
e_acute == <<195, 169>>
MCTexts == {<<>>, t, e_acute}

Column(name, type, nullable, auto) ==
    [name |-> name, type |-> type, nullable |-> nullable, auto_increment |-> auto]
a == Column(t, <<"Int">>, FALSE, TRUE)
b == Column(e_acute, <<"Decimal", 2>>, TRUE, FALSE)

MCEntries == {
    <<"CreateTable", t, <<"Some", t>>, <<a, b>>>>,
    <<"CreateTable", <<>>, <<"None">>, <<Column(t, <<"Varchar">>, TRUE, FALSE)>>>>,
    <<"InsertRow", t, <<<<"Int", -1>>, <<"Decimal", -300, 255>>, <<"Null">>>>>>,
    <<"Transaction", <<[table |-> t, row |-> <<<<"Varchar", <<>>>>, <<"Date", t>>>>], [table |-> e_acute, row |-> <<>>]>>>>,
    <<"CreateDatabase", t>>,
    <<"DropDatabase", <<>>>>,
    <<"AlterTable", t, <<"AddColumn", b, TRUE>>>>,
    <<"AlterTable", t, <<"DropColumn", <<>>>>>>,
    <<"AlterTable", t, <<"ModifyColumn", Column(<<>>, <<"Date">>, FALSE, FALSE)>>>>,
    <<"AlterTable", t, <<"AddPrimaryKey", t>>>>,
    <<"AlterTable", <<>>, <<"DropPrimaryKey">>>>}

MCMasks == {{0}, {7}}
===============================================================================
