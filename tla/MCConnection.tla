---------------------------- MODULE MCConnection ----------------------------
(* Finite instances of Connection for TLC. *)
EXTENDS Connection

MCAccounts == [nat |-> "native", sha |-> "sha2"]

ClientOf(users, rights, plugins, ssls, multis, deprecates) ==
    [user : users, right : rights, plugin : plugins, ssl : ssls,
     multi : multis, deprecate : deprecates]

\* Every way to connect: known and unknown accounts, right and wrong
\* passwords, each plugin declared or none, with and without TLS.
AllLogins == ClientOf({"nat", "sha", "nobody"}, BOOLEAN, {"none", "native", "sha2"},
                      BOOLEAN, {FALSE}, {TRUE})

\* A client whose own default is a plugin the server does not implement.
ForeignPlugin == ClientOf({"nat"}, {TRUE}, {"other"}, {FALSE}, {FALSE}, {TRUE})

\* One honest account, with each combination of the capabilities that shape
\* the responses.
AllCapabilities == ClientOf({"nat"}, {TRUE}, {"none"}, {FALSE}, BOOLEAN, BOOLEAN)
OneClient == ClientOf({"nat"}, {TRUE}, {"none"}, {FALSE}, {FALSE}, {FALSE})
TlsClient == ClientOf({"nat"}, {TRUE}, {"none"}, {TRUE}, {FALSE}, {FALSE})

Good == {"good"}
AnyShape == {"good", "malformed", "outOfSequence"}
EveryUnserved == {"empty", "notUtf8", "split"}

Outcome(ok, cols, rows, huge) == [ok |-> ok, cols |-> cols, rows |-> rows, huge |-> huge]
Failed == Outcome(FALSE, 0, 0, FALSE)
Done == Outcome(TRUE, 0, 0, FALSE)
SmallOutcomes == {Failed, Done, Outcome(TRUE, 1, 0, FALSE), Outcome(TRUE, 2, 3, FALSE)}
HugeOutcomes == SmallOutcomes \cup {Outcome(TRUE, 1, 1, TRUE)}

Simple == {"ping", "quit"}
Queries == {"query", "ping", "quit", "unknown"}
Statements == {"prepare", "execute", "close", "reset"}
AllCommands == Queries \cup Statements
=============================================================================
