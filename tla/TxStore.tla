------------------------------- MODULE TxStore -------------------------------
(***************************************************************************)
(* What the engine promises to its connections, without locks, log or      *)
(* intermediate steps: rows a transaction inserts are buffered and become  *)
(* committed all at once or not at all, primary keys stay unique, and what *)
(* is committed is never lost.                                             *)
(***************************************************************************)
EXTENDS Naturals, Sequences

CONSTANTS Conns,
          Key    \* Key[t]: the position of the primary key of table t, 0 if none

VARIABLES committed,  \* committed[t]: the rows of table t, in order
          buffer      \* buffer[c][t]: the rows of c's open transaction

TableNames == DOMAIN Key

vars == <<committed, buffer>>

(* The sequence r is s with something after it. *)
Grown(s, r) == Len(s) <= Len(r) /\ s = SubSeq(r, 1, Len(s))

Fresh(rows, t) ==
    Key[t] # 0 => \A i, j \in DOMAIN rows : rows[i][Key[t]] = rows[j][Key[t]] => i = j

(* Only one connection at a time has uncommitted rows for a table. *)
OnlyWriter(c, t) == \A d \in Conns \ {c} : buffer[d][t] = <<>>

Init ==
    /\ \A t \in TableNames : Fresh(committed[t], t)
    /\ buffer = [c \in Conns |-> [t \in TableNames |-> <<>>]]

(* A transaction inserts: the keys are new among the committed rows and    *)
(* the rows of the transaction.                                            *)
Put(c) ==
    /\ \E t \in TableNames :
         /\ OnlyWriter(c, t)
         /\ Grown(buffer[c][t], buffer'[c][t])
         /\ Fresh(committed[t] \o buffer'[c][t], t)
         /\ buffer' = [buffer EXCEPT ![c][t] = buffer'[c][t]]
    /\ UNCHANGED committed

(* A transaction commits. *)
Commit(c) ==
    /\ committed' = [t \in TableNames |-> committed[t] \o buffer[c][t]]
    /\ buffer' = [buffer EXCEPT ![c] = [t \in TableNames |-> <<>>]]

(* A statement outside a transaction inserts and commits. *)
Autocommit(c) ==
    /\ \E t \in TableNames :
         /\ OnlyWriter(c, t) /\ buffer[c][t] = <<>>
         /\ Grown(committed[t], committed'[t])
         /\ Fresh(committed'[t], t)
         /\ committed' = [committed EXCEPT ![t] = committed'[t]]
    /\ UNCHANGED buffer

(* Transactions are rolled back, fail to commit, or end with the server. *)
Discard ==
    /\ \E S \in SUBSET Conns :
         buffer' = [c \in Conns |-> IF c \in S THEN [t \in TableNames |-> <<>>]
                                               ELSE buffer[c]]
    /\ UNCHANGED committed

Next == Discard \/ \E c \in Conns : Put(c) \/ Commit(c) \/ Autocommit(c)

Spec == Init /\ [][Next]_vars
=============================================================================
