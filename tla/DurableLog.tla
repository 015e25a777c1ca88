------------------------------ MODULE DurableLog ------------------------------
(***************************************************************************)
(* What the log promises to the engine above it, without its threads,      *)
(* queues and files: a sequence of records that grows at its end, and that *)
(* a failure may shorten, but never by a record that was confirmed.        *)
(***************************************************************************)
EXTENDS Naturals, Sequences

CONSTANT Records

VARIABLES log,       \* the records a replay would read
          confirmed  \* the records whose append returned Ok

vars == <<log, confirmed>>

Init ==
    /\ log = <<>>
    /\ confirmed = {}

(* A record not in the log is added at the end. *)
Extend(r) ==
    /\ \A i \in 1..Len(log) : log[i] # r
    /\ log' = Append(log, r)
    /\ UNCHANGED confirmed

(* The caller learns that its record is in the log. *)
Confirm(r) ==
    /\ \E i \in 1..Len(log) : log[i] = r
    /\ confirmed' = confirmed \cup {r}
    /\ UNCHANGED log

(* A failure cuts off a suffix that holds no confirmed record. *)
Lose ==
    /\ \E n \in 0..Len(log) :
         /\ \A i \in n + 1..Len(log) : log[i] \notin confirmed
         /\ log' = SubSeq(log, 1, n)
    /\ UNCHANGED confirmed

Next == Lose \/ \E r \in Records : Extend(r) \/ Confirm(r)

Spec == Init /\ [][Next]_vars
=============================================================================
