----------------------------- MODULE MCLogWriter -----------------------------
(* Model-checking instances of LogWriter. *)
EXTENDS LogWriter, TLC

(* The calls of submit differ only in their identity. *)
Symmetry == Permutations(Records)
=============================================================================
