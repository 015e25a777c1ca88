---------------------------- MODULE MCCheckpoint ----------------------------
(* Model-checking instances of Checkpoint. *)
EXTENDS Checkpoint, TLC

(* Updates differ only in their identity. *)
Symmetry == Permutations(Updates)
=============================================================================
