------------------------------ MODULE MCServer ------------------------------
(* Finite instances of Server for TLC. *)
EXTENDS Server

CONSTANTS p1, p2, p3

ThreePeers == {p1, p2, p3}
TwoPeers == {p1, p2}
=============================================================================
