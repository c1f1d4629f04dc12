--------------------------- MODULE MCConnections ---------------------------
(***************************************************************************)
(* Connections for TLC: sessions and tasks are interchangeable.            *)
(***************************************************************************)
EXTENDS Connections, TLC

Symmetry == Permutations(Sessions) \cup Permutations(Tasks)
=============================================================================
