--------------------------- MODULE MCControlPlane ---------------------------
(* Small instances of ControlPlane. *)
EXTENDS ControlPlane, TLC

CONSTANTS c1, c2

Symmetry == Permutations(Clients)
=============================================================================
