---------------------------- MODULE MCDispatcher ----------------------------
(* Small instances of Dispatcher. *)
EXTENDS Dispatcher, TLC

CONSTANTS i1, i2, c1, c2

Symmetry == Permutations(Ids) \cup Permutations(Callers)
=============================================================================
