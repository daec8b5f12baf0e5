----------------------------- MODULE MCWarmPool -----------------------------
(***************************************************************************)
(* WarmPool for TLC.                                                       *)
(***************************************************************************)
EXTENDS WarmPool, TLC

Symmetry == Permutations(Claims) \cup Permutations(Procs)

=============================================================================
