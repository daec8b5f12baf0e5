------------------------ MODULE MCSessionSandboxes -------------------------
(***************************************************************************)
(* SessionSandboxes for TLC.                                               *)
(***************************************************************************)
EXTENDS SessionSandboxes, TLC

Symmetry == Permutations(Callers) \cup Permutations(Sessions)

=============================================================================
