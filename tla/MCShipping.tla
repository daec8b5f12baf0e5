----------------------------- MODULE MCShipping -----------------------------
(***************************************************************************)
(* Shipping for TLC.                                                       *)
(***************************************************************************)
EXTENDS Shipping

=============================================================================
