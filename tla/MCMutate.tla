------------------------------ MODULE MCMutate ------------------------------
(***************************************************************************)
(* A small instance of Mutate.  The object is the set of the changes made  *)
(* to it.  Verbs are moves out of the same state, of which the lifecycle   *)
(* allows one; patches are changes that do not exclude each other, but are *)
(* refused once a verb has gone through; a condition is written whatever   *)
(* the state.  After a verb the object may be removed.                     *)
(***************************************************************************)
EXTENDS Mutate

CONSTANTS p1, d1, v1, v2, r1, NoValue

Verbs == {v1, v2}

MCRefused == {NoValue}
MCValues == SUBSET Writers
MCRemovable == {s \in MCValues : s \cap Verbs # {}}
MCFn == [w \in Writers |-> [s \in MCValues |-> IF s \cap Verbs # {} /\ w # d1 THEN Refused ELSE s \cup {w}]]
=============================================================================
