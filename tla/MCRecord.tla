------------------------------ MODULE MCRecord ------------------------------
EXTENDS Record, TLC

(* A prompt, a streamed fragment and the end of the run.                   *)
MCKindAt == <<"prompt", "delta", "end">>

Symmetry == Permutations(Procs) \cup Permutations(Ids)

(* No step reads whether a delete has answered, and DeletedIsErased alone  *)
(* speaks of it: the run of the other properties tells no states apart by  *)
(* it.                                                                     *)
AnswersAside == <<disk, index, lock, held, op, kept, lost, faults>>
=============================================================================
