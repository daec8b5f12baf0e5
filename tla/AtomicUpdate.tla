---------------------------- MODULE AtomicUpdate ----------------------------
(***************************************************************************)
(* What Mutate (controlplane/store.go) promises its callers: each change   *)
(* is applied to the object in one step, to the value it is judged by, or  *)
(* not at all; and the object is removed in one step from a value whose    *)
(* removal is due.                                                         *)
(***************************************************************************)
CONSTANTS
  Writers,   \* callers of Mutate, one change each
  Removers,  \* passes that remove the object
  Values,    \* what the object may be
  Removable, \* the values the object may be removed from
  First,     \* the value at first
  Refused,   \* fn returned an error
  Fn         \* Fn[w][v]: what writer w's fn makes of v, or Refused

VARIABLES val, gone, out

AInit ==
  /\ val = First /\ gone = FALSE
  /\ out = [w \in Writers \cup Removers |-> "none"]

(* The change is made.                                                     *)
Do(w) ==
  /\ out[w] = "none" /\ ~gone /\ Fn[w][val] # Refused
  /\ val' = Fn[w][val]
  /\ out' = [out EXCEPT ![w] = "ok"]
  /\ UNCHANGED gone

(* The caller gets an error and nothing is changed.                        *)
Fail(w) ==
  /\ out[w] = "none"
  /\ out' = [out EXCEPT ![w] = "failed"]
  /\ UNCHANGED <<val, gone>>

(* The object is removed.                                                  *)
RemoveIt(r) ==
  /\ out[r] = "none" /\ ~gone /\ val \in Removable
  /\ gone' = TRUE
  /\ out' = [out EXCEPT ![r] = "ok"]
  /\ UNCHANGED val

ANext ==
  \/ \E w \in Writers : Do(w)
  \/ \E r \in Removers : RemoveIt(r)
  \/ \E w \in Writers \cup Removers : Fail(w)

ASpec == AInit /\ [][ANext]_<<val, gone, out>>
=============================================================================
