------------------------------- MODULE Mutate -------------------------------
(***************************************************************************)
(* The optimistic loop every change of a sandbox goes through: Mutate      *)
(* (controlplane/store.go) reads the object, checks If-Match, runs fn on   *)
(* a copy and writes it if the version is still the one read; a writer     *)
(* that lost the race reads again, a bounded number of times, or fails at  *)
(* once when it named a version.  The pass that removes a sandbox          *)
(* (Service.remove) deletes the object only at the version it read.  The   *)
(* store is Memory (controlplane/memory.go), whose one version counter     *)
(* counts the writes of every sandbox.                                     *)
(***************************************************************************)
EXTENDS Naturals, FiniteSets

CONSTANTS
  Writers, Removers, Values, Removable, First, Refused, Fn,
  mutateRetries, \* how often a lost race is tried again: 5 in the code
  MaxOther       \* bound: writes of other sandboxes

ASSUME ActorsAssumption == Writers \cap Removers = {}
ASSUME ValuesAssumption ==
  /\ First \in Values /\ Refused \notin Values /\ Removable \subseteq Values
  /\ Fn \in [Writers -> [Values -> Values \cup {Refused}]]
ASSUME RetriesAssumption == mutateRetries \in Nat /\ MaxOther \in Nat

VARIABLES
  rv,    \* Memory.rv
  obj,   \* the stored object: its version and value
  gone,  \* the object has been deleted
  pc,    \* where each actor is
  match, \* the version a writer's If-Match names, or 0
  cur,   \* the version and value an actor read
  att,   \* the attempt a writer is at
  out,   \* how each actor's call ended
  other  \* writes of other sandboxes so far

vars == <<rv, obj, gone, pc, match, cur, att, out, other>>

Actors == Writers \cup Removers

Versioned == [ver : Nat, val : Values]

Init ==
  /\ rv = 1 /\ obj = [ver |-> 1, val |-> First] /\ gone = FALSE
  /\ pc = [a \in Actors |-> "idle"]
  /\ match = [w \in Writers |-> 0]
  /\ cur = [a \in Actors |-> [ver |-> 0, val |-> First]]
  /\ att = [w \in Writers |-> 0]
  /\ out = [a \in Actors |-> "none"]
  /\ other = 0

(* The call of a returns.                                                  *)
Return(a, how) ==
  /\ pc' = [pc EXCEPT ![a] = "done"]
  /\ out' = [out EXCEPT ![a] = how]

(* A call begins: without If-Match, or naming the version it has seen.     *)
Begin(w) ==
  /\ pc[w] = "idle" /\ ~gone
  /\ pc' = [pc EXCEPT ![w] = "read"]
  /\ \E m \in {0, obj.ver} : match' = [match EXCEPT ![w] = m]
  /\ UNCHANGED <<rv, obj, gone, cur, att, out, other>>

(* CheckIfMatch.                                                           *)
CheckIfMatch(w) == match[w] \in {0, obj.ver}

(* Mutant: If-Match is left to the write.                                  *)
ReadAnyVersion(w) ==
  /\ pc[w] = "read" /\ ~gone /\ Fn[w][obj.val] # Refused
  /\ cur' = [cur EXCEPT ![w] = obj]
  /\ pc' = [pc EXCEPT ![w] = "write"]
  /\ UNCHANGED <<rv, obj, gone, match, att, out, other>>

(* Get, If-Match and fn accept the object.                                 *)
Read(w) ==
  /\ pc[w] = "read" /\ ~gone /\ CheckIfMatch(w) /\ Fn[w][obj.val] # Refused
  /\ cur' = [cur EXCEPT ![w] = obj]
  /\ pc' = [pc EXCEPT ![w] = "write"]
  /\ UNCHANGED <<rv, obj, gone, match, att, out, other>>

(* One of them does not.                                                   *)
ReadFails(w) ==
  /\ pc[w] = "read"
  /\ gone \/ ~CheckIfMatch(w) \/ Fn[w][obj.val] = Refused
  /\ Return(w, "failed")
  /\ UNCHANGED <<rv, obj, gone, match, cur, att, other>>

(* Mutant: the version is not compared.                                    *)
UpdateBlind(w) ==
  /\ pc[w] = "write" /\ ~gone
  /\ rv' = rv + 1
  /\ obj' = [ver |-> rv + 1, val |-> Fn[w][cur[w].val]]
  /\ Return(w, "ok")
  /\ UNCHANGED <<gone, match, cur, att, other>>

(* Mutant: fn runs again on the object as it is, its error not looked at.  *)
UpdateUnchecked(w) ==
  /\ pc[w] = "write" /\ ~gone
  /\ rv' = rv + 1
  /\ obj' = [ver |-> rv + 1, val |-> Fn[w][obj.val]]
  /\ Return(w, "ok")
  /\ UNCHANGED <<gone, match, cur, att, other>>

(* Update at the version read: the write is made.                          *)
Update(w) ==
  /\ pc[w] = "write" /\ ~gone /\ obj.ver = cur[w].ver
  /\ rv' = rv + 1
  /\ obj' = [ver |-> rv + 1, val |-> Fn[w][cur[w].val]]
  /\ Return(w, "ok")
  /\ UNCHANGED <<gone, match, cur, att, other>>

(* Mutant: one attempt too few.                                            *)
RetryShort(w) ==
  /\ pc[w] = "write" /\ ~gone /\ obj.ver # cur[w].ver
  /\ IF match[w] = 0 /\ att[w] + 1 < mutateRetries
       THEN /\ pc' = [pc EXCEPT ![w] = "read"]
            /\ att' = [att EXCEPT ![w] = @ + 1]
            /\ UNCHANGED out
       ELSE /\ Return(w, IF match[w] # 0 THEN "failed" ELSE "exhausted")
            /\ UNCHANGED att
  /\ UNCHANGED <<rv, obj, gone, match, cur, other>>

(* The version moved: without If-Match the writer reads again, until its   *)
(* attempts are used up.                                                   *)
Retry(w) ==
  /\ pc[w] = "write" /\ ~gone /\ obj.ver # cur[w].ver
  /\ IF match[w] = 0 /\ att[w] < mutateRetries
       THEN /\ pc' = [pc EXCEPT ![w] = "read"]
            /\ att' = [att EXCEPT ![w] = @ + 1]
            /\ UNCHANGED out
       ELSE /\ Return(w, IF match[w] # 0 THEN "failed" ELSE "exhausted")
            /\ UNCHANGED att
  /\ UNCHANGED <<rv, obj, gone, match, cur, other>>

(* The object was deleted.                                                 *)
NotFound(a) ==
  /\ pc[a] = "write" /\ gone
  /\ Return(a, "failed")
  /\ UNCHANGED <<rv, obj, gone, match, cur, att, other>>

(* A pass reads an object to remove; its driver call takes a while.        *)
PassReads(r) ==
  /\ pc[r] = "idle" /\ ~gone /\ obj.val \in Removable
  /\ cur' = [cur EXCEPT ![r] = obj]
  /\ pc' = [pc EXCEPT ![r] = "write"]
  /\ UNCHANGED <<rv, obj, gone, match, att, out, other>>

(* Store.Delete at the version read.                                       *)
Delete(r) ==
  /\ pc[r] = "write" /\ ~gone /\ obj.ver = cur[r].ver
  /\ gone' = TRUE
  /\ Return(r, "ok")
  /\ UNCHANGED <<rv, obj, match, cur, att, other>>

(* The version moved: the next pass looks again.                           *)
DeleteConflicts(r) ==
  /\ pc[r] = "write" /\ ~gone /\ obj.ver # cur[r].ver
  /\ pc' = [pc EXCEPT ![r] = "idle"]
  /\ UNCHANGED <<rv, obj, gone, match, cur, att, out, other>>

(* Another sandbox is written: only the counter moves.                     *)
OtherWrite ==
  /\ other < MaxOther /\ other' = other + 1
  /\ rv' = rv + 1
  /\ UNCHANGED <<obj, gone, pc, match, cur, att, out>>

WriterStep(w) ==
  Begin(w) \/ Read(w) \/ ReadFails(w) \/ Update(w) \/ Retry(w) \/ NotFound(w)

RemoverStep(r) ==
  PassReads(r) \/ Delete(r) \/ DeleteConflicts(r) \/ NotFound(r)

Next ==
  \/ \E w \in Writers : WriterStep(w)
  \/ \E r \in Removers : RemoverStep(r)
  \/ OtherWrite

Spec == Init /\ [][Next]_vars

(***************************************************************************)
(* Properties.                                                             *)
(***************************************************************************)

(* Every variable has its type.                                            *)
TypeOK ==
  /\ rv \in Nat /\ obj \in Versioned /\ gone \in BOOLEAN
  /\ pc \in [Actors -> {"idle", "read", "write", "done"}]
  /\ match \in [Writers -> Nat] /\ att \in [Writers -> Nat]
  /\ cur \in [Actors -> Versioned]
  /\ out \in [Actors -> {"none", "ok", "failed", "exhausted"}]
  /\ other \in Nat

(* "With an If-Match header the caller decided on one version" (Mutate):   *)
(* such a write lands on that version or not at all, so of the callers     *)
(* that name one version at most one wins.                                 *)
MatchIsHonoured ==
  [][\A w \in Writers : out'[w] = "ok" /\ out[w] = "none" /\ match[w] # 0 => match[w] = obj.ver]_vars

(* A writer gives up its retries only to other writers that got through:   *)
(* by then more than mutateRetries of them have.                           *)
LosesOnlyToWinners ==
  \A w \in Writers : out[w] = "exhausted" =>
    Cardinality({v \in Writers : out[v] = "ok"}) > mutateRetries

(* The outcome a caller can tell: running out of retries is a failure.     *)
Outcome == [a \in Actors |-> IF out[a] = "exhausted" THEN "failed" ELSE out[a]]

Atomic == INSTANCE AtomicUpdate WITH val <- obj.val, out <- Outcome

(* "A lost update is impossible" (Mutate): the loop implements a change    *)
(* made in one step, though other writers come between its read and its    *)
(* write.                                                                  *)
ImplementsAtomicUpdate == Atomic!ASpec
=============================================================================
