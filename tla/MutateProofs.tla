---------------------------- MODULE MutateProofs ----------------------------
(***************************************************************************)
(* For every set of writers and removers, every fn and every number of     *)
(* retries, Mutate's loop implements the change made in one step.          *)
(*                                                                         *)
(* The argument is that a version names a value: the counter only grows    *)
(* and every write takes a new number, so an actor that finds the version  *)
(* it read also finds the value it read, and its fn was judged by the      *)
(* value its write replaces.                                               *)
(*                                                                         *)
(* Retries run out only under contention: every lost try is charged to     *)
(* another actor whose change went through since.                          *)
(***************************************************************************)
EXTENDS Mutate, FiniteSetTheorems, TLAPS

(* No version is ahead of the counter.                                     *)
VersionsBounded == obj.ver <= rv /\ \A a \in Actors : cur[a].ver <= rv

(* An actor about to write has read what the version it read names.        *)
VersionNamesValue ==
  \A a \in Actors : pc[a] = "write" /\ cur[a].ver = obj.ver => cur[a].val = obj.val

(* A writer about to write was not refused; a remover read a removable     *)
(* object.                                                                 *)
Judged ==
  /\ \A w \in Writers : pc[w] = "write" => Fn[w][cur[w].val] # Refused
  /\ \A r \in Removers : pc[r] = "write" => cur[r].val \in Removable

(* A call that has not returned has no outcome.                            *)
OutcomeAtEnd == \A a \in Actors : pc[a] # "done" => out[a] = "none"

(* A write that named a version read that version.                         *)
MatchedRead == \A w \in Writers : pc[w] = "write" /\ match[w] # 0 => cur[w].ver = match[w]

IInv == TypeOK /\ VersionsBounded /\ VersionNamesValue /\ Judged /\ OutcomeAtEnd /\ MatchedRead

(* The writes a step can make keep the value in Values.                    *)
LEMMA FnType ==
  ASSUME NEW w \in Writers, NEW v \in Values, Fn[w][v] # Refused
  PROVE  Fn[w][v] \in Values
  BY ValuesAssumption

LEMMA InitIInv == Init => IInv
<1> SUFFICES ASSUME Init PROVE IInv
  OBVIOUS
<1>1. obj \in Versioned /\ cur \in [Actors -> Versioned]
  BY ValuesAssumption DEF Init, Versioned
<1>2. TypeOK
  BY <1>1 DEF Init, TypeOK
<1>3. VersionsBounded
  BY DEF Init, VersionsBounded
<1>4. VersionNamesValue /\ Judged /\ OutcomeAtEnd /\ MatchedRead
  BY DEF Init, VersionNamesValue, Judged, OutcomeAtEnd, MatchedRead, Actors
<1>5. QED BY <1>2, <1>3, <1>4 DEF IInv

(* A step keeps the invariant.                                             *)
LEMMA StepIInv == IInv /\ [Next]_vars => IInv'
<1> SUFFICES ASSUME IInv, [Next]_vars PROVE IInv'
  OBVIOUS
<1> USE ActorsAssumption
    DEF IInv, TypeOK, Versioned, VersionsBounded, VersionNamesValue, Judged, OutcomeAtEnd,
        MatchedRead, Actors
<1>1. CASE UNCHANGED vars
  BY <1>1 DEF vars
<1>2. CASE OtherWrite
  BY <1>2 DEF OtherWrite
<1>3. ASSUME NEW w \in Writers, Begin(w) PROVE IInv'
  BY <1>3 DEF Begin
<1>4. ASSUME NEW w \in Writers, Read(w) PROVE IInv'
  BY <1>4 DEF Read, CheckIfMatch
<1>5. ASSUME NEW w \in Writers, ReadFails(w) PROVE IInv'
  BY <1>5 DEF ReadFails, Return
<1>6. ASSUME NEW w \in Writers, Update(w) PROVE IInv'
  <2>1. Fn[w][cur[w].val] \in Values
    BY <1>6, FnType DEF Update
  <2>2. \A a \in Actors : cur[a].ver # rv + 1
    OBVIOUS
  <2>3. QED BY <1>6, <2>1, <2>2 DEF Update, Return
<1>7. ASSUME NEW w \in Writers, Retry(w) PROVE IInv'
  <2>1. CASE match[w] = 0 /\ att[w] < mutateRetries
    <3>1. pc' = [pc EXCEPT ![w] = "read"] /\ att' = [att EXCEPT ![w] = @ + 1]
      BY <1>7, <2>1 DEF Retry
    <3>2. UNCHANGED <<rv, obj, gone, match, cur, out, other>>
      BY <1>7, <2>1 DEF Retry
    <3>3. TypeOK'
      BY <3>1, <3>2
    <3>4. OutcomeAtEnd'
      BY <1>7, <3>1, <3>2 DEF Retry
    <3>5. QED BY <3>1, <3>2, <3>3, <3>4
  <2>2. CASE ~(match[w] = 0 /\ att[w] < mutateRetries)
    <3>1. PICK how \in {"failed", "exhausted"} : Return(w, how)
      BY <1>7, <2>2 DEF Retry
    <3>2. QED BY <1>7, <2>2, <3>1 DEF Retry, Return
  <2>3. QED BY <2>1, <2>2
<1>8. ASSUME NEW a \in Actors, NotFound(a) PROVE IInv'
  BY <1>8 DEF NotFound, Return
<1>9. ASSUME NEW r \in Removers, PassReads(r) PROVE IInv'
  BY <1>9 DEF PassReads
<1>10. ASSUME NEW r \in Removers, Delete(r) PROVE IInv'
  BY <1>10 DEF Delete, Return
<1>11. ASSUME NEW r \in Removers, DeleteConflicts(r) PROVE IInv'
  BY <1>11 DEF DeleteConflicts
<1> HIDE DEF IInv
<1>12. QED
  BY <1>1, <1>2, <1>3, <1>4, <1>5, <1>6, <1>7, <1>8, <1>9, <1>10, <1>11
  DEF Next, WriterStep, RemoverStep

(* The strengthened invariant holds in every behaviour.                    *)
THEOREM IInvHolds == Spec => []IInv
<1>1. QED BY InitIInv, StepIInv, PTL DEF Spec

(* Every variable keeps its type.                                          *)
THEOREM TypeCorrect == Spec => []TypeOK
<1>1. IInv => TypeOK
  BY DEF IInv
<1>2. QED BY <1>1, IInvHolds, PTL

(* If-Match holds for every write, whatever comes between the check and    *)
(* the write.                                                              *)
THEOREM MatchHonoured == Spec => MatchIsHonoured
<1> DEFINE A == \A w \in Writers :
                  out'[w] = "ok" /\ out[w] = "none" /\ match[w] # 0 => match[w] = obj.ver
<1>1. ASSUME IInv, [Next]_vars PROVE [A]_vars
  <2> SUFFICES ASSUME NEW v \in Writers, out'[v] = "ok", out[v] = "none", match[v] # 0
               PROVE  match[v] = obj.ver
    OBVIOUS
  <2> USE ActorsAssumption DEF IInv, TypeOK, MatchedRead, Actors
  <2>1. ASSUME NEW a \in Actors, NEW how, out' = [out EXCEPT ![a] = how] PROVE v = a /\ how = "ok"
    BY <2>1
  <2>2. ASSUME UNCHANGED out PROVE FALSE
    BY <2>2
  <2>3. ASSUME NEW w \in Writers, Update(w) PROVE match[v] = obj.ver
    <3>1. v = w
      BY <2>1, <2>3 DEF Update, Return
    <3>2. QED BY <1>1, <2>3, <3>1 DEF Update
  <2>4. ASSUME NEW w \in Writers, Begin(w) \/ Read(w) \/ ReadFails(w) \/ Retry(w) PROVE FALSE
    <3>1. CASE Begin(w) \/ Read(w)
      BY <2>2, <3>1 DEF Begin, Read
    <3>2. CASE ReadFails(w)
      BY <2>1, <3>2 DEF ReadFails, Return
    <3>3. CASE Retry(w)
      <4>1. CASE match[w] = 0 /\ att[w] < mutateRetries
        BY <2>2, <3>3, <4>1 DEF Retry
      <4>2. CASE ~(match[w] = 0 /\ att[w] < mutateRetries)
        <5>1. PICK how \in {"failed", "exhausted"} : Return(w, how)
          BY <3>3, <4>2 DEF Retry
        <5>2. QED BY <2>1, <5>1 DEF Return
      <4>3. QED BY <4>1, <4>2
    <3>4. QED BY <2>4, <3>1, <3>2, <3>3
  <2>5. ASSUME NEW a \in Actors, NotFound(a) PROVE FALSE
    BY <2>1, <2>5 DEF NotFound, Return
  <2>6. ASSUME NEW r \in Removers, PassReads(r) \/ Delete(r) \/ DeleteConflicts(r) PROVE FALSE
    BY <2>1, <2>2, <2>6 DEF PassReads, Delete, DeleteConflicts, Return
  <2>7. CASE OtherWrite \/ UNCHANGED vars
    BY <2>2, <2>7 DEF OtherWrite, vars
  <2>8. QED
    BY <1>1, <2>3, <2>4, <2>5, <2>6, <2>7 DEF Next, WriterStep, RemoverStep
<1>2. QED BY <1>1, IInvHolds, PTL DEF Spec, MatchIsHonoured

(***************************************************************************)
(* Retries.  Only a writer that got through moves the version, so each of  *)
(* a writer's attempts that found it moved has a winner of its own.        *)
(***************************************************************************)

Winners == {v \in Writers : out[v] = "ok"}

(* The winners so far make up for a writer's attempts.                     *)
Raced(w) ==
  /\ pc[w] # "done" => att[w] <= Cardinality(Winners)
  /\ pc[w] = "write" /\ cur[w].ver # obj.ver => att[w] + 1 <= Cardinality(Winners)
  /\ out[w] = "exhausted" => mutateRetries + 1 <= Cardinality(Winners)

RaceOK == IsFiniteSet(Winners) /\ \A w \in Writers : Raced(w)

(* A step that makes no winner and leaves the version.                     *)
LEMMA NoWinner ==
  ASSUME IInv, RaceOK, NEW a \in Actors, Winners' = Winners, obj' = obj,
         \A v \in Writers \ {a} : pc'[v] = pc[v] /\ att'[v] = att[v] /\ cur'[v] = cur[v] /\ out'[v] = out[v],
         a \in Writers => Raced(a)'
  PROVE  RaceOK'
<1>1. ASSUME NEW v \in Writers, v # a PROVE Raced(v)'
  BY <1>1 DEF RaceOK, Raced
<1> QED
  BY <1>1 DEF RaceOK

LEMMA RaceStep == IInv /\ RaceOK /\ [Next]_vars => RaceOK'
<1> SUFFICES ASSUME IInv, RaceOK, [Next]_vars PROVE RaceOK'
  OBVIOUS
<1>0. TypeOK /\ OutcomeAtEnd /\ Cardinality(Winners) \in Nat
  BY FS_CardinalityType DEF IInv, RaceOK
<1>a. ASSUME NEW a \in Actors, NEW how \in {"failed", "exhausted"}, pc[a] # "done", out' = [out EXCEPT ![a] = how]
      PROVE  Winners' = Winners
  <2>1. out[a] = "none" /\ out \in [Actors -> {"none", "ok", "failed", "exhausted"}]
    BY <1>0, <1>a DEF TypeOK, OutcomeAtEnd
  <2>2. \A v \in Writers : out'[v] = "ok" <=> out[v] = "ok"
    BY <1>a, <2>1 DEF Actors
  <2> QED
    BY <2>2 DEF Winners
<1>1. ASSUME UNCHANGED <<obj, pc, att, cur, out>> PROVE RaceOK'
  BY <1>1 DEF RaceOK, Raced, Winners
<1>2. ASSUME NEW w \in Writers, Begin(w) PROVE RaceOK'
  <2>1. Raced(w)'
    BY <1>0, <1>2 DEF Begin, TypeOK, Actors, RaceOK, Raced, Winners
  <2> QED
    BY <1>0, <1>2, <2>1, NoWinner DEF Begin, Winners, TypeOK, Actors
<1>3. ASSUME NEW w \in Writers, Read(w) PROVE RaceOK'
  <2>1. Raced(w)'
    BY <1>0, <1>3 DEF Read, TypeOK, Actors, RaceOK, Raced, Winners
  <2> QED
    BY <1>0, <1>3, <2>1, NoWinner DEF Read, Winners, TypeOK, Actors
<1>4. ASSUME NEW a \in Actors, Return(a, "failed"), pc[a] # "done", UNCHANGED <<obj, att, cur>> PROVE RaceOK'
  <2>1. Winners' = Winners
    BY <1>4, <1>a DEF Return
  <2>2. a \in Writers => Raced(a)'
    BY <1>0, <1>4, <2>1 DEF Return, TypeOK, Raced
  <2> QED
    BY <1>0, <1>4, <2>1, <2>2, NoWinner DEF Return, TypeOK, Actors
<1>5. ASSUME NEW w \in Writers, Retry(w) PROVE RaceOK'
  <2>1. w \in Actors /\ pc[w] = "write" /\ att[w] + 1 <= Cardinality(Winners) /\ att[w] \in Nat
    BY <1>0, <1>5 DEF Retry, RaceOK, Raced, Actors, TypeOK
  <2>2. CASE match[w] = 0 /\ att[w] < mutateRetries
    <3>1. /\ pc' = [pc EXCEPT ![w] = "read"] /\ att' = [att EXCEPT ![w] = @ + 1]
          /\ UNCHANGED <<obj, cur, out>>
      BY <1>5, <2>2 DEF Retry
    <3>2. Winners' = Winners
      BY <3>1 DEF Winners
    <3>3. Raced(w)'
      BY <1>0, <2>1, <3>1, <3>2 DEF Raced, RaceOK, TypeOK
    <3> QED
      BY <1>0, <2>1, <3>1, <3>2, <3>3, NoWinner DEF TypeOK, Actors
  <2>3. CASE ~(match[w] = 0 /\ att[w] < mutateRetries)
    <3>1. PICK how \in {"failed", "exhausted"} :
            Return(w, how) /\ (how = "exhausted" => match[w] = 0) /\ UNCHANGED <<obj, att, cur>>
      BY <1>5, <2>3 DEF Retry
    <3>2. Winners' = Winners
      BY <1>a, <2>1, <3>1 DEF Return
    <3>3. how = "exhausted" => mutateRetries + 1 <= Cardinality(Winners)
      BY <1>0, <2>1, <2>3, <3>1, RetriesAssumption
    <3>4. Raced(w)'
      BY <1>0, <2>1, <3>1, <3>2, <3>3 DEF Return, Raced, TypeOK
    <3> QED
      BY <1>0, <2>1, <3>1, <3>2, <3>4, NoWinner DEF Return, TypeOK, Actors
  <2> QED
    BY <2>2, <2>3
<1>6. ASSUME NEW w \in Writers, Update(w) PROVE RaceOK'
  <2>1. w \in Actors /\ out[w] = "none" /\ pc[w] = "write"
    BY <1>0, <1>6 DEF Update, Actors, OutcomeAtEnd
  <2>2. out' = [out EXCEPT ![w] = "ok"] /\ pc' = [pc EXCEPT ![w] = "done"] /\ UNCHANGED <<att, cur>>
    BY <1>6 DEF Update, Return
  <2>3. Winners' = Winners \cup {w} /\ w \notin Winners
    BY <1>0, <2>1, <2>2 DEF Winners, TypeOK, Actors
  <2>4. IsFiniteSet(Winners') /\ Cardinality(Winners') = Cardinality(Winners) + 1
    BY <2>3, FS_AddElement DEF RaceOK
  <2>5. ASSUME NEW v \in Writers PROVE Raced(v)'
    <3>1. CASE v = w
      BY <1>0, <2>1, <2>2, <3>1 DEF Raced, TypeOK
    <3>2. CASE v # w
      <4>1. pc'[v] = pc[v] /\ out'[v] = out[v] /\ att'[v] = att[v] /\ att[v] \in Nat
        BY <1>0, <2>1, <2>2, <3>2 DEF TypeOK, Actors
      <4>2. /\ pc[v] # "done" => att[v] <= Cardinality(Winners)
            /\ out[v] = "exhausted" => mutateRetries + 1 <= Cardinality(Winners)
        BY DEF RaceOK, Raced
      <4> QED
        BY <1>0, <2>4, <4>1, <4>2, RetriesAssumption DEF Raced
    <3> QED
      BY <3>1, <3>2
  <2> QED
    BY <2>4, <2>5 DEF RaceOK
<1>7. ASSUME NEW r \in Removers, PassReads(r) \/ DeleteConflicts(r) \/ Delete(r) PROVE RaceOK'
  <2>1. r \in Actors /\ r \notin Writers
    BY ActorsAssumption DEF Actors
  <2>2. /\ obj' = obj /\ att' = att
        /\ \A v \in Writers : pc'[v] = pc[v] /\ cur'[v] = cur[v] /\ out'[v] = out[v]
    BY <1>0, <1>7, <2>1 DEF PassReads, DeleteConflicts, Delete, Return, TypeOK, Actors
  <2>3. Winners' = Winners
    BY <2>2 DEF Winners
  <2> QED
    BY <2>1, <2>2, <2>3, NoWinner
<1>8. ASSUME NEW w \in Writers, ReadFails(w) PROVE RaceOK'
  BY <1>4, <1>8 DEF ReadFails, Actors
<1>9. ASSUME NEW a \in Actors, NotFound(a) PROVE RaceOK'
  BY <1>4, <1>9 DEF NotFound
<1> QED
  BY <1>1, <1>2, <1>3, <1>5, <1>6, <1>7, <1>8, <1>9
  DEF Next, WriterStep, RemoverStep, OtherWrite, vars, Actors

(* A writer that ran out of retries lost each of its attempts to another   *)
(* that got through: no error is given for races that nobody won, however  *)
(* writes of other sandboxes move the one version counter.                 *)
THEOREM LostToWinners == Spec => []LosesOnlyToWinners
<1>1. Init => RaceOK
  <2> SUFFICES ASSUME Init PROVE RaceOK
    OBVIOUS
  <2>1. Winners = {}
    BY DEF Init, Winners, Actors
  <2>2. IsFiniteSet(Winners) /\ Cardinality(Winners) = 0
    BY <2>1, FS_EmptySet
  <2> QED
    BY <2>2 DEF Init, RaceOK, Raced, Actors
<1>2. IInv /\ RaceOK => LosesOnlyToWinners
  <2> SUFFICES ASSUME RaceOK, NEW w \in Writers, out[w] = "exhausted"
               PROVE  Cardinality(Winners) > mutateRetries
    BY DEF LosesOnlyToWinners, Winners
  <2>1. Cardinality(Winners) \in Nat /\ mutateRetries + 1 <= Cardinality(Winners)
    BY FS_CardinalityType DEF RaceOK, Raced
  <2> QED
    BY <2>1, RetriesAssumption
<1> QED
  BY <1>1, <1>2, RaceStep, IInvHolds, PTL DEF Spec

(* An outcome once given maps to the same outcome of the abstract call.    *)
LEMMA OutcomeMaps ==
  ASSUME TypeOK, NEW a \in Actors, NEW how \in {"ok", "failed", "exhausted"},
         out' = [out EXCEPT ![a] = how]
  PROVE  Outcome' = [Outcome EXCEPT ![a] = IF how = "exhausted" THEN "failed" ELSE how]
  BY DEF TypeOK, Outcome

(* A call that fails is the abstract failure.                              *)
LEMMA FailMaps ==
  ASSUME TypeOK, OutcomeAtEnd, NEW a \in Actors, NEW how \in {"failed", "exhausted"},
         pc[a] # "done", out' = [out EXCEPT ![a] = how], UNCHANGED <<obj, gone>>
  PROVE  Atomic!Fail(a)
<1>1. Outcome[a] = "none"
  BY DEF TypeOK, OutcomeAtEnd, Outcome
<1>2. Outcome' = [Outcome EXCEPT ![a] = "failed"]
  BY OutcomeMaps
<1>3. QED BY <1>1, <1>2 DEF Atomic!Fail

(* Mutate's loop and the guarded delete implement the change made in one   *)
(* step, for every set of callers and every fn.                            *)
THEOREM Refinement == Spec => ImplementsAtomicUpdate
<1>1. Init => Atomic!AInit
  <2>1. ASSUME Init PROVE Outcome = [a \in Actors |-> "none"]
    BY <2>1 DEF Init, Outcome
  <2>2. ASSUME Init PROVE obj.val = First
    BY <2>2 DEF Init
  <2>3. ASSUME Init PROVE gone = FALSE
    BY <2>3 DEF Init
  <2>4. QED BY <2>1, <2>2, <2>3, Zenon DEF Atomic!AInit, Actors
<1>2. ASSUME IInv, [Next]_vars PROVE [Atomic!ANext]_<<obj.val, gone, Outcome>>
  <2> DEFINE Stutters == UNCHANGED <<obj.val, gone, Outcome>>
  <2>0. TypeOK /\ OutcomeAtEnd
    BY <1>2 DEF IInv
  <2>1. ASSUME UNCHANGED <<obj, gone, out>> PROVE Stutters
    BY <2>1 DEF Outcome
  <2>2. CASE UNCHANGED vars \/ OtherWrite
    BY <2>1, <2>2 DEF vars, OtherWrite
  <2>3. ASSUME NEW w \in Writers, Begin(w) \/ Read(w) PROVE Stutters
    BY <2>1, <2>3 DEF Begin, Read
  <2>4. ASSUME NEW r \in Removers, PassReads(r) \/ DeleteConflicts(r) PROVE Stutters
    BY <2>1, <2>4 DEF PassReads, DeleteConflicts
  <2>5. ASSUME NEW w \in Writers, ReadFails(w) PROVE Atomic!Fail(w)
    <3>1. w \in Actors /\ pc[w] # "done" /\ out' = [out EXCEPT ![w] = "failed"] /\ UNCHANGED <<obj, gone>>
      BY <2>5 DEF ReadFails, Return, Actors
    <3>2. QED BY <2>0, <3>1, FailMaps
  <2>6. ASSUME NEW a \in Actors, NotFound(a) PROVE Atomic!Fail(a)
    <3>1. pc[a] # "done" /\ out' = [out EXCEPT ![a] = "failed"] /\ UNCHANGED <<obj, gone>>
      BY <2>6 DEF NotFound, Return
    <3>2. QED BY <2>0, <3>1, FailMaps
  <2>7. ASSUME NEW w \in Writers, Retry(w) PROVE Stutters \/ Atomic!Fail(w)
    <3>1. CASE match[w] = 0 /\ att[w] < mutateRetries
      BY <2>1, <2>7, <3>1 DEF Retry
    <3>2. CASE ~(match[w] = 0 /\ att[w] < mutateRetries)
      <4>1. PICK how \in {"failed", "exhausted"} : Return(w, how)
        BY <2>7, <3>2 DEF Retry
      <4>2. w \in Actors /\ pc[w] # "done" /\ out' = [out EXCEPT ![w] = how] /\ UNCHANGED <<obj, gone>>
        BY <2>7, <4>1 DEF Retry, Return, Actors
      <4>3. QED BY <2>0, <4>2, FailMaps
    <3>3. QED BY <3>1, <3>2
  <2>8. ASSUME NEW w \in Writers, Update(w) PROVE Atomic!Do(w)
    <3>1. w \in Actors
      BY DEF Actors
    <3>2. cur[w].val = obj.val /\ Fn[w][obj.val] # Refused
      BY <1>2, <2>8, <3>1 DEF Update, IInv, VersionNamesValue, Judged
    <3>3. obj'.val = Fn[w][obj.val] /\ UNCHANGED gone /\ ~gone
      BY <2>8, <3>2 DEF Update
    <3>4. Outcome[w] = "none" /\ Outcome' = [Outcome EXCEPT ![w] = "ok"]
      <4>1. out[w] = "none" /\ out' = [out EXCEPT ![w] = "ok"]
        BY <2>0, <2>8, <3>1 DEF Update, Return, OutcomeAtEnd
      <4>2. QED BY <2>0, <3>1, <4>1, OutcomeMaps DEF Outcome
    <3>5. QED BY <3>2, <3>3, <3>4 DEF Atomic!Do
  <2>9. ASSUME NEW r \in Removers, Delete(r) PROVE Atomic!RemoveIt(r)
    <3>1. r \in Actors
      BY DEF Actors
    <3>2. obj.val \in Removable /\ ~gone /\ gone' = TRUE /\ UNCHANGED obj
      BY <1>2, <2>9, <3>1 DEF Delete, IInv, VersionNamesValue, Judged
    <3>3. Outcome[r] = "none" /\ Outcome' = [Outcome EXCEPT ![r] = "ok"]
      <4>1. out[r] = "none" /\ out' = [out EXCEPT ![r] = "ok"]
        BY <2>0, <2>9, <3>1 DEF Delete, Return, OutcomeAtEnd
      <4>2. QED BY <2>0, <3>1, <4>1, OutcomeMaps DEF Outcome
    <3>4. QED BY <3>2, <3>3 DEF Atomic!RemoveIt
  <2>10. CASE \E w \in Writers : WriterStep(w)
    BY <2>3, <2>5, <2>6, <2>7, <2>8, <2>10 DEF WriterStep, Actors, Atomic!ANext
  <2>11. CASE \E r \in Removers : RemoverStep(r)
    BY <2>4, <2>6, <2>9, <2>11 DEF RemoverStep, Actors, Atomic!ANext
  <2>12. QED BY <1>2, <2>2, <2>10, <2>11 DEF Next
<1>3. QED BY <1>1, <1>2, IInvHolds, PTL DEF Spec, ImplementsAtomicUpdate, Atomic!ASpec
=============================================================================
