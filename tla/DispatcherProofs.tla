-------------------------- MODULE DispatcherProofs --------------------------
(***************************************************************************)
(* For every set of sandboxes and callers and every capacity: at most one  *)
(* pass or hold per sandbox, no orphaned mark, no more passes than slots,  *)
(* and no wake-up lost.                                                    *)
(*                                                                         *)
(* None of the four is inductive alone.  The strengthening says that the   *)
(* in-flight mark is exactly what the goroutines, callers' passes and      *)
(* holds account for (Marked with NoOrphanMark), that a caller with        *)
(* something under way names a sandbox, and that the slots taken are the   *)
(* dispatched passes.                                                      *)
(***************************************************************************)
EXTENDS Dispatcher, FiniteSetTheorems, TLAPS

(* A caller with something under way has a sandbox.                        *)
CallersNameIds == \A c \in Callers : callers[c].pc # "idle" => callers[c].id \in Ids

(* Whoever passes over a sandbox or holds it has it marked.                *)
Marked ==
  /\ \A i \in Ids : gor[i] # "none" => i \in inflight
  /\ \A i \in Ids, c \in Callers : Holds(c, i) => i \in inflight

Passing == {i \in Ids : gor[i] = "pass"}

SlotsCounted == slots = Cardinality(Passing) /\ slots <= Slots

Types == TypeOK /\ CallersNameIds

Marks == Marked /\ OnePassPerSandbox /\ NoOrphanMark

IInv == Types /\ Marks /\ SlotsCounted /\ NoLostWakeup

(* The dispatched passes are finitely many, and one of them has a slot.    *)
LEMMA PassingFinite ==
  ASSUME TypeOK
  PROVE  IsFiniteSet(Passing) /\ Cardinality(Passing) \in Nat
<1>1. IsFiniteSet(Passing)
  BY IdsAssumption, FS_Subset DEF Passing
<1>2. QED BY <1>1, FS_CardinalityType

LEMMA PassingHasSlot ==
  ASSUME TypeOK, SlotsCounted, NEW i \in Ids, gor[i] = "pass"
  PROVE  slots # 0
<1>1. Passing # {}
  BY DEF Passing
<1>2. QED BY <1>1, PassingFinite, FS_EmptySet DEF SlotsCounted

(* A step keeps every variable's type.                                     *)
LEMMA TypeStep ==
  ASSUME Types, SlotsCounted, [Next]_vars
  PROVE  Types'
<1> USE CapsAssumption DEF Types, TypeOK, CallersNameIds, CallerStates
<1>1. CASE UNCHANGED vars
  BY <1>1 DEF vars
<1>2. ASSUME NEW c \in Callers, NEW i \in Ids, Change(c, i) \/ Reconcile(c, i) \/ holdPass(c, i)
      PROVE  Types'
  BY <1>2 DEF Change, Reconcile, holdPass, Reads
<1>3. ASSUME NEW c \in Callers, CallerKicks(c) PROVE Types'
  <2>1. callers[c].id \in Ids
    BY <1>3 DEF CallerKicks
  <2>2. kicks' \in Seq(Ids) /\ dropped' \subseteq Ids
    <3>1. CASE Len(kicks) < QueueCap
      <4>1. kicks' = Append(kicks, callers[c].id) /\ dropped' = dropped
        BY <1>3, <3>1 DEF CallerKicks, Kick
      <4>2. Append(kicks, callers[c].id) \in Seq(Ids)
        BY <2>1
      <4>3. QED BY <4>1, <4>2
    <3>2. CASE ~(Len(kicks) < QueueCap)
      BY <1>3, <2>1, <3>2 DEF CallerKicks, Kick
    <3>3. QED BY <3>1, <3>2
  <2>3. QED BY <1>3, <2>2 DEF CallerKicks, Idle
<1>4. ASSUME NEW c \in Callers, unhold(c) PROVE Types'
  BY <1>4 DEF unhold, Idle
<1>5. CASE RunBegins \/ SweepEnds \/ Tick \/ LoopEnds \/ RunReturns \/ ContextEnds
  BY <1>5 DEF RunBegins, SweepEnds, Tick, LoopEnds, RunReturns, ContextEnds
<1>6. CASE SweepNext
  BY <1>6 DEF SweepNext, dispatch
<1>7. CASE TakeKick
  <2>1. Head(kicks) \in Ids /\ Tail(kicks) \in Seq(Ids)
    BY <1>7 DEF TakeKick
  <2>2. QED BY <1>7, <2>1 DEF TakeKick, dispatch
<1>8. ASSUME NEW i \in Ids, GetSlot(i) PROVE Types'
  BY <1>8 DEF GetSlot, Reads
<1>9. ASSUME NEW i \in Ids, forget(i) \/ done(i) PROVE Types'
  BY <1>9 DEF forget, done
<1>10. ASSUME NEW i \in Ids, FreeSlot(i) PROVE Types'
  <2>1. slots - 1 \in Nat
    BY <1>10, PassingHasSlot DEF FreeSlot
  <2>2. QED BY <1>10, <2>1 DEF FreeSlot
<1> HIDE DEF Types
<1>11. QED
  BY <1>1, <1>2, <1>3, <1>4, <1>5, <1>6, <1>7, <1>8, <1>9, <1>10
  DEF Next, CallerStep, LoopStep, GoroutineStep
(* A step keeps the marks exact.                                           *)
LEMMA MarksStep ==
  ASSUME Types, Marks, [Next]_vars
  PROVE  Marks'
<1> USE DEF Types, TypeOK, CallersNameIds, CallerStates, Marks, Marked, OnePassPerSandbox,
            NoOrphanMark, Holds
<1>1. CASE UNCHANGED vars
  BY <1>1 DEF vars
<1>2. ASSUME NEW c \in Callers, NEW i \in Ids, Change(c, i) PROVE Marks'
  BY <1>2 DEF Change
<1>3. ASSUME NEW c \in Callers, NEW i \in Ids, Reconcile(c, i) \/ holdPass(c, i) PROVE Marks'
  <2> DEFINE What == callers'[c].pc
  <2>1. /\ i \notin inflight /\ inflight' = inflight \cup {i} /\ UNCHANGED <<again, gor>>
        /\ \A d \in Callers \ {c} : callers'[d] = callers[d]
        /\ callers[c].pc = "idle" /\ callers'[c].id = i /\ What \in {"pass", "hold"}
    BY <1>3 DEF Reconcile, holdPass
  <2> HIDE DEF What
  <2>2. Marked'
    BY <2>1
  <2>3. OnePassPerSandbox'
    BY <2>1
  <2>4. NoOrphanMark'
    BY <2>1 DEF What
  <2>5. QED BY <2>2, <2>3, <2>4
<1>4. ASSUME NEW c \in Callers, CallerKicks(c) PROVE Marks'
  BY <1>4 DEF CallerKicks, Kick, Idle
<1>5. ASSUME NEW c \in Callers, unhold(c) PROVE Marks'
  BY <1>5 DEF unhold, Idle
<1>6. CASE RunBegins \/ SweepEnds \/ Tick \/ LoopEnds \/ RunReturns \/ ContextEnds
  BY <1>6 DEF RunBegins, SweepEnds, Tick, LoopEnds, RunReturns, ContextEnds
<1>7. ASSUME NEW i \in Ids, dispatch(i), UNCHANGED callers PROVE Marks'
  BY <1>7 DEF dispatch
<1>8. CASE SweepNext
  BY <1>7, <1>8 DEF SweepNext
<1>9. CASE TakeKick
  <2>1. Head(kicks) \in Ids
    BY <1>9 DEF TakeKick
  <2>2. QED BY <1>7, <1>9, <2>1 DEF TakeKick
<1>10. ASSUME NEW i \in Ids, GetSlot(i) \/ FreeSlot(i) PROVE Marks'
  BY <1>10 DEF GetSlot, FreeSlot
<1>11. ASSUME NEW i \in Ids, forget(i) PROVE Marks'
  BY <1>11 DEF forget
<1>12. ASSUME NEW i \in Ids, done(i) PROVE Marks'
  BY <1>12 DEF done
<1> HIDE DEF Marks
<1>13. QED
  BY <1>1, <1>2, <1>3, <1>4, <1>5, <1>6, <1>8, <1>9, <1>10, <1>11, <1>12
  DEF Next, CallerStep, LoopStep, GoroutineStep

(* A step keeps the slots counted.                                         *)
LEMMA SlotsStep ==
  ASSUME Types, Marked, SlotsCounted, [Next]_vars
  PROVE  SlotsCounted'
<1> USE CapsAssumption DEF Types, TypeOK
<1>1. ASSUME UNCHANGED slots, \A i \in Ids : gor'[i] = "pass" <=> gor[i] = "pass"
      PROVE  SlotsCounted'
  BY <1>1 DEF SlotsCounted, Passing
<1>2. ASSUME NEW i \in Ids, GetSlot(i) PROVE SlotsCounted'
  <2>1. i \notin Passing /\ Passing' = Passing \cup {i}
    BY <1>2 DEF GetSlot, Passing
  <2>2. Cardinality(Passing') = Cardinality(Passing) + 1
    BY <2>1, PassingFinite, FS_AddElement
  <2>3. QED BY <1>2, <2>2, PassingFinite DEF GetSlot, SlotsCounted
<1>3. ASSUME NEW i \in Ids, FreeSlot(i) PROVE SlotsCounted'
  <2>1. i \in Passing /\ Passing' = Passing \ {i}
    BY <1>3 DEF FreeSlot, Passing
  <2>2. Cardinality(Passing') = Cardinality(Passing) - 1
    BY <2>1, PassingFinite, FS_RemoveElement
  <2>3. QED BY <1>3, <2>2, PassingFinite DEF FreeSlot, SlotsCounted
<1>4. ASSUME NEW i \in Ids, dispatch(i), UNCHANGED slots PROVE SlotsCounted'
  BY <1>1, <1>4 DEF dispatch, Marked
<1>5. CASE SweepNext
  BY <1>4, <1>5 DEF SweepNext
<1>6. CASE TakeKick
  <2>1. Head(kicks) \in Ids
    BY <1>6 DEF TakeKick
  <2>2. QED BY <1>4, <1>6, <2>1 DEF TakeKick
<1>7. ASSUME NEW i \in Ids, forget(i) \/ done(i) PROVE SlotsCounted'
  BY <1>1, <1>7 DEF forget, done
<1>8. ASSUME NEW c \in Callers, CallerStep(c) PROVE SlotsCounted'
  BY <1>1, <1>8 DEF CallerStep, Change, Reconcile, holdPass, CallerKicks, unhold
<1>9. CASE RunBegins \/ SweepEnds \/ Tick \/ LoopEnds \/ RunReturns \/ ContextEnds \/ UNCHANGED vars
  BY <1>1, <1>9 DEF RunBegins, SweepEnds, Tick, LoopEnds, RunReturns, ContextEnds, vars
<1>10. QED
  BY <1>2, <1>3, <1>5, <1>6, <1>7, <1>8, <1>9 DEF Next, LoopStep, GoroutineStep

(* A step loses no wake-up.                                                *)
LEMMA WakeupStep ==
  ASSUME Types, Marks, NoLostWakeup, [Next]_vars
  PROVE  NoLostWakeup'
<1> USE DEF Types, TypeOK, CallersNameIds, CallerStates
<1>1. CASE UNCHANGED vars
  BY <1>1 DEF vars, NoLostWakeup, Coming
<1>2. ASSUME NEW c \in Callers, NEW i \in Ids, Change(c, i) PROVE NoLostWakeup'
  BY <1>2 DEF Change, NoLostWakeup, Coming
<1>3. ASSUME NEW c \in Callers, NEW i \in Ids, Reconcile(c, i) PROVE NoLostWakeup'
  BY <1>3 DEF Reconcile, Reads, NoLostWakeup, Coming
<1>4. ASSUME NEW c \in Callers, NEW i \in Ids, holdPass(c, i) PROVE NoLostWakeup'
  BY <1>4 DEF holdPass, NoLostWakeup, Coming
<1>5. ASSUME NEW c \in Callers, CallerKicks(c) PROVE NoLostWakeup'
  <2>1. CASE Len(kicks) < QueueCap
    <3>1. /\ Len(kicks') = Len(kicks) + 1 /\ kicks'[Len(kicks) + 1] = callers[c].id
          /\ \A k \in 1..Len(kicks) : kicks'[k] = kicks[k]
          /\ Len(kicks) \in Nat
      BY <1>5, <2>1 DEF CallerKicks, Kick
    <3>2. SUFFICES ASSUME NEW i \in dirty, ~ended, i \notin dropped PROVE Coming(i)'
      BY <1>5, <2>1 DEF CallerKicks, Kick, NoLostWakeup
    <3>3. Coming(i)
      BY <3>2 DEF NoLostWakeup
    <3>4. CASE i = callers[c].id
      BY <3>1, <3>4 DEF Coming
    <3>5. CASE i # callers[c].id
      BY <1>5, <3>1, <3>3, <3>5 DEF CallerKicks, Coming
    <3>6. QED BY <3>4, <3>5
  <2>2. CASE ~(Len(kicks) < QueueCap)
    BY <1>5, <2>2 DEF CallerKicks, Kick, Idle, NoLostWakeup, Coming
  <2>3. QED BY <2>1, <2>2
<1>6. ASSUME NEW c \in Callers, unhold(c) PROVE NoLostWakeup'
  BY <1>6 DEF unhold, Idle, NoLostWakeup, Coming
<1>7. CASE RunBegins \/ SweepEnds \/ Tick \/ LoopEnds \/ RunReturns
  BY <1>7 DEF RunBegins, SweepEnds, Tick, LoopEnds, RunReturns, NoLostWakeup, Coming
<1>8. CASE ContextEnds
  BY <1>8 DEF ContextEnds, NoLostWakeup
<1>9. CASE SweepNext
  BY <1>9 DEF SweepNext, dispatch, NoLostWakeup, Coming
<1>10. CASE TakeKick
  <2>1. /\ Head(kicks) \in Ids /\ Tail(kicks) \in Seq(Ids)
        /\ \A k \in 2..Len(kicks) : k - 1 \in 1..Len(Tail(kicks)) /\ Tail(kicks)[k - 1] = kicks[k]
    BY <1>10 DEF TakeKick
  <2>2. SUFFICES ASSUME NEW i \in dirty, ~ended, i \notin dropped PROVE Coming(i)'
    BY <1>10 DEF TakeKick, NoLostWakeup
  <2>3. Coming(i)
    BY <2>2 DEF NoLostWakeup
  <2>4. CASE i = Head(kicks)
    BY <1>10, <2>1, <2>4 DEF TakeKick, dispatch, Coming
  <2>5. CASE \E k \in 1..Len(kicks) : kicks[k] = i /\ k # 1
    <3>1. PICK k \in 2..Len(kicks) : kicks[k] = i
      BY <2>5
    <3>2. k - 1 \in 1..Len(kicks') /\ kicks'[k - 1] = i
      BY <1>10, <2>1, <3>1 DEF TakeKick
    <3>3. QED BY <3>2 DEF Coming
  <2>6. CASE gor[i] = "wait" \/ i \in again
    BY <1>10, <2>1, <2>6 DEF TakeKick, dispatch, Coming
  <2>7. CASE \E c \in Callers : callers[c].id = i /\ callers[c].pc \in {"changed", "hold", "kick"}
    BY <1>10, <2>7 DEF TakeKick, Coming
  <2>8. Head(kicks) = kicks[1]
    BY <1>10 DEF TakeKick
  <2>9. QED BY <2>3, <2>4, <2>5, <2>6, <2>7, <2>8 DEF Coming
<1>11. ASSUME NEW i \in Ids, GetSlot(i) PROVE NoLostWakeup'
  BY <1>11 DEF GetSlot, Reads, NoLostWakeup, Coming
<1>12. ASSUME NEW i \in Ids, forget(i) PROVE NoLostWakeup'
  BY <1>12 DEF forget, NoLostWakeup
<1>13. ASSUME NEW i \in Ids, FreeSlot(i) \/ done(i) PROVE NoLostWakeup'
  BY <1>13 DEF FreeSlot, done, NoLostWakeup, Coming
<1>14. QED
  BY <1>1, <1>2, <1>3, <1>4, <1>5, <1>6, <1>7, <1>8, <1>9, <1>10, <1>11, <1>12, <1>13
  DEF Next, CallerStep, LoopStep, GoroutineStep
(* The strengthened invariant holds in every behaviour.                    *)
THEOREM IInvHolds == Spec => []IInv
<1>1. Init => IInv
  <2>1. ASSUME Init PROVE Passing = {}
    BY <2>1 DEF Init, Passing
  <2>2. Cardinality({}) = 0
    BY FS_EmptySet
  <2>3. ASSUME Init PROVE SlotsCounted
    <3>1. Cardinality(Passing) = 0 /\ slots = 0
      BY <2>1, <2>2, <2>3 DEF Init
    <3>2. QED BY <3>1, CapsAssumption DEF SlotsCounted
  <2>4. ASSUME Init PROVE Types
    <3>1. kicks \in Seq(Ids)
      BY <2>4 DEF Init
    <3>2. callers \in [Callers -> CallerStates] /\ CallersNameIds
      BY <2>4 DEF Init, CallersNameIds, CallerStates, Idle
    <3>3. gor \in [Ids -> {"none", "wait", "pass", "leave"}]
      BY <2>4 DEF Init
    <3>4. QED BY <2>4, <3>1, <3>2, <3>3 DEF Init, Types, TypeOK
  <2>5. ASSUME Init PROVE Marks
    BY <2>5 DEF Init, Idle, Marks, Marked, OnePassPerSandbox, NoOrphanMark, Holds
  <2>6. ASSUME Init PROVE NoLostWakeup
    BY <2>6 DEF Init, NoLostWakeup
  <2>7. QED BY <2>3, <2>4, <2>5, <2>6 DEF IInv
<1>2. IInv /\ [Next]_vars => IInv'
  BY TypeStep, MarksStep, SlotsStep, WakeupStep DEF IInv, Marks
<1>3. QED BY <1>1, <1>2, PTL DEF Spec

(* Every variable keeps its type, for every set of sandboxes and callers.  *)
THEOREM TypeCorrect == Spec => []TypeOK
<1>1. IInv => TypeOK
  BY DEF IInv, Types
<1>2. QED BY <1>1, IInvHolds, PTL

(* dispatch, Reconcile and holdPass never let two of them work on one      *)
(* sandbox, and leave no mark behind, for every number of callers.         *)
THEOREM PassesExclude == Spec => [](OnePassPerSandbox /\ NoOrphanMark)
<1>1. IInv => OnePassPerSandbox /\ NoOrphanMark
  BY DEF IInv, Marks
<1>2. QED BY <1>1, IInvHolds, PTL

(* No more dispatched passes run than there are slots.                     *)
THEOREM SlotsBoundPasses == Spec => []SlotBound
<1>1. IInv => SlotBound
  BY DEF IInv, SlotsCounted, SlotBound, Passing
<1>2. QED BY <1>1, IInvHolds, PTL

(* No change is left without a pass coming, unless its kick was dropped.   *)
THEOREM WakeupsKept == Spec => []NoLostWakeup
<1>1. IInv => NoLostWakeup
  BY DEF IInv
<1>2. QED BY <1>1, IInvHolds, PTL
=============================================================================
