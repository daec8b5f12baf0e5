--------------------------- MODULE WarmPoolProofs ---------------------------
(***************************************************************************)
(* Claims of the warm pool exclude each other and the pool's own deletes,  *)
(* for any number of processes, claims and sandboxes, any size and policy. *)
(*                                                                         *)
(* HeldIsOwn is not inductive alone: a sandbox that is gone has lost its   *)
(* label, and could be made again under a claim that holds it.  Numbers    *)
(* says why that never happens: ids are not used twice.  PoolIsBounded     *)
(* is about a stale count, and needs the creates it still allows, RoomOK.  *)
(***************************************************************************)
EXTENDS WarmPool, FiniteSetTheorems, TLAPS

(* Ids not given out yet are of no sandbox, and no claim holds one.        *)
Numbers ==
  /\ \A b \in Boxes : b > made => box[b] = Gone
  /\ \A c \in Claims : claim[c].box <= made

IInv == TypeOK /\ Numbers /\ HeldIsOwn

(* What TypeOK says of one claim.                                          *)
ClaimOK(r) ==
  /\ r \in ClaimRecords
  /\ r.pc = "held" <=> r.box # None
  /\ r.pc = "take" <=> r.p # None

(* What a fill counts is a number.                                         *)
LEMMA LiveIsNat == Cardinality(LiveMembers) \in Nat
<1>1. IsFiniteSet(Boxes)
  BY FS_Interval, SizesAssumption DEF Boxes
<1>2. LiveMembers \subseteq Boxes
  BY DEF LiveMembers, Members
<1> QED
  BY <1>1, <1>2, FS_Subset, FS_CardinalityType

(* A delete by the pool keeps the type of the store.                       *)
LEMMA DeleteType ==
  ASSUME NEW b \in Boxes, TypeOK, Delete(b)
  PROVE  box' \in [Boxes -> [state : States, label : Claims \cup {Pool}]]
<1>1. CASE UNCHANGED box
  BY <1>1 DEF TypeOK
<1>2. CASE box' = [box EXCEPT ![b].state = "Deleting"]
  BY <1>2 DEF TypeOK, States
<1> QED
  BY <1>1, <1>2 DEF Delete

(* TypeOK, with the claims apart.                                          *)
StoreOK ==
  /\ box \in [Boxes -> [state : States, label : Claims \cup {Pool}]]
  /\ made \in 0..MaxBoxes
  /\ proc \in [Procs -> {"up", "stopping", "down"}]
  /\ fill \in [Procs -> [pc : {"idle", "fill", "drain"}, todo : SUBSET Boxes, live : Nat]]

ClaimsOK == claim \in [Claims -> ClaimRecords] /\ \A c \in Claims : ClaimOK(claim[c])

LEMMA TypeParts == TypeOK <=> StoreOK /\ ClaimsOK
<1>1. ASSUME TypeOK PROVE StoreOK
  BY <1>1 DEF TypeOK, StoreOK
<1>2. ASSUME TypeOK PROVE ClaimsOK
  BY <1>2 DEF TypeOK, ClaimsOK, ClaimOK
<1>3. ASSUME StoreOK, ClaimsOK PROVE TypeOK
  BY <1>3 DEF TypeOK, StoreOK, ClaimsOK, ClaimOK
<1> QED
  BY <1>1, <1>2, <1>3

(* A claim's step leaves the other claims alone.                           *)
LEMMA ClaimStep ==
  ASSUME ClaimsOK, NEW c \in Claims, NEW r, ClaimOK(r), claim' = [claim EXCEPT ![c] = r]
  PROVE  ClaimsOK'
BY DEF ClaimsOK, ClaimOK

(* Every variable keeps its type.                                          *)
LEMMA TypeStep == TypeOK /\ [Next]_vars => TypeOK'
<1> SUFFICES ASSUME TypeOK, [Next]_vars PROVE StoreOK' /\ ClaimsOK'
  BY TypeParts, PTL
<1>0. StoreOK /\ ClaimsOK
  BY TypeParts
<1> USE NamesAssumption, SizesAssumption, <1>0
<1> DEFINE P == StoreOK' /\ ClaimsOK'
<1>1. ASSUME NEW p \in Procs, FillLists(p) PROVE P
  BY <1>1, LiveIsNat DEF FillLists, Members, StoreOK, ClaimsOK
<1>2. ASSUME NEW p \in Procs, NEW b \in Boxes, FillDeletes(p, b) PROVE P
  <2>1. box' \in [Boxes -> [state : States, label : Claims \cup {Pool}]]
    BY <1>2, DeleteType DEF FillDeletes
  <2> QED
    BY <1>2, <2>1 DEF FillDeletes, StoreOK, ClaimsOK
<1>3. ASSUME NEW p \in Procs, FillCreates(p) PROVE P
  <2>1. made' \in 0..MaxBoxes /\ made + 1 \in Boxes
    BY <1>3 DEF FillCreates, Boxes, StoreOK
  <2>2. box' \in [Boxes -> [state : States, label : Claims \cup {Pool}]]
    BY <1>3, <2>1 DEF FillCreates, StoreOK, States
  <2>3. fill' \in [Procs -> [pc : {"idle", "fill", "drain"}, todo : SUBSET Boxes, live : Nat]]
    <3>1. fill \in [Procs -> [pc : {"idle", "fill", "drain"}, todo : SUBSET Boxes, live : Nat]]
      BY DEF StoreOK
    <3>2. fill' = [fill EXCEPT ![p].live = @ + 1]
      BY <1>3 DEF FillCreates
    <3> HIDE <1>0, NamesAssumption, SizesAssumption
    <3> QED
      BY <3>1, <3>2
  <2> QED
    BY <1>3, <2>1, <2>2, <2>3 DEF FillCreates, StoreOK, ClaimsOK
<1>4. ASSUME NEW p \in Procs, FillEnds(p) PROVE P
  BY <1>4 DEF FillEnds, StoreOK, ClaimsOK, IdleFill
<1>5. ASSUME NEW p \in Procs, DrainLists(p) PROVE P
  BY <1>5 DEF DrainLists, Members, StoreOK, ClaimsOK
<1>6. ASSUME NEW p \in Procs, NEW b \in Boxes, DrainDeletes(p, b) PROVE P
  <2>1. box' \in [Boxes -> [state : States, label : Claims \cup {Pool}]]
    BY <1>6, DeleteType DEF DrainDeletes
  <2> QED
    BY <1>6, <2>1 DEF DrainDeletes, StoreOK, ClaimsOK
<1>7. ASSUME NEW p \in Procs, Ends(p) PROVE P
  <2>1. ASSUME NEW c \in Claims PROVE ClaimOK(claim'[c])
    <3>1. CASE claim[c].p # p
      BY <1>7, <3>1 DEF Ends, ClaimsOK
    <3>2. CASE claim[c].p = p
      <4>1. claim'[c] = [claim[c] EXCEPT !.pc = "refused", !.p = None, !.todo = {}]
        BY <1>7, <3>2 DEF Ends
      <4> QED
        BY <3>2, <4>1 DEF ClaimsOK, ClaimOK, ClaimRecords
    <3> QED
      BY <3>1, <3>2
  <2> QED
    BY <1>7, <2>1 DEF Ends, StoreOK, ClaimsOK, ClaimOK, IdleFill
<1>8. ASSUME NEW p \in Procs, Restarts(p) PROVE P
  BY <1>8 DEF Restarts, StoreOK, ClaimsOK
<1>9. ASSUME NEW c \in Claims, NEW p \in Procs, ClaimLists(c, p) PROVE P
  <2> DEFINE r == [claim[c] EXCEPT !.pc = "take", !.p = p, !.todo = {b \in Members : box[b].state = "Ready"}]
  <2>1. ClaimOK(r)
    BY <1>9 DEF ClaimLists, ClaimsOK, ClaimOK, ClaimRecords, Members
  <2>2. claim' = [claim EXCEPT ![c] = r]
    BY <1>9 DEF ClaimLists, ClaimsOK
  <2>3. ClaimsOK'
    BY <2>1, <2>2, ClaimStep
  <2> QED
    BY <1>9, <2>3 DEF ClaimLists, StoreOK
<1>10. ASSUME NEW c \in Claims, NEW b \in Boxes, ClaimTakes(c, b) PROVE P
  <2>1. CASE claimed(b)
    <3> DEFINE r == [claim[c] EXCEPT !.pc = "held", !.p = None, !.box = b, !.todo = {}]
    <3>0. b # None
      BY DEF Boxes, None
    <3>1. ClaimOK(r)
      BY <1>10, <3>0 DEF ClaimTakes, ClaimsOK, ClaimOK, ClaimRecords
    <3>2. claim' = [claim EXCEPT ![c] = r] /\ box' = [box EXCEPT ![b].label = c]
      BY <1>10, <2>1 DEF ClaimTakes, ClaimsOK
    <3>3. ClaimsOK'
      BY <3>1, <3>2, ClaimStep
    <3> QED
      BY <1>10, <3>2, <3>3 DEF ClaimTakes, StoreOK
  <2>2. CASE ~claimed(b)
    <3> DEFINE r == [claim[c] EXCEPT !.todo = claim[c].todo \ {b}]
    <3>1. ClaimOK(r)
      BY <1>10 DEF ClaimTakes, ClaimsOK, ClaimOK, ClaimRecords
    <3>2. claim' = [claim EXCEPT ![c] = r] /\ box' = box
      BY <1>10, <2>2 DEF ClaimTakes, ClaimsOK
    <3>3. ClaimsOK'
      BY <3>1, <3>2, ClaimStep
    <3> QED
      BY <1>10, <3>2, <3>3 DEF ClaimTakes, StoreOK
  <2> QED
    BY <2>1, <2>2
<1>11. ASSUME NEW c \in Claims, ClaimEnds(c) PROVE P
  <2> DEFINE r == [claim[c] EXCEPT !.pc = "refused", !.p = None, !.todo = {}]
  <2>1. ClaimOK(r)
    BY <1>11 DEF ClaimEnds, ClaimsOK, ClaimOK, ClaimRecords
  <2>2. claim' = [claim EXCEPT ![c] = r]
    BY <1>11 DEF ClaimEnds, ClaimsOK
  <2>3. ClaimsOK'
    BY <2>1, <2>2, ClaimStep
  <2> QED
    BY <1>11, <2>3 DEF ClaimEnds, StoreOK
<1>12. ASSUME NEW b \in Boxes, NEW to \in States, Pass(b, to) PROVE P
  BY <1>12 DEF Pass, StoreOK, ClaimsOK
<1>13. ASSUME NEW b \in Boxes, Removed(b) PROVE P
  BY <1>13 DEF Removed, Gone, StoreOK, ClaimsOK, States
<1>14. CASE UNCHANGED vars
  BY <1>14 DEF vars, StoreOK, ClaimsOK
<1> QED
  BY <1>1, <1>2, <1>3, <1>4, <1>5, <1>6, <1>7, <1>8, <1>9, <1>10, <1>11, <1>12, <1>13, <1>14
  DEF Next, Process

(***************************************************************************)
(* The invariant.                                                          *)
(***************************************************************************)

(* A delete by the pool writes only what carries the pool's label.         *)
LEMMA DeleteSpares ==
  ASSUME NEW b \in Boxes, TypeOK, Delete(b), NEW e \in Boxes
  PROVE  /\ box'[e].label = box[e].label
         /\ box'[e].state = "Gone" <=> box[e].state = "Gone"
         /\ box[e].state = "Gone" \/ box[e].label # Pool => box'[e] = box[e]
BY DEF Delete, may, Exists, TypeOK

(* What keeps IInv: every step that leaves the claims alone leaves labels  *)
(* of existing sandboxes and makes none under an id in use.                *)
LEMMA KeepsHeld ==
  ASSUME IInv, TypeOK', claim' = claim, made' >= made,
         \A e \in Boxes : e <= made =>
           (box'[e].state = "Gone" \/ (box[e].state # "Gone" /\ box'[e].label = box[e].label)),
         \A e \in Boxes : e > made' => box'[e] = Gone
  PROVE  IInv'
<1>1. Numbers'
  <2>1. ASSUME NEW c \in Claims PROVE claim'[c].box <= made'
    <3>1. claim[c].box \in Nat /\ made \in Nat /\ made' \in Nat /\ claim[c].box <= made
      BY SizesAssumption DEF IInv, Numbers, TypeOK, ClaimRecords, Boxes, None
    <3> QED
      BY <3>1
  <2> QED
    BY <2>1 DEF Numbers
<1>2. HeldIsOwn'
  <2> SUFFICES ASSUME NEW c \in Claims, claim[c].pc = "held"
               PROVE  \/ box'[claim[c].box].state = "Gone" \/ box'[claim[c].box].label = c
    BY DEF IInv, HeldIsOwn, Exists
  <2>1. claim[c].box \in Boxes /\ claim[c].box <= made
    BY DEF IInv, Numbers, TypeOK, ClaimRecords
  <2>2. box[claim[c].box].state = "Gone" \/ box[claim[c].box].label = c
    BY DEF IInv, HeldIsOwn, Exists
  <2> QED
    BY <2>1, <2>2
<1> QED
  BY <1>1, <1>2 DEF IInv

(* A claim that goes on or is refused holds nothing, as before.            *)
LEMMA HoldsNothing ==
  ASSUME IInv, TypeOK', UNCHANGED <<box, made>>,
         \A c \in Claims : claim'[c].pc = "held" => claim'[c] = claim[c]
  PROVE  IInv'
<1>1. ASSUME NEW c \in Claims PROVE claim'[c].box <= made
  <2>1. CASE claim'[c].pc = "held"
    BY <2>1 DEF IInv, Numbers
  <2>2. CASE claim'[c].pc # "held"
    BY <2>2, SizesAssumption DEF TypeOK, None
  <2> QED
    BY <2>1, <2>2
<1>2. Numbers'
  BY <1>1 DEF IInv, Numbers
<1>3. HeldIsOwn'
  BY DEF IInv, HeldIsOwn, Exists
<1> QED
  BY <1>2, <1>3 DEF IInv

LEMMA IInvStep == IInv /\ [Next]_vars => IInv'
<1> SUFFICES ASSUME IInv, [Next]_vars PROVE IInv'
  OBVIOUS
<1>0. TypeOK /\ TypeOK'
  BY TypeStep DEF IInv
<1>a. made \in Nat
  BY <1>0, SizesAssumption DEF TypeOK
<1>b. \A e \in Boxes : e > made => box[e] = Gone /\ box[e].state = "Gone"
  BY DEF IInv, Numbers, Gone
<1>1. ASSUME NEW p \in Procs, FillLists(p) PROVE IInv'
  BY <1>0, <1>1, HoldsNothing DEF FillLists
<1>2. ASSUME NEW p \in Procs, NEW b \in Boxes, FillDeletes(p, b) PROVE IInv'
  BY <1>0, <1>2, <1>a, <1>b, DeleteSpares, KeepsHeld DEF FillDeletes
<1>3. ASSUME NEW p \in Procs, FillCreates(p) PROVE IInv'
  <2>1. /\ made' = made + 1 /\ made + 1 \in Boxes /\ claim' = claim
        /\ box' = [box EXCEPT ![made + 1] = [state |-> "Coming", label |-> Pool]]
    BY <1>3, <1>a, SizesAssumption DEF FillCreates, Boxes
  <2>2. \A e \in Boxes : e <= made => box'[e] = box[e]
    BY <1>0, <1>a, <2>1 DEF TypeOK, Boxes
  <2>3. \A e \in Boxes : e > made' => box'[e] = Gone
    BY <1>0, <1>a, <1>b, <2>1 DEF TypeOK, Boxes
  <2> QED
    BY <1>0, <1>a, <2>1, <2>2, <2>3, KeepsHeld
<1>4. ASSUME NEW p \in Procs, FillEnds(p) PROVE IInv'
  BY <1>0, <1>4, HoldsNothing DEF FillEnds
<1>5. ASSUME NEW p \in Procs, DrainLists(p) PROVE IInv'
  BY <1>0, <1>5, HoldsNothing DEF DrainLists
<1>6. ASSUME NEW p \in Procs, NEW b \in Boxes, DrainDeletes(p, b) PROVE IInv'
  BY <1>0, <1>6, <1>a, <1>b, DeleteSpares, KeepsHeld DEF DrainDeletes
<1>7. ASSUME NEW p \in Procs, Ends(p) PROVE IInv'
  <2>1. ASSUME NEW c \in Claims, claim'[c].pc = "held" PROVE claim'[c] = claim[c]
    <3>1. CASE claim[c].p # p
      BY <1>7, <3>1 DEF Ends
    <3>2. CASE claim[c].p = p
      <4>1. claim'[c] = [claim[c] EXCEPT !.pc = "refused", !.p = None, !.todo = {}]
        BY <1>7, <3>2 DEF Ends
      <4> QED
        BY <1>0, <2>1, <4>1 DEF TypeOK, ClaimRecords
    <3> QED
      BY <3>1, <3>2
  <2> QED
    BY <1>0, <1>7, <2>1, HoldsNothing DEF Ends
<1>8. ASSUME NEW p \in Procs, Restarts(p) PROVE IInv'
  BY <1>0, <1>8, HoldsNothing DEF Restarts
<1>9. ASSUME NEW c \in Claims, NEW p \in Procs, ClaimLists(c, p) PROVE IInv'
  <2>1. ASSUME NEW d \in Claims, claim'[d].pc = "held" PROVE claim'[d] = claim[d]
    <3>1. claim'[c].pc = "take"
      <4> DEFINE r == [claim[c] EXCEPT !.pc = "take", !.p = p, !.todo = {b \in Members : box[b].state = "Ready"}]
      <4>1. claim' = [claim EXCEPT ![c] = r]
        BY <1>9 DEF ClaimLists
      <4>2. r.pc = "take"
        BY <1>0 DEF TypeOK, ClaimRecords
      <4>3. claim \in [Claims -> ClaimRecords]
        BY <1>0 DEF TypeOK
      <4> HIDE DEF r
      <4> QED
        BY <4>1, <4>2, <4>3
    <3>2. d # c => claim'[d] = claim[d]
      BY <1>0, <1>9 DEF ClaimLists, TypeOK
    <3> QED
      BY <2>1, <3>1, <3>2
  <2> QED
    BY <1>0, <1>9, <2>1, HoldsNothing DEF ClaimLists
<1>10. ASSUME NEW c \in Claims, NEW b \in Boxes, ClaimTakes(c, b) PROVE IInv'
  <2>1. CASE ~claimed(b)
    <3>1. ASSUME NEW d \in Claims, claim'[d].pc = "held" PROVE claim'[d] = claim[d]
      BY <1>0, <1>10, <2>1, <3>1 DEF ClaimTakes, TypeOK, ClaimRecords
    <3> QED
      BY <1>0, <1>10, <2>1, <3>1, HoldsNothing DEF ClaimTakes
  <2>2. CASE claimed(b)
    <3>1. /\ made' = made
          /\ box' = [box EXCEPT ![b].label = c]
          /\ claim'[c].box = b
          /\ \A d \in Claims \ {c} : claim'[d] = claim[d]
      <4> DEFINE r == [claim[c] EXCEPT !.pc = "held", !.p = None, !.box = b, !.todo = {}]
      <4>1. made' = made /\ box' = [box EXCEPT ![b].label = c] /\ claim' = [claim EXCEPT ![c] = r]
        BY <1>10, <2>2 DEF ClaimTakes
      <4>2. r.box = b
        BY <1>0 DEF TypeOK, ClaimRecords
      <4>3. claim \in [Claims -> ClaimRecords]
        BY <1>0 DEF TypeOK
      <4> HIDE DEF r
      <4> QED
        BY <4>1, <4>2, <4>3
    <3>2. box[b].state = "Ready" /\ box[b].label = Pool /\ b <= made
      BY <1>a, <1>b, <2>2 DEF claimed, Boxes
    <3>3. /\ \A e \in Boxes \ {b} : box'[e] = box[e]
          /\ box'[b].label = c /\ box'[b].state = "Ready"
      BY <1>0, <3>1, <3>2 DEF TypeOK
    <3>4. ASSUME NEW d \in Claims, d # c, claim[d].pc = "held" PROVE claim[d].box # b
      BY <3>2, <3>4, NamesAssumption DEF IInv, HeldIsOwn, Exists
    <3>5. Numbers'
      BY <1>a, <3>1, <3>2, <3>3 DEF IInv, Numbers, Boxes
    <3>6. ASSUME NEW d \in Claims, claim'[d].pc = "held"
          PROVE  box'[claim'[d].box].state = "Gone" \/ box'[claim'[d].box].label = d
      <4>1. CASE d = c
        BY <3>1, <3>3, <4>1
      <4>2. CASE d # c
        <5>1. claim'[d] = claim[d] /\ claim[d].pc = "held" /\ claim[d].box # b
          BY <3>1, <3>4, <3>6, <4>2
        <5>2. claim[d].box \in Boxes
          BY <1>0, <5>1 DEF TypeOK, ClaimRecords
        <5> QED
          BY <3>3, <5>1, <5>2 DEF IInv, HeldIsOwn, Exists
      <4> QED
        BY <4>1, <4>2
    <3>7. ASSUME NEW d \in Claims, NEW e \in Claims, d # e, claim'[d].pc = "held", claim'[e].pc = "held"
          PROVE  claim'[d].box # claim'[e].box
      <4>1. CASE d # c /\ e # c
        BY <3>1, <3>7, <4>1 DEF IInv, HeldIsOwn
      <4>2. CASE d = c \/ e = c
        BY <3>1, <3>4, <3>7, <4>2
      <4> QED
        BY <4>1, <4>2
    <3>8. HeldIsOwn'
      BY <3>6, <3>7 DEF HeldIsOwn, Exists
    <3> QED
      BY <1>0, <3>5, <3>8 DEF IInv
  <2> QED
    BY <2>1, <2>2
<1>11. ASSUME NEW c \in Claims, ClaimEnds(c) PROVE IInv'
  <2>1. ASSUME NEW d \in Claims, claim'[d].pc = "held" PROVE claim'[d] = claim[d]
    BY <1>0, <1>11, <2>1 DEF ClaimEnds, TypeOK, ClaimRecords
  <2> QED
    BY <1>0, <1>11, <2>1, HoldsNothing DEF ClaimEnds
<1>12. ASSUME NEW b \in Boxes, NEW to \in States, Pass(b, to) PROVE IInv'
  <2>1. \A e \in Boxes : box'[e].label = box[e].label /\ (box[e].state = "Gone" => box'[e] = box[e])
    BY <1>0, <1>12 DEF Pass, TypeOK
  <2> QED
    BY <1>0, <1>12, <1>a, <1>b, <2>1, KeepsHeld DEF Pass
<1>13. ASSUME NEW b \in Boxes, Removed(b) PROVE IInv'
  <2>1. \A e \in Boxes : box'[e] = box[e] \/ box'[e] = Gone
    BY <1>0, <1>13 DEF Removed, TypeOK
  <2> QED
    <3>1. claim' = claim /\ made' = made /\ Gone.state = "Gone"
      BY <1>13 DEF Removed, Gone
    <3>2. \A e \in Boxes : e > made' => box'[e] = Gone
      BY <1>b, <2>1, <3>1
    <3>3. ASSUME NEW e \in Boxes
          PROVE  \/ box'[e].state = "Gone"
                 \/ box[e].state # "Gone" /\ box'[e].label = box[e].label
      <4>1. CASE box'[e] = Gone
        BY <3>1, <4>1
      <4>2. CASE box'[e] = box[e]
        BY <4>2
      <4> QED
        BY <2>1, <4>1, <4>2
    <3>4. \A e \in Boxes : e <= made =>
            (box'[e].state = "Gone" \/ (box[e].state # "Gone" /\ box'[e].label = box[e].label))
      BY <3>3
    <3>5. made' >= made
      BY <1>a, <3>1
    <3> QED
      BY <1>0, <3>1, <3>2, <3>4, <3>5, KeepsHeld
<1>14. CASE UNCHANGED vars
  BY <1>0, <1>14, HoldsNothing DEF vars
<1> QED
  BY <1>1, <1>2, <1>3, <1>4, <1>5, <1>6, <1>7, <1>8, <1>9, <1>10, <1>11, <1>12, <1>13, <1>14
  DEF Next, Process

LEMMA IInvInit == Init => IInv
<1> SUFFICES ASSUME Init PROVE IInv
  OBVIOUS
<1>1. StoreOK
  BY SizesAssumption DEF Init, StoreOK, Gone, IdleFill, States
<1>2. \A c \in Claims : claim[c] = [pc |-> "new", p |-> None, box |-> None, todo |-> {}]
  BY DEF Init
<1>3. ClaimsOK
  BY <1>2 DEF Init, ClaimsOK, ClaimOK, ClaimRecords
<1>4. Numbers
  BY <1>2 DEF Init, Numbers, None
<1>5. HeldIsOwn
  BY <1>2 DEF HeldIsOwn
<1> QED
  BY <1>1, <1>3, <1>4, <1>5, TypeParts DEF IInv

THEOREM IInvHolds == Spec => []IInv
BY IInvInit, IInvStep, PTL DEF Spec

(* The types of the pool's state, the claims' included, hold throughout.   *)
THEOREM TypeCorrect == Spec => []TypeOK
<1>1. IInv => TypeOK
  BY DEF IInv
<1> QED
  BY <1>1, IInvHolds, PTL

(* No two claims, whatever the processes they are made in, hold the same   *)
(* member, and the one a claim holds carries its label until it is gone.   *)
THEOREM ClaimsExclude == Spec => []HeldIsOwn
<1>1. IInv => HeldIsOwn
  BY DEF IInv
<1> QED
  BY <1>1, IInvHolds, PTL

(* What ClaimedIsSpared says of one step and one sandbox.                  *)
Spared(b) ==
  (Exists(b) /\ box[b].label # Pool) =>
    \/ box'[b] = Gone
    \/ box'[b].label = box[b].label /\ (box'[b].state = "Deleting" => box[b].state = "Deleting")

LEMMA SparedStep ==
  ASSUME IInv, Next, NEW b \in Boxes
  PROVE  Spared(b)
<1> SUFFICES ASSUME box[b].state # "Gone", box[b].label # Pool
             PROVE  \/ box'[b] = Gone
                    \/ /\ box'[b].label = box[b].label
                       /\ box'[b].state = "Deleting" => box[b].state = "Deleting"
  BY DEF Spared, Exists
<1>0. TypeOK
  BY DEF IInv
<1>1. CASE box' = box
  BY <1>1
<1>2. ASSUME NEW e \in Boxes, Delete(e) PROVE box'[b] = box[b]
  BY <1>0, <1>2, DeleteSpares
<1>3. ASSUME NEW p \in Procs, FillCreates(p) PROVE box'[b] = box[b]
  <2>1. b # made + 1
    BY <1>0, SizesAssumption DEF IInv, Numbers, TypeOK, Boxes, Gone
  <2> QED
    BY <1>0, <1>3, <2>1 DEF FillCreates, TypeOK
<1>4. ASSUME NEW c \in Claims, NEW e \in Boxes, ClaimTakes(c, e) PROVE box'[b] = box[b]
  BY <1>0, <1>4 DEF ClaimTakes, claimed, TypeOK
<1>5. ASSUME NEW e \in Boxes, NEW to \in States, Pass(e, to)
      PROVE  box'[b].label = box[b].label /\ (box'[b].state = "Deleting" => box[b].state = "Deleting")
  BY <1>0, <1>5 DEF Pass, TypeOK
<1>6. ASSUME NEW e \in Boxes, Removed(e) PROVE box'[b] = box[b] \/ box'[b] = Gone
  BY <1>0, <1>6 DEF Removed, TypeOK
<1> QED
  BY <1>1, <1>2, <1>3, <1>4, <1>5, <1>6
  DEF Next, Process, FillLists, FillDeletes, FillEnds, DrainLists, DrainDeletes, Ends, Restarts,
      ClaimLists, ClaimEnds

(* The pool's fills and drains never delete a sandbox that was claimed     *)
(* after they listed it, and a claimed one never goes back to the pool.    *)
THEOREM ClaimsAreSpared == Spec => ClaimedIsSpared
<1>1. IInv /\ [Next]_vars => [\A b \in Boxes : Spared(b)]_vars
  BY SparedStep
<1>2. Spec => [][\A b \in Boxes : Spared(b)]_vars
  BY <1>1, IInvHolds, PTL DEF Spec
<1> QED
  BY <1>2 DEF ClaimedIsSpared, Spared

(***************************************************************************)
(* How far the fills overshoot.  A fill that listed goes on counting from  *)
(* what it saw, so the members themselves are bounded only together with   *)
(* the creates the fills under way may still make: each process has Size   *)
(* slots, and those above its count are open.                              *)
(***************************************************************************)

Slots == Procs \X (1..Size)
Open == {x \in Slots : fill[x[1]].pc = "fill" /\ fill[x[1]].live < x[2]}

RoomOK == Policy = "never" => Cardinality(LiveMembers) + Cardinality(Open) <= Cardinality(Slots)

LEMMA Finite ==
  /\ IsFiniteSet(LiveMembers) /\ Cardinality(LiveMembers) \in Nat
  /\ IsFiniteSet(Slots) /\ Cardinality(Slots) = Size * Cardinality(Procs) /\ Cardinality(Slots) \in Nat
  /\ IsFiniteSet(Open) /\ Cardinality(Open) \in Nat
<1>1. IsFiniteSet(Boxes) /\ LiveMembers \subseteq Boxes
  BY FS_Interval, SizesAssumption DEF Boxes, LiveMembers, Members
<1>2. IsFiniteSet(LiveMembers)
  BY <1>1, FS_Subset
<1>3. IsFiniteSet(1..Size) /\ Cardinality(1..Size) = Size
  BY FS_Interval, SizesAssumption
<1>4. IsFiniteSet(Slots) /\ Cardinality(Slots) = Cardinality(Procs) * Size
  BY <1>3, FS_Product, SizesAssumption DEF Slots
<1>5. Cardinality(Procs) \in Nat
  BY FS_CardinalityType, SizesAssumption
<1>6. Cardinality(Procs) * Size = Size * Cardinality(Procs)
  BY <1>5, SizesAssumption
<1>7. IsFiniteSet(Open)
  BY <1>4, FS_Subset DEF Open
<1> QED
  BY <1>2, <1>4, <1>6, <1>7, FS_CardinalityType

(* A step that adds no live member and opens no slot keeps the bound.      *)
LEMMA RoomShrinks ==
  ASSUME RoomOK, Policy = "never" => LiveMembers' \subseteq LiveMembers, Open' \subseteq Open
  PROVE  RoomOK'
<1> SUFFICES ASSUME Policy = "never"
             PROVE  Cardinality(LiveMembers') + Cardinality(Open') <= Cardinality(Slots)
  BY DEF RoomOK, Slots
<1>1. Cardinality(LiveMembers') \in Nat /\ Cardinality(LiveMembers') <= Cardinality(LiveMembers)
  BY Finite, FS_Subset, FS_CardinalityType
<1>2. Cardinality(Open') \in Nat /\ Cardinality(Open') <= Cardinality(Open)
  BY Finite, FS_Subset, FS_CardinalityType
<1>3. Cardinality(LiveMembers) + Cardinality(Open) <= Cardinality(Slots)
  BY DEF RoomOK
<1> QED
  BY <1>1, <1>2, <1>3, Finite

(* A delete by the pool adds no live member, whatever it finds.            *)
LEMMA DeleteShrinks ==
  ASSUME TypeOK, NEW b \in Boxes, Delete(b)
  PROVE  LiveMembers' \subseteq LiveMembers
BY DEF Delete, LiveMembers, Members, Exists, TypeOK

(* A fill that lists opens the slots above its count: with the members it  *)
(* counted in the slots below, that is no more than there are.             *)
LEMMA ListsKeepsRoom ==
  ASSUME IInv, RoomOK, NEW p \in Procs, FillLists(p)
  PROVE  RoomOK'
<1> SUFFICES ASSUME Policy = "never"
             PROVE  Cardinality(LiveMembers) + Cardinality(Open') <= Cardinality(Slots)
  BY DEF RoomOK, Slots, FillLists, LiveMembers, Members, Exists
<1>0. TypeOK
  BY DEF IInv
<1> DEFINE L == Cardinality(LiveMembers)
           Below == {p} \X (1..L)
<1>1. L \in Nat /\ Size \in Nat
  BY Finite, SizesAssumption
<1>2. /\ fill'[p].pc = "fill" /\ fill'[p].live = L
      /\ \A q \in Procs \ {p} : fill'[q] = fill[q]
  BY <1>0 DEF FillLists, TypeOK
<1> HIDE DEF L
<1>3. CASE L >= Size
  <2>1. Open' \subseteq Open
    BY <1>1, <1>2, <1>3 DEF Open, Slots
  <2>2. Cardinality(Open') \in Nat /\ Cardinality(Open') <= Cardinality(Open)
    BY <2>1, Finite, FS_Subset, FS_CardinalityType
  <2> QED
    BY <2>2, Finite DEF RoomOK
<1>4. CASE L < Size
  <2>1. Open' \subseteq Slots
    BY DEF Open, Slots
  <2>2. Below \subseteq Slots
    BY <1>1, <1>4 DEF Slots
  <2>3. Open' \cap Below = {}
    BY <1>1, <1>2 DEF Open, Slots
  <2>4. IsFiniteSet(Below) /\ Cardinality(Below) = L
    <3>1. IsFiniteSet(1..L) /\ Cardinality(1..L) = L
      BY <1>1, FS_Interval
    <3>2. IsFiniteSet({p}) /\ Cardinality({p}) = 1
      BY FS_EmptySet, FS_AddElement, FS_Singleton
    <3>3. IsFiniteSet(Below) /\ Cardinality(Below) = 1 * L
      BY <3>1, <3>2, FS_Product
    <3> QED
      BY <1>1, <3>3
  <2> HIDE DEF Below
  <2>5. IsFiniteSet(Open') /\ Cardinality(Open') \in Nat
    BY <2>1, Finite, FS_Subset, FS_CardinalityType
  <2>6. Cardinality(Open' \cup Below) = Cardinality(Open') + L - Cardinality({})
    BY <2>3, <2>4, <2>5, FS_Union
  <2>7. Cardinality({}) = 0
    BY FS_EmptySet
  <2>8. Cardinality(Open' \cup Below) <= Cardinality(Slots)
    BY <2>1, <2>2, Finite, FS_Subset
  <2> QED
    BY <1>1, <2>5, <2>6, <2>7, <2>8 DEF L
<1> QED
  BY <1>1, <1>3, <1>4

(* A create fills the open slot next above the count.                      *)
LEMMA CreatesKeepsRoom ==
  ASSUME IInv, RoomOK, NEW p \in Procs, FillCreates(p)
  PROVE  RoomOK'
<1> SUFFICES ASSUME Policy = "never"
             PROVE  Cardinality(LiveMembers') + Cardinality(Open') <= Cardinality(Slots)
  BY DEF RoomOK, Slots
<1>0. TypeOK
  BY DEF IInv
<1> DEFINE n == made + 1
           slot == <<p, fill[p].live + 1>>
<1>1. n \in Boxes /\ box[n] = Gone
  BY <1>0, SizesAssumption DEF IInv, Numbers, TypeOK, FillCreates, Boxes
<1>2. LiveMembers' \subseteq LiveMembers \cup {n}
  BY <1>0 DEF FillCreates, LiveMembers, Members, Exists, TypeOK
<1>3. fill[p].live \in Nat /\ fill[p].live < Size /\ fill[p].pc = "fill"
  BY <1>0 DEF FillCreates, TypeOK
<1>4. slot \in Open
  BY <1>3, SizesAssumption DEF Open, Slots
<1>5. /\ fill'[p].pc = "fill" /\ fill'[p].live = fill[p].live + 1
      /\ \A q \in Procs \ {p} : fill'[q] = fill[q]
  BY <1>0, <1>3 DEF FillCreates, TypeOK
<1>6. Open' \subseteq Open \ {slot}
  BY <1>3, <1>5, SizesAssumption DEF Open, Slots
<1> HIDE DEF n, slot
<1>7. Cardinality(LiveMembers') \in Nat /\ Cardinality(LiveMembers') <= Cardinality(LiveMembers) + 1
  <2>1. /\ IsFiniteSet(LiveMembers \cup {n})
        /\ Cardinality(LiveMembers \cup {n}) <= Cardinality(LiveMembers) + 1
        /\ Cardinality(LiveMembers \cup {n}) \in Nat
    <3>1. /\ IsFiniteSet(LiveMembers \cup {n})
          /\ Cardinality(LiveMembers \cup {n}) =
               IF n \in LiveMembers THEN Cardinality(LiveMembers) ELSE Cardinality(LiveMembers) + 1
      BY Finite, FS_AddElement
    <3>2. Cardinality(LiveMembers) \in Nat
      BY Finite
    <3>3. Cardinality(LiveMembers \cup {n}) \in Nat
      BY <3>1, FS_CardinalityType
    <3>4. Cardinality(LiveMembers \cup {n}) <= Cardinality(LiveMembers) + 1
      BY <3>1, <3>2
    <3> QED
      BY <3>1, <3>3, <3>4
  <2>2. IsFiniteSet(LiveMembers') /\ Cardinality(LiveMembers') <= Cardinality(LiveMembers \cup {n})
    BY <1>2, <2>1, FS_Subset
  <2>3. Cardinality(LiveMembers') \in Nat
    BY <2>2, FS_CardinalityType
  <2> QED
    BY <2>1, <2>2, <2>3, Finite
<1>8. Cardinality(Open') \in Nat /\ Cardinality(Open') <= Cardinality(Open) - 1
  <2>1. /\ IsFiniteSet(Open \ {slot})
        /\ Cardinality(Open \ {slot}) = Cardinality(Open) - 1
        /\ Cardinality(Open \ {slot}) \in Nat
    BY <1>4, Finite, FS_RemoveElement, FS_CardinalityType
  <2>2. IsFiniteSet(Open') /\ Cardinality(Open') <= Cardinality(Open \ {slot})
    BY <1>6, <2>1, FS_Subset
  <2>3. Cardinality(Open') \in Nat
    BY <2>2, FS_CardinalityType
  <2> QED
    BY <2>1, <2>2, <2>3, Finite
<1>9. Cardinality(LiveMembers) + Cardinality(Open) <= Cardinality(Slots)
  BY DEF RoomOK
<1> QED
  BY <1>7, <1>8, <1>9, Finite

LEMMA RoomStep == IInv /\ RoomOK /\ [Next]_vars => RoomOK'
<1> SUFFICES ASSUME IInv, RoomOK, [Next]_vars PROVE RoomOK'
  OBVIOUS
<1>0. TypeOK
  BY DEF IInv
<1> DEFINE Fewer == Policy = "never" => LiveMembers' \subseteq LiveMembers
<1>a. ASSUME box' = box PROVE Fewer
  BY <1>a DEF LiveMembers, Members, Exists
<1>b. ASSUME fill' = fill PROVE Open' \subseteq Open
  BY <1>b DEF Open, Slots
<1>c. ASSUME NEW p \in Procs,
             fill'[p].pc = "fill" => (fill[p].pc = "fill" /\ fill'[p].live = fill[p].live),
             \A q \in Procs \ {p} : fill'[q] = fill[q]
      PROVE  Open' \subseteq Open
  BY <1>c DEF Open, Slots
<1>1. ASSUME NEW p \in Procs, FillLists(p) PROVE RoomOK'
  BY <1>1, ListsKeepsRoom
<1>2. ASSUME NEW p \in Procs, FillCreates(p) PROVE RoomOK'
  BY <1>2, CreatesKeepsRoom
<1>3. ASSUME NEW p \in Procs, NEW b \in Boxes, FillDeletes(p, b) \/ DrainDeletes(p, b) PROVE RoomOK'
  <2>1. Fewer
    BY <1>0, <1>3, DeleteShrinks DEF FillDeletes, DrainDeletes
  <2>2. Open' \subseteq Open
    BY <1>0, <1>3, <1>c DEF FillDeletes, DrainDeletes, TypeOK
  <2> QED
    BY <2>1, <2>2, RoomShrinks
<1>4. ASSUME NEW p \in Procs, FillEnds(p) \/ DrainLists(p) \/ Ends(p) PROVE RoomOK'
  <2>1. Fewer
    BY <1>4, <1>a DEF FillEnds, DrainLists, Ends
  <2>2. fill'[p].pc # "fill" /\ \A q \in Procs \ {p} : fill'[q] = fill[q]
    <3>1. fill \in [Procs -> [pc : {"idle", "fill", "drain"}, todo : SUBSET Boxes, live : Nat]]
      BY <1>0 DEF TypeOK
    <3>2. CASE fill' = [fill EXCEPT ![p] = IdleFill]
      BY <3>1, <3>2 DEF IdleFill
    <3>3. CASE DrainLists(p)
      BY <3>1, <3>3 DEF DrainLists
    <3> QED
      BY <1>4, <3>2, <3>3 DEF FillEnds, Ends
  <2> QED
    BY <1>c, <2>1, <2>2, RoomShrinks
<1>5. ASSUME box' = box, fill' = fill PROVE RoomOK'
  BY <1>5, <1>a, <1>b, RoomShrinks
<1>6. ASSUME NEW c \in Claims, NEW b \in Boxes, ClaimTakes(c, b) PROVE RoomOK'
  <2>1. Fewer
    BY <1>0, <1>6, NamesAssumption DEF ClaimTakes, LiveMembers, Members, Exists, TypeOK
  <2> QED
    BY <1>6, <1>b, <2>1, RoomShrinks DEF ClaimTakes
<1>7. ASSUME NEW b \in Boxes, NEW to \in States, Pass(b, to) PROVE RoomOK'
  <2>1. Fewer
    BY <1>0, <1>7 DEF Pass, LiveMembers, Members, Exists, TypeOK
  <2> QED
    BY <1>7, <1>b, <2>1, RoomShrinks DEF Pass
<1>8. ASSUME NEW b \in Boxes, Removed(b) PROVE RoomOK'
  <2>1. Fewer
    BY <1>0, <1>8 DEF Removed, Gone, LiveMembers, Members, Exists, TypeOK
  <2> QED
    BY <1>8, <1>b, <2>1, RoomShrinks DEF Removed
<1> QED
  BY <1>1, <1>2, <1>3, <1>4, <1>5, <1>6, <1>7, <1>8
  DEF Next, Process, Restarts, ClaimLists, ClaimEnds, vars

LEMMA RoomInit == Init => RoomOK
<1> SUFFICES ASSUME Init PROVE RoomOK
  OBVIOUS
<1>1. LiveMembers = {} /\ Open = {}
  BY DEF Init, LiveMembers, Members, Exists, Gone, Open, Slots, IdleFill
<1> QED
  BY <1>1, Finite, FS_EmptySet DEF RoomOK

(* The fills of any number of processes, each counting from a listing that *)
(* claims, failures and the other fills have made stale, overshoot by no   *)
(* more than Size each, where no member that ended is started again.       *)
THEOREM PoolBounded == Spec => []PoolIsBounded
<1>1. RoomOK => PoolIsBounded
  BY Finite DEF RoomOK, PoolIsBounded
<1>2. Spec => []RoomOK
  BY RoomInit, RoomStep, IInvHolds, PTL DEF Spec
<1> QED
  BY <1>1, <1>2, PTL
=============================================================================
