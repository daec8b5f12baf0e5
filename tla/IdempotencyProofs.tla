------------------------- MODULE IdempotencyProofs -------------------------
(***************************************************************************)
(* For every set of requests and every lease: no two requests of one key   *)
(* run fn side by side unless one lost its whole lease to an outage, and   *)
(* fn takes effect at most once plus once per lost claim.                  *)
(*                                                                         *)
(* NeverTwoRunning says nothing about the store, so it is not inductive.   *)
(* The strengthening is ClaimIsLive: an attended request that has not      *)
(* lapsed holds the record, and a held record's expiry is tied to the      *)
(* holder's next store call by an equation, from which it has not expired. *)
(* The runs are accounted for as long as whoever lapsed still holds the    *)
(* record: it may yet renew, and then has not lost its claim.              *)
(*                                                                         *)
(* Also proved: a replay is the answer of a run of the same body, and a    *)
(* live record is changed by nobody but the claim that holds it.           *)
(***************************************************************************)
EXTENDS Idempotency, TLAPS

(* The renewer runs while fn does, and ends early only for a lost claim.   *)
RenewerFollowsFn ==
  \A r \in Requests :
    /\ renewing[r] => pc[r] = "run"
    /\ pc[r] = "run" /\ ~renewing[r] => ~Held(r)
    /\ pc[r] = "new" => missed[r] = 0

(* An attended request has lapsed or holds the record; a record it holds   *)
(* expires PendingLease after its last successful renewal, and its next    *)
(* store call is not overdue.                                              *)
ClaimIsLive ==
  \A r \in Requests : Attended(r) =>
    /\ Lapsed(r) \/ Held(r)
    /\ Held(r) => /\ rec.expires + missed[r] + RenewEvery = renewAt[r] + PendingLease
                  /\ now <= renewAt[r]

(* Whoever lapsed holds the record still.                                  *)
NoneLost == \A r \in Requests : Lapsed(r) => Held(r)

(* fn's effects are accounted for by the stored response, a response on    *)
(* its way to the store, or a lost claim.                                  *)
RunsAccounted ==
  NoneLost =>
    /\ rec.state = "done" => runs <= losses + 1
    /\ rec.state # "done" /\ (\E r \in Requests : pc[r] = "acted") => runs <= losses + 1
    /\ rec.state # "done" /\ (\A r \in Requests : pc[r] # "acted") => runs <= losses

IInv == TypeOK /\ RenewerFollowsFn /\ ClaimIsLive /\ RunsAccounted

(* The claim of an attended request that has not lapsed has not expired.   *)
LEMMA AttendedIsLive ==
  ASSUME TypeOK, ClaimIsLive, NEW r \in Requests, Attended(r), ~Lapsed(r)
  PROVE  Live /\ Held(r)
  BY LeaseAssumption DEF TypeOK, ClaimIsLive, Live, Held, Lapsed, Records

(* A step of Next keeps every variable's type.                             *)
LEMMA TypeStep ==
  ASSUME TypeOK, [Next]_vars
  PROVE  TypeOK'
<1> USE LeaseAssumption, BoundsAssumption, BodyAssumption, RequestsAssumption
<1>1. CASE UNCHANGED vars
  BY <1>1 DEF TypeOK, vars
<1>2. CASE Sweep
  BY <1>2 DEF TypeOK, Sweep, NoRecord, Records
<1>3. CASE Tick
  BY <1>3 DEF TypeOK, Tick
<1>4. ASSUME NEW r \in Requests, DoStep(r) PROVE TypeOK'
  <2>1. CASE Begin(r)
    BY <2>1 DEF TypeOK, Begin, Claim, Records, PCs
  <2>2. CASE Refuse(r)
    <3>1. Repeat(r) \in Answers
      BY DEF TypeOK, Repeat, Answers, Records
    <3>2. QED BY <2>2, <3>1 DEF TypeOK, Refuse, PCs
  <2>3. CASE FnActs(r)
    BY <2>3 DEF TypeOK, FnActs, PCs
  <2>4. CASE FnFails(r)
    BY <2>4 DEF TypeOK, FnFails, PCs
  <2>5. CASE Complete(r)
    <3>1. rec' \in Records
      BY <2>5 DEF TypeOK, Complete, Records
    <3>2. answer' \in [Requests -> Answers]
      <4>1. \A k \in {"ran", "error"} : [kind |-> k, resp |-> r] \in Answers
        BY DEF Answers
      <4>2. QED BY <2>5, <4>1 DEF TypeOK, Complete
    <3>3. QED BY <2>5, <3>1, <3>2 DEF TypeOK, Complete, PCs
  <2>6. CASE Release(r)
    BY <2>6 DEF TypeOK, Release, PCs, Records, Answers, NoRecord
  <2>7. CASE StoreFails(r)
    BY <2>7 DEF TypeOK, StoreFails, PCs, Answers
  <2>8. CASE Crash(r)
    BY <2>8 DEF TypeOK, Crash, PCs
  <2>9. CASE Renew(r)
    <3>1. rec' \in Records
      BY <2>9 DEF TypeOK, Renew, Records
    <3>2. CASE Held(r)
      BY <2>9, <3>1, <3>2 DEF TypeOK, Renew
    <3>3. CASE ~Held(r)
      BY <2>9, <3>1, <3>3 DEF TypeOK, Renew
    <3>4. QED BY <3>2, <3>3
  <2>10. CASE Late(r)
    BY <2>10 DEF TypeOK, Late
  <2>11. QED
    BY <1>4, <2>1, <2>2, <2>3, <2>4, <2>5, <2>6, <2>7, <2>8, <2>9, <2>10 DEF DoStep
<1>5. QED BY <1>1, <1>2, <1>3, <1>4 DEF Next

(* A step of Next keeps the strengthening.                                 *)
LEMMA InvStep ==
  ASSUME IInv, [Next]_vars
  PROVE  IInv'
<1> USE LeaseAssumption, BoundsAssumption, RequestsAssumption
<1>t. TypeOK'
  BY TypeStep DEF IInv
<1>a. TypeOK /\ RenewerFollowsFn /\ ClaimIsLive /\ RunsAccounted
  BY DEF IInv
<1>l. \A r \in Requests : Attended(r) /\ ~Lapsed(r) => Live /\ Held(r)
  BY <1>a, AttendedIsLive
<1>m. \A r \in Requests : missed[r] = 0 => ~Lapsed(r)
  BY DEF Lapsed
<1>1. CASE UNCHANGED vars
  BY <1>1, <1>t, <1>a
  DEF IInv, RenewerFollowsFn, ClaimIsLive, RunsAccounted, NoneLost, Lapsed, Held, Attended, vars
<1>2. CASE Sweep
  <2>1. RenewerFollowsFn'
    BY <1>2, <1>a DEF Sweep, RenewerFollowsFn, Held, NoRecord
  <2>2. ClaimIsLive'
    BY <1>2, <1>a, <1>l DEF Sweep, ClaimIsLive, Held, Lapsed, Attended, NoRecord
  <2>3. RunsAccounted'
    <3> SUFFICES ASSUME NoneLost' PROVE RunsAccounted'
      BY DEF RunsAccounted
    <3>1. \A r \in Requests : ~Lapsed(r)
      BY <1>2 DEF Sweep, NoneLost, Lapsed, Held, NoRecord
    <3>2. \A r \in Requests : pc[r] # "acted"
      BY <1>2, <1>l, <3>1 DEF Sweep, Attended
    <3>3. QED
      BY <1>2, <1>a, <3>1, <3>2 DEF TypeOK, Sweep, RunsAccounted, NoneLost, NoRecord, Records
  <2>4. QED BY <1>t, <2>1, <2>2, <2>3 DEF IInv
<1>3. CASE Tick
  BY <1>3, <1>t, <1>a
  DEF IInv, TypeOK, Tick, RenewerFollowsFn, ClaimIsLive, RunsAccounted, NoneLost, Lapsed, Held, Attended
<1>4. ASSUME NEW r \in Requests, DoStep(r) PROVE IInv'
  <2>h. ASSUME Held(r), NEW s \in Requests, Held(s) PROVE s = r
    BY <2>h DEF Held
  <2>1. CASE Begin(r)
    <3>1. RenewerFollowsFn'
      BY <2>1, <1>a DEF TypeOK, Begin, Claim, RenewerFollowsFn, Held, PCs
    <3>2. ClaimIsLive'
      BY <2>1, <1>a, <1>l DEF TypeOK, Begin, Claim, ClaimIsLive, Held, Lapsed, Attended, PCs, Records
    <3>3. RunsAccounted'
      <4> SUFFICES ASSUME NoneLost' PROVE RunsAccounted'
        BY DEF RunsAccounted
      <4>1. \A s \in Requests : ~Lapsed(s)
        BY <2>1, <1>a, <1>m DEF TypeOK, Begin, Claim, NoneLost, Lapsed, Held, RenewerFollowsFn
      <4>2. \A s \in Requests : pc[s] # "acted"
        BY <2>1, <1>l, <4>1 DEF Begin, Attended
      <4>3. QED
        BY <2>1, <1>a, <4>1, <4>2 DEF TypeOK, Begin, Claim, RunsAccounted, NoneLost, PCs, Records
    <3>4. QED BY <1>t, <3>1, <3>2, <3>3 DEF IInv
  <2>2. CASE Refuse(r)
    BY <2>2, <1>t, <1>a
    DEF IInv, TypeOK, Refuse, RenewerFollowsFn, ClaimIsLive, RunsAccounted, NoneLost, Lapsed, Held, Attended
  <2>3. CASE FnActs(r)
    <3>1. RenewerFollowsFn' /\ ClaimIsLive'
      BY <2>3, <1>a DEF TypeOK, FnActs, RenewerFollowsFn, ClaimIsLive, Lapsed, Held, Attended
    <3>2. RunsAccounted'
      <4> SUFFICES ASSUME NoneLost' PROVE RunsAccounted'
        BY DEF RunsAccounted
      <4>1. NoneLost
        BY <2>3 DEF FnActs, NoneLost, Lapsed, Held
      <4>2. Held(r) /\ rec.state = "pending"
        BY <2>3, <1>a, <4>1 DEF FnActs, ClaimIsLive, NoneLost, Attended, Held
      <4>3. \A s \in Requests : pc[s] # "acted"
        BY <2>3, <2>h, <1>a, <4>1, <4>2 DEF FnActs, ClaimIsLive, NoneLost, Attended
      <4>4. runs <= losses
        BY <1>a, <4>1, <4>2, <4>3 DEF RunsAccounted
      <4>5. QED BY <2>3, <1>a, <4>2, <4>4 DEF TypeOK, FnActs, RunsAccounted
    <3>3. QED BY <1>t, <3>1, <3>2 DEF IInv
  <2>4. CASE FnFails(r)
    BY <2>4, <1>t, <1>a
    DEF IInv, TypeOK, FnFails, RenewerFollowsFn, ClaimIsLive, RunsAccounted, NoneLost, Lapsed, Held, Attended
  <2>5. CASE Complete(r)
    <3>1. CASE Held(r)
      <4>2. RenewerFollowsFn'
        BY <2>5, <3>1, <1>a DEF TypeOK, Complete, RenewerFollowsFn, Held
      <4>3. ClaimIsLive'
        BY <2>5, <2>h, <3>1, <1>a DEF TypeOK, Complete, ClaimIsLive, Lapsed, Held, Attended
      <4>4. RunsAccounted'
        <5> SUFFICES ASSUME NoneLost' PROVE RunsAccounted'
          BY DEF RunsAccounted
        <5>1. NoneLost
          BY <2>5, <3>1 DEF Complete, NoneLost, Lapsed, Held
        <5>2. QED BY <2>5, <3>1, <1>a, <5>1 DEF TypeOK, Complete, RunsAccounted, Held, Records
      <4>5. QED BY <1>t, <4>2, <4>3, <4>4 DEF IInv
    <3>2. CASE ~Held(r)
      <4>1. ~NoneLost'
        BY <2>5, <3>2, <1>a DEF Complete, ClaimIsLive, NoneLost, Lapsed, Held, Attended
      <4>2. QED
        BY <2>5, <3>2, <1>t, <1>a, <4>1
        DEF IInv, TypeOK, Complete, RenewerFollowsFn, ClaimIsLive, RunsAccounted, Lapsed, Held, Attended
    <3>3. QED BY <3>1, <3>2
  <2>6. CASE Release(r)
    <3>1. CASE Held(r)
      <4>1. RenewerFollowsFn'
        BY <2>6, <3>1, <1>a DEF TypeOK, Release, RenewerFollowsFn, Held, NoRecord
      <4>2. ClaimIsLive'
        BY <2>6, <2>h, <3>1, <1>a DEF TypeOK, Release, ClaimIsLive, Lapsed, Held, Attended, NoRecord
      <4>3. RunsAccounted'
        <5> SUFFICES ASSUME NoneLost' PROVE RunsAccounted'
          BY DEF RunsAccounted
        <5>1. NoneLost
          BY <2>6, <3>1 DEF Release, NoneLost, Lapsed, Held, NoRecord
        <5>2. \A s \in Requests : pc[s] # "acted"
          BY <2>6, <2>h, <3>1, <1>a, <5>1 DEF Release, ClaimIsLive, NoneLost, Attended
        <5>3. QED BY <2>6, <3>1, <1>a, <5>1, <5>2 DEF TypeOK, Release, RunsAccounted, Held, NoRecord, Records
      <4>4. QED BY <1>t, <4>1, <4>2, <4>3 DEF IInv
    <3>2. CASE ~Held(r)
      <4>1. ~NoneLost'
        BY <2>6, <3>2, <1>a DEF Release, ClaimIsLive, NoneLost, Lapsed, Held, Attended
      <4>2. QED
        BY <2>6, <3>2, <1>t, <1>a, <4>1
        DEF IInv, TypeOK, Release, RenewerFollowsFn, ClaimIsLive, RunsAccounted, Lapsed, Held, Attended
    <3>3. QED BY <3>1, <3>2
  <2>7. CASE StoreFails(r)
    BY <2>7, <1>t, <1>a
    DEF IInv, TypeOK, StoreFails, RenewerFollowsFn, ClaimIsLive, RunsAccounted, NoneLost, Lapsed, Held, Attended
  <2>8. CASE Crash(r)
    BY <2>8, <1>t, <1>a
    DEF IInv, TypeOK, Crash, RenewerFollowsFn, ClaimIsLive, RunsAccounted, NoneLost, Lapsed, Held, Attended
  <2>9. CASE Renew(r)
    <3>1. CASE Held(r)
      <4>1. rec' = [rec EXCEPT !.expires = now + PendingLease] /\ UNCHANGED <<now, pc, renewing, runs, losses>>
        BY <2>9, <3>1 DEF Renew
      <4>2. \A s \in Requests : Held(s)' <=> Held(s)
        BY <4>1, <1>a DEF TypeOK, Held, Records
      <4>3. RenewerFollowsFn'
        BY <2>9, <3>1, <4>1, <4>2, <1>a DEF TypeOK, Renew, RenewerFollowsFn
      <4>4. ClaimIsLive'
        BY <2>9, <2>h, <3>1, <4>1, <4>2, <1>a DEF TypeOK, Renew, ClaimIsLive, Lapsed, Attended, Records
      <4>5. RunsAccounted'
        <5>1. NoneLost' => NoneLost
          BY <2>9, <2>h, <3>1, <4>2, <1>a DEF TypeOK, Renew, NoneLost, Lapsed
        <5>2. QED BY <4>1, <5>1, <1>a DEF TypeOK, RunsAccounted, Records
      <4>6. QED BY <1>t, <4>3, <4>4, <4>5 DEF IInv
    <3>2. CASE ~Held(r)
      BY <2>9, <3>2, <1>t, <1>a
      DEF IInv, TypeOK, Renew, RenewerFollowsFn, ClaimIsLive, RunsAccounted, NoneLost, Lapsed, Held, Attended
    <3>3. QED BY <3>1, <3>2
  <2>10. CASE Late(r)
    <3>1. UNCHANGED <<now, rec, pc, renewing, runs, losses>> /\ pc[r] # "new"
      BY <2>10, <1>a DEF Late, RenewerFollowsFn
    <3>2. RenewerFollowsFn'
      BY <2>10, <3>1, <1>a DEF TypeOK, Late, RenewerFollowsFn, Held
    <3>3. ClaimIsLive'
      BY <2>10, <3>1, <1>a DEF TypeOK, Late, ClaimIsLive, Lapsed, Held, Attended, Records
    <3>4. NoneLost' => NoneLost
      BY <2>10, <3>1, <1>a DEF TypeOK, Late, NoneLost, Lapsed, Held
    <3>5. QED
      BY <1>t, <1>a, <3>1, <3>2, <3>3, <3>4 DEF IInv, RunsAccounted
  <2>11. QED
    BY <1>4, <2>1, <2>2, <2>3, <2>4, <2>5, <2>6, <2>7, <2>8, <2>9, <2>10 DEF DoStep
<1>5. QED BY <1>1, <1>2, <1>3, <1>4 DEF Next

(* The strengthening holds initially.                                      *)
LEMMA InvInit == Init => IInv
  BY LeaseAssumption
  DEF Init, IInv, TypeOK, RenewerFollowsFn, ClaimIsLive, RunsAccounted, Attended, Held,
      NoRecord, Records, PCs, NoAnswer, Answers

(* Type correctness, whatever the lease.                                   *)
THEOREM TypeCorrect == Spec => []TypeOK
<1>1. Init => TypeOK
  BY InvInit DEF IInv
<1>2. TypeOK /\ [Next]_vars => TypeOK'
  BY TypeStep
<1>3. QED BY <1>1, <1>2, PTL DEF Spec

(* The strengthening is an invariant, whatever the outages.                *)
THEOREM IInvHolds == Spec => []IInv
<1>1. IInv /\ [Next]_vars => IInv'
  BY InvStep
<1>2. QED BY <1>1, InvInit, PTL DEF Spec

(* Do (idempotency.go) never runs fn for a key beside another run of it,   *)
(* unless an outage as long as the lease came over one of the two.         *)
THEOREM NeverTwo == Spec => []NeverTwoRunning
<1>1. IInv => NeverTwoRunning
  BY DEF IInv, ClaimIsLive, Attended, Held, NeverTwoRunning
<1>2. QED BY <1>1, IInvHolds, PTL

(* fn takes effect at most once for a key, plus once for each claim a      *)
(* crash or a store that failed lost, while no lease has lapsed.           *)
THEOREM AtMostOnce == Spec => []RunsAtMostOnce
<1>1. IInv => RunsAtMostOnce
  BY DEF IInv, TypeOK, RunsAccounted, NoneLost, RunsAtMostOnce
<1>2. QED BY <1>1, IInvHolds, PTL

(***************************************************************************)
(* Replays.                                                                *)
(***************************************************************************)

(* A pending record is of its holder's body.  A done one carries the       *)
(* response of a request of that body which has returned having run, and   *)
(* nobody's answer changes once it was given.                              *)
ResponseIsKept ==
  /\ rec.state = "pending" => rec.token \in Requests /\ rec.hash = BodyOf[rec.token]
  /\ rec.state = "done" => /\ rec.resp \in Requests /\ rec.hash = BodyOf[rec.resp]
                           /\ answer[rec.resp].kind = "ran"
  /\ \A r \in Requests : answer[r].kind # "none" => pc[r] = "end"

ReplayInv == TypeOK /\ ResponseIsKept /\ ReplayIsFaithful

(* Each step gives at most one answer, to a request that had none.         *)
LEMMA AnswersStay ==
  ASSUME TypeOK, ResponseIsKept, [Next]_vars, NEW s \in Requests, answer[s].kind # "none"
  PROVE  answer'[s] = answer[s] /\ pc'[s] = pc[s]
<1>1. pc[s] = "end"
  BY DEF ResponseIsKept
<1>2. ASSUME NEW r \in Requests, DoStep(r) PROVE answer'[s] = answer[s] /\ pc'[s] = pc[s]
  BY <1>1, <1>2
  DEF TypeOK, DoStep, Begin, Refuse, FnActs, FnFails, Complete, Release, StoreFails, Crash, Renew, Late
<1> QED
  BY <1>2 DEF Next, Sweep, Tick, vars

LEMMA ReplayStep ==
  ASSUME ReplayInv, [Next]_vars
  PROVE  ReplayInv'
<1>a. TypeOK /\ ResponseIsKept /\ ReplayIsFaithful
  BY DEF ReplayInv
<1>t. TypeOK'
  BY <1>a, TypeStep
<1>s. \A s \in Requests : answer[s].kind # "none" => answer'[s] = answer[s] /\ pc'[s] = pc[s]
  BY <1>a, AnswersStay
<1> USE RequestsAssumption, BodyAssumption
<1>k. ASSUME NEW s \in Requests, answer'[s] = answer[s], answer[s].kind = "replayed"
      PROVE  /\ answer'[s].resp \in Requests
             /\ BodyOf[answer'[s].resp] = BodyOf[s]
             /\ answer'[answer'[s].resp].kind = "ran"
  BY <1>a, <1>s, <1>k DEF ReplayIsFaithful
<1>1. CASE UNCHANGED vars
  BY <1>1, <1>t, <1>a DEF ReplayInv, ResponseIsKept, ReplayIsFaithful, vars
<1>2. CASE Sweep
  BY <1>2, <1>t, <1>a DEF Sweep, ReplayInv, ResponseIsKept, ReplayIsFaithful, NoRecord
<1>3. CASE Tick
  BY <1>3, <1>t, <1>a DEF Tick, ReplayInv, ResponseIsKept, ReplayIsFaithful
<1>4. ASSUME NEW r \in Requests, DoStep(r) PROVE ReplayInv'
  <2>1. CASE Begin(r)
    BY <2>1, <1>t, <1>a DEF TypeOK, Begin, Claim, ReplayInv, ResponseIsKept, ReplayIsFaithful
  <2>2. CASE Refuse(r)
    <3>1. ResponseIsKept'
      BY <2>2, <1>a, <1>s DEF TypeOK, Refuse, ResponseIsKept
    <3>2. ASSUME NEW s \in Requests, answer'[s].kind = "replayed"
          PROVE  /\ answer'[s].resp \in Requests
                 /\ BodyOf[answer'[s].resp] = BodyOf[s]
                 /\ answer'[answer'[s].resp].kind = "ran"
      <4>1. CASE s # r
        BY <2>2, <3>2, <4>1, <1>a, <1>k DEF TypeOK, Refuse
      <4>2. CASE s = r
        <5>1. answer'[r] = Repeat(r) /\ rec.state # "none"
          BY <2>2, <1>a DEF TypeOK, Refuse, Live
        <5>2. rec.state = "done" /\ rec.hash = BodyOf[r] /\ answer'[r].resp = rec.resp
          BY <3>2, <4>2, <5>1, <1>a DEF TypeOK, Repeat, Records
        <5> QED
          BY <4>2, <5>2, <1>a, <1>s DEF ResponseIsKept
      <4> QED
        BY <4>1, <4>2
    <3> QED
      BY <1>t, <3>1, <3>2 DEF ReplayInv, ReplayIsFaithful
  <2>3. CASE FnActs(r)
    BY <2>3, <1>t, <1>a DEF TypeOK, FnActs, ReplayInv, ResponseIsKept, ReplayIsFaithful
  <2>4. CASE FnFails(r)
    BY <2>4, <1>t, <1>a DEF TypeOK, FnFails, ReplayInv, ResponseIsKept, ReplayIsFaithful
  <2>5. CASE Complete(r)
    <3>0. answer[r].kind = "none" /\ answer'[r].kind \in {"ran", "error"}
      BY <2>5, <1>a DEF TypeOK, Complete, ResponseIsKept
    <3>1. \A s \in Requests : s # r => answer'[s] = answer[s] /\ pc'[s] = pc[s]
      BY <2>5, <1>a DEF TypeOK, Complete
    <3>2. ReplayIsFaithful'
      BY <3>0, <3>1, <1>k DEF ReplayIsFaithful
    <3>3. pc'[r] = "end"
      BY <2>5, <1>a DEF TypeOK, Complete
    <3>4. ResponseIsKept'
      <4>1. CASE Held(r)
        <5>1. /\ rec'.state = "done" /\ rec'.hash = rec.hash /\ rec'.resp = r
              /\ answer'[r].kind = "ran"
          BY <2>5, <4>1, <1>a DEF TypeOK, Complete
        <5> QED
          BY <3>1, <3>3, <4>1, <5>1, <1>a DEF ResponseIsKept, Held
      <4>2. CASE ~Held(r)
        BY <2>5, <3>0, <3>1, <3>3, <4>2, <1>a DEF Complete, ResponseIsKept
      <4> QED
        BY <4>1, <4>2
    <3> QED
      BY <1>t, <3>2, <3>4 DEF ReplayInv
  <2>6. CASE Release(r)
    <3>0. answer[r].kind = "none" /\ answer'[r].kind = "error"
      BY <2>6, <1>a DEF TypeOK, Release, ResponseIsKept
    <3>1. \A s \in Requests : s # r => answer'[s] = answer[s] /\ pc'[s] = pc[s]
      BY <2>6, <1>a DEF TypeOK, Release
    <3>2. ReplayIsFaithful'
      BY <3>0, <3>1, <1>k DEF ReplayIsFaithful
    <3>3. pc'[r] = "end" /\ (rec' = rec \/ rec'.state = "none")
      BY <2>6, <1>a DEF TypeOK, Release, NoRecord
    <3>4. ResponseIsKept'
      BY <3>0, <3>1, <3>3, <1>a DEF ResponseIsKept
    <3> QED
      BY <1>t, <3>2, <3>4 DEF ReplayInv
  <2>7. CASE StoreFails(r)
    <3>0. answer[r].kind = "none" /\ answer'[r].kind = "error"
      BY <2>7, <1>a DEF TypeOK, StoreFails, ResponseIsKept
    <3>1. \A s \in Requests : s # r => answer'[s] = answer[s] /\ pc'[s] = pc[s]
      BY <2>7, <1>a DEF TypeOK, StoreFails
    <3>2. ReplayIsFaithful'
      BY <3>0, <3>1, <1>k DEF ReplayIsFaithful
    <3>3. pc'[r] = "end" /\ rec' = rec
      BY <2>7, <1>a DEF TypeOK, StoreFails
    <3>4. ResponseIsKept'
      BY <3>0, <3>1, <3>3, <1>a DEF ResponseIsKept
    <3> QED
      BY <1>t, <3>2, <3>4 DEF ReplayInv
  <2>8. CASE Crash(r)
    BY <2>8, <1>t, <1>a DEF TypeOK, Crash, ReplayInv, ResponseIsKept, ReplayIsFaithful
  <2>9. CASE Renew(r)
    <3>1. answer' = answer /\ pc' = pc
      BY <2>9 DEF Renew
    <3>2. /\ rec'.state = rec.state /\ rec'.token = rec.token
          /\ rec'.hash = rec.hash /\ rec'.resp = rec.resp
      BY <2>9, <1>a DEF TypeOK, Renew, Records
    <3> QED
      BY <3>1, <3>2, <1>t, <1>a DEF ReplayInv, ResponseIsKept, ReplayIsFaithful
  <2>10. CASE Late(r)
    BY <2>10, <1>t, <1>a DEF Late, ReplayInv, ResponseIsKept, ReplayIsFaithful
  <2> QED
    BY <1>4, <2>1, <2>2, <2>3, <2>4, <2>5, <2>6, <2>7, <2>8, <2>9, <2>10 DEF DoStep
<1> QED
  BY <1>1, <1>2, <1>3, <1>4 DEF Next

LEMMA ReplayInit == Init => ReplayInv
  BY InvInit DEF IInv, Init, ReplayInv, ResponseIsKept, ReplayIsFaithful, NoRecord, NoAnswer

(* A replay (Do's early return for a finished key) carries the response of *)
(* a run of the same body that took effect, whatever the outages, crashes  *)
(* and expiries in between.                                                *)
THEOREM ReplaysAreFaithful == Spec => []ReplayIsFaithful
<1>1. ReplayInv /\ [Next]_vars => ReplayInv'
  BY ReplayStep
<1>2. ReplayInv => ReplayIsFaithful
  BY DEF ReplayInv
<1> QED
  BY <1>1, <1>2, ReplayInit, PTL DEF Spec

(* Only the holder's own steps change a live record: the token the store   *)
(* compares (Memory.held) fences whoever held the key before.              *)
THEOREM RecordFenced == Spec => LiveRecordIsFenced
<1> DEFINE Fenced ==
      \A r \in Requests :
        (rec.token = r /\ Live /\ rec' # rec) =>
          \A s \in Requests \ {r} : pc'[s] = pc[s] /\ renewAt'[s] = renewAt[s]
<1>1. ASSUME TypeOK, Next PROVE Fenced
  <2>1. CASE Sweep \/ Tick
    BY <2>1 DEF Sweep, Tick
  <2>2. ASSUME NEW q \in Requests, DoStep(q) PROVE Fenced
    <3>1. ASSUME NEW s \in Requests, s # q PROVE pc'[s] = pc[s] /\ renewAt'[s] = renewAt[s]
      BY <1>1, <2>2, <3>1
      DEF TypeOK, DoStep, Begin, Refuse, FnActs, FnFails, Complete, Release, StoreFails, Crash, Renew, Late
    <3>2. rec' = rec \/ ~Live \/ rec.token = q
      BY <2>2
      DEF DoStep, Begin, Refuse, FnActs, FnFails, Complete, Release, StoreFails, Crash, Renew, Late, Held
    <3> QED
      BY <3>1, <3>2
  <2> QED
    BY <1>1, <2>1, <2>2 DEF Next
<1>2. TypeOK /\ [Next]_vars => [Fenced]_vars
  BY <1>1
<1> HIDE DEF Fenced
<1>3. Spec => [][Fenced]_vars
  BY <1>2, TypeCorrect, PTL DEF Spec
<1> QED
  BY <1>3 DEF LiveRecordIsFenced, Fenced
=============================================================================
