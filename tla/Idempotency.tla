---------------------------- MODULE Idempotency ----------------------------
(***************************************************************************)
(* Idempotent requests of the control plane: Idempotency.Do and the claim  *)
(* records a store keeps for it (controlplane/idempotency.go, the          *)
(* IdempotencyStore part of controlplane/memory.go).                       *)
(*                                                                         *)
(* One scope and one key are modelled: records of different keys never     *)
(* meet, except that a claim of any key may sweep an expired record        *)
(* (action Sweep).  Each member of Requests is one HTTP request carrying   *)
(* the key; a retry is another member.  The random token Do draws for a    *)
(* request is the request itself, so "the token holds the record" is       *)
(* rec.token = r.  A response is identified by the request that produced   *)
(* it.                                                                     *)
(*                                                                         *)
(* Time is discrete.  A store call that is due (a renewal, or the Complete *)
(* or Release after fn) is made before the clock moves on, or it fails or  *)
(* is late, which costs RenewEvery (action Late).  MaxMissed bounds what a *)
(* request may lose that way in a row.  A request that lost its whole      *)
(* lease has Lapsed: the code's PendingLease/3 is chosen so that this      *)
(* takes an outage, and the safety of Do is for those that did not.        *)
(***************************************************************************)
EXTENDS Naturals

CONSTANTS
  Requests,     \* requests carrying the key
  Bodies,       \* request bodies, by hash
  BodyOf,       \* BodyOf[r] is the hash of r's body
  PendingLease, \* how long a claim holds unless renewed
  RenewEvery,   \* how often a running request renews its claim
  TTL,          \* IdempotencyTTL
  MaxMissed,    \* bound: time a request loses to consecutive late store calls
  MaxTime,      \* bound: the clock stops here
  MaxLosses,    \* bound: crashes and failed Complete or Release calls
  NoReq         \* not a request

ASSUME RequestsAssumption == NoReq \notin Requests
ASSUME BodyAssumption == BodyOf \in [Requests -> Bodies]
ASSUME LeaseAssumption ==
  /\ PendingLease \in Nat /\ RenewEvery \in Nat /\ MaxMissed \in Nat
  /\ RenewEvery > 0 /\ RenewEvery < PendingLease
ASSUME BoundsAssumption == TTL \in Nat /\ MaxTime \in Nat /\ MaxLosses \in Nat

VARIABLES
  now,      \* the clock
  rec,      \* the stored IdemRecord, or NoRecord
  pc,       \* where each request is in Do
  renewing, \* r's renew goroutine runs
  renewAt,  \* when its next store call is due: the ticker, or the one after fn
  missed,   \* time lost to late calls since its last successful renewal
  answer,   \* what Do returned: an outcome and whose response it carries
  runs,     \* fn runs that took effect since the key was last free by expiry
  losses    \* crashes and store failures so far

vars == <<now, rec, pc, renewing, renewAt, missed, answer, runs, losses>>

NoRecord == [state |-> "none", token |-> NoReq, hash |-> NoReq,
             resp |-> NoReq, expires |-> 0]

Records == [state : {"none", "pending", "done"}, token : Requests \cup {NoReq},
            hash : Bodies \cup {NoReq}, resp : Requests \cup {NoReq},
            expires : Nat]

(* "new" before Do; "run" while fn runs; "acted" once fn returned a        *)
(* response; "failed" once fn returned an error, having changed nothing;   *)
(* "end" after Do returned; "dead" when the server died mid-request.       *)
PCs == {"new", "run", "acted", "failed", "end", "dead"}

NoAnswer == [kind |-> "none", resp |-> NoReq]

Answers == [kind : {"none", "ran", "replayed", "inflight", "mismatch", "error"},
            resp : Requests \cup {NoReq}]

Init ==
  /\ now = 0
  /\ rec = NoRecord
  /\ pc = [r \in Requests |-> "new"]
  /\ renewing = [r \in Requests |-> FALSE]
  /\ renewAt = [r \in Requests |-> 0]
  /\ missed = [r \in Requests |-> 0]
  /\ answer = [r \in Requests |-> NoAnswer]
  /\ runs = 0
  /\ losses = 0

(***************************************************************************)
(* The store.                                                              *)
(***************************************************************************)

(* Records past ExpiresAt are treated as absent by Claim, and only there.  *)
Live == rec.state # "none" /\ now < rec.expires

(* Memory.held: the pending record r's token holds, expired or not.        *)
Held(r) == rec.state = "pending" /\ rec.token = r

(* Claim stores r's record when no live record holds the key.              *)
Claim(r) ==
  /\ rec' = [state |-> "pending", token |-> r, hash |-> BodyOf[r],
             resp |-> NoReq, expires |-> now + PendingLease]
  /\ runs' = IF rec.state = "done" THEN 0 ELSE runs

(* A claim of another key sweeps this one's expired record.                *)
Sweep ==
  /\ rec.state # "none" /\ ~Live
  /\ rec' = NoRecord
  /\ runs' = IF rec.state = "done" THEN 0 ELSE runs
  /\ UNCHANGED <<now, pc, renewing, renewAt, missed, answer, losses>>

(***************************************************************************)
(* Do.                                                                     *)
(***************************************************************************)

(* Do up to the call of fn: the claim succeeds and the renewer starts.     *)
Begin(r) ==
  /\ pc[r] = "new" /\ ~Live
  /\ Claim(r)
  /\ pc' = [pc EXCEPT ![r] = "run"]
  /\ renewing' = [renewing EXCEPT ![r] = TRUE]
  /\ renewAt' = [renewAt EXCEPT ![r] = now + RenewEvery]
  /\ missed' = [missed EXCEPT ![r] = 0]
  /\ UNCHANGED <<now, answer, losses>>

(* Mutant of Repeat: a finished key replays whatever the body.             *)
RepeatAnyBody(r) ==
  IF rec.state = "done" THEN [kind |-> "replayed", resp |-> rec.resp]
  ELSE [kind |-> "inflight", resp |-> NoReq]

(* What a request gets when a live record holds the key.                   *)
Repeat(r) ==
  CASE rec.hash # BodyOf[r]  -> [kind |-> "mismatch", resp |-> NoReq]
    [] rec.hash = BodyOf[r] /\ rec.state # "done"
                             -> [kind |-> "inflight", resp |-> NoReq]
    [] OTHER                 -> [kind |-> "replayed", resp |-> rec.resp]

(* Mutant of Refuse: a repeat waits for the request in flight.             *)
RefuseWaits(r) ==
  /\ pc[r] = "new" /\ Live /\ rec.state = "done"
  /\ answer' = [answer EXCEPT ![r] = Repeat(r)]
  /\ pc' = [pc EXCEPT ![r] = "end"]
  /\ UNCHANGED <<now, rec, renewing, renewAt, missed, runs, losses>>

Refuse(r) ==
  /\ pc[r] = "new" /\ Live
  /\ answer' = [answer EXCEPT ![r] = Repeat(r)]
  /\ pc' = [pc EXCEPT ![r] = "end"]
  /\ UNCHANGED <<now, rec, renewing, renewAt, missed, runs, losses>>

(* fn returns a response: it changed something.  stop() then ends renew.   *)
FnActs(r) ==
  /\ pc[r] = "run"
  /\ pc' = [pc EXCEPT ![r] = "acted"]
  /\ renewing' = [renewing EXCEPT ![r] = FALSE]
  /\ runs' = runs + 1
  /\ UNCHANGED <<now, rec, renewAt, missed, answer, losses>>

(* fn returns an error, having changed nothing.                            *)
FnFails(r) ==
  /\ pc[r] = "run"
  /\ pc' = [pc EXCEPT ![r] = "failed"]
  /\ renewing' = [renewing EXCEPT ![r] = FALSE]
  /\ UNCHANGED <<now, rec, renewAt, missed, answer, runs, losses>>

(* Mutant of Complete: the record is removed, as Release does.             *)
CompleteForgets(r) ==
  /\ pc[r] = "acted"
  /\ rec' = IF Held(r) THEN NoRecord ELSE rec
  /\ answer' = [answer EXCEPT ![r] = [kind |-> "ran", resp |-> r]]
  /\ pc' = [pc EXCEPT ![r] = "end"]
  /\ UNCHANGED <<now, renewing, renewAt, missed, runs, losses>>

(* Complete stores the response, while r's token holds the record;         *)
(* otherwise it is ErrNotFound and Do returns the error.                   *)
Complete(r) ==
  /\ pc[r] = "acted"
  /\ IF Held(r)
       THEN /\ rec' = [state |-> "done", token |-> rec.token, hash |-> rec.hash,
                       resp |-> r, expires |-> now + TTL]
            /\ answer' = [answer EXCEPT ![r] = [kind |-> "ran", resp |-> r]]
       ELSE /\ answer' = [answer EXCEPT ![r] = [kind |-> "error", resp |-> r]]
            /\ UNCHANGED rec
  /\ pc' = [pc EXCEPT ![r] = "end"]
  /\ UNCHANGED <<now, renewing, renewAt, missed, runs, losses>>

(* Mutant of Release: the record is marked instead of removed.             *)
ReleaseMarks(r) ==
  /\ pc[r] = "failed"
  /\ rec' = IF Held(r) THEN [rec EXCEPT !.state = "failed"] ELSE rec
  /\ answer' = [answer EXCEPT ![r] = [kind |-> "error", resp |-> NoReq]]
  /\ pc' = [pc EXCEPT ![r] = "end"]
  /\ UNCHANGED <<now, renewing, renewAt, missed, runs, losses>>

(* Mutant of Release: the token is not compared.                           *)
ReleaseAnyones(r) ==
  /\ pc[r] = "failed"
  /\ rec' = IF rec.state = "pending" THEN NoRecord ELSE rec
  /\ answer' = [answer EXCEPT ![r] = [kind |-> "error", resp |-> NoReq]]
  /\ pc' = [pc EXCEPT ![r] = "end"]
  /\ UNCHANGED <<now, renewing, renewAt, missed, runs, losses>>

(* Release removes the record r's token holds and leaves another's alone.  *)
Release(r) ==
  /\ pc[r] = "failed"
  /\ rec' = IF Held(r) THEN NoRecord ELSE rec
  /\ answer' = [answer EXCEPT ![r] = [kind |-> "error", resp |-> NoReq]]
  /\ pc' = [pc EXCEPT ![r] = "end"]
  /\ UNCHANGED <<now, renewing, renewAt, missed, runs, losses>>

(* The store fails the Complete or Release call: Do returns the error and  *)
(* the claim is left to lapse.                                             *)
StoreFails(r) ==
  /\ pc[r] \in {"acted", "failed"} /\ losses < MaxLosses
  /\ losses' = losses + 1
  /\ answer' = [answer EXCEPT ![r] = [kind |-> "error", resp |-> NoReq]]
  /\ pc' = [pc EXCEPT ![r] = "end"]
  /\ UNCHANGED <<now, rec, renewing, renewAt, missed, runs>>

(* The server running r dies; a claim it held lapses.                      *)
Crash(r) ==
  /\ pc[r] \in {"run", "acted", "failed"} /\ losses < MaxLosses
  /\ losses' = losses + 1
  /\ pc' = [pc EXCEPT ![r] = "dead"]
  /\ renewing' = [renewing EXCEPT ![r] = FALSE]
  /\ UNCHANGED <<now, rec, renewAt, missed, answer, runs>>

(***************************************************************************)
(* renew.                                                                  *)
(***************************************************************************)

(* Mutant of Renew: the lease is not extended.                             *)
RenewKeepsExpiry(r) ==
  /\ renewing[r] /\ renewAt[r] = now /\ Held(r)
  /\ renewAt' = [renewAt EXCEPT ![r] = now + RenewEvery]
  /\ missed' = [missed EXCEPT ![r] = 0]
  /\ UNCHANGED <<now, rec, pc, renewing, answer, runs, losses>>

(* The ticker fires and Renew succeeds, or finds the claim gone.           *)
Renew(r) ==
  /\ renewing[r] /\ renewAt[r] = now
  /\ IF Held(r)
       THEN /\ rec' = [rec EXCEPT !.expires = now + PendingLease]
            /\ renewAt' = [renewAt EXCEPT ![r] = now + RenewEvery]
            /\ missed' = [missed EXCEPT ![r] = 0]
            /\ UNCHANGED renewing
       ELSE /\ renewing' = [renewing EXCEPT ![r] = FALSE]
            /\ UNCHANGED <<rec, renewAt, missed>>
  /\ UNCHANGED <<now, pc, answer, runs, losses>>

(* A request whose claim is live business: fn runs, or its result is on    *)
(* its way to the store.                                                   *)
Attended(r) == pc[r] \in {"run", "acted", "failed"}

(* The ticker fires and the store fails the call, so renew tries again     *)
(* later; or fn has returned and the call after it has not been made yet.  *)
Late(r) ==
  /\ renewing[r] \/ pc[r] \in {"acted", "failed"}
  /\ renewAt[r] = now
  /\ missed[r] + RenewEvery <= MaxMissed
  /\ renewAt' = [renewAt EXCEPT ![r] = now + RenewEvery]
  /\ missed' = [missed EXCEPT ![r] = @ + RenewEvery]
  /\ UNCHANGED <<now, rec, pc, renewing, answer, runs, losses>>

(* The clock moves; what is due happens first.                             *)
Tick ==
  /\ now < MaxTime
  /\ \A r \in Requests :
       renewing[r] \/ pc[r] \in {"acted", "failed"} => renewAt[r] > now
  /\ now' = now + 1
  /\ UNCHANGED <<rec, pc, renewing, renewAt, missed, answer, runs, losses>>

DoStep(r) ==
  \/ Begin(r) \/ Refuse(r)
  \/ FnActs(r) \/ FnFails(r)
  \/ Complete(r) \/ Release(r)
  \/ StoreFails(r) \/ Crash(r)
  \/ Renew(r) \/ Late(r)

Next == Sweep \/ Tick \/ \E r \in Requests : DoStep(r)

(* A request that fn has answered goes on to return: nothing it waits for  *)
(* is held by another request.  fn itself is bounded by its own timeouts.  *)
Fairness ==
  \A r \in Requests :
    /\ WF_vars(Begin(r) \/ Refuse(r))
    /\ WF_vars(FnActs(r) \/ FnFails(r))
    /\ WF_vars(Complete(r) \/ Release(r) \/ StoreFails(r))

Spec == Init /\ [][Next]_vars

FairSpec == Spec /\ Fairness

(***************************************************************************)
(* Properties.                                                             *)
(***************************************************************************)

(* Every variable has its type.                                            *)
TypeOK ==
  /\ now \in Nat
  /\ rec \in Records
  /\ pc \in [Requests -> PCs]
  /\ renewing \in [Requests -> BOOLEAN]
  /\ renewAt \in [Requests -> Nat]
  /\ missed \in [Requests -> Nat]
  /\ answer \in [Requests -> Answers]
  /\ runs \in Nat
  /\ losses \in Nat

(* r's store calls were late, in a row, for as long as its lease.          *)
Lapsed(r) == missed[r] + RenewEvery >= PendingLease

(* "A request that runs past PendingLease is never run a second time"      *)
(* (renew): however long fn takes, no second request of the key runs fn    *)
(* beside it, unless an outage as long as the lease came over one of them. *)
NeverTwoRunning ==
  \A r, s \in Requests :
    pc[r] = "run" /\ pc[s] = "run" => r = s \/ Lapsed(r) \/ Lapsed(s)

(* "Do runs fn once for key": since the key was last free by expiry, fn    *)
(* took effect at most once, plus once for each crash or store failure     *)
(* that lost a claim, while no claim was lost to an outage.                *)
RunsAtMostOnce == (\A r \in Requests : ~Lapsed(r)) => runs <= 1 + losses

(* A replay is the response of a run of the same body: a key reused with   *)
(* another body never gets it, and neither does a run that changed nothing.*)
ReplayIsFaithful ==
  \A r \in Requests :
    answer[r].kind = "replayed" =>
      /\ answer[r].resp \in Requests
      /\ BodyOf[answer[r].resp] = BodyOf[r]
      /\ answer[answer[r].resp].kind = "ran"

(* A request whose claim lapsed cannot touch the record of the claim that  *)
(* replaced it: only the holder's own steps change a live record.          *)
LiveRecordIsFenced ==
  [][\A r \in Requests :
       (rec.token = r /\ Live /\ rec' # rec) =>
         \A s \in Requests \ {r} : pc'[s] = pc[s] /\ renewAt'[s] = renewAt[s]]_vars

(* Every request that is sent gets an answer, unless its server dies.      *)
EveryRequestAnswered ==
  \A r \in Requests : pc[r] = "new" ~> pc[r] \in {"end", "dead"}
=============================================================================
