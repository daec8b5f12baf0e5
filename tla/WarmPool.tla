------------------------------ MODULE WarmPool ------------------------------
(***************************************************************************)
(* The warm pool of sandboxes sessions claim (Pool in controlplane/        *)
(* sessions.go): each process on the store fills it (fill, Run), claims    *)
(* from it (Claim, claim) and drains it as it stops (Drain).               *)
(*                                                                         *)
(* A member is the store's object: its state, and the label that says      *)
(* whose it is, the pool's or the claim's.  The states are those the pool  *)
(* tells apart: "Coming" is Provisioning or Starting, "Ended" is Stopped,  *)
(* Completed or Error.  What a pass of the reconciler does is module       *)
(* ControlPlane's; here it only moves the state.                           *)
(***************************************************************************)
EXTENDS Naturals, FiniteSets

CONSTANTS
  Procs,     \* the server processes that fill the pool
  Claims,    \* claims made, each for a session of its own
  Pool,      \* LabelPool: the label of an unclaimed member
  Size,      \* PoolConfig.Size
  Policy,    \* restart.policy of the pool's template
  MaxBoxes   \* bound: sandboxes ever made

None == 0    \* no sandbox, and no process

ASSUME NamesAssumption == Pool \notin Claims /\ None \notin Procs /\ Policy \in {"never", "on-failure", "always"}
ASSUME SizesAssumption == Size \in Nat /\ MaxBoxes \in Nat /\ IsFiniteSet(Procs)

VARIABLES
  box,   \* the store's sandboxes
  made,  \* how many were ever made
  proc,  \* whether each process is up, stopping or down
  fill,  \* what each process's fill or drain has listed
  claim  \* what each claim does

vars == <<box, made, proc, fill, claim>>

Boxes == 1..MaxBoxes
States == {"Coming", "Ready", "Ended", "Deleting", "Gone"}

Gone == [state |-> "Gone", label |-> Pool]
IdleFill == [pc |-> "idle", todo |-> {}, live |-> 0]

Init ==
  /\ box = [b \in Boxes |-> Gone] /\ made = 0
  /\ proc = [p \in Procs |-> "up"]
  /\ fill = [p \in Procs |-> IdleFill]
  /\ claim = [c \in Claims |-> [pc |-> "new", p |-> None, box |-> None, todo |-> {}]]

Exists(b) == box[b].state # "Gone"

(* Pool.Members lists what carries the pool's label.                       *)
Members == {b \in Boxes : Exists(b) /\ box[b].label = Pool}

LiveMembers == {b \in Members : box[b].state \in {"Ready", "Coming"}}

(* Mutant: whose the object is by now is not asked.                        *)
mayAnyones(b) == Exists(b)

(* Caller.may for the pool's own caller, confined to the pool's label: it  *)
(* is asked again on the object that Mutate is about to write.             *)
may(b) == Exists(b) /\ box[b].label = Pool

(* Service.Delete by the pool.  What it may not act on it does not find,   *)
(* and a delete the store, a guard or the record refuses changes nothing.  *)
Delete(b) ==
  \/ may(b) /\ box' = [box EXCEPT ![b].state = "Deleting"]
  \/ UNCHANGED box

(***************************************************************************)
(* Pool.fill, run again and again by Pool.Run: a kick, the interval and    *)
(* the backoff only choose when.                                           *)
(***************************************************************************)

(* The members are listed once: those Ready or on their way are counted,   *)
(* those that failed or stopped are to be deleted.                         *)
FillLists(p) ==
  /\ proc[p] = "up" /\ fill[p].pc = "idle"
  /\ fill' = [fill EXCEPT ![p] =
       [pc |-> "fill", live |-> Cardinality(LiveMembers),
        todo |-> {b \in Members : box[b].state = "Ended"}]]
  /\ UNCHANGED <<box, made, proc, claim>>

FillDeletes(p, b) ==
  /\ fill[p].pc = "fill" /\ b \in fill[p].todo
  /\ Delete(b)
  /\ fill' = [fill EXCEPT ![p].todo = @ \ {b}]
  /\ UNCHANGED <<made, proc, claim>>

(* Mutant: one member more than Size.                                      *)
FillCreatesOver(p) ==
  /\ proc[p] = "up" /\ fill[p].pc = "fill" /\ fill[p].todo = {} /\ fill[p].live <= Size
  /\ made < MaxBoxes
  /\ made' = made + 1
  /\ box' = [box EXCEPT ![made + 1] = [state |-> "Coming", label |-> Pool]]
  /\ fill' = [fill EXCEPT ![p].live = @ + 1]
  /\ UNCHANGED <<proc, claim>>

(* Members are made one by one until Size are counted.                     *)
FillCreates(p) ==
  /\ proc[p] = "up" /\ fill[p].pc = "fill" /\ fill[p].todo = {} /\ fill[p].live < Size
  /\ made < MaxBoxes
  /\ made' = made + 1
  /\ box' = [box EXCEPT ![made + 1] = [state |-> "Coming", label |-> Pool]]
  /\ fill' = [fill EXCEPT ![p].live = @ + 1]
  /\ UNCHANGED <<proc, claim>>

(* The pool is full, a create failed, or the context has ended.            *)
FillEnds(p) ==
  /\ fill[p].pc = "fill" /\ fill[p].todo = {}
  /\ fill' = [fill EXCEPT ![p] = IdleFill]
  /\ UNCHANGED <<box, made, proc, claim>>

(***************************************************************************)
(* A process stops, once its fill has ended, by draining the pool; claims  *)
(* of requests that outlast the shutdown go on beside it.                  *)
(***************************************************************************)

DrainLists(p) ==
  /\ proc[p] = "up" /\ fill[p].pc = "idle"
  /\ proc' = [proc EXCEPT ![p] = "stopping"]
  /\ fill' = [fill EXCEPT ![p] = [pc |-> "drain", live |-> 0, todo |-> Members]]
  /\ UNCHANGED <<box, made, claim>>

DrainDeletes(p, b) ==
  /\ fill[p].pc = "drain" /\ b \in fill[p].todo
  /\ Delete(b)
  /\ fill' = [fill EXCEPT ![p].todo = @ \ {b}]
  /\ UNCHANGED <<made, proc, claim>>

(* The process ends, stopped or crashed; claims under way end with it.     *)
Ends(p) ==
  /\ proc[p] # "down"
  /\ proc' = [proc EXCEPT ![p] = "down"]
  /\ fill' = [fill EXCEPT ![p] = IdleFill]
  /\ claim' = [c \in Claims |->
       IF claim[c].p = p
         THEN [claim[c] EXCEPT !.pc = "refused", !.p = None, !.todo = {}] ELSE claim[c]]
  /\ UNCHANGED <<box, made>>

Restarts(p) ==
  /\ proc[p] = "down"
  /\ proc' = [proc EXCEPT ![p] = "up"]
  /\ UNCHANGED <<box, made, fill, claim>>

(***************************************************************************)
(* Pool.Claim, one at a time in a process (Pool.mu).                       *)
(***************************************************************************)

(* The Ready members are listed ...                                        *)
ClaimLists(c, p) ==
  /\ proc[p] # "down" /\ claim[c].pc = "new"
  /\ \A d \in Claims : claim[d].p # p
  /\ claim' = [claim EXCEPT ![c] = [@ EXCEPT !.pc = "take", !.p = p,
                 !.todo = {b \in Members : box[b].state = "Ready"}]]
  /\ UNCHANGED <<box, made, proc, fill>>

(* Mutant: any Ready sandbox will do.                                      *)
claimedReady(b) == box[b].state = "Ready"

(* What Pool.claim asks of the object Mutate is about to write.            *)
claimed(b) == box[b].state = "Ready" /\ box[b].label = Pool

(* ... and tried in turn: one that is no longer a Ready member is passed   *)
(* over (errClaimed), the first that is one leaves the pool.               *)
ClaimTakes(c, b) ==
  /\ claim[c].pc = "take" /\ b \in claim[c].todo
  /\ IF claimed(b)
       THEN /\ box' = [box EXCEPT ![b].label = c]
            /\ claim' = [claim EXCEPT ![c] =
                 [@ EXCEPT !.pc = "held", !.p = None, !.box = b, !.todo = {}]]
       ELSE /\ claim' = [claim EXCEPT ![c].todo = @ \ {b}]
            /\ UNCHANGED box
  /\ UNCHANGED <<made, proc, fill>>

(* Mutant: that no member was taken is not told.                           *)
ClaimEndsHeld(c) ==
  /\ claim[c].pc = "take"
  /\ claim' = [claim EXCEPT ![c] = [@ EXCEPT !.pc = "held", !.todo = {}]]
  /\ UNCHANGED <<box, made, proc, fill>>

(* No member is left to try, or a guard, the record or the store refused.  *)
ClaimEnds(c) ==
  /\ claim[c].pc = "take"
  /\ claim' = [claim EXCEPT ![c] = [@ EXCEPT !.pc = "refused", !.p = None, !.todo = {}]]
  /\ UNCHANGED <<box, made, proc, fill>>

(* A pass of the reconciler, an instance that ends by itself, and the      *)
(* restart policy.                                                         *)
Pass(b, to) ==
  /\ <<box[b].state, to>> \in
       {<<"Coming", "Ready">>, <<"Coming", "Ended">>, <<"Ready", "Ended">>}
         \cup (IF Policy = "never" THEN {} ELSE {<<"Ended", "Coming">>})
  /\ box' = [box EXCEPT ![b].state = to]
  /\ UNCHANGED <<made, proc, fill, claim>>

Removed(b) ==
  /\ box[b].state = "Deleting"
  /\ box' = [box EXCEPT ![b] = Gone]
  /\ UNCHANGED <<made, proc, fill, claim>>

Process(p) ==
  \/ FillLists(p) \/ FillCreates(p) \/ FillEnds(p)
  \/ DrainLists(p) \/ Ends(p) \/ Restarts(p)
  \/ \E b \in Boxes : FillDeletes(p, b) \/ DrainDeletes(p, b)

Next ==
  \/ \E p \in Procs : Process(p)
  \/ \E c \in Claims :
       \/ \E p \in Procs : ClaimLists(c, p)
       \/ \E b \in Boxes : ClaimTakes(c, b)
       \/ ClaimEnds(c)
  \/ \E b \in Boxes : Removed(b) \/ \E to \in States : Pass(b, to)

Spec == Init /\ [][Next]_vars

-----------------------------------------------------------------------------

ClaimRecords ==
  [pc : {"new", "take", "held", "refused"}, p : Procs \cup {None},
   box : Boxes \cup {None}, todo : SUBSET Boxes]

(* Every variable has its type.                                            *)
TypeOK ==
  /\ box \in [Boxes -> [state : States, label : Claims \cup {Pool}]]
  /\ made \in 0..MaxBoxes
  /\ proc \in [Procs -> {"up", "stopping", "down"}]
  /\ fill \in [Procs -> [pc : {"idle", "fill", "drain"}, todo : SUBSET Boxes, live : Nat]]
  /\ claim \in [Claims -> ClaimRecords]
  /\ \A c \in Claims :
       /\ claim[c].pc = "held" <=> claim[c].box # None
       /\ claim[c].pc = "take" <=> claim[c].p # None

(* A sandbox a claim holds carries its label until it is gone: no two      *)
(* sessions, of one process or of two, ever hold the same member.          *)
HeldIsOwn ==
  \A c \in Claims : claim[c].pc = "held" =>
    /\ ~ Exists(claim[c].box) \/ box[claim[c].box].label = c
    /\ \A d \in Claims \ {c} : claim[d].pc = "held" => claim[d].box # claim[c].box

(* The pool never deletes a claimed sandbox, though it was a member when   *)
(* the fill or the drain listed it, and a claimed one never goes back.     *)
ClaimedIsSpared ==
  [][\A b \in Boxes : (Exists(b) /\ box[b].label # Pool) =>
       \/ box'[b] = Gone
       \/ box'[b].label = box[b].label /\ (box'[b].state = "Deleting" => box[b].state = "Deleting")]_vars

(* Fills of several processes overshoot by no more than Size each, though  *)
(* members are claimed and fail and processes crash between a listing and  *)
(* its creates.  With a restart policy a member the fill failed to delete, *)
(* and replaced all the same, may come back on top.                        *)
PoolIsBounded ==
  Policy = "never" => Cardinality(LiveMembers) <= Size * Cardinality(Procs)

=============================================================================
