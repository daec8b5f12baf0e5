----------------------- MODULE SessionSandboxesProofs -----------------------
(***************************************************************************)
(* Proofs about the sandboxes of sessions, for any number of processes,    *)
(* callers, sessions and sandboxes: the types of the state, that a process *)
(* gives a key one sandbox, and that a sweep spares the sessions the store *)
(* has; and for one process on the store that a bound sandbox is kept.     *)
(***************************************************************************)
EXTENDS SessionSandboxes, FiniteSetTheorems, WellFoundedInduction, TLAPS

(***************************************************************************)
(* The inductive invariant.  Requests and the session store: a session id  *)
(* of a row, a request or a label was handed out, a workbench's is marked  *)
(* and one whose sandbox is to be deleted has no row but a workbench's.    *)
(***************************************************************************)

RequestsOK ==
  /\ rows \subseteq used
  /\ \A c \in Callers :
       call[c].pc # "idle" =>
         /\ call[c].p \in Procs /\ call[c].s \in used
         /\ call[c].how = "workbench" => call[c].s \in bench
         /\ call[c].pc = "unbind" => call[c].s \notin rows \ bench

LabelsUsed == \A b \in Boxes : Exists(b) /\ box[b].label \in Sessions => box[b].label \in used

(* Sandbox numbers are not used twice.                                     *)
Numbers == \A b \in Boxes : b > made => box[b] = Gone

(* A key's lock has one holder in a process.                               *)
Locked ==
  \A c, d \in Callers :
    (c # d /\ call[c].pc \in Locks /\ call[d].pc \in Locks /\ call[c].p = call[d].p)
    => Key(call[c].s) # Key(call[d].s)

(* The processes about to give a key a sandbox count as sandboxes of it.   *)
Pending(k) ==
  {p \in Procs : \E c \in Callers :
     call[c].p = p /\ call[c].pc \in {"claim", "create"} /\ Key(call[c].s) = k}

Counted(k) == Cardinality(Live(k)) + Cardinality(Pending(k)) <= Cardinality(Procs)

(* What a sweep listed carries a session's label as long as it exists, and *)
(* what it is about to delete is not of a session the store has.           *)
Listed(b) == b <= made /\ (Exists(b) => box[b].label \in Sessions)

SweepOK(p) ==
  /\ \A b \in sweep[p].todo : Listed(b)
  /\ sweep[p].pc \in {"alive", "delete"} => sweep[p].box \in Boxes /\ Listed(sweep[p].box)
  /\ (sweep[p].pc = "delete" /\ Exists(sweep[p].box)) => box[sweep[p].box].label \notin rows \ bench

IInv ==
  /\ TypeOK /\ RequestsOK /\ LabelsUsed /\ Numbers /\ Locked
  /\ \A k \in Labels \ {Pool} : Counted(k)
  /\ \A p \in Procs : SweepOK(p)

(***************************************************************************)
(* Facts about the operators of the model.                                 *)
(***************************************************************************)

BoxRecords == [state : States \cup {"Gone"}, label : Labels]
SweepRecords == [pc : {"off", "list", "next", "alive", "delete"},
                 todo : SUBSET Boxes, box : Boxes \cup {None}]

LEMMA KeyIsLabel ==
  ASSUME NEW s \in Sessions
  PROVE  Key(s) \in Labels \ {Pool}
BY NamesAssumption DEF Key, Labels

LEMMA LiveFinite ==
  ASSUME NEW S \in SUBSET Boxes
  PROVE  IsFiniteSet(S) /\ Cardinality(S) \in Nat
<1>1. IsFiniteSet(Boxes)
  BY SizesAssumption, FS_Interval DEF Boxes
<1> QED
  BY <1>1, FS_Subset, FS_CardinalityType

LEMMA FindIsLive ==
  ASSUME NEW s, Live(Key(s)) # {}
  PROVE  find(s) \in Live(Key(s))
<1> DEFINE T == Live(Key(s))
<1>1. T \subseteq Nat
  BY SizesAssumption DEF Live, Labelled, Boxes
<1>2. T # {}
  OBVIOUS
<1> HIDE DEF T
<1>3. PICK n \in T : \A k \in T : ~(<<k, n>> \in OpToRel(<, Nat))
  BY <1>1, <1>2, NatLessThanWellFounded, WFMin
<1>4. \A k \in T : n <= k
  <2> SUFFICES ASSUME NEW k \in T, k < n PROVE FALSE
    BY <1>1
  <2>1. <<k, n>> \in OpToRel(<, Nat)
    BY <1>1 DEF OpToRel
  <2> QED
    BY <1>3, <2>1
<1>5. \E b \in T : \A d \in T : b <= d
  BY <1>4
<1>6. find(s) = CHOOSE b \in T : \A d \in T : b <= d
  BY DEF find, T
<1>7. find(s) \in T
  BY <1>5, <1>6
<1> QED
  BY <1>7 DEF T

(* From where the lifecycle lets a sandbox be started.                     *)
LEMMA StartsFrom ==
  ASSUME NEW x, CanTransition(x, "Starting")
  PROVE  x \in {"Stopped", "Completed", "Error"}
BY DEF CanTransition, transitions, States

LEMMA StateNames ==
  /\ {"Provisioning", "Ready", "Stopping", "Stopped", "Starting", "Completed", "Error", "Deleting"} = States
  /\ "Gone" \notin States
BY DEF States

(***************************************************************************)
(* What a step may do to the store.  Steady: a sandbox stays, moves under  *)
(* its label, goes, or is a new one of the pool.  Gives: a request makes   *)
(* or claims one for its key.                                              *)
(***************************************************************************)

StoreOK == box \in [Boxes -> BoxRecords] /\ made \in 0..MaxBoxes

Steady(b) ==
  \/ box'[b] = box[b]
  \/ /\ Exists(b) /\ box'[b].label = box[b].label /\ box'[b].state \in States
     /\ box[b].state = "Deleting" => box'[b].state = "Deleting"
  \/ box'[b] = Gone
  \/ b = made + 1 /\ made' = made + 1 /\ box'[b].state = "Provisioning" /\ box'[b].label = Pool

Gives(c, b) ==
  /\ call[c].pc \in {"claim", "create"}
  /\ box'[b].state \in {"Provisioning", "Ready"} /\ box'[b].label = Key(call[c].s)
  /\ \/ b = made + 1 /\ made' = made + 1
     \/ box[b].state = "Ready" /\ box[b].label = Pool /\ made' = made
  /\ \A d \in Boxes \ {b} : box'[d] = box[d]
  /\ call' = [call EXCEPT ![c] = [call[c] EXCEPT !.pc = "wait", !.box = b, !.fresh = TRUE]]
  /\ UNCHANGED <<sweep, calls, sessions, life, manager>>

(* Where the store does what a step asks of one sandbox, or nothing.       *)
LEMMA MovesOne ==
  ASSUME StoreOK, made' = made, NEW b, NEW to \in States,
         box' = box \/ (/\ box' = [box EXCEPT ![b].state = to]
                        /\ b \in Boxes => Exists(b) /\ (box[b].state = "Deleting" => to = "Deleting"))
  PROVE  StoreOK' /\ made' >= made /\ \A d \in Boxes : Steady(d)
<1>0. made' >= made /\ made' \in 0..MaxBoxes
  BY SizesAssumption DEF StoreOK
<1>1. CASE box' = box
  BY <1>0, <1>1 DEF StoreOK, Steady
<1>2. CASE /\ box' = [box EXCEPT ![b].state = to]
           /\ b \in Boxes => Exists(b) /\ (box[b].state = "Deleting" => to = "Deleting")
  <2>1. box' \in [Boxes -> BoxRecords]
    BY <1>2 DEF StoreOK, BoxRecords
  <2>2. ASSUME NEW d \in Boxes PROVE Steady(d)
    <3>1. CASE d = b
      <4>1. box'[d].state = to /\ box'[d].label = box[d].label
        BY <1>2, <3>1 DEF StoreOK, BoxRecords
      <4> QED
        BY <1>2, <3>1, <4>1 DEF Steady
    <3>2. CASE d # b
      <4>1. box'[d] = box[d]
        BY <1>2, <3>2 DEF StoreOK
      <4> QED
        BY <4>1 DEF Steady
    <3> QED
      BY <3>1, <3>2
  <2> QED
    BY <1>0, <2>1, <2>2 DEF StoreOK
<1> QED
  BY <1>1, <1>2

LEMMA DeleteMoves ==
  ASSUME StoreOK, made' = made, NEW l, NEW b, Delete(l, b)
  PROVE  StoreOK' /\ made' >= made /\ \A d \in Boxes : Steady(d)
<1>1. "Deleting" \in States
  BY DEF States
<1>2. box' = box \/ (/\ box' = [box EXCEPT ![b].state = "Deleting"] /\ Exists(b))
  BY DEF Delete, may
<1> QED
  BY <1>1, <1>2, MovesOne

LEMMA StoreMakes ==
  ASSUME StoreOK, NEW l \in Labels, Make(l)
  PROVE  /\ StoreOK' /\ made' = made + 1 /\ made + 1 \in Boxes /\ made' >= made
         /\ box'[made + 1].state = "Provisioning" /\ box'[made + 1].label = l
         /\ \A d \in Boxes \ {made + 1} : box'[d] = box[d]
<1>1. made \in Nat /\ made + 1 \in Boxes /\ made' = made + 1 /\ made' \in 0..MaxBoxes
  BY SizesAssumption DEF StoreOK, Make, Boxes
<1>2. PICK r : r = [state |-> "Provisioning", label |-> l]
  OBVIOUS
<1>3. r \in BoxRecords /\ r.state = "Provisioning" /\ r.label = l
  BY <1>2 DEF BoxRecords, States
<1>4. box' = [box EXCEPT ![made + 1] = r]
  BY <1>2 DEF Make
<1> QED
  BY <1>1, <1>3, <1>4 DEF StoreOK

LEMMA Giving ==
  ASSUME TypeOK, RequestsOK, NEW c \in Callers, BindCreates(c) \/ Claims(c)
  PROVE  \/ StoreOK' /\ made' >= made /\ \E b \in Boxes : Gives(c, b)
         \/ UNCHANGED <<box, made>> /\ call[c].pc = "claim" /\ call' = [call EXCEPT ![c].pc = "create"]
<1>0. StoreOK
  BY DEF TypeOK, StoreOK, BoxRecords
<1>1. Key(call[c].s) \in Labels
  BY KeyIsLabel DEF BindCreates, Claims, RequestsOK, TypeOK
<1>2. CASE BindCreates(c)
  <2>1. Make(Key(call[c].s))
    BY <1>2 DEF BindCreates
  <2>2. call' = [call EXCEPT ![c] = [call[c] EXCEPT !.pc = "wait", !.box = made + 1, !.fresh = TRUE]]
    BY <1>2 DEF BindCreates, TypeOK, CallStates
  <2>3. Gives(c, made + 1)
    BY <1>0, <1>1, <1>2, <2>1, <2>2, StoreMakes DEF Gives, BindCreates
  <2> QED
    BY <1>0, <1>1, <2>1, <2>3, StoreMakes
<1>3. ASSUME NEW b \in Live(Pool), Claims(c), box[b].state = "Ready",
             box' = [box EXCEPT ![b].label = Key(call[c].s)],
             call' = [call EXCEPT ![c] = [call[c] EXCEPT !.pc = "wait", !.box = b, !.fresh = TRUE]]
      PROVE  StoreOK' /\ made' >= made /\ \E d \in Boxes : Gives(c, d)
  <2>1. b \in Boxes /\ box[b].label = Pool
    BY DEF Live, Labelled
  <2>2. /\ box' \in [Boxes -> BoxRecords] /\ box'[b].state = "Ready" /\ box'[b].label = Key(call[c].s)
        /\ \A d \in Boxes \ {b} : box'[d] = box[d]
    BY <1>0, <1>1, <1>3, <2>1 DEF StoreOK, BoxRecords
  <2>3. made' = made /\ call[c].pc = "claim" /\ UNCHANGED <<sweep, calls, sessions, life, manager>>
    BY <1>3 DEF Claims
  <2>4. Gives(c, b)
    BY <1>3, <2>1, <2>2, <2>3 DEF Gives
  <2>5. made' >= made
    BY <1>0, <2>3, SizesAssumption DEF StoreOK
  <2> QED
    BY <1>0, <2>1, <2>2, <2>3, <2>4, <2>5 DEF StoreOK
<1>4. CASE Claims(c)
  BY <1>3, <1>4 DEF Claims
<1> QED
  BY <1>2, <1>4

LEMMA StoreStep ==
  ASSUME TypeOK, RequestsOK, Next
  PROVE  /\ StoreOK' /\ made' >= made
         /\ \/ \A b \in Boxes : Steady(b)
            \/ \E c \in Callers, b \in Boxes : Gives(c, b)
<1>0. StoreOK
  BY DEF TypeOK, StoreOK, BoxRecords
<1> DEFINE Goal == /\ StoreOK' /\ made' >= made
                   /\ \/ \A b \in Boxes : Steady(b)
                      \/ \E c \in Callers, b \in Boxes : Gives(c, b)
<1>1. ASSUME UNCHANGED <<box, made>> PROVE Goal
  BY <1>0, <1>1, SizesAssumption DEF StoreOK, Steady
<1>2. ASSUME NEW b \in Boxes, Pass(b) PROVE Goal
  <2>1. PICK to \in {"Ready", "Error", "Stopped", "Starting"} :
          /\ box[b].state \in {"Provisioning", "Starting", "Stopping", "Ready", "Error"}
          /\ box' = [box EXCEPT ![b].state = to]
    BY <1>2 DEF Pass
  <2>2. to \in States /\ made' = made /\ Exists(b) /\ box[b].state # "Deleting"
    BY <1>2, <2>1 DEF Pass, States, Exists
  <2> QED
    BY <1>0, <2>1, <2>2, MovesOne
<1>3. ASSUME NEW b \in Boxes, Removed(b) PROVE Goal
  <2>1. box' = [box EXCEPT ![b] = Gone] /\ made' = made
    BY <1>3 DEF Removed
  <2>2. Gone \in BoxRecords
    BY DEF Gone, BoxRecords, Labels
  <2> QED
    BY <1>0, <2>1, <2>2, SizesAssumption DEF StoreOK, Steady
<1>4. ASSUME NEW p \in Procs, NEW b \in Boxes, Retain(p, b) PROVE Goal
  <2>0. made' = made
    BY <1>4 DEF Retain
  <2>1. CASE box[b].state = "Ready" /\ box' = [box EXCEPT ![b].state = "Stopping"]
    BY <1>0, <2>0, <2>1, MovesOne DEF Exists, States
  <2>2. CASE Delete(box[b].label, b)
    BY <1>0, <2>0, <2>2, DeleteMoves
  <2>3. CASE box' = box
    BY <1>1, <2>0, <2>3
  <2> QED
    BY <1>4, <2>1, <2>2, <2>3 DEF Retain
<1>5. ASSUME NEW p \in Procs, PoolMakes(p) PROVE Goal
  <2>1. Make(Pool) /\ Pool \in Labels
    BY <1>5 DEF PoolMakes, Labels
  <2>2. \A b \in Boxes : Steady(b)
    BY <1>0, <2>1, StoreMakes DEF Steady
  <2> QED
    BY <1>0, <2>1, <2>2, StoreMakes
<1>6. ASSUME NEW p \in Procs, NEW b \in Boxes, PoolDeletes(p, b) PROVE Goal
  <2>1. Delete(Pool, b) /\ made' = made
    BY <1>6 DEF PoolDeletes, Delete
  <2> QED
    BY <1>0, <2>1, DeleteMoves
<1>7. ASSUME NEW p \in Procs, SweepDeletes(p) PROVE Goal
  BY <1>0, <1>7, DeleteMoves DEF SweepDeletes
<1>8. ASSUME NEW c \in Callers, Wakes(c) PROVE Goal
  <2>1. PICK b : b = call[c].box
    OBVIOUS
  <2>2. /\ made' = made
        /\ box' = box \/ (CanTransition(box[b].state, "Starting") /\ box' = [box EXCEPT ![b].state = "Starting"])
    BY <1>8, <2>1 DEF Wakes
  <2>3. CanTransition(box[b].state, "Starting") => Exists(b) /\ box[b].state # "Deleting"
    BY StartsFrom DEF Exists
  <2> QED
    BY <1>0, <2>2, <2>3, MovesOne DEF States
<1>9. ASSUME NEW c \in Callers, BindFails(c) PROVE Goal
  <2>1. made' = made /\ (box' = box \/ Delete(Key(call[c].s), call[c].box))
    BY <1>9 DEF BindFails
  <2> QED
    BY <1>0, <1>1, <2>1, DeleteMoves
<1>10. ASSUME NEW c \in Callers, SessionDeleted(c) PROVE Goal
  <2>1. made' = made /\ (box' = box \/ Delete(Key(call[c].s), find(call[c].s)))
    BY <1>10 DEF SessionDeleted
  <2> QED
    BY <1>0, <1>1, <2>1, DeleteMoves
<1>11. ASSUME NEW c \in Callers, BindCreates(c) \/ Claims(c) PROVE Goal
  BY <1>1, <1>11, Giving
<1> QED
  BY <1>1, <1>2, <1>3, <1>4, <1>5, <1>6, <1>7, <1>8, <1>9, <1>10, <1>11
  DEF Next, Request, Proceeds, Process, StartSession, OpenWorkbench, Resume, DeleteSession,
      BindFinds, Binds, Built, Boot, Serve, Crash, Drain, CloseBegins, Exit,
      SweepLists, SweepAsks, SweepEnds, SweepTakes, objects

(***************************************************************************)
(* What a step may do to the session store and to the requests.            *)
(***************************************************************************)

(* A session handed out before gets no row again, a workbench's apart.     *)
SessionsMove ==
  /\ used \subseteq used' /\ used' \subseteq Sessions
  /\ bench \subseteq bench' /\ bench' \subseteq used' /\ rows' \subseteq used'
  /\ \A s \in used : s \in rows' \ bench' => s \in rows \ bench

LEMMA SessionsStep ==
  ASSUME TypeOK, RequestsOK, Next
  PROVE  SessionsMove
<1>0. rows \subseteq used /\ used \subseteq Sessions /\ bench \subseteq used
  BY DEF TypeOK, RequestsOK
<1>1. ASSUME UNCHANGED sessions PROVE SessionsMove
  BY <1>0, <1>1 DEF sessions, SessionsMove
<1>2. ASSUME NEW c \in Callers, NEW p \in Procs, NEW s \in Sessions, StartSession(c, p, s) PROVE SessionsMove
  BY <1>0, <1>2 DEF StartSession, SessionsMove
<1>3. ASSUME NEW c \in Callers, NEW p \in Procs, NEW s \in Sessions, OpenWorkbench(c, p, s) PROVE SessionsMove
  BY <1>0, <1>3 DEF OpenWorkbench, SessionsMove
<1>4. ASSUME NEW c \in Callers, NEW p \in Procs, NEW s \in Sessions, DeleteSession(c, p, s) PROVE SessionsMove
  BY <1>0, <1>4 DEF DeleteSession, SessionsMove
<1>5. ASSUME NEW c \in Callers, BindFails(c) PROVE SessionsMove
  BY <1>0, <1>5 DEF BindFails, Refused, SessionsMove
<1>6. ASSUME NEW c \in Callers, Built(c) PROVE SessionsMove
  <2>1. call[c].how = "workbench" => call[c].s \in bench
    BY <1>6 DEF Built, RequestsOK
  <2> QED
    BY <1>0, <1>6, <2>1 DEF Built, Refused, SessionsMove
<1> QED
  BY <1>1, <1>2, <1>3, <1>4, <1>5, <1>6
  DEF Next, Request, Proceeds, Process, Resume, BindFinds, SessionDeleted, Wakes, Claims, BindCreates, Binds,
      Boot, Serve, Crash, Drain, CloseBegins, Exit, Retain, PoolMakes, PoolDeletes, Pass, Removed,
      SweepLists, SweepTakes, SweepAsks, SweepDeletes, SweepEnds

(* A request begins, or goes on under its process, session and purpose: it *)
(* comes to make a sandbox only past a look that found none, under the     *)
(* key's lock.                                                             *)
CallBegins(c) ==
  /\ call[c].pc = "idle" /\ call'[c].pc \in {"bind", "unbind"}
  /\ call'[c].p \in Procs /\ call'[c].s \in used' /\ call'[c].box = None
  /\ call'[c].how = "workbench" => call'[c].s \in bench'
  /\ call'[c].pc = "unbind" => call'[c].s \notin rows'

CallGoes(c) ==
  /\ call[c].pc # "idle" /\ call'[c].pc \in {"built"} \cup Locks
  /\ call'[c].p = call[c].p /\ call'[c].s = call[c].s /\ call'[c].how = call[c].how
  /\ call[c].pc \in Locks \/ lock(c)
  /\ call'[c].pc \in {"claim", "create"} =>
       call[c].pc = "claim" \/ (lock(c) /\ Live(Key(call[c].s)) = {})
  /\ call'[c].pc \in {"wake", "wait", "built"} => call'[c].box # None

CallMoves(c) == (\A d \in Callers \ {c} : call'[d] = call[d]) /\ (CallBegins(c) \/ CallGoes(c))

CallsMove ==
  /\ call' \in [Callers -> CallStates]
  /\ \/ \A c \in Callers : call'[c] = call[c] \/ call'[c] = IdleCall
     \/ \E c \in Callers : CallMoves(c)

LEMMA IdleIsCall == IdleCall \in CallStates /\ IdleCall.pc = "idle"
BY DEF IdleCall, CallStates

LEMMA CallIs ==
  ASSUME TypeOK, NEW c \in Callers, NEW r \in CallStates, call' = [call EXCEPT ![c] = r],
         r = IdleCall \/ (call'[c] = r => CallBegins(c) \/ CallGoes(c))
  PROVE  CallsMove
<1>1. call \in [Callers -> CallStates]
  BY DEF TypeOK
<1>2. /\ call' \in [Callers -> CallStates] /\ call'[c] = r
      /\ \A d \in Callers \ {c} : call'[d] = call[d]
  BY <1>1
<1>3. CASE r = IdleCall
  BY <1>2, <1>3 DEF CallsMove
<1>4. CASE CallBegins(c) \/ CallGoes(c)
  BY <1>2, <1>4 DEF CallsMove, CallMoves
<1> QED
  BY <1>2, <1>3, <1>4

LEMMA Begins ==
  ASSUME TypeOK, RequestsOK, NEW c \in Callers, NEW p \in Procs, NEW s \in Sessions,
         NEW how \in {"chat", "workbench", "resume", "delete"}, NEW pc \in {"bind", "unbind"},
         Begin(c, p, s, how, pc),
         s \in used', how = "workbench" => s \in bench', pc = "unbind" => s \notin rows'
  PROVE  CallsMove
<1>1. PICK r : r = [IdleCall EXCEPT !.pc = pc, !.p = p, !.s = s, !.how = how]
  OBVIOUS
<1>2. r \in CallStates /\ r.pc = pc /\ r.p = p /\ r.s = s /\ r.how = how /\ r.box = None
  BY <1>1 DEF CallStates, IdleCall
<1>3. call' = [call EXCEPT ![c] = r] /\ call[c].pc = "idle"
  BY <1>1 DEF Begin
<1>4. call'[c] = r => CallBegins(c)
  BY <1>2, <1>3 DEF CallBegins
<1> QED
  BY <1>2, <1>3, <1>4, CallIs

LEMMA CallsStep ==
  ASSUME TypeOK, RequestsOK, Next
  PROVE  CallsMove
<1>0. call \in [Callers -> CallStates] /\ None \notin Boxes
  BY DEF TypeOK, Boxes, None
<1>1. ASSUME UNCHANGED call PROVE CallsMove
  BY <1>0, <1>1 DEF CallsMove
<1>2. ASSUME NEW c \in Callers, NEW p \in Procs, NEW s \in Sessions, Request(c, p, s) PROVE CallsMove
  <2>1. CASE StartSession(c, p, s)
    BY <2>1, Begins DEF StartSession
  <2>2. CASE OpenWorkbench(c, p, s)
    BY <2>2, Begins DEF OpenWorkbench
  <2>3. CASE Resume(c, p, s)
    BY <2>3, Begins DEF Resume, RequestsOK, sessions
  <2>4. CASE DeleteSession(c, p, s)
    BY <2>4, Begins DEF DeleteSession, RequestsOK
  <2> QED
    BY <1>2, <2>1, <2>2, <2>3, <2>4 DEF Request
<1>3. ASSUME NEW c \in Callers, call' = [call EXCEPT ![c] = IdleCall] PROVE CallsMove
  BY <1>3, CallIs, IdleIsCall
<1>4. ASSUME NEW c \in Callers, BindFinds(c) PROVE CallsMove
  <2>1. CASE Live(Key(call[c].s)) # {}
    <3>1. PICK r : r = [call[c] EXCEPT !.pc = "wake", !.box = find(call[c].s)]
      OBVIOUS
    <3>2. find(call[c].s) \in Boxes
      BY <2>1, FindIsLive DEF Live, Labelled
    <3>3. /\ r \in CallStates /\ r.pc = "wake" /\ r.box = find(call[c].s)
          /\ r.p = call[c].p /\ r.s = call[c].s /\ r.how = call[c].how
      BY <1>0, <3>1, <3>2 DEF CallStates, Locks
    <3>4. call' = [call EXCEPT ![c] = r] /\ call[c].pc = "bind" /\ lock(c)
      BY <1>4, <2>1, <3>1 DEF BindFinds
    <3>5. call'[c] = r => CallGoes(c)
      BY <1>0, <3>2, <3>3, <3>4 DEF CallGoes, Locks
    <3> QED
      BY <3>3, <3>4, <3>5, CallIs
  <2>2. CASE Live(Key(call[c].s)) = {}
    <3>1. PICK r : r = [call[c] EXCEPT !.pc = IF Size > 0 THEN "claim" ELSE "create"]
      OBVIOUS
    <3>2. /\ r \in CallStates /\ r.pc \in {"claim", "create"}
          /\ r.p = call[c].p /\ r.s = call[c].s /\ r.how = call[c].how
      BY <1>0, <3>1 DEF CallStates, Locks
    <3>3. call' = [call EXCEPT ![c] = r] /\ call[c].pc = "bind" /\ lock(c)
      BY <1>4, <2>2, <3>1 DEF BindFinds
    <3>4. call'[c] = r => CallGoes(c)
      BY <2>2, <3>2, <3>3 DEF CallGoes, Locks
    <3> QED
      BY <3>2, <3>3, <3>4, CallIs
  <2> QED
    BY <2>1, <2>2
<1>5. ASSUME NEW c \in Callers, NEW to \in {"wait", "built", "create"}, call' = [call EXCEPT ![c].pc = to],
             call[c].pc \in Locks, to = "create" => call[c].pc = "claim", to # "create" => call[c].box # None
      PROVE  CallsMove
  <2>1. PICK r : r = [call[c] EXCEPT !.pc = to]
    OBVIOUS
  <2>2. /\ r \in CallStates /\ r.pc = to /\ r.box = call[c].box
        /\ r.p = call[c].p /\ r.s = call[c].s /\ r.how = call[c].how
    BY <1>0, <2>1 DEF CallStates, Locks
  <2>3. call' = [call EXCEPT ![c] = r]
    BY <1>5, <2>1
  <2>4. call'[c] = r => CallGoes(c)
    BY <1>5, <2>2 DEF CallGoes, Locks
  <2> QED
    BY <2>2, <2>3, <2>4, CallIs
<1>6. ASSUME NEW c \in Callers, Wakes(c) \/ Binds(c) PROVE CallsMove
  <2>1. call[c].box # None
    BY <1>6 DEF Wakes, Binds, TypeOK
  <2>2. call[c].pc \in Locks /\ \E to \in {"wait", "built"} : call' = [call EXCEPT ![c].pc = to]
    BY <1>6 DEF Wakes, Binds, Locks
  <2> QED
    BY <1>5, <2>1, <2>2
<1>7. ASSUME NEW c \in Callers, NEW b \in Boxes, call[c].pc \in {"claim", "create"},
             call' = [call EXCEPT ![c] = [call[c] EXCEPT !.pc = "wait", !.box = b, !.fresh = TRUE]]
      PROVE  CallsMove
  <2>1. PICK r : r = [call[c] EXCEPT !.pc = "wait", !.box = b, !.fresh = TRUE]
    OBVIOUS
  <2>2. /\ r \in CallStates /\ r.pc = "wait" /\ r.box = b
        /\ r.p = call[c].p /\ r.s = call[c].s /\ r.how = call[c].how
    BY <1>0, <2>1 DEF CallStates, Locks
  <2>3. call' = [call EXCEPT ![c] = r]
    BY <1>7, <2>1
  <2>4. call'[c] = r => CallGoes(c)
    BY <1>0, <1>7, <2>2 DEF CallGoes, Locks
  <2> QED
    BY <2>2, <2>3, <2>4, CallIs
<1>8. ASSUME NEW c \in Callers, Claims(c) PROVE CallsMove
  <2>1. CASE call' = [call EXCEPT ![c].pc = "create"]
    BY <1>5, <1>8, <2>1 DEF Claims, Locks
  <2>2. CASE \E b \in Live(Pool) :
               call' = [call EXCEPT ![c] = [call[c] EXCEPT !.pc = "wait", !.box = b, !.fresh = TRUE]]
    BY <1>7, <1>8, <2>2 DEF Claims, Live, Labelled
  <2> QED
    BY <1>8, <2>1, <2>2 DEF Claims
<1>9. ASSUME NEW c \in Callers, BindCreates(c) PROVE CallsMove
  <2>1. made + 1 \in Boxes
    BY <1>9, SizesAssumption DEF BindCreates, Make, TypeOK, Boxes
  <2>2. call' = [call EXCEPT ![c] = [call[c] EXCEPT !.pc = "wait", !.box = made + 1, !.fresh = TRUE]]
    BY <1>9 DEF BindCreates, TypeOK, CallStates
  <2> QED
    BY <1>7, <1>9, <2>1, <2>2 DEF BindCreates
<1>10. ASSUME NEW p \in Procs, Forget(p) PROVE CallsMove
  BY <1>0, <1>10, IdleIsCall DEF Forget, CallsMove
<1> QED
  BY <1>1, <1>2, <1>3, <1>4, <1>6, <1>8, <1>9, <1>10
  DEF Next, Proceeds, Process, SessionDeleted, BindFails, Refused, Built,
      Boot, Serve, Crash, Drain, CloseBegins, Exit, Retain, PoolMakes, PoolDeletes, Pass, Removed,
      SweepLists, SweepTakes, SweepAsks, SweepDeletes, SweepEnds, requests

(***************************************************************************)
(* The processes.                                                          *)
(***************************************************************************)

LivesOK ==
  /\ proc \in [Procs -> {"down", "boot", "up", "draining", "closing"}]
  /\ keeps \in [Procs -> {"stop", "delete", "keep"}]
  /\ bound \in [Procs -> SUBSET Boxes]
  /\ since \in [Procs -> 0..MaxBoxes]
  /\ sweep \in [Procs -> SweepRecords]
  /\ close \in [Procs -> SUBSET Boxes]
  /\ boots \in 0..MaxBoots /\ calls \in 0..MaxCalls

LEMMA TypeParts ==
  TypeOK <=> /\ StoreOK /\ LivesOK
             /\ rows \subseteq Sessions /\ used \subseteq Sessions /\ bench \subseteq used
             /\ call \in [Callers -> CallStates]
             /\ \A c \in Callers : call[c].pc \in {"wake", "wait", "built"} => call[c].box # None
BY DEF TypeOK, StoreOK, LivesOK, BoxRecords, SweepRecords

LEMMA SweepIs ==
  ASSUME NEW p \in Procs, NEW r \in SweepRecords, sweep \in [Procs -> SweepRecords],
         sweep' = [sweep EXCEPT ![p] = r]
  PROVE  sweep' \in [Procs -> SweepRecords]
OBVIOUS

LEMMA SweepsType ==
  ASSUME LivesOK, Next
  PROVE  sweep' \in [Procs -> SweepRecords]
<1>0. sweep \in [Procs -> SweepRecords]
  BY DEF LivesOK
<1>1. ASSUME NEW p \in Procs, NEW b \in Boxes \cup {None}, NEW T \in SUBSET Boxes,
             NEW pc \in {"off", "list", "next", "alive", "delete"},
             sweep' = [sweep EXCEPT ![p] = [pc |-> pc, todo |-> T, box |-> b]]
      PROVE  sweep' \in [Procs -> SweepRecords]
  <2>1. PICK r \in SweepRecords : r = [pc |-> pc, todo |-> T, box |-> b]
    BY DEF SweepRecords
  <2> QED
    BY <1>0, <1>1, <2>1, SweepIs
<1>2. ASSUME NEW p \in Procs, SweepLists(p) PROVE sweep' \in [Procs -> SweepRecords]
  BY <1>1, <1>2 DEF SweepLists
<1>3. ASSUME NEW p \in Procs, NEW b \in Boxes, SweepTakes(p, b) PROVE sweep' \in [Procs -> SweepRecords]
  BY <1>0, <1>3 DEF SweepTakes, SweepRecords
<1>4. ASSUME NEW p \in Procs, SweepAsks(p) \/ SweepDeletes(p) \/ SweepEnds(p) \/ Serve(p) \/ Drain(p) \/ Forget(p)
      PROVE  sweep' \in [Procs -> SweepRecords]
  BY <1>0, <1>4 DEF SweepAsks, SweepDeletes, SweepEnds, Serve, Drain, Forget, IdleSweep, SweepRecords
<1> QED
  BY <1>0, <1>2, <1>3, <1>4
  DEF Next, Request, Proceeds, Process, StartSession, OpenWorkbench, Resume, DeleteSession,
      BindFinds, SessionDeleted, Wakes, Claims, BindCreates, Binds, BindFails, Built,
      Boot, Crash, CloseBegins, Exit, Retain, PoolMakes, PoolDeletes, Pass, Removed

LEMMA CountersType ==
  ASSUME LivesOK, Next
  PROVE  boots' \in 0..MaxBoots /\ calls' \in 0..MaxCalls
<1>0. boots \in 0..MaxBoots /\ calls \in 0..MaxCalls
  BY DEF LivesOK
<1>1. boots' = boots \/ \E p \in Procs : Boot(p)
  <2>1. ASSUME NEW p \in Procs, Process(p) PROVE boots' = boots \/ Boot(p)
    BY <2>1 DEF Process, Crash, CloseBegins, Exit, Retain, PoolMakes, PoolDeletes, Serve, Drain,
        SweepLists, SweepTakes, SweepAsks, SweepDeletes, SweepEnds, life
  <2>2. ASSUME NEW c \in Callers, Proceeds(c) \/ \E p \in Procs, s \in Sessions : Request(c, p, s)
        PROVE  boots' = boots
    BY <2>2 DEF Proceeds, Request, StartSession, OpenWorkbench, Resume, DeleteSession, BindFinds,
        SessionDeleted, Wakes, Claims, BindCreates, Binds, BindFails, Built, life
  <2> QED
    BY <2>1, <2>2 DEF Next, Pass, Removed, life
<1>2. boots' \in 0..MaxBoots
  BY <1>0, <1>1, SizesAssumption DEF Boot
<1>3. calls' = calls \/ \E c \in Callers, p \in Procs, s \in Sessions : Request(c, p, s)
  BY DEF Next, Proceeds, Process, BindFinds, SessionDeleted, Wakes, Claims, BindCreates, Binds, BindFails, Built,
      Boot, Crash, CloseBegins, Exit, Retain, PoolMakes, PoolDeletes, Pass, Removed, Serve, Drain,
      SweepLists, SweepTakes, SweepAsks, SweepDeletes, SweepEnds, requests
<1>4. ASSUME NEW c \in Callers, NEW p \in Procs, NEW s \in Sessions, Request(c, p, s)
      PROVE  calls < MaxCalls /\ calls' = calls + 1
  BY <1>4 DEF Request, StartSession, OpenWorkbench, Resume, DeleteSession, Begin
<1>5. calls' \in 0..MaxCalls
  BY <1>0, <1>3, <1>4, SizesAssumption
<1> QED
  BY <1>2, <1>5

LEMMA BoundType ==
  ASSUME TypeOK, RequestsOK, Next
  PROVE  bound' \in [Procs -> SUBSET Boxes] /\ close' \in [Procs -> SUBSET Boxes]
<1>0. bound \in [Procs -> SUBSET Boxes] /\ close \in [Procs -> SUBSET Boxes]
  BY DEF TypeOK
<1>1. ASSUME UNCHANGED <<bound, close>>
      PROVE  bound' \in [Procs -> SUBSET Boxes] /\ close' \in [Procs -> SUBSET Boxes]
  BY <1>0, <1>1
<1>2. ASSUME NEW p \in Procs, Forget(p) \/ CloseBegins(p) \/ \E b \in Boxes : Retain(p, b)
      PROVE  bound' \in [Procs -> SUBSET Boxes] /\ close' \in [Procs -> SUBSET Boxes]
  BY <1>0, <1>2 DEF Forget, CloseBegins, Retain
<1>3. ASSUME NEW c \in Callers, Binds(c)
      PROVE  bound' \in [Procs -> SUBSET Boxes] /\ close' \in [Procs -> SUBSET Boxes]
  <2>1. call[c].box \in Boxes
    BY <1>3 DEF Binds, TypeOK, CallStates
  <2> QED
    BY <1>0, <1>3, <2>1 DEF Binds
<1>4. ASSUME NEW c \in Callers, SessionDeleted(c)
      PROVE  bound' \in [Procs -> SUBSET Boxes] /\ close' \in [Procs -> SUBSET Boxes]
  BY <1>0, <1>4 DEF SessionDeleted
<1> QED
  BY <1>1, <1>2, <1>3, <1>4
  DEF Next, Request, Proceeds, Process, StartSession, OpenWorkbench, Resume, DeleteSession,
      BindFinds, Wakes, Claims, BindCreates, BindFails, Built,
      Boot, Crash, Exit, PoolMakes, PoolDeletes, Pass, Removed, Serve, Drain,
      SweepLists, SweepTakes, SweepAsks, SweepDeletes, SweepEnds, manager

LEMMA LifeType ==
  ASSUME TypeOK, Next
  PROVE  /\ proc' \in [Procs -> {"down", "boot", "up", "draining", "closing"}]
         /\ keeps' \in [Procs -> {"stop", "delete", "keep"}]
         /\ since' \in [Procs -> 0..MaxBoxes]
<1>0. /\ proc \in [Procs -> {"down", "boot", "up", "draining", "closing"}]
      /\ keeps \in [Procs -> {"stop", "delete", "keep"}]
      /\ since \in [Procs -> 0..MaxBoxes] /\ made \in 0..MaxBoxes /\ 0 \in 0..MaxBoxes
  BY SizesAssumption DEF TypeOK
<1> DEFINE Goal == /\ proc' \in [Procs -> {"down", "boot", "up", "draining", "closing"}]
                   /\ keeps' \in [Procs -> {"stop", "delete", "keep"}]
                   /\ since' \in [Procs -> 0..MaxBoxes]
<1>1. ASSUME UNCHANGED <<proc, keeps, since>> PROVE Goal
  BY <1>0, <1>1
<1>2. ASSUME NEW p \in Procs, CloseBegins(p) PROVE Goal
  BY <1>0, <1>2, NamesAssumption DEF CloseBegins
<1>3. ASSUME NEW p \in Procs, Boot(p) \/ Forget(p) \/ Serve(p) \/ Drain(p) PROVE Goal
  BY <1>0, <1>3 DEF Boot, Forget, Serve, Drain
<1> QED
  BY <1>1, <1>2, <1>3
  DEF Next, Request, Proceeds, Process, StartSession, OpenWorkbench, Resume, DeleteSession,
      BindFinds, SessionDeleted, Wakes, Claims, BindCreates, Binds, BindFails, Built,
      Crash, Exit, Retain, PoolMakes, PoolDeletes, Pass, Removed,
      SweepLists, SweepTakes, SweepAsks, SweepDeletes, SweepEnds, life

LEMMA TypeStep ==
  ASSUME TypeOK, RequestsOK, Next
  PROVE  TypeOK'
<1>1. StoreOK'
  BY StoreStep
<1>2. LivesOK'
  BY TypeParts, SweepsType, CountersType, BoundType, LifeType DEF LivesOK
<1>3. rows' \subseteq Sessions /\ used' \subseteq Sessions /\ bench' \subseteq used'
  BY SessionsStep DEF SessionsMove
<1>4. CallsMove
  BY CallsStep
<1>5. \A c \in Callers : call[c].pc \in {"wake", "wait", "built"} => call[c].box # None
  BY DEF TypeOK
<1>6. ASSUME NEW c \in Callers, call'[c].pc \in {"wake", "wait", "built"} PROVE call'[c].box # None
  BY <1>4, <1>5, <1>6, IdleIsCall DEF CallsMove, CallMoves, CallBegins, CallGoes
<1>7. call' \in [Callers -> CallStates]
  BY <1>4 DEF CallsMove
<1> QED
  BY <1>1, <1>2, <1>3, <1>6, <1>7 DEF TypeOK, StoreOK, LivesOK, BoxRecords, SweepRecords

(***************************************************************************)
(* The other parts of the invariant, step by step.                         *)
(***************************************************************************)

LEMMA RequestsStep ==
  ASSUME TypeOK, RequestsOK, Next
  PROVE  RequestsOK'
<1>1. SessionsMove /\ CallsMove
  BY SessionsStep, CallsStep
<1>2. rows' \subseteq used'
  BY <1>1 DEF SessionsMove
<1>3. ASSUME NEW c \in Callers, call'[c].pc # "idle"
      PROVE  /\ call'[c].p \in Procs /\ call'[c].s \in used'
             /\ call'[c].how = "workbench" => call'[c].s \in bench'
             /\ call'[c].pc = "unbind" => call'[c].s \notin rows' \ bench'
  <2>1. CASE call'[c] = call[c]
    BY <1>1, <1>3, <2>1 DEF RequestsOK, SessionsMove
  <2>2. CASE CallBegins(c)
    BY <2>2 DEF CallBegins
  <2>3. CASE CallGoes(c)
    BY <1>1, <2>3 DEF CallGoes, RequestsOK, SessionsMove, Locks
  <2> QED
    BY <1>1, <1>3, <2>1, <2>2, <2>3, IdleIsCall DEF CallsMove, CallMoves
<1> QED
  BY <1>2, <1>3 DEF RequestsOK

(* A sandbox whose number is used keeps its label as long as it exists,    *)
(* but for one of the pool.                                                *)
LEMMA LabelStays ==
  ASSUME TypeOK, RequestsOK, Next, NEW b \in Boxes, b <= made,
         box'[b].state # "Gone", box[b].state = "Gone" \/ box[b].label # Pool
  PROVE  box[b].state # "Gone" /\ box'[b].label = box[b].label
<1>0. made \in Nat /\ b \in Nat /\ b # made + 1
  BY SizesAssumption DEF TypeOK, Boxes
<1>1. CASE Steady(b)
  BY <1>0, <1>1 DEF Steady, Exists, Gone
<1>2. CASE \E c \in Callers, d \in Boxes : Gives(c, d)
  BY <1>0, <1>2 DEF Gives
<1> QED
  BY <1>1, <1>2, StoreStep

LEMMA LabelsStep ==
  ASSUME IInv, Next
  PROVE  LabelsUsed'
<1>0. TypeOK /\ RequestsOK /\ LabelsUsed
  BY DEF IInv
<1>1. SessionsMove
  BY <1>0, SessionsStep
<1> SUFFICES ASSUME NEW b \in Boxes, box'[b].state # "Gone", box'[b].label \in Sessions
             PROVE  box'[b].label \in used'
  BY DEF LabelsUsed, Exists
<1>2. CASE Steady(b)
  <2>1. Pool \notin Sessions
    BY NamesAssumption
  <2>2. box[b].state # "Gone" /\ box'[b].label = box[b].label
    BY <1>2, <2>1 DEF Steady, Exists, Gone
  <2> QED
    BY <1>0, <1>1, <2>2 DEF LabelsUsed, Exists, SessionsMove
<1>3. ASSUME NEW c \in Callers, NEW d \in Boxes, Gives(c, d) PROVE box'[b].label \in used'
  <2>1. CASE b = d
    <3>1. call[c].s \in used /\ box'[b].label = Key(call[c].s)
      BY <1>0, <1>3, <2>1 DEF Gives, RequestsOK
    <3>2. User \notin Sessions
      BY NamesAssumption
    <3> QED
      BY <1>1, <3>1, <3>2 DEF Key, SessionsMove
  <2>2. CASE b # d
    BY <1>0, <1>1, <1>3, <2>2 DEF Gives, LabelsUsed, Exists, SessionsMove
  <2> QED
    BY <2>1, <2>2
<1> QED
  BY <1>0, <1>2, <1>3, StoreStep

LEMMA NumbersStep ==
  ASSUME IInv, Next
  PROVE  Numbers'
<1>0. TypeOK /\ RequestsOK /\ Numbers
  BY DEF IInv
<1>1. made \in Nat /\ made' \in Nat /\ made' >= made
  BY <1>0, StoreStep, SizesAssumption DEF TypeOK, StoreOK
<1> SUFFICES ASSUME NEW b \in Boxes, b > made' PROVE box'[b] = Gone
  BY DEF Numbers
<1>2. b \in Nat /\ b > made /\ (made' = made + 1 => b # made + 1) /\ box[b] = Gone
  <2>1. b \in Nat /\ b > made /\ (made' = made + 1 => b # made + 1)
    BY <1>1, SizesAssumption DEF Boxes
  <2> QED
    BY <1>0, <2>1 DEF Numbers
<1>3. CASE Steady(b)
  BY <1>2, <1>3 DEF Steady, Exists, Gone
<1>4. CASE \E c \in Callers, d \in Boxes : Gives(c, d)
  BY <1>2, <1>4 DEF Gives, Gone
<1> QED
  BY <1>0, <1>3, <1>4, StoreStep

LEMMA LockedStep ==
  ASSUME IInv, Next
  PROVE  Locked'
<1>0. TypeOK /\ RequestsOK /\ Locked
  BY DEF IInv
<1>1. CallsMove
  BY <1>0, CallsStep
<1> SUFFICES ASSUME NEW c \in Callers, NEW d \in Callers, c # d,
                    call'[c].pc \in Locks, call'[d].pc \in Locks, call'[c].p = call'[d].p
             PROVE  Key(call'[c].s) # Key(call'[d].s)
  BY DEF Locked, Key
<1>2. "idle" \notin Locks /\ "bind" \notin Locks /\ "unbind" \notin Locks
  BY DEF Locks
<1>3. CASE call'[c] = call[c] /\ call'[d] = call[d]
  BY <1>0, <1>3 DEF Locked
<1>4. ASSUME NEW e \in Callers, CallMoves(e), e \in {c, d} PROVE Key(call'[c].s) # Key(call'[d].s)
  <2>1. CallGoes(e) /\ \A f \in Callers \ {e} : call'[f] = call[f]
    BY <1>2, <1>4 DEF CallMoves, CallBegins
  <2>2. CASE call[e].pc \in Locks
    BY <1>0, <1>4, <2>1, <2>2 DEF CallGoes, Locked
  <2>3. CASE lock(e)
    BY <1>4, <2>1, <2>3 DEF CallGoes, lock
  <2> QED
    BY <2>1, <2>2, <2>3 DEF CallGoes
<1> QED
  BY <1>1, <1>2, <1>3, <1>4, IdleIsCall DEF CallsMove, CallMoves

LEMMA CountStays ==
  ASSUME NEW k, Counted(k), Live(k)' \subseteq Live(k), Pending(k)' \subseteq Pending(k)
  PROVE  Counted(k)'
<1>1. IsFiniteSet(Procs) /\ Pending(k) \subseteq Procs /\ Live(k) \subseteq Boxes
  BY SizesAssumption DEF Pending, Live, Labelled
<1>2. IsFiniteSet(Live(k)) /\ IsFiniteSet(Pending(k))
  BY <1>1, LiveFinite, FS_Subset
<1>3. PICK L, P : L = Live(k)' /\ P = Pending(k)'
  OBVIOUS
<1>4. /\ Cardinality(L) <= Cardinality(Live(k)) /\ Cardinality(P) <= Cardinality(Pending(k))
      /\ Cardinality(L) \in Nat /\ Cardinality(P) \in Nat
      /\ Cardinality(Live(k)) \in Nat /\ Cardinality(Pending(k)) \in Nat /\ Cardinality(Procs) \in Nat
  BY <1>1, <1>2, <1>3, FS_Subset, FS_CardinalityType
<1>5. Cardinality(L) + Cardinality(P) <= Cardinality(Procs)
  BY <1>4 DEF Counted
<1> QED
  BY <1>3, <1>5 DEF Counted

LEMMA SteadyLive ==
  ASSUME NEW k, k # Pool, \A b \in Boxes : Steady(b)
  PROVE  Live(k)' \subseteq Live(k)
<1> SUFFICES ASSUME NEW b \in Boxes, box'[b].state # "Gone", box'[b].label = k, box'[b].state # "Deleting"
             PROVE  box[b].state # "Gone" /\ box[b].label = k /\ box[b].state # "Deleting"
  BY DEF Live, Labelled, Exists
<1>1. Steady(b)
  OBVIOUS
<1> QED
  BY <1>1 DEF Steady, Exists, Gone

LEMMA CountedStep ==
  ASSUME IInv, Next, NEW k \in Labels \ {Pool}
  PROVE  Counted(k)'
<1>0. TypeOK /\ RequestsOK /\ Locked /\ Counted(k) /\ call \in [Callers -> CallStates]
  BY DEF IInv, TypeOK
<1>1. CallsMove
  BY <1>0, CallsStep
<1>2. CASE \A b \in Boxes : Steady(b)
  <2>1. Live(k)' \subseteq Live(k)
    BY <1>2, SteadyLive
  <2>2. CASE Live(k) = {}
    <3>1. PICK L, P : L = Live(k)' /\ P = Pending(k)'
      OBVIOUS
    <3>2. L = {} /\ P \subseteq Procs
      BY <2>1, <2>2, <3>1 DEF Pending
    <3>3. /\ Cardinality(L) = 0 /\ Cardinality(P) <= Cardinality(Procs)
          /\ Cardinality(P) \in Nat /\ Cardinality(Procs) \in Nat
      BY <3>2, SizesAssumption, FS_EmptySet, FS_Subset, FS_CardinalityType
    <3>4. Cardinality(L) + Cardinality(P) <= Cardinality(Procs)
      BY <3>3
    <3> QED
      BY <3>1, <3>4 DEF Counted
  <2>3. CASE Live(k) # {}
    <3>1. ASSUME NEW c \in Callers, call'[c].pc \in {"claim", "create"}, Key(call'[c].s) = k
          PROVE  call[c].pc \in {"claim", "create"} /\ Key(call[c].s) = k /\ call[c].p = call'[c].p
      <4>1. CASE call'[c] = call[c]
        BY <3>1, <4>1
      <4>2. CASE CallBegins(c)
        BY <3>1, <4>2 DEF CallBegins
      <4>3. CASE CallGoes(c)
        BY <2>3, <3>1, <4>3 DEF CallGoes
      <4> QED
        BY <1>1, <3>1, <4>1, <4>2, <4>3, IdleIsCall DEF CallsMove, CallMoves
    <3>2. Pending(k)' \subseteq Pending(k)
      <4> SUFFICES ASSUME NEW p \in Procs, NEW c \in Callers, call'[c].p = p,
                          call'[c].pc \in {"claim", "create"}, Key(call'[c].s) = k
                   PROVE  p \in Pending(k)
        BY DEF Pending, Key
      <4> QED
        BY <3>1 DEF Pending
    <3> QED
      BY <1>0, <2>1, <3>2, CountStays
  <2> QED
    BY <2>2, <2>3
<1>3. ASSUME NEW c \in Callers, NEW b \in Boxes, Gives(c, b) PROVE Counted(k)'
  <2>1. /\ call[c].pc \in {"claim", "create"} /\ call[c].p \in Procs /\ call'[c].pc = "wait"
        /\ \A d \in Callers \ {c} : call'[d] = call[d]
    BY <1>0, <1>3 DEF Gives, RequestsOK, CallStates
  <2>2. Live(k)' \subseteq Live(k) \cup {b} /\ (Key(call[c].s) # k => b \notin Live(k)')
    BY <1>3 DEF Gives, Live, Labelled, Exists
  <2>3. ASSUME NEW p \in Pending(k)'
        PROVE  p \in Pending(k) /\ (Key(call[c].s) = k => p # call[c].p)
    <3>1. p \in Procs /\ \E d \in Callers : call'[d].p = p /\ call'[d].pc \in {"claim", "create"} /\ Key(call'[d].s) = k
      BY DEF Pending, Key
    <3>2. PICK d \in Callers : call'[d].p = p /\ call'[d].pc \in {"claim", "create"} /\ Key(call'[d].s) = k
      BY <3>1
    <3>3. d # c /\ call'[d] = call[d]
      BY <2>1, <3>2
    <3>4. p \in Pending(k)
      BY <3>1, <3>2, <3>3 DEF Pending
    <3>5. Key(call[c].s) = k => p # call[c].p
      BY <1>0, <2>1, <3>2, <3>3 DEF Locked, Locks
    <3> QED
      BY <3>4, <3>5
  <2>4. CASE Key(call[c].s) # k
    BY <1>0, <2>2, <2>3, <2>4, CountStays
  <2>5. CASE Key(call[c].s) = k
    <3>1. PICK L, P, p : L = Live(k)' /\ P = Pending(k)' /\ p = call[c].p
      OBVIOUS
    <3>2. p \in Pending(k) /\ P \subseteq Pending(k) \ {p} /\ L \subseteq Live(k) \cup {b}
      BY <2>1, <2>2, <2>3, <2>5, <3>1 DEF Pending
    <3>3. IsFiniteSet(Pending(k)) /\ IsFiniteSet(Live(k))
      BY SizesAssumption, LiveFinite, FS_Subset DEF Pending, Live, Labelled
    <3>4. /\ IsFiniteSet(Pending(k) \ {p}) /\ Cardinality(Pending(k) \ {p}) = Cardinality(Pending(k)) - 1
          /\ Cardinality(Pending(k)) \in Nat
      BY <3>2, <3>3, FS_RemoveElement, FS_CardinalityType
    <3>5. /\ IsFiniteSet(Live(k) \cup {b}) /\ Cardinality(Live(k) \cup {b}) <= Cardinality(Live(k)) + 1
          /\ Cardinality(Live(k)) \in Nat
      <4>1. Cardinality(Live(k)) \in Nat
        BY <3>3, FS_CardinalityType
      <4>2. /\ IsFiniteSet(Live(k) \cup {b})
            /\ Cardinality(Live(k) \cup {b}) = IF b \in Live(k) THEN Cardinality(Live(k)) ELSE Cardinality(Live(k)) + 1
        BY <3>3, FS_AddElement
      <4> QED
        BY <4>1, <4>2
    <3>6. /\ Cardinality(P) <= Cardinality(Pending(k)) - 1 /\ Cardinality(P) \in Nat
      BY <3>2, <3>4, FS_Subset, FS_CardinalityType
    <3>7. Cardinality(L) \in Nat /\ Cardinality(L) <= Cardinality(Live(k) \cup {b}) /\ Cardinality(Live(k) \cup {b}) \in Nat
      BY <3>2, <3>5, FS_Subset, FS_CardinalityType
    <3>8. Cardinality(Procs) \in Nat
      BY SizesAssumption, FS_CardinalityType
    <3>9. Cardinality(L) + Cardinality(P) <= Cardinality(Procs)
      BY <1>0, <3>4, <3>5, <3>6, <3>7, <3>8 DEF Counted
    <3> QED
      BY <3>1, <3>9 DEF Counted
  <2> QED
    BY <2>4, <2>5
<1> QED
  BY <1>0, <1>2, <1>3, StoreStep

LEMMA ListedStays ==
  ASSUME TypeOK, RequestsOK, Next, NEW b \in Boxes, Listed(b)
  PROVE  Listed(b)' /\ (Exists(b)' => Exists(b) /\ box'[b].label = box[b].label)
<1>1. b <= made'
  <2>1. made \in Nat /\ made' \in Nat /\ made' >= made /\ b \in Nat /\ b <= made
    BY StoreStep, SizesAssumption DEF TypeOK, StoreOK, Boxes, Listed
  <2> QED
    BY <2>1
<1>2. Exists(b)' => Exists(b) /\ box'[b].label = box[b].label
  BY LabelStays, NamesAssumption DEF Listed, Exists
<1> QED
  BY <1>1, <1>2 DEF Listed, Exists

(* What a step may do to a sweep.                                          *)
SweepMoves(p) ==
  \/ sweep'[p] = sweep[p]
  \/ sweep'[p].pc \in {"off", "list", "next"} /\ sweep'[p].todo \subseteq sweep[p].todo
  \/ /\ sweep'[p].pc = "next" /\ UNCHANGED <<box, made>>
     /\ sweep'[p].todo = {b \in Boxes : Exists(b) /\ box[b].label \in Sessions}
  \/ sweep'[p].pc = "alive" /\ sweep'[p].box \in sweep[p].todo /\ sweep'[p].todo \subseteq sweep[p].todo
  \/ /\ sweep[p].pc = "alive" /\ sweep'[p].todo = sweep[p].todo /\ sweep'[p].box = sweep[p].box
     /\ box[sweep[p].box].label \notin rows /\ UNCHANGED <<box, made, sessions>>

LEMMA SweepIdles ==
  ASSUME NEW p \in Procs, NEW q \in Procs, sweep \in [Procs -> SweepRecords],
         sweep' = [sweep EXCEPT ![p] = IdleSweep]
  PROVE  SweepMoves(q)
<1>1. IdleSweep.pc = "off" /\ IdleSweep.todo = {}
  BY DEF IdleSweep
<1>2. sweep'[q] = IdleSweep \/ sweep'[q] = sweep[q]
  OBVIOUS
<1> QED
  BY <1>1, <1>2 DEF SweepMoves

LEMMA SweepsMove ==
  ASSUME TypeOK, Next, NEW q \in Procs
  PROVE  SweepMoves(q)
<1>0. sweep \in [Procs -> SweepRecords]
  BY DEF TypeOK, SweepRecords
<1>1. ASSUME UNCHANGED sweep PROVE SweepMoves(q)
  BY <1>1 DEF SweepMoves
<1>2. ASSUME NEW p \in Procs, Forget(p) \/ Drain(p) \/ SweepEnds(p) PROVE SweepMoves(q)
  BY <1>0, <1>2, SweepIdles DEF Forget, Drain, SweepEnds
<1>3. ASSUME NEW p \in Procs, Serve(p) PROVE SweepMoves(q)
  BY <1>0, <1>3 DEF Serve, SweepMoves, SweepRecords
<1>4. ASSUME NEW p \in Procs, SweepLists(p) PROVE SweepMoves(q)
  BY <1>0, <1>4 DEF SweepLists, SweepMoves, objects
<1>5. ASSUME NEW p \in Procs, NEW b \in Boxes, SweepTakes(p, b) PROVE SweepMoves(q)
  BY <1>0, <1>5 DEF SweepTakes, SweepMoves, SweepRecords
<1>6. ASSUME NEW p \in Procs, SweepAsks(p) PROVE SweepMoves(q)
  BY <1>0, <1>6 DEF SweepAsks, SweepMoves, SweepRecords, objects
<1>7. ASSUME NEW p \in Procs, SweepDeletes(p) PROVE SweepMoves(q)
  BY <1>0, <1>7 DEF SweepDeletes, SweepMoves, SweepRecords
<1> QED
  BY <1>1, <1>2, <1>3, <1>4, <1>5, <1>6, <1>7
  DEF Next, Request, Proceeds, Process, StartSession, OpenWorkbench, Resume, DeleteSession,
      BindFinds, SessionDeleted, Wakes, Claims, BindCreates, Binds, BindFails, Built,
      Boot, Crash, CloseBegins, Exit, Retain, PoolMakes, PoolDeletes, Pass, Removed

LEMMA SweepStep ==
  ASSUME IInv, Next, NEW p \in Procs
  PROVE  SweepOK(p)'
<1>0. TypeOK /\ RequestsOK /\ LabelsUsed /\ Numbers /\ SweepOK(p)
  BY DEF IInv
<1>1. SweepMoves(p) /\ SessionsMove
  BY <1>0, SweepsMove, SessionsStep
<1>2. sweep[p].todo \subseteq Boxes
  BY <1>0 DEF TypeOK
<1>3. \A b \in sweep[p].todo : b \in Boxes /\ Listed(b)'
  BY <1>0, <1>2, ListedStays DEF SweepOK
<1>4. CASE sweep'[p].pc \in {"off", "list", "next"} /\ sweep'[p].todo \subseteq sweep[p].todo
  BY <1>3, <1>4 DEF SweepOK
<1>5. CASE /\ sweep'[p].pc = "next" /\ UNCHANGED <<box, made>>
           /\ sweep'[p].todo = {b \in Boxes : Exists(b) /\ box[b].label \in Sessions}
  <2>1. ASSUME NEW b \in sweep'[p].todo PROVE Listed(b)'
    <3>1. b \in Boxes /\ Exists(b) /\ box[b].label \in Sessions /\ b <= made
      <4>1. b \in Boxes /\ Exists(b) /\ box[b].label \in Sessions
        BY <1>5
      <4>2. ~(b > made)
        BY <1>0, <4>1 DEF Numbers, Exists, Gone
      <4>3. b \in Nat /\ made \in Nat
        BY <1>0, <4>1, SizesAssumption DEF TypeOK, Boxes
      <4> QED
        BY <4>1, <4>2, <4>3
    <3> QED
      BY <1>5, <3>1 DEF Listed
  <2> QED
    BY <1>5, <2>1 DEF SweepOK
<1>6. CASE sweep'[p].pc = "alive" /\ sweep'[p].box \in sweep[p].todo /\ sweep'[p].todo \subseteq sweep[p].todo
  BY <1>3, <1>6 DEF SweepOK
<1>7. CASE /\ sweep[p].pc = "alive" /\ sweep'[p].todo = sweep[p].todo /\ sweep'[p].box = sweep[p].box
           /\ box[sweep[p].box].label \notin rows /\ UNCHANGED <<box, made, sessions>>
  <2>1. sweep[p].box \in Boxes /\ Listed(sweep[p].box)
    BY <1>0, <1>7 DEF SweepOK
  <2> QED
    BY <1>3, <1>7, <2>1 DEF SweepOK, Listed, Exists, sessions
<1>8. CASE sweep'[p] = sweep[p]
  <2>1. ASSUME sweep[p].pc \in {"alive", "delete"}
        PROVE  /\ sweep[p].box \in Boxes /\ Listed(sweep[p].box) /\ Listed(sweep[p].box)'
               /\ Exists(sweep[p].box)' => Exists(sweep[p].box) /\ box'[sweep[p].box].label = box[sweep[p].box].label
    <3>1. PICK b : b = sweep[p].box
      OBVIOUS
    <3>2. b \in Boxes /\ Listed(b)
      BY <1>0, <2>1, <3>1 DEF SweepOK
    <3>3. Listed(b)' /\ (Exists(b)' => Exists(b) /\ box'[b].label = box[b].label)
      BY <1>0, <3>2, ListedStays
    <3> QED
      BY <1>8, <3>1, <3>2, <3>3
  <2>2. ASSUME sweep[p].pc = "delete", Exists(sweep[p].box)'
        PROVE  box'[sweep[p].box].label \notin rows' \ bench'
    <3>1. /\ sweep[p].box \in Boxes /\ Exists(sweep[p].box) /\ box[sweep[p].box].label \in Sessions
          /\ box'[sweep[p].box].label = box[sweep[p].box].label
      BY <2>1, <2>2 DEF Listed
    <3>2. box[sweep[p].box].label \in used /\ box[sweep[p].box].label \notin rows \ bench
      BY <1>0, <2>2, <3>1 DEF LabelsUsed, SweepOK
    <3> QED
      BY <1>1, <3>1, <3>2 DEF SessionsMove
  <2> QED
    BY <1>3, <1>8, <2>1, <2>2 DEF SweepOK
<1> QED
  BY <1>1, <1>4, <1>5, <1>6, <1>7, <1>8 DEF SweepMoves

LEMMA IInvStep == IInv /\ [Next]_vars => IInv'
<1>1. ASSUME IInv, Next PROVE IInv'
  <2>1. TypeOK /\ RequestsOK
    BY <1>1 DEF IInv
  <2>2. TypeOK' /\ RequestsOK' /\ LabelsUsed' /\ Numbers' /\ Locked'
    BY <1>1, <2>1, TypeStep, RequestsStep, LabelsStep, NumbersStep, LockedStep
  <2>3. \A k \in Labels \ {Pool} : Counted(k)'
    BY <1>1, CountedStep
  <2>4. \A p \in Procs : SweepOK(p)'
    BY <1>1, SweepStep
  <2> QED
    BY <2>2, <2>3, <2>4 DEF IInv, Labels
<1>2. ASSUME IInv, UNCHANGED vars PROVE IInv'
  <2>1. TypeOK' /\ RequestsOK' /\ LabelsUsed' /\ Numbers' /\ Locked'
    BY <1>2 DEF IInv, vars, objects, sessions, requests, life, manager, TypeOK, RequestsOK, LabelsUsed,
                Numbers, Locked, Exists, Key
  <2>2. \A k \in Labels \ {Pool} : Counted(k)'
    BY <1>2 DEF IInv, vars, objects, requests, Counted, Live, Labelled, Exists, Pending, Key
  <2>3. \A p \in Procs : SweepOK(p)'
    BY <1>2 DEF IInv, vars, objects, sessions, SweepOK, Listed, Exists
  <2> QED
    BY <2>1, <2>2, <2>3 DEF IInv, Labels
<1> QED
  BY <1>1, <1>2

LEMMA IInvInit == Init => IInv
<1> SUFFICES ASSUME Init PROVE IInv
  OBVIOUS
<1>1. StoreOK
  BY SizesAssumption DEF Init, StoreOK, BoxRecords, Gone, Labels
<1>2. LivesOK
  BY SizesAssumption DEF Init, LivesOK, SweepRecords, IdleSweep
<1>3. \A c \in Callers : call[c] = IdleCall /\ call[c].pc = "idle"
  BY IdleIsCall DEF Init
<1>4. TypeOK
  BY <1>1, <1>2, <1>3, IdleIsCall, TypeParts DEF Init
<1>5. RequestsOK /\ Locked
  BY <1>3 DEF Init, RequestsOK, Locked, Locks
<1>6. LabelsUsed /\ Numbers
  BY DEF Init, LabelsUsed, Numbers, Exists, Gone
<1>7. ASSUME NEW k PROVE Counted(k)
  <2>1. Live(k) = {} /\ Pending(k) = {}
    BY <1>3 DEF Init, Live, Labelled, Exists, Gone, Pending
  <2>2. Cardinality({}) = 0 /\ Cardinality(Procs) \in Nat
    BY SizesAssumption, FS_EmptySet, FS_CardinalityType
  <2> QED
    BY <2>1, <2>2 DEF Counted
<1>8. \A p \in Procs : SweepOK(p)
  BY DEF Init, SweepOK, IdleSweep
<1> QED
  BY <1>4, <1>5, <1>6, <1>7, <1>8 DEF IInv

THEOREM IInvHolds == Spec => []IInv
BY IInvInit, IInvStep, PTL DEF Spec

(* The types of the state hold throughout, and a request that waits for a  *)
(* sandbox, or has one, names one.                                         *)
THEOREM TypeCorrect == Spec => []TypeOK
<1>1. IInv => TypeOK
  BY DEF IInv
<1> QED
  BY <1>1, IInvHolds, PTL

(* However many processes, requests and sessions there are, and whichever  *)
(* of them crash, a key has no more sandboxes than processes, so one has   *)
(* only one: the lock of Bind is enough.                                   *)
THEOREM KeysHaveOne == Spec => []OnePerKey
<1>1. IInv => OnePerKey
  <2> SUFFICES ASSUME IInv, NEW k \in Labels \ {Pool} PROVE Cardinality(Live(k)) <= Cardinality(Procs)
    BY DEF OnePerKey
  <2>1. Counted(k)
    BY DEF IInv
  <2>2. Cardinality(Live(k)) \in Nat
    BY LiveFinite DEF Live, Labelled
  <2>3. Cardinality(Pending(k)) \in Nat /\ Cardinality(Procs) \in Nat
    BY SizesAssumption, FS_Subset, FS_CardinalityType DEF Pending
  <2> QED
    BY <2>1, <2>2, <2>3 DEF Counted
<1> QED
  BY <1>1, IInvHolds, PTL

(* What SweepSparesSessions says of a step.                                *)
Spares ==
  \A p \in Procs : (SweepDeletes(p) /\ box' # box) => box[sweep[p].box].label \notin rows \ bench

(* A sweep deletes no sandbox of a session the store has, a workbench's    *)
(* apart, though it asked the store before: the row it did not find is not *)
(* written later, and the sandbox it asked about is still the same one.    *)
THEOREM SweepsSpare == Spec => SweepSparesSessions
<1>1. ASSUME IInv PROVE Spares
  <2> SUFFICES ASSUME NEW p \in Procs, SweepDeletes(p), box' # box
               PROVE  box[sweep[p].box].label \notin rows \ bench
    BY DEF Spares
  <2>1. sweep[p].pc = "delete" /\ Exists(sweep[p].box)
    BY DEF SweepDeletes, Delete, may
  <2> QED
    BY <1>1, <2>1 DEF IInv, SweepOK
<1>2. IInv /\ [Next]_vars => [Spares]_vars
  BY <1>1
<1>3. Spec => [][Spares]_vars
  BY <1>2, IInvHolds, PTL DEF Spec
<1> QED
  BY <1>3 DEF SweepSparesSessions, Spares

(***************************************************************************)
(* One process on the store.  A sandbox a request made or claimed and has  *)
(* not bound yet is its own: nobody bound it, so the drop of a failed bind *)
(* takes it from no session.  With two processes the other may find and    *)
(* bind it in between.                                                     *)
(***************************************************************************)

Alone == \A p, q \in Procs : p = q

Fresh(c) == call[c].pc \in Locks /\ call[c].fresh

FreshOK(c) ==
  /\ call[c].pc = "bind" => ~call[c].fresh
  /\ Fresh(c) => /\ call[c].box \in Boxes /\ call[c].box <= made
                 /\ Exists(call[c].box) => box[call[c].box].label = Key(call[c].s)
                 /\ \A p \in Procs : call[c].box \notin bound[p]

BoundIs(p) == \A b \in bound[p] : b <= made /\ (Exists(b) => box[b].label # Pool)

BoundOK == (\A p \in Procs : BoundIs(p)) /\ \A c \in Callers : FreshOK(c)

(* How a request comes to hold a sandbox it made.                          *)
Freshens(c) ==
  /\ call'[c].pc = "bind" => call[c] = call'[c] \/ ~call'[c].fresh
  /\ (call'[c].pc \in Locks /\ call'[c].fresh) =>
       \/ /\ call[c].fresh /\ (call[c].pc = "bind" \/ (call[c].pc \in Locks /\ call'[c].box = call[c].box))
          /\ call'[c].s = call[c].s
       \/ \E b \in Boxes : Gives(c, b)

LEMMA FreshSteps ==
  ASSUME TypeOK, RequestsOK, Next, NEW c \in Callers
  PROVE  Freshens(c)
<1>0. call \in [Callers -> CallStates]
  BY DEF TypeOK
<1>1. ASSUME call'[c] = call[c] \/ call'[c] = IdleCall PROVE Freshens(c)
  BY <1>1, IdleIsCall DEF Freshens, Locks
<1>2. ASSUME NEW d \in Callers, NEW r, call' = [call EXCEPT ![d] = r],
             r.pc \in {"claim", "create", "wake", "wait", "built"}, r.fresh = call[d].fresh, r.s = call[d].s,
             call[d].pc = "bind" \/ (call[d].pc \in Locks /\ r.box = call[d].box)
      PROVE  Freshens(c)
  <2>1. CASE c = d
    <3>1. call'[c] = r
      BY <1>0, <1>2, <2>1
    <3> QED
      BY <1>2, <2>1, <3>1 DEF Freshens
  <2>2. CASE c # d
    BY <1>0, <1>1, <1>2, <2>2
  <2> QED
    BY <2>1, <2>2
<1>3. ASSUME NEW d \in Callers, NEW p \in Procs, NEW s \in Sessions, Request(d, p, s) PROVE Freshens(c)
  <2>1. PICK how, pc : call' = [call EXCEPT ![d] = [IdleCall EXCEPT !.pc = pc, !.p = p, !.s = s, !.how = how]]
    BY <1>3 DEF Request, StartSession, OpenWorkbench, Resume, DeleteSession, Begin
  <2>2. [IdleCall EXCEPT !.pc = pc, !.p = p, !.s = s, !.how = how].fresh = FALSE
    BY DEF IdleCall
  <2>3. call'[c] = call[c] \/ call'[c].fresh = FALSE
    BY <1>0, <2>1, <2>2
  <2> QED
    BY <1>1, <2>3 DEF Freshens
<1>4. ASSUME NEW d \in Callers, BindFinds(d) PROVE Freshens(c)
  <2>1. CASE Live(Key(call[d].s)) # {}
    <3>1. PICK r : r = [call[d] EXCEPT !.pc = "wake", !.box = find(call[d].s)]
      OBVIOUS
    <3>2. r.pc = "wake" /\ r.fresh = call[d].fresh /\ r.s = call[d].s
      BY <1>0, <3>1 DEF CallStates
    <3> QED
      BY <1>2, <1>4, <2>1, <3>1, <3>2 DEF BindFinds
  <2>2. CASE Live(Key(call[d].s)) = {}
    <3>1. PICK r : r = [call[d] EXCEPT !.pc = IF Size > 0 THEN "claim" ELSE "create"]
      OBVIOUS
    <3>2. r.pc \in {"claim", "create"} /\ r.fresh = call[d].fresh /\ r.s = call[d].s
      BY <1>0, <3>1 DEF CallStates
    <3> QED
      BY <1>2, <1>4, <2>2, <3>1, <3>2 DEF BindFinds
  <2> QED
    BY <2>1, <2>2
<1>5. ASSUME NEW d \in Callers, call[d].pc \in Locks,
             NEW to \in {"wait", "built", "create"}, call' = [call EXCEPT ![d].pc = to]
      PROVE  Freshens(c)
  <2>1. PICK r : r = [call[d] EXCEPT !.pc = to]
    OBVIOUS
  <2>2. r.pc = to /\ r.fresh = call[d].fresh /\ r.s = call[d].s /\ r.box = call[d].box
    BY <1>0, <2>1 DEF CallStates
  <2> QED
    BY <1>2, <1>5, <2>1, <2>2
<1>6. ASSUME NEW d \in Callers, Wakes(d) \/ Binds(d) PROVE Freshens(c)
  BY <1>5, <1>6 DEF Wakes, Binds, Locks
<1>7. ASSUME NEW d \in Callers, NEW b \in Boxes, Gives(d, b) PROVE Freshens(c)
  <2>1. CASE c = d
    <3>1. call'[c].pc = "wait"
      BY <1>0, <1>7, <2>1 DEF Gives, CallStates
    <3> QED
      BY <1>7, <2>1, <3>1 DEF Freshens
  <2>2. CASE c # d
    BY <1>0, <1>1, <1>7, <2>2 DEF Gives
  <2> QED
    BY <2>1, <2>2
<1>8. ASSUME NEW d \in Callers, BindCreates(d) \/ Claims(d) PROVE Freshens(c)
  BY <1>5, <1>7, <1>8, Giving DEF Locks
<1>9. ASSUME NEW d \in Callers, call' = [call EXCEPT ![d] = IdleCall] PROVE Freshens(c)
  BY <1>0, <1>1, <1>9
<1>10. ASSUME NEW p \in Procs, Forget(p) PROVE Freshens(c)
  BY <1>1, <1>10 DEF Forget
<1>11. ASSUME UNCHANGED call PROVE Freshens(c)
  BY <1>1, <1>11
<1> QED
  BY <1>3, <1>4, <1>6, <1>8, <1>9, <1>10, <1>11
  DEF Next, Proceeds, Process, SessionDeleted, BindFails, Refused, Built,
      Boot, Serve, Crash, Drain, CloseBegins, Exit, Retain, PoolMakes, PoolDeletes, Pass, Removed,
      SweepLists, SweepTakes, SweepAsks, SweepDeletes, SweepEnds, requests

(* How a process comes to bind a sandbox.                                  *)
LEMMA BoundSteps ==
  ASSUME TypeOK, RequestsOK, Next
  PROVE  \/ \A p \in Procs : bound'[p] \subseteq bound[p]
         \/ \E c \in Callers : Binds(c)
<1>0. bound \in [Procs -> SUBSET Boxes]
  BY DEF TypeOK
<1>1. ASSUME NEW p \in Procs, Forget(p) \/ CloseBegins(p) PROVE \A q \in Procs : bound'[q] \subseteq bound[q]
  BY <1>0, <1>1 DEF Forget, CloseBegins
<1>2. ASSUME NEW c \in Callers, SessionDeleted(c) PROVE \A q \in Procs : bound'[q] \subseteq bound[q]
  BY <1>0, <1>2 DEF SessionDeleted
<1>3. ASSUME UNCHANGED bound PROVE \A q \in Procs : bound'[q] \subseteq bound[q]
  BY <1>3
<1> QED
  BY <1>1, <1>2, <1>3
  DEF Next, Request, Proceeds, Process, StartSession, OpenWorkbench, Resume, DeleteSession,
      BindFinds, Wakes, Claims, BindCreates, BindFails, Built,
      Boot, Crash, Exit, Retain, PoolMakes, PoolDeletes, Pass, Removed, Serve, Drain,
      SweepLists, SweepTakes, SweepAsks, SweepDeletes, SweepEnds, manager

LEMMA BoundStep ==
  ASSUME Alone, IInv, BoundOK, Next
  PROVE  BoundOK'
<1>0. /\ TypeOK /\ RequestsOK /\ Numbers /\ Locked /\ made \in Nat /\ made' \in Nat /\ made' >= made
      /\ \A b \in Boxes : b \in Nat
  BY StoreStep, SizesAssumption DEF IInv, TypeOK, StoreOK, Boxes
<1>1. ASSUME NEW b \in Boxes, b <= made, Exists(b) => box[b].label # Pool
      PROVE  b <= made' /\ (Exists(b)' => Exists(b) /\ box'[b].label = box[b].label)
  <2>1. b <= made'
    BY <1>0, <1>1
  <2> QED
    BY <1>0, <1>1, <2>1, LabelStays DEF Exists
<1>2. ASSUME NEW c \in Callers, Binds(c)
      PROVE  /\ call[c].box \in Boxes /\ call[c].box <= made /\ Exists(call[c].box) /\ call[c].pc \in Locks
             /\ box[call[c].box].label = Key(call[c].s) /\ Key(call[c].s) # Pool
             /\ UNCHANGED <<box, made>> /\ call'[c].pc = "built" /\ call[c].p \in Procs
             /\ \A p \in Procs : bound'[p] \subseteq bound[p] \cup {call[c].box}
  <2>1. call[c].pc = "wait" /\ may(Key(call[c].s), call[c].box) /\ UNCHANGED objects
    BY <1>2 DEF Binds
  <2>2. call[c].box \in Boxes /\ call[c].s \in Sessions /\ call[c].p \in Procs
    BY <1>0, <2>1 DEF TypeOK, CallStates, RequestsOK
  <2>3. ~(call[c].box > made)
    BY <1>0, <2>1, <2>2 DEF Numbers, may, Exists, Gone
  <2>4. call'[c].pc = "built" /\ \A p \in Procs : bound'[p] \subseteq bound[p] \cup {call[c].box}
    BY <1>0, <1>2 DEF Binds, TypeOK, CallStates
  <2>5. call[c].box <= made
    BY <1>0, <2>2, <2>3
  <2> QED
    BY <2>1, <2>2, <2>4, <2>5, KeyIsLabel DEF may, Locks, objects
<1>3. ASSUME NEW p \in Procs PROVE BoundIs(p)'
  <2> SUFFICES ASSUME NEW b \in bound'[p] PROVE b <= made' /\ (Exists(b)' => box'[b].label # Pool)
    BY DEF BoundIs, Exists
  <2>1. CASE b \in bound[p]
    <3>1. b \in Boxes /\ b <= made /\ (Exists(b) => box[b].label # Pool)
      BY <1>0, <2>1 DEF TypeOK, BoundOK, BoundIs
    <3> QED
      BY <1>1, <3>1
  <2>2. CASE b \notin bound[p]
    <3>1. PICK c \in Callers : Binds(c)
      BY <1>0, <2>2, BoundSteps
    <3> QED
      BY <1>2, <2>2, <3>1 DEF Exists
  <2> QED
    BY <2>1, <2>2
<1>4. ASSUME NEW c \in Callers PROVE FreshOK(c)'
  <2>0. Freshens(c) /\ FreshOK(c)
    BY <1>0, FreshSteps DEF BoundOK
  <2>1. call'[c].pc = "bind" => ~call'[c].fresh
    BY <2>0 DEF Freshens, FreshOK
  <2>2. ASSUME Fresh(c)'
        PROVE  /\ call'[c].box \in Boxes /\ call'[c].box <= made'
               /\ box'[call'[c].box].state # "Gone" => box'[call'[c].box].label = Key(call'[c].s)
               /\ \A p \in Procs : call'[c].box \notin bound'[p]
    <3>1. CASE Fresh(c) /\ call'[c].box = call[c].box /\ call'[c].s = call[c].s
      <4>1. PICK b : b = call[c].box
        OBVIOUS
      <4>2. /\ b \in Boxes /\ b <= made /\ (Exists(b) => box[b].label = Key(call[c].s))
            /\ \A p \in Procs : b \notin bound[p]
        BY <2>0, <3>1, <4>1 DEF FreshOK
      <4>3. call[c].p \in Procs /\ Key(call[c].s) # Pool
        BY <1>0, <3>1, KeyIsLabel DEF Fresh, RequestsOK, TypeOK, Locks
      <4>4. b <= made' /\ (Exists(b)' => Exists(b) /\ box'[b].label = box[b].label)
        BY <1>1, <4>2, <4>3
      <4>5. ASSUME NEW d \in Callers, Binds(d), call[d].box = b PROVE FALSE
        <5>1. call[d].pc \in Locks /\ call[d].p \in Procs /\ Key(call[d].s) = Key(call[c].s) /\ call'[d].pc = "built"
          BY <1>2, <4>2, <4>5
        <5>2. d = c
          BY <1>0, <3>1, <4>3, <5>1 DEF Locked, Fresh, Alone
        <5> QED
          BY <2>2, <5>1, <5>2 DEF Fresh, Locks
      <4>6. \A p \in Procs : b \notin bound'[p]
        BY <1>0, <1>2, <4>2, <4>5, BoundSteps
      <4> QED
        BY <3>1, <4>1, <4>2, <4>4, <4>6 DEF Exists
    <3>2. CASE \E b \in Boxes : Gives(c, b)
      <4>1. PICK b \in Boxes : Gives(c, b)
        BY <3>2
      <4>2. call'[c].box = b /\ call'[c].s = call[c].s /\ bound' = bound
        BY <1>0, <4>1 DEF Gives, TypeOK, CallStates, manager
      <4>3. b <= made' /\ box'[b].label = Key(call[c].s)
        <5>1. (b = made + 1 /\ made' = made + 1) \/ (box[b].state = "Ready" /\ made' = made)
          BY <4>1 DEF Gives
        <5>2. box[b].state = "Ready" => ~(b > made)
          BY <1>0 DEF Numbers, Gone
        <5>3. b <= made'
          BY <1>0, <5>1, <5>2
        <5> QED
          BY <4>1, <5>3 DEF Gives
      <4>4. ASSUME NEW p \in Procs, b \in bound[p] PROVE FALSE
        <5>1. b <= made /\ (Exists(b) => box[b].label # Pool)
          BY <4>4 DEF BoundOK, BoundIs
        <5> QED
          BY <1>0, <4>1, <5>1 DEF Gives, Exists
      <4> QED
        BY <4>2, <4>3, <4>4
    <3> QED
      BY <2>0, <2>2, <3>1, <3>2 DEF Freshens, Fresh, FreshOK
  <2> QED
    BY <2>1, <2>2 DEF FreshOK, Fresh, Exists, Key
<1> QED
  BY <1>3, <1>4 DEF BoundOK

(* The steps that mark a sandbox for deletion, and what each has to go by. *)
LEMMA Deletes ==
  ASSUME TypeOK, RequestsOK, Next, NEW b \in Boxes,
         box'[b].state = "Deleting", box[b].state # "Deleting"
  PROVE  \/ \E p \in Procs : proc[p] = "closing"
         \/ box[b].label = Pool
         \/ \E p \in Procs : sweep[p].pc = "delete" /\ sweep[p].box = b /\ Exists(b)
         \/ \E c \in Callers : Fresh(c) /\ call[c].box = b
         \/ \E c \in Callers : call[c].pc = "unbind" /\ box[b].label = call[c].s
<1>0. box \in [Boxes -> BoxRecords]
  BY DEF TypeOK, BoxRecords
<1>1. ASSUME box' = box PROVE FALSE
  BY <1>1
<1>2. ASSUME NEW l, NEW d, Delete(l, d) PROVE d = b /\ Exists(b) /\ box[b].label = l
  <2>1. box' = [box EXCEPT ![d].state = "Deleting"] /\ Exists(d) /\ box[d].label = l
    BY <1>1, <1>2 DEF Delete, may
  <2>2. d = b
    BY <1>0, <2>1
  <2> QED
    BY <2>1, <2>2
<1>3. ASSUME NEW d, NEW to, to # "Deleting", box' = [box EXCEPT ![d].state = to] PROVE FALSE
  BY <1>0, <1>3 DEF BoxRecords
<1>4. ASSUME NEW l, Make(l) PROVE FALSE
  BY <1>0, <1>4 DEF Make
<1>5. ASSUME NEW d \in Boxes, Pass(d) PROVE FALSE
  BY <1>3, <1>5 DEF Pass
<1>6. ASSUME NEW d \in Boxes, Removed(d) PROVE FALSE
  BY <1>0, <1>6 DEF Removed, Gone
<1>7. ASSUME NEW p \in Procs, NEW d \in Boxes, PoolDeletes(p, d) PROVE box[b].label = Pool
  <2>1. Delete(Pool, d)
    BY <1>7 DEF PoolDeletes, Delete
  <2> QED
    BY <1>2, <2>1
<1>8. ASSUME NEW p \in Procs, SweepDeletes(p) PROVE sweep[p].pc = "delete" /\ sweep[p].box = b /\ Exists(b)
  BY <1>2, <1>8 DEF SweepDeletes
<1>9. ASSUME NEW c \in Callers, BindFails(c) PROVE Fresh(c) /\ call[c].box = b
  BY <1>1, <1>2, <1>9 DEF BindFails, Fresh
<1>10. ASSUME NEW c \in Callers, SessionDeleted(c) PROVE call[c].pc = "unbind" /\ box[b].label = call[c].s
  BY <1>1, <1>2, <1>10 DEF SessionDeleted, Key
<1>11. ASSUME NEW c \in Callers, Wakes(c) PROVE FALSE
  BY <1>1, <1>3, <1>11 DEF Wakes
<1>12. ASSUME NEW c \in Callers, Claims(c) PROVE FALSE
  BY <1>0, <1>12 DEF Claims, BoxRecords
<1> QED
  BY <1>1, <1>4, <1>5, <1>6, <1>7, <1>8, <1>9, <1>10, <1>11, <1>12
  DEF Next, Request, Proceeds, Process, StartSession, OpenWorkbench, Resume, DeleteSession,
      BindFinds, BindCreates, Binds, Built, Boot, Serve, Crash, Drain, CloseBegins, Exit, PoolMakes, Retain,
      SweepLists, SweepTakes, SweepAsks, SweepEnds, objects

(* What BoundIsKept says of a step.                                        *)
Kept ==
  \A p \in Procs : \A b \in bound[p] :
    (proc[p] # "closing" /\ box[b].label \in rows \ bench /\ box'[b].state = "Deleting")
    => box[b].state = "Deleting"

(* With one process on the store, a sandbox bound for a session the store  *)
(* has is not deleted under it, a workbench's and a closing server's       *)
(* apart: not by a failed bind, the pool, a sweep or a deleted session.    *)
THEOREM BoundStays == Alone => (Spec => BoundIsKept)
<1> SUFFICES ASSUME Alone PROVE Spec => BoundIsKept
  OBVIOUS
<1>1. Init => BoundOK
  <2> SUFFICES ASSUME Init PROVE BoundOK
    OBVIOUS
  <2>1. \A c \in Callers : call[c].pc = "idle"
    BY IdleIsCall DEF Init
  <2> QED
    BY <2>1 DEF Init, BoundOK, BoundIs, FreshOK, Fresh, Locks
<1>2. IInv /\ BoundOK /\ [Next]_vars => BoundOK'
  <2>1. ASSUME BoundOK, UNCHANGED vars PROVE BoundOK'
    BY <2>1 DEF vars, objects, requests, manager, BoundOK, BoundIs, FreshOK, Fresh, Exists, Key
  <2> QED
    BY <2>1, BoundStep
<1>3. IInv /\ BoundOK /\ [Next]_vars => [Kept]_vars
  <2> SUFFICES ASSUME IInv, BoundOK, Next, NEW p \in Procs, NEW b \in bound[p], proc[p] # "closing",
                      box[b].label \in rows \ bench, box'[b].state = "Deleting", box[b].state # "Deleting"
               PROVE  FALSE
    BY DEF Kept
  <2>1. TypeOK /\ RequestsOK /\ b \in Boxes /\ box[b].label # Pool
    BY NamesAssumption DEF IInv, TypeOK
  <2>2. ASSUME NEW q \in Procs, proc[q] = "closing" PROVE FALSE
    BY <2>2 DEF Alone
  <2>3. ASSUME NEW q \in Procs, sweep[q].pc = "delete", sweep[q].box = b, Exists(b) PROVE FALSE
    BY <2>3 DEF IInv, SweepOK
  <2>4. ASSUME NEW c \in Callers, Fresh(c), call[c].box = b PROVE FALSE
    BY <2>4 DEF BoundOK, FreshOK
  <2>5. ASSUME NEW c \in Callers, call[c].pc = "unbind", box[b].label = call[c].s PROVE FALSE
    BY <2>1, <2>5 DEF RequestsOK
  <2> QED
    BY <2>1, <2>2, <2>3, <2>4, <2>5, Deletes
<1>4. Spec => [][Kept]_vars
  BY <1>1, <1>2, <1>3, IInvHolds, PTL DEF Spec
<1> QED
  BY <1>4 DEF BoundIsKept, Kept
=============================================================================
