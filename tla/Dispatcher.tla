----------------------------- MODULE Dispatcher -----------------------------
(***************************************************************************)
(* How passes over sandboxes are asked for and run (controlplane/          *)
(* reconcile.go): the kick queue, Run's loop, the goroutine each           *)
(* dispatched sandbox gets, the slots that bound them, the passes waiting  *)
(* callers make themselves (Reconcile), and the holds of a restore         *)
(* (holdPass, unhold).                                                     *)
(*                                                                         *)
(* What a pass does is module ControlPlane's.  Here it reads the sandbox   *)
(* once, when it begins: dirty holds the sandboxes changed since a pass    *)
(* last read them, so it is what a lost wake-up would leave behind.        *)
(***************************************************************************)
EXTENDS Naturals, Sequences, FiniteSets

CONSTANTS
  Ids,      \* the sandboxes, none of them Stopped
  Callers,  \* goroutines that serve requests
  Slots,    \* cap(slots): 8 in New
  QueueCap, \* cap(kicks): 256 in New
  MaxAsks,  \* bound: changes and restores
  NoId      \* not a sandbox

ASSUME IdsAssumption == IsFiniteSet(Ids) /\ NoId \notin Ids
ASSUME CapsAssumption == Slots \in Nat \ {0} /\ QueueCap \in Nat \ {0} /\ MaxAsks \in Nat

VARIABLES
  kicks,    \* the queue of ids to look at soon
  inflight, \* ids whose pass runs or is held off
  again,    \* ids asked for while in flight
  gor,      \* the goroutine dispatch started for each id
  slots,    \* slots taken
  loop,     \* where Run's loop is
  sweep,    \* ids all has listed and not dispatched yet
  ended,    \* Run's context has ended
  callers,  \* what each caller does
  dirty,    \* ids changed since a pass read them
  dropped,  \* ids with a kick that found the queue full since then
  asks

vars == <<kicks, inflight, again, gor, slots, loop, sweep, ended, callers,
          dirty, dropped, asks>>

(* A caller has changed id and is about to kick it, makes a pass over it,  *)
(* holds its passes off, or has ended either and is about to kick.         *)
CallerStates == [pc : {"idle", "changed", "pass", "hold", "kick"}, id : Ids \cup {NoId}]

Idle == [pc |-> "idle", id |-> NoId]

Init ==
  /\ kicks = <<>> /\ inflight = {} /\ again = {}
  /\ gor = [i \in Ids |-> "none"] /\ slots = 0
  /\ loop = "off" /\ sweep = {} /\ ended = FALSE
  /\ callers = [c \in Callers |-> Idle]
  /\ dirty = {} /\ dropped = {} /\ asks = 0

(* Kick never blocks: a full queue drops it.                               *)
Kick(i) ==
  IF Len(kicks) < QueueCap
    THEN kicks' = Append(kicks, i) /\ UNCHANGED dropped
    ELSE dropped' = dropped \cup {i} /\ UNCHANGED kicks

(* A pass over i reads it.                                                 *)
Reads(i) == dirty' = dirty \ {i} /\ dropped' = dropped \ {i}

(***************************************************************************)
(* Callers.                                                                *)
(***************************************************************************)

(* A verb writes the object ...                                            *)
Change(c, i) ==
  /\ callers[c].pc = "idle" /\ asks < MaxAsks
  /\ asks' = asks + 1
  /\ dirty' = dirty \cup {i}
  /\ callers' = [callers EXCEPT ![c] = [pc |-> "changed", id |-> i]]
  /\ UNCHANGED <<kicks, inflight, again, gor, slots, loop, sweep, ended, dropped>>

(* ... and then kicks, as does the end of a hold.                          *)
CallerKicks(c) ==
  /\ callers[c].pc \in {"changed", "kick"}
  /\ Kick(callers[c].id)
  /\ callers' = [callers EXCEPT ![c] = Idle]
  /\ UNCHANGED <<inflight, again, gor, slots, loop, sweep, ended, dirty, asks>>

(* Mutant: the in-flight mark is not looked at.                            *)
ReconcileAnyway(c, i) ==
  /\ callers[c].pc = "idle"
  /\ inflight' = inflight \cup {i}
  /\ callers' = [callers EXCEPT ![c] = [pc |-> "pass", id |-> i]]
  /\ Reads(i)
  /\ UNCHANGED <<kicks, again, gor, slots, loop, sweep, ended, asks>>

(* Reconcile: one pass now, unless one is in flight.                       *)
Reconcile(c, i) ==
  /\ callers[c].pc = "idle" /\ i \notin inflight
  /\ inflight' = inflight \cup {i}
  /\ callers' = [callers EXCEPT ![c] = [pc |-> "pass", id |-> i]]
  /\ Reads(i)
  /\ UNCHANGED <<kicks, again, gor, slots, loop, sweep, ended, asks>>

(* holdPass, by a restore: no pass runs, and none starts until the hold    *)
(* ends.  What the restore writes meanwhile no pass has read.              *)
holdPass(c, i) ==
  /\ callers[c].pc = "idle" /\ asks < MaxAsks /\ i \notin inflight
  /\ asks' = asks + 1
  /\ dirty' = dirty \cup {i}
  /\ inflight' = inflight \cup {i}
  /\ callers' = [callers EXCEPT ![c] = [pc |-> "hold", id |-> i]]
  /\ UNCHANGED <<kicks, again, gor, slots, loop, sweep, ended, dropped>>

(* Mutant: a kick that arrived meanwhile is forgotten.                     *)
unholdForgets(c) ==
  /\ callers[c].pc \in {"pass", "hold"}
  /\ inflight' = inflight \ {callers[c].id}
  /\ again' = again \ {callers[c].id}
  /\ callers' = [callers EXCEPT ![c] = IF callers[c].pc = "hold" THEN [@ EXCEPT !.pc = "kick"] ELSE Idle]
  /\ UNCHANGED <<kicks, gor, slots, loop, sweep, ended, dirty, dropped, asks>>

(* Mutant: the mark of the sandbox is left.                                *)
unholdKeepsMark(c) ==
  /\ callers[c].pc \in {"pass", "hold"}
  /\ again' = again \ {callers[c].id}
  /\ callers' = [callers EXCEPT ![c] = Idle]
  /\ UNCHANGED <<kicks, inflight, gor, slots, loop, sweep, ended, dirty, dropped, asks>>

(* unhold: the marks go, and a kick follows, if one came meanwhile or a    *)
(* hold ends.                                                              *)
unhold(c) ==
  /\ callers[c].pc \in {"pass", "hold"}
  /\ inflight' = inflight \ {callers[c].id}
  /\ again' = again \ {callers[c].id}
  /\ callers' = [callers EXCEPT ![c] =
                   IF callers[c].id \in again \/ callers[c].pc = "hold"
                   THEN [pc |-> "kick", id |-> callers[c].id] ELSE Idle]
  /\ UNCHANGED <<kicks, gor, slots, loop, sweep, ended, dirty, dropped, asks>>

(***************************************************************************)
(* Run.                                                                    *)
(***************************************************************************)

(* dispatch: a goroutine of its own for i, or one more pass of the one     *)
(* that runs.                                                              *)
dispatch(i) ==
  IF i \in inflight
    THEN again' = again \cup {i} /\ UNCHANGED <<inflight, gor>>
    ELSE /\ inflight' = inflight \cup {i}
         /\ gor' = [gor EXCEPT ![i] = "wait"]
         /\ UNCHANGED again

(* Run begins with a sweep over every sandbox.                             *)
RunBegins ==
  /\ loop = "off" /\ ~ended
  /\ loop' = "sweep" /\ sweep' = Ids
  /\ UNCHANGED <<kicks, inflight, again, gor, slots, ended, callers, dirty, dropped, asks>>

SweepNext ==
  /\ loop = "sweep"
  /\ \E i \in sweep : dispatch(i) /\ sweep' = sweep \ {i}
  /\ UNCHANGED <<kicks, slots, loop, ended, callers, dirty, dropped, asks>>

SweepEnds ==
  /\ loop = "sweep" /\ sweep = {}
  /\ loop' = "select"
  /\ UNCHANGED <<kicks, inflight, again, gor, slots, sweep, ended, callers, dirty, dropped, asks>>

TakeKick ==
  /\ loop = "select" /\ kicks # <<>>
  /\ dispatch(Head(kicks)) /\ kicks' = Tail(kicks)
  /\ UNCHANGED <<slots, loop, sweep, ended, callers, dirty, dropped, asks>>

Tick ==
  /\ loop = "select"
  /\ loop' = "sweep" /\ sweep' = Ids
  /\ UNCHANGED <<kicks, inflight, again, gor, slots, ended, callers, dirty, dropped, asks>>

(* The server shuts down.                                                  *)
ContextEnds ==
  /\ ~ended /\ ended' = TRUE
  /\ UNCHANGED <<kicks, inflight, again, gor, slots, loop, sweep, callers, dirty, dropped, asks>>

LoopEnds ==
  /\ loop = "select" /\ ended
  /\ loop' = "draining"
  /\ UNCHANGED <<kicks, inflight, again, gor, slots, sweep, ended, callers, dirty, dropped, asks>>

(* work.Wait returns: the goroutines have ended, and Run with them.        *)
RunReturns ==
  /\ loop = "draining" /\ \A i \in Ids : gor[i] = "none"
  /\ loop' = "returned"
  /\ UNCHANGED <<kicks, inflight, again, gor, slots, sweep, ended, callers, dirty, dropped, asks>>

(***************************************************************************)
(* A dispatched goroutine.                                                 *)
(***************************************************************************)

(* A slot is free: the pass begins.                                        *)
GetSlot(i) ==
  /\ gor[i] = "wait" /\ slots < Slots
  /\ slots' = slots + 1
  /\ gor' = [gor EXCEPT ![i] = "pass"]
  /\ Reads(i)
  /\ UNCHANGED <<kicks, inflight, again, loop, sweep, ended, callers, asks>>

(* Mutant: a slot it never had is given back.                              *)
ForgetFrees(i) ==
  /\ gor[i] = "wait" /\ ended
  /\ gor' = [gor EXCEPT ![i] = "none"]
  /\ inflight' = inflight \ {i} /\ again' = again \ {i}
  /\ slots' = slots - 1
  /\ UNCHANGED <<kicks, loop, sweep, ended, callers, dirty, dropped, asks>>

(* forget: the context ended first.                                        *)
forget(i) ==
  /\ gor[i] = "wait" /\ ended
  /\ gor' = [gor EXCEPT ![i] = "none"]
  /\ inflight' = inflight \ {i} /\ again' = again \ {i}
  /\ UNCHANGED <<kicks, slots, loop, sweep, ended, callers, dirty, dropped, asks>>

(* The pass has returned and its slot is given back.                       *)
FreeSlot(i) ==
  /\ gor[i] = "pass"
  /\ slots' = slots - 1
  /\ gor' = [gor EXCEPT ![i] = "leave"]
  /\ UNCHANGED <<kicks, inflight, again, loop, sweep, ended, callers, dirty, dropped, asks>>

(* Mutant: the goroutine goes on unless another pass was asked for.        *)
doneSwapped(i) ==
  /\ gor[i] = "leave"
  /\ IF i \notin again
       THEN again' = again \ {i} /\ gor' = [gor EXCEPT ![i] = "wait"] /\ UNCHANGED inflight
       ELSE inflight' = inflight \ {i} /\ gor' = [gor EXCEPT ![i] = "none"] /\ UNCHANGED again
  /\ UNCHANGED <<kicks, slots, loop, sweep, ended, callers, dirty, dropped, asks>>

(* done: another pass if one was asked for meanwhile, or the mark goes.    *)
done(i) ==
  /\ gor[i] = "leave"
  /\ IF i \in again
       THEN again' = again \ {i} /\ gor' = [gor EXCEPT ![i] = "wait"] /\ UNCHANGED inflight
       ELSE inflight' = inflight \ {i} /\ gor' = [gor EXCEPT ![i] = "none"] /\ UNCHANGED again
  /\ UNCHANGED <<kicks, slots, loop, sweep, ended, callers, dirty, dropped, asks>>

CallerStep(c) ==
  \/ \E i \in Ids : Change(c, i) \/ Reconcile(c, i) \/ holdPass(c, i)
  \/ CallerKicks(c) \/ unhold(c)

LoopStep ==
  RunBegins \/ SweepNext \/ SweepEnds \/ TakeKick \/ Tick \/ LoopEnds \/ RunReturns

GoroutineStep(i) == GetSlot(i) \/ forget(i) \/ FreeSlot(i) \/ done(i)

Next ==
  \/ \E c \in Callers : CallerStep(c)
  \/ LoopStep \/ ContextEnds
  \/ \E i \in Ids : GoroutineStep(i)

Spec == Init /\ [][Next]_vars

(* Goroutines run and passes, holds and calls end.  Run's select does not  *)
(* pass over an ended context for ever, choosing among its ready cases at  *)
(* random, and a goroutine waiting for a slot gets one of those that keep  *)
(* coming free: the channel queues its waiters.  Nothing is assumed of the *)
(* queue: the ticker alone is enough.                                      *)
Fairness ==
  /\ WF_vars(RunBegins) /\ WF_vars(SweepNext) /\ WF_vars(SweepEnds) /\ WF_vars(RunReturns)
  /\ WF_vars(Tick) /\ SF_vars(LoopEnds)
  /\ \A i \in Ids : WF_vars(FreeSlot(i)) /\ WF_vars(done(i)) /\ SF_vars(GetSlot(i) \/ forget(i))
  /\ \A c \in Callers : WF_vars(CallerKicks(c) \/ unhold(c))

FairSpec == Spec /\ Fairness

(***************************************************************************)
(* Properties.                                                             *)
(***************************************************************************)

(* Every variable has its type.                                            *)
TypeOK ==
  /\ kicks \in Seq(Ids) /\ inflight \subseteq Ids /\ again \subseteq Ids
  /\ gor \in [Ids -> {"none", "wait", "pass", "leave"}]
  /\ slots \in Nat
  /\ loop \in {"off", "sweep", "select", "draining", "returned"}
  /\ sweep \subseteq Ids /\ ended \in BOOLEAN
  /\ callers \in [Callers -> CallerStates]
  /\ dirty \subseteq Ids /\ dropped \subseteq Ids /\ asks \in Nat

Holds(c, i) == callers[c].pc \in {"pass", "hold"} /\ callers[c].id = i

(* "At most one per id" (dispatch): a sandbox has at most one of a         *)
(* dispatched pass, a caller's pass and a hold.                            *)
OnePassPerSandbox ==
  /\ \A i \in Ids, c \in Callers : gor[i] # "none" => ~Holds(c, i)
  /\ \A i \in Ids, c, d \in Callers : Holds(c, i) /\ Holds(d, i) => c = d

(* A sandbox marked in flight has someone who will clear the mark, so it   *)
(* is never left out of every later pass; and another pass is only noted   *)
(* where someone will see the note.                                        *)
NoOrphanMark ==
  /\ \A i \in inflight : gor[i] # "none" \/ \E c \in Callers : Holds(c, i)
  /\ again \subseteq inflight

(* "A bounded number at once" (dispatch).                                  *)
SlotBound == Cardinality({i \in Ids : gor[i] = "pass"}) <= Slots

(* A pass over i is certain to come: it is queued, noted, waiting for a    *)
(* slot, or about to be kicked for.                                        *)
Coming(i) ==
  \/ \E k \in 1..Len(kicks) : kicks[k] = i
  \/ i \in again \/ gor[i] = "wait"
  \/ \E c \in Callers : callers[c].id = i /\ callers[c].pc \in {"changed", "hold", "kick"}

(* No wake-up is lost: until the server shuts down, a sandbox changed      *)
(* since a pass read it has another coming, unless its kick found the      *)
(* queue full, when the periodic sweep finds it (Kick).                    *)
NoLostWakeup == \A i \in dirty : ended \/ Coming(i) \/ i \in dropped

(* "When the queue is full the periodic pass finds the sandbox instead"    *)
(* (Kick): a change is always seen by some later pass, while Run runs.     *)
EveryChangeSeen == \A i \in Ids : (i \in dirty /\ ~ended) ~> (i \notin dirty \/ ended)

(* Run returns once its context has ended, "after the passes it started    *)
(* have finished".                                                         *)
RunEnds == ended /\ loop # "off" ~> loop = "returned"
=============================================================================
