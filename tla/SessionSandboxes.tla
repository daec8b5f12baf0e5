-------------------------- MODULE SessionSandboxes --------------------------
(***************************************************************************)
(* The sandboxes of abhed serve's sessions (internal/sessionsandbox/       *)
(* manager.go), as the server uses them: sessions started, opened as a     *)
(* workbench, resumed and deleted (server/server.go, server/download.go),  *)
(* the sweep of a restart, a clean stop with its retention, and a crash.   *)
(* Several server processes may share one store.                           *)
(*                                                                         *)
(* Sandboxes are numbered in the order they are made, so the creation      *)
(* times the code compares are their numbers.  What a pass of the          *)
(* reconciler does is module ControlPlane's; here it only moves the state. *)
(* How the pool is filled and claimed from is module WarmPool's; here a    *)
(* claim takes a Ready member in one step, as WarmPool shows it does.      *)
(***************************************************************************)
EXTENDS Naturals, FiniteSets, Lifecycle

CONSTANTS
  Procs,     \* the server processes on the store
  Callers,   \* goroutines that serve requests
  Sessions,  \* session ids
  User,      \* the user all the sessions belong to
  Pool,      \* LabelPool: the label of an unclaimed pool member
  Scope,     \* "session" or "user": whose sandbox it is
  Retentions, \* of "stop", "delete" and "keep", those it is configured with
  Size,      \* the warm pool's size
  MaxBoxes,  \* bound: sandboxes ever made
  MaxBoots,  \* bound: starts of a process
  MaxCalls   \* bound: requests

ASSUME NamesAssumption ==
  /\ Pool # User /\ Pool \notin Sessions /\ User \notin Sessions
  /\ Scope \in {"session", "user"} /\ Retentions \subseteq {"stop", "delete", "keep"}
ASSUME SizesAssumption ==
  /\ Size \in Nat /\ MaxBoxes \in Nat /\ MaxBoots \in Nat /\ MaxCalls \in Nat
  /\ IsFiniteSet(Procs) /\ IsFiniteSet(Callers) /\ IsFiniteSet(Sessions)

VARIABLES
  box,   \* the store's sandboxes: state, and the label that names whose it is
  made,  \* how many were ever made
  rows,  \* sessions the session store holds
  used,  \* session ids handed out
  bench, \* those opened as a workbench
  call,  \* what each request does
  proc,  \* where each process is in its life
  keeps, \* the retention it closes with
  bound, \* Manager.bound: the sandboxes each process bound; which sessions
         \* are on each now (Release) is kept too, and nothing reads it
  since, \* sandboxes up to this one were made before the process's sweep
  sweep, \* Manager.Sweep
  close, \* Manager.Close
  boots, \* starts of processes so far
  calls  \* requests so far

objects == <<box, made>>
sessions == <<rows, used, bench>>
requests == <<call, calls>>
life == <<proc, keeps, since, boots>>
manager == <<bound, close>>
vars == <<objects, sessions, requests, life, manager, sweep>>

Boxes == 1..MaxBoxes
None == 0

(* Manager.labels: what a session's sandbox is found by.                   *)
Key(s) == IF Scope = "user" THEN User ELSE s
Labels == Sessions \cup {User, Pool}

Gone == [state |-> "Gone", label |-> Pool]
IdleCall == [pc |-> "idle", p |-> None, s |-> None, how |-> "none",
             box |-> None, fresh |-> FALSE]
IdleSweep == [pc |-> "off", todo |-> {}, box |-> None]

Init ==
  /\ box = [b \in Boxes |-> Gone] /\ made = 0
  /\ rows = {} /\ used = {} /\ bench = {}
  /\ call = [c \in Callers |-> IdleCall]
  /\ proc = [p \in Procs |-> "down"]
  /\ keeps = [p \in Procs |-> "keep"]
  /\ bound = [p \in Procs |-> {}]
  /\ since = [p \in Procs |-> 0]
  /\ sweep = [p \in Procs |-> IdleSweep]
  /\ close = [p \in Procs |-> {}]
  /\ boots = 0 /\ calls = 0

(***************************************************************************)
(* The store and the verbs of the control plane, as these callers use them.*)
(***************************************************************************)

Exists(b) == box[b].state # "Gone"
Labelled(l) == {b \in Boxes : Exists(b) /\ box[b].label = l}
Live(l) == {b \in Labelled(l) : box[b].state # "Deleting"}

Make(l) ==
  /\ made < MaxBoxes
  /\ made' = made + 1
  /\ box' = [box EXCEPT ![made + 1] = [state |-> "Provisioning", label |-> l]]

(* Caller.may for a caller confined to label l, asked again on the object  *)
(* that Mutate is about to write.                                          *)
may(l, b) == Exists(b) /\ box[b].label = l

(* Service.Delete by that caller.  One that may not act finds nothing, and *)
(* a delete the store, the guard or the record refuses changes nothing.    *)
(* How long DeleteNow then waits is a matter of the caller's timeout.      *)
Delete(l, b) ==
  \/ /\ may(l, b)
     /\ box' = [box EXCEPT ![b].state = "Deleting"]
  \/ UNCHANGED box

(* A pass of the reconciler over b, an instance that ends by itself, and   *)
(* the restart policy: Completed is to these callers what Error is.        *)
Pass(b) ==
  /\ \E to \in {"Ready", "Error", "Stopped", "Starting"} :
       /\ box[b].state \in {"Provisioning", "Starting", "Stopping", "Ready", "Error"}
       /\ CanTransition(box[b].state, to)
       /\ box' = [box EXCEPT ![b].state = to]
  /\ UNCHANGED <<made, sweep, sessions, life, manager, requests>>

Removed(b) ==
  /\ box[b].state = "Deleting"
  /\ box' = [box EXCEPT ![b] = Gone]
  /\ UNCHANGED <<made, sweep, sessions, life, manager, requests>>

(***************************************************************************)
(* The life of a process.                                                  *)
(***************************************************************************)

(* serve runs the warm pool before it listens ...                          *)
Boot(p) ==
  /\ proc[p] = "down" /\ boots < MaxBoots
  /\ boots' = boots + 1
  /\ proc' = [proc EXCEPT ![p] = "boot"]
  /\ UNCHANGED <<since, sweep, keeps, objects, sessions, manager, requests>>

(* ... notes the time, starts the sweep and then opens its listener.       *)
Serve(p) ==
  /\ proc[p] = "boot"
  /\ proc' = [proc EXCEPT ![p] = "up"]
  /\ since' = [since EXCEPT ![p] = made]
  /\ sweep' = [sweep EXCEPT ![p].pc = "list"]
  /\ UNCHANGED <<boots, keeps, objects, sessions, manager, requests>>

(* Nothing of a process's memory outlives it.                              *)
Forget(p) ==
  /\ proc' = [proc EXCEPT ![p] = "down"]
  /\ call' = [c \in Callers |-> IF call[c].p = p THEN IdleCall ELSE call[c]]
  /\ bound' = [bound EXCEPT ![p] = {}]
  /\ sweep' = [sweep EXCEPT ![p] = IdleSweep]
  /\ close' = [close EXCEPT ![p] = {}]
  /\ since' = [since EXCEPT ![p] = 0]
  /\ keeps' = [keeps EXCEPT ![p] = "keep"]

Crash(p) ==
  /\ proc[p] # "down"
  /\ Forget(p)
  /\ UNCHANGED <<boots, calls, objects, sessions>>

(* A clean stop drains the server and ends the pool's Run.  A request that *)
(* outlasts the ten seconds Shutdown waits runs on beside Close.           *)
Drain(p) ==
  /\ proc[p] = "up"
  /\ proc' = [proc EXCEPT ![p] = "draining"]
  /\ sweep' = [sweep EXCEPT ![p] = IdleSweep]
  /\ UNCHANGED <<since, boots, keeps, objects, sessions, manager, requests>>

(* Manager.Close, once Run has returned, is the first to ask which         *)
(* retention the process is configured with: every bound sandbox ...       *)
CloseBegins(p) ==
  /\ proc[p] = "draining"
  /\ proc' = [proc EXCEPT ![p] = "closing"]
  /\ close' = [close EXCEPT ![p] = bound[p]]
  /\ bound' = [bound EXCEPT ![p] = {}]
  /\ \E r \in Retentions : keeps' = [keeps EXCEPT ![p] = r]
  /\ UNCHANGED <<since, sweep, boots, objects, sessions, requests>>

(* ... gets its retention under its own labels ...                         *)
Retain(p, b) ==
  /\ proc[p] = "closing" /\ b \in close[p]
  /\ \/ /\ keeps[p] = "stop" /\ box[b].state = "Ready"
        /\ box' = [box EXCEPT ![b].state = "Stopping"]
     \/ keeps[p] = "delete" /\ Delete(box[b].label, b)
     \/ UNCHANGED box
  /\ close' = [close EXCEPT ![p] = @ \ {b}]
  /\ UNCHANGED <<made, bound, sweep, sessions, life, requests>>

(* ... and, the pool drained, the process ends.                            *)
Exit(p) ==
  /\ proc[p] = "closing" /\ close[p] = {}
  /\ Forget(p)
  /\ UNCHANGED <<boots, calls, objects, sessions>>

(* The pool of a process gains a member, by a fill, or loses one, by a     *)
(* fill or a drain.                                                        *)
PoolMakes(p) ==
  /\ proc[p] \in {"boot", "up"} /\ Cardinality(Live(Pool)) < Size
  /\ Make(Pool)
  /\ UNCHANGED <<sweep, sessions, life, manager, requests>>

PoolDeletes(p, b) ==
  /\ proc[p] # "down" /\ may(Pool, b) /\ box[b].state # "Deleting"
  /\ box' = [box EXCEPT ![b].state = "Deleting"]
  /\ UNCHANGED <<made, sweep, sessions, life, manager, requests>>

(***************************************************************************)
(* Requests.                                                               *)
(***************************************************************************)

Begin(c, p, s, how, pc) ==
  /\ proc[p] = "up" /\ call[c].pc = "idle" /\ calls < MaxCalls
  /\ calls' = calls + 1
  /\ call' = [call EXCEPT ![c] = [IdleCall EXCEPT !.pc = pc, !.p = p, !.s = s, !.how = how]]

(* A new session: its row is written before it is built ...                *)
StartSession(c, p, s) ==
  /\ s \notin used
  /\ Begin(c, p, s, "chat", "bind")
  /\ used' = used \cup {s} /\ rows' = rows \cup {s}
  /\ UNCHANGED <<sweep, bench, objects, life, manager>>

(* ... but a workbench is built before its row is written.                 *)
OpenWorkbench(c, p, s) ==
  /\ s \notin used
  /\ Begin(c, p, s, "workbench", "bind")
  /\ used' = used \cup {s} /\ bench' = bench \cup {s}
  /\ UNCHANGED <<rows, sweep, objects, life, manager>>

(* A session is resumed, by one or looked at by several, once its row says *)
(* its last run ended.                                                     *)
Resume(c, p, s) ==
  /\ s \in rows /\ ~ \E d \in Callers : call[d].s = s /\ call[d].how \in {"chat", "workbench"}
  /\ Begin(c, p, s, "resume", "bind")
  /\ UNCHANGED <<sweep, objects, sessions, life, manager>>

(* A refused build takes a new session's row with it.                      *)
Refused(c) ==
  /\ call' = [call EXCEPT ![c] = IdleCall]
  /\ rows' = IF call[c].how = "chat" THEN rows \ {call[c].s} ELSE rows

Locks == {"wake", "claim", "create", "wait"}

(* Mutant: binds of one key are not serialised.                            *)
lockNobody(c) == TRUE

(* Manager.lock: nobody in the process holds the key's lock.               *)
lock(c) ==
  \A d \in Callers \ {c} :
    ~ (call[d].p = call[c].p /\ Key(call[d].s) = Key(call[c].s) /\ call[d].pc \in Locks)

(* Manager.find: the oldest sandbox the key names that is not Deleting.    *)
find(s) == CHOOSE b \in Live(Key(s)) : \A d \in Live(Key(s)) : b <= d

(* Mutant: that nothing was found is not told from a sandbox found.        *)
BindFindsNone(c) ==
  LET s == call[c].s IN
  /\ call[c].pc = "bind" /\ lock(c)
  /\ call' = [call EXCEPT ![c] =
       IF Live(Key(s)) # {} THEN [@ EXCEPT !.pc = "wake", !.box = find(s)]
       ELSE [@ EXCEPT !.pc = "wake"]]
  /\ UNCHANGED <<sweep, calls, objects, sessions, life, manager>>

(* Bind finds the session's sandbox, or turns to the pool or a create.     *)
BindFinds(c) ==
  LET s == call[c].s IN
  /\ call[c].pc = "bind" /\ lock(c)
  /\ call' = [call EXCEPT ![c] =
       IF Live(Key(s)) # {} THEN [@ EXCEPT !.pc = "wake", !.box = find(s)]
       ELSE [@ EXCEPT !.pc = IF Size > 0 THEN "claim" ELSE "create"]]
  /\ UNCHANGED <<sweep, calls, objects, sessions, life, manager>>

(* Manager.wake starts one at rest again; one Stopping is waited for, and  *)
(* one that changed since it was read, so that Start is refused, fails.    *)
Wakes(c) ==
  LET b == call[c].box IN
  /\ call[c].pc = "wake" /\ box[b].state # "Stopping"
  /\ may(Key(call[c].s), b)
  /\ box' = IF CanTransition(box[b].state, "Starting")
              THEN [box EXCEPT ![b].state = "Starting"] ELSE box
  /\ call' = [call EXCEPT ![c].pc = "wait"]
  /\ UNCHANGED <<made, sweep, calls, sessions, life, manager>>

(* Pool.Claim takes one Ready member, the listing aside; with none, a      *)
(* sandbox is to be made.                                                  *)
Claims(c) ==
  LET ready == {b \in Live(Pool) : box[b].state = "Ready"} IN
  /\ call[c].pc = "claim"
  /\ \/ \E b \in ready :
          /\ box' = [box EXCEPT ![b].label = Key(call[c].s)]
          /\ call' = [call EXCEPT ![c] = [@ EXCEPT !.pc = "wait", !.box = b, !.fresh = TRUE]]
     \/ /\ ready = {}
        /\ call' = [call EXCEPT ![c].pc = "create"]
        /\ UNCHANGED box
  /\ UNCHANGED <<made, sweep, calls, sessions, life, manager>>

BindCreates(c) ==
  /\ call[c].pc = "create"
  /\ Make(Key(call[c].s))
  /\ call' = [call EXCEPT ![c].pc = "wait", ![c].box = made + 1, ![c].fresh = TRUE]
  /\ UNCHANGED <<sweep, calls, sessions, life, manager>>

(* WaitReady found it Ready: the process has bound it.                     *)
Binds(c) ==
  LET b == call[c].box  p == call[c].p IN
  /\ call[c].pc = "wait" /\ may(Key(call[c].s), b) /\ box[b].state = "Ready"
  /\ bound' = [bound EXCEPT ![p] = @ \cup {b}]
  /\ call' = [call EXCEPT ![c].pc = "built"]
  /\ UNCHANGED <<sweep, close, calls, objects, sessions, life>>

(* Mutant: a sandbox it found, and did not make, is dropped too.           *)
BindFailsDrops(c) ==
  /\ call[c].pc \in Locks
  /\ IF call[c].box # None THEN Delete(Key(call[c].s), call[c].box) ELSE UNCHANGED box
  /\ Refused(c)
  /\ UNCHANGED <<made, used, sweep, calls, bench, life, manager>>

(* Any step of Bind may fail, on the store, a guard, a sandbox that went   *)
(* elsewhere or the time it has; what it made for the session it drops.    *)
BindFails(c) ==
  /\ call[c].pc \in Locks
  /\ IF call[c].fresh THEN Delete(Key(call[c].s), call[c].box) ELSE UNCHANGED box
  /\ Refused(c)
  /\ UNCHANGED <<made, used, sweep, calls, bench, life, manager>>

(* The session is in place: a workbench's row is written now.  A server    *)
(* that is draining, or a record that cannot be written, refuses it still, *)
(* and leaves its sandbox bound.                                           *)
Built(c) ==
  /\ call[c].pc = "built"
  /\ \/ /\ proc[call[c].p] = "up"
        /\ call' = [call EXCEPT ![c] = IdleCall]
        /\ rows' = IF call[c].how = "workbench" THEN rows \cup {call[c].s} ELSE rows
     \/ Refused(c)
  /\ UNCHANGED <<used, sweep, calls, bench, objects, life, manager>>

(* Deleting a session removes its row ...                                  *)
DeleteSession(c, p, s) ==
  /\ s \in rows
  /\ Begin(c, p, s, "delete", "unbind")
  /\ rows' = rows \ {s}
  /\ UNCHANGED <<used, sweep, bench, objects, life, manager>>

(* ... and then, unless it is its user's, its sandbox.                     *)
SessionDeleted(c) ==
  LET s == call[c].s IN
  /\ call[c].pc = "unbind" /\ lock(c)
  /\ IF Scope = "session" /\ Live(Key(s)) # {}
       THEN /\ bound' = [bound EXCEPT ![call[c].p] = @ \ {find(s)}]
            /\ Delete(Key(s), find(s))
       ELSE UNCHANGED <<box, bound>>
  /\ call' = [call EXCEPT ![c] = IdleCall]
  /\ UNCHANGED <<made, sweep, close, calls, sessions, life>>

(***************************************************************************)
(* Manager.Sweep.                                                          *)
(***************************************************************************)

SweepLists(p) ==
  /\ sweep[p].pc = "list"
  /\ sweep' = [sweep EXCEPT ![p] = [pc |-> "next", box |-> None,
       todo |-> {b \in Boxes : Exists(b) /\ box[b].label \in Sessions}]]
  /\ UNCHANGED <<objects, sessions, life, manager, requests>>

(* One bound here, or made since the sweep began, is left alone ...        *)
SweepTakes(p, b) ==
  /\ sweep[p].pc = "next" /\ b \in sweep[p].todo
  /\ sweep' = [sweep EXCEPT ![p] =
       IF b \in bound[p] \/ b > since[p] THEN [sweep[p] EXCEPT !.todo = sweep[p].todo \ {b}]
       ELSE [pc |-> "alive", box |-> b, todo |-> sweep[p].todo \ {b}]]
  /\ UNCHANGED <<objects, sessions, life, manager, requests>>

(* Mutant: a store that cannot say is taken to have no such session.       *)
SweepAsksOnce(p) ==
  /\ sweep[p].pc = "alive"
  /\ \/ sweep' = [sweep EXCEPT ![p].pc = "delete"]
     \/ sweep' = [sweep EXCEPT ![p].pc = "next", ![p].box = None]
  /\ UNCHANGED <<objects, sessions, life, manager, requests>>

(* ... as is one whose session the store has, or cannot say; ...           *)
SweepAsks(p) ==
  /\ sweep[p].pc = "alive"
  /\ \/ /\ box[sweep[p].box].label \notin rows
        /\ sweep' = [sweep EXCEPT ![p].pc = "delete"]
     \/ sweep' = [sweep EXCEPT ![p].pc = "next", ![p].box = None]
  /\ UNCHANGED <<objects, sessions, life, manager, requests>>

(* ... any other is deleted.                                               *)
SweepDeletes(p) ==
  /\ sweep[p].pc = "delete"
  /\ Delete(box[sweep[p].box].label, sweep[p].box)
  /\ sweep' = [sweep EXCEPT ![p].pc = "next", ![p].box = None]
  /\ UNCHANGED <<made, sessions, life, manager, requests>>

SweepEnds(p) ==
  /\ sweep[p].pc = "next" /\ sweep[p].todo = {}
  /\ sweep' = [sweep EXCEPT ![p] = IdleSweep]
  /\ UNCHANGED <<objects, sessions, life, manager, requests>>

-----------------------------------------------------------------------------

Request(c, p, s) ==
  \/ StartSession(c, p, s) \/ OpenWorkbench(c, p, s)
  \/ Resume(c, p, s) \/ DeleteSession(c, p, s)

Proceeds(c) ==
  \/ BindFinds(c) \/ SessionDeleted(c) \/ Wakes(c) \/ Claims(c) \/ BindCreates(c) \/ Binds(c) \/ BindFails(c) \/ Built(c)

Process(p) ==
  \/ Boot(p) \/ Serve(p) \/ Crash(p) \/ Drain(p) \/ CloseBegins(p)
  \/ Exit(p) \/ PoolMakes(p)
  \/ SweepLists(p) \/ SweepAsks(p) \/ SweepDeletes(p) \/ SweepEnds(p)
  \/ \E b \in Boxes : Retain(p, b) \/ PoolDeletes(p, b) \/ SweepTakes(p, b)

Next ==
  \/ \E c \in Callers :
       \/ \E p \in Procs, s \in Sessions : Request(c, p, s)
       \/ Proceeds(c)
  \/ \E p \in Procs : Process(p)
  \/ \E b \in Boxes : Pass(b) \/ Removed(b)

Spec == Init /\ [][Next]_vars

-----------------------------------------------------------------------------

CallStates == [pc : {"idle", "bind", "built", "unbind"} \cup Locks,
               p : Procs \cup {None}, s : Sessions \cup {None},
               how : {"none", "chat", "workbench", "resume", "delete"},
               box : Boxes \cup {None}, fresh : BOOLEAN]

(* Every variable has its type.                                            *)
TypeOK ==
  /\ box \in [Boxes -> [state : States \cup {"Gone"}, label : Labels]]
  /\ made \in 0..MaxBoxes
  /\ rows \subseteq Sessions /\ used \subseteq Sessions /\ bench \subseteq used
  /\ call \in [Callers -> CallStates]
  /\ \A c \in Callers : call[c].pc \in {"wake", "wait", "built"} => call[c].box # None
  /\ proc \in [Procs -> {"down", "boot", "up", "draining", "closing"}]
  /\ keeps \in [Procs -> {"stop", "delete", "keep"}]
  /\ bound \in [Procs -> SUBSET Boxes]
  /\ since \in [Procs -> 0..MaxBoxes]
  /\ sweep \in [Procs -> [pc : {"off", "list", "next", "alive", "delete"},
                          todo : SUBSET Boxes, box : Boxes \cup {None}]]
  /\ close \in [Procs -> SUBSET Boxes]
  /\ boots \in 0..MaxBoots /\ calls \in 0..MaxCalls

(* A sandbox a process bound for a session the store has is never deleted  *)
(* under it: not by the drop of another request's failed bind, a fill, nor *)
(* a sweep that looked before it was bound.  A workbench, whose row comes  *)
(* last, is StartingIsSpared's.  It holds for one process on the store: of *)
(* two, the other may close, or have a bind of a sandbox it made fail.     *)
BoundIsKept ==
  [][\A p \in Procs : \A b \in bound[p] :
       (proc[p] # "closing" /\ box[b].label \in rows \ bench /\ box'[b].state = "Deleting")
       => box[b].state = "Deleting"]_vars

(* One process gives a key one sandbox however its requests interleave,    *)
(* crashes included; only a race between processes makes another (find:    *)
(* "the oldest when a race made two").                                     *)
OnePerKey ==
  \A k \in Labels \ {Pool} : Cardinality(Live(k)) <= Cardinality(Procs)

(* The sweep spares every session the store has, though it asked the store *)
(* earlier, but for a workbench, whose row is written last.                *)
SweepSparesSessions ==
  [][\A p \in Procs : (SweepDeletes(p) /\ box' # box)
       => box[sweep[p].box].label \notin rows \ bench]_vars

(* Manager.Sweep: "a session being started is never swept".                *)
StartingIsSpared ==
  [][\A p \in Procs : (SweepDeletes(p) /\ box' # box)
       => \A c \in Callers : call[c].box = sweep[p].box => call[c].pc \notin {"wait", "built"}]_vars
=============================================================================
