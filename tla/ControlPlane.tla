---------------------------- MODULE ControlPlane ----------------------------
(***************************************************************************)
(* One sandbox of the control plane: the stored object, the clients' verbs *)
(* on it (controlplane/service.go, verbs.go), the reconciler's passes over *)
(* it (controlplane/reconcile.go) and its instance in the process driver   *)
(* (driver/process/process.go).                                            *)
(*                                                                         *)
(* A verb reads the object, is recorded and admitted, and then changes     *)
(* the object through Mutate; a pass reads the object, calls the driver,   *)
(* and writes what it learned if the object is still in the state and      *)
(* generation it read.  Both are several steps here, so a verb and a pass  *)
(* interleave wherever the code lets them.  Mutate itself (read, change,   *)
(* compare and swap, again on a lost race) is one step: module Mutate      *)
(* shows that it may be taken so.                                          *)
(*                                                                         *)
(* A pass over the sandbox may begin whenever none is under way and no     *)
(* restore holds passes off.  That covers kicks, the periodic pass and the *)
(* passes a waiting caller makes itself: module Dispatcher models how they *)
(* are queued and that at most one runs, and progress rests here on the    *)
(* periodic pass alone, since a kick may be dropped.                       *)
(*                                                                         *)
(* Endings lists the ways an instance can end by itself as Status reports  *)
(* it: none for the process driver, "exited" and "failed" for a plugin.    *)
(***************************************************************************)
EXTENDS Lifecycle

CONSTANTS
  Clients,     \* callers of the service
  Verbs,       \* the verbs they use
  Policy,      \* restart.policy: "never", "on-failure" or "always"
  MaxRestarts, \* restart.max_restarts
  Endings,     \* how an instance may end by itself
  Failing,     \* what may fail: "driver", "store", "spec"
  MaxOps,      \* bound: verbs begun
  MaxFaults,   \* bound: failures, instances that end
  MaxCrashes,  \* bound: restarts of the server
  NoClient     \* not a client

AllVerbs == {"start", "stop", "delete", "update", "restore", "exec", "snapshot"}

ASSUME ClientsAssumption == NoClient \notin Clients /\ "free" \notin Clients /\ "pass" \notin Clients
ASSUME VerbsAssumption == Verbs \subseteq AllVerbs
ASSUME PolicyAssumption == Policy \in {"never", "on-failure", "always"}
ASSUME EndingsAssumption == Endings \subseteq {"exited", "failed"}
ASSUME FailingAssumption == Failing \subseteq {"driver", "store", "spec"}
ASSUME BoundsAssumption ==
  MaxRestarts \in Nat /\ MaxOps \in Nat /\ MaxFaults \in Nat /\ MaxCrashes \in Nat

VARIABLES
  obj,     \* the stored sandbox
  elapsed, \* NextRestart, when set, has passed
  inst,    \* the driver's instance
  snaps,   \* snapshots of the sandbox are on disk
  hold,    \* inflight[id]: "free", "pass", or the client restoring
  graces,  \* graces[id]: the client whose grace a stop will use, or NoClient
  pass,    \* the pass over the sandbox
  cl,      \* where each client's verb is
  ops, faults, crashes

env == <<ops, faults, crashes>>
vars == <<obj, elapsed, inst, snaps, hold, graces, pass, cl,
          ops, faults, crashes>>

(* The object.  cond is the DriverReady condition, sched the reason of     *)
(* RestartScheduled, dfail whether DeleteFailed is True, and next whether  *)
(* NextRestart is set.                                                     *)
Objects == [state : States \cup {"Gone"}, gen : Nat, tmpl : Nat, rv : Nat, restarts : Nat,
            next : BOOLEAN, cond : {"None", "True", "False", "Unknown"},
            sched : {"None", "Backoff", "LimitReached", "Restarted"},
            dfail : BOOLEAN]

NoObject == [state |-> "Gone", gen |-> 0, tmpl |-> 0, rv |-> 0, restarts |-> 0, next |-> FALSE,
             cond |-> "None", sched |-> "None", dfail |-> FALSE]

(* The instance the driver's map holds.  "stopping" is marked stopped with *)
(* commands still draining.                                                *)
Instances == [phase : {"none", "running", "stopping", "stopped", "exited", "failed"},
              tmpl : Nat, restoring : BOOLEAN]

NoInstance == [phase |-> "none", tmpl |-> 0, restoring |-> FALSE]

(* A pass: what it read, what it is doing and how the driver answered.     *)
Passes == [pc   : {"idle", "read", "call", "drain", "remove", "write"},
           goal : {"none", "run", "weak", "stop", "delete", "watch", "restart"},
           res  : {"none", "ok", "err", "lost", "exited", "failed", "stopped", "unknown"},
           sb   : Objects]

IdlePass == [pc |-> "idle", goal |-> "none", res |-> "none", sb |-> NoObject]

(* A client: the verb; the version its write must find, or 0 for any (a    *)
(* request without If-Match); and for a restore the object it read.        *)
ClientRecords == [pc   : {"idle", "prepared", "grace", "held", "asked", "swap", "back",
                          "running", "taking"},
                  verb : AllVerbs \cup {"none"}, sb : Objects, ver : Nat]

IdleClient == [pc |-> "idle", verb |-> "none", sb |-> NoObject, ver |-> 0]

(* Service.Create has stored the object.                                   *)
Created == [NoObject EXCEPT !.state = "Provisioning", !.gen = 1, !.rv = 1]

Init ==
  /\ obj = Created /\ elapsed = FALSE
  /\ inst = NoInstance /\ snaps = FALSE
  /\ hold = "free" /\ graces = NoClient
  /\ pass = IdlePass
  /\ cl = [c \in Clients |-> IdleClient]
  /\ ops = 0 /\ faults = 0 /\ crashes = 0

(* One write of the object: every store update counts its version up.      *)
Write(o) == obj' = [o EXCEPT !.rv = obj.rv + 1]

Fault(what) == what \in Failing /\ faults < MaxFaults /\ faults' = faults + 1

NoFault == UNCHANGED faults

CommandsRunning == \E c \in Clients : cl[c].pc = "running"

(***************************************************************************)
(* Client verbs.                                                           *)
(***************************************************************************)

(* What a verb asks of the state it reads.                                 *)
MayPrepare(v, s) ==
  CASE v = "exec"     -> AcceptsWork(s)
    [] v = "snapshot" -> settled(s)
    [] v = "restore"  -> CanRestore(s)
    [] OTHER          -> s # "Deleting"

(* Get, If-Match and the state check; then the request is recorded and     *)
(* the guard admits it.  Delete of a sandbox already Deleting changes      *)
(* nothing, and start or stop of it could only be refused later.           *)
Prepare(c, v, match) ==
  /\ cl[c].pc = "idle" /\ ops < MaxOps
  /\ obj.state # "Gone" /\ MayPrepare(v, obj.state)
  /\ match => v \in {"start", "stop", "delete", "update"}
  /\ cl' = [cl EXCEPT ![c] = [pc |-> "prepared", verb |-> v,
                              sb  |-> IF v = "restore" THEN obj ELSE NoObject,
                              ver |-> IF match \/ v = "restore" THEN obj.rv ELSE 0]]
  /\ ops' = ops + 1
  /\ UNCHANGED <<obj, elapsed, inst, snaps, hold, graces, pass, faults, crashes>>

(* The record, the guard or the interceptor refuses: nothing changes.      *)
Refused(c) ==
  /\ cl[c].pc = "prepared"
  /\ cl' = [cl EXCEPT ![c] = IdleClient]
  /\ UNCHANGED <<obj, elapsed, inst, snaps, hold, graces, pass, env>>

(* The state a verb moves the object to.                                   *)
Target(v) == CASE v = "start" -> "Starting" [] v = "stop" -> "Stopping" [] OTHER -> "Deleting"

(* Whether fn, run under Mutate on the object as it is now, accepts it.    *)
Accepts(c) ==
  /\ obj.state # "Gone"
  /\ cl[c].ver \in {0, obj.rv}
  /\ IF cl[c].verb = "update" THEN obj.state # "Deleting"
     ELSE CanTransition(obj.state, Target(cl[c].verb))

(* What fn may make of the object.  An update changes the template, which  *)
(* counts as a new generation, or only labels and settings.                *)
Changed(c) ==
  CASE cl[c].verb = "update" -> {obj, [obj EXCEPT !.gen = @ + 1, !.tmpl = @ + 1]}
    [] cl[c].verb = "start"  -> {[Transition(obj, "Starting") EXCEPT !.restarts = 0, !.next = FALSE]}
    [] OTHER                 -> {Transition(obj, Target(cl[c].verb))}

(* mutate commits.  Stop still has its grace to note.                      *)
Commit(c) ==
  /\ cl[c].pc = "prepared" /\ cl[c].verb \in {"start", "stop", "delete", "update"}
  /\ Accepts(c)
  /\ \E o \in Changed(c) : Write(o)
  /\ IF cl[c].verb = "stop"
       THEN cl' = [cl EXCEPT ![c] = [IdleClient EXCEPT !.pc = "grace"]]
       ELSE cl' = [cl EXCEPT ![c] = IdleClient]
  /\ UNCHANGED <<elapsed, inst, snaps, hold, graces, pass, env>>

CommitFails(c) ==
  /\ cl[c].pc = "prepared" /\ cl[c].verb \in {"start", "stop", "delete", "update"}
  /\ ~Accepts(c)
  /\ cl' = [cl EXCEPT ![c] = IdleClient]
  /\ UNCHANGED <<obj, elapsed, inst, snaps, hold, graces, pass, env>>

(* Stop notes the grace its caller asked for, after its write.             *)
NoteGrace(c) ==
  /\ cl[c].pc = "grace"
  /\ graces' = c
  /\ cl' = [cl EXCEPT ![c] = IdleClient]
  /\ UNCHANGED <<obj, elapsed, inst, snaps, hold, pass, env>>

(* Exec: the driver admits the command to a running instance, or refuses.  *)
ExecBegin(c) ==
  /\ cl[c].pc = "prepared" /\ cl[c].verb = "exec"
  /\ cl' = [cl EXCEPT ![c] = IF inst.phase = "running" THEN [@ EXCEPT !.pc = "running"]
                             ELSE IdleClient]
  /\ UNCHANGED <<obj, elapsed, inst, snaps, hold, graces, pass, env>>

(* The command ends, by itself, past its timeout or by stopRun.            *)
ExecEnd(c) ==
  /\ cl[c].pc = "running"
  /\ cl' = [cl EXCEPT ![c] = IdleClient]
  /\ UNCHANGED <<obj, elapsed, inst, snaps, hold, graces, pass, env>>

(* Snapshot: the driver starts to archive the workspace, unless it has no  *)
(* instance or the instance is being restored.                             *)
TakeBegin(c) ==
  /\ cl[c].pc = "prepared" /\ cl[c].verb = "snapshot"
  /\ cl' = [cl EXCEPT ![c] = IF inst.phase # "none" /\ ~inst.restoring
                             THEN [@ EXCEPT !.pc = "taking"]
                             ELSE IdleClient]
  /\ UNCHANGED <<obj, elapsed, inst, snaps, hold, graces, pass, env>>

(* The archive is renamed into the sandbox's snapshot folder, or cannot    *)
(* be: the delete of the instance removed the folder, or packing it or     *)
(* recording it failed and nothing is kept.                                *)
TakeEnd(c) ==
  /\ cl[c].pc = "taking"
  /\ cl' = [cl EXCEPT ![c] = IdleClient]
  /\ snaps' \in {snaps, snaps \/ inst.phase # "none"}
  /\ UNCHANGED <<obj, elapsed, inst, hold, graces, pass, env>>

(***************************************************************************)
(* Restore.                                                                *)
(***************************************************************************)

(* Mutant: the hold is taken whether or not a pass runs.                   *)
HoldPassAtOnce(c) ==
  /\ cl[c].pc = "prepared" /\ cl[c].verb = "restore"
  /\ hold' = c
  /\ cl' = [cl EXCEPT ![c].pc = "held"]
  /\ UNCHANGED <<obj, elapsed, inst, snaps, graces, pass, env>>

(* holdPass: no pass runs, and none starts until the hold ends.            *)
HoldPass(c) ==
  /\ cl[c].pc = "prepared" /\ cl[c].verb = "restore"
  /\ hold = "free"
  /\ hold' = c
  /\ cl' = [cl EXCEPT ![c].pc = "held"]
  /\ UNCHANGED <<obj, elapsed, inst, snaps, graces, pass, env>>

(* The verb returns and its hold ends.                                     *)
Unhold(c) ==
  /\ hold' = "free"
  /\ cl' = [cl EXCEPT ![c] = IdleClient]

(* The version a restore's write is made against is still the stored one.  *)
Unchanged(c) == obj.state # "Gone" /\ obj.rv = cl[c].ver

(* The move to Starting, against the version prepare read.                 *)
RestoreCommit(c) ==
  /\ cl[c].pc = "held" /\ Unchanged(c)
  /\ Write([Transition(obj, "Starting") EXCEPT !.restarts = 0, !.next = FALSE])
  /\ cl' = [cl EXCEPT ![c] = [@ EXCEPT !.pc = "asked", !.ver = obj.rv + 1]]
  /\ UNCHANGED <<elapsed, inst, snaps, hold, graces, pass, env>>

RestoreConflicts(c) ==
  /\ cl[c].pc = "held"
  /\ Fault("store") \/ (~Unchanged(c) /\ NoFault)
  /\ Unhold(c)
  /\ UNCHANGED <<obj, elapsed, inst, snaps, graces, pass, ops, crashes>>

(* driver.Restore: the instance must be stopped.  It is marked restoring   *)
(* while the workspace is replaced.                                        *)
RestoreBegin(c) ==
  /\ cl[c].pc = "asked"
  /\ IF inst.phase = "stopped" /\ ~inst.restoring
       THEN /\ inst' = [inst EXCEPT !.restoring = TRUE]
            /\ cl' = [cl EXCEPT ![c].pc = "swap"]
       ELSE /\ cl' = [cl EXCEPT ![c].pc = "back"]
            /\ UNCHANGED inst
  /\ UNCHANGED <<obj, elapsed, snaps, hold, graces, pass, env>>

(* The workspace is replaced: the hold ends and a pass starts it.          *)
RestoreEnd(c) ==
  /\ cl[c].pc = "swap"
  /\ inst' = [inst EXCEPT !.restoring = FALSE]
  /\ Unhold(c)
  /\ UNCHANGED <<obj, elapsed, snaps, graces, pass, env>>

RestoreFails(c) ==
  /\ cl[c].pc = "swap" /\ Fault("driver")
  /\ inst' = [inst EXCEPT !.restoring = FALSE]
  /\ cl' = [cl EXCEPT ![c].pc = "back"]
  /\ UNCHANGED <<obj, elapsed, snaps, hold, graces, pass, ops, crashes>>

(* Mutant: the object goes back whatever was written since.                *)
RollbackBlind(c) ==
  /\ cl[c].pc = "back"
  /\ Write([obj EXCEPT !.state = cl[c].sb.state, !.restarts = cl[c].sb.restarts,
                        !.next = cl[c].sb.next])
  /\ Unhold(c)
  /\ UNCHANGED <<elapsed, inst, snaps, graces, pass, env>>

(* A failed restore puts the object back where it was, keeping the new     *)
(* generation, unless another write came in between or the store fails.    *)
Rollback(c) ==
  /\ cl[c].pc = "back"
  /\ \/ /\ Unchanged(c) /\ NoFault
        /\ Write([obj EXCEPT !.state = cl[c].sb.state, !.restarts = cl[c].sb.restarts,
                              !.next = cl[c].sb.next])
     \/ (Fault("store") \/ (~Unchanged(c) /\ NoFault)) /\ UNCHANGED obj
  /\ Unhold(c)
  /\ UNCHANGED <<elapsed, inst, snaps, graces, pass, ops, crashes>>

(***************************************************************************)
(* The reconciler: a pass is read, driver call, guarded write.             *)
(***************************************************************************)

(* Mutant: the periodic pass leaves sandboxes being deleted alone.         *)
DispatchAllLiving ==
  /\ obj.state \notin {"Gone", "Stopped", "Deleting"} /\ hold = "free"
  /\ hold' = "pass"
  /\ pass' = [IdlePass EXCEPT !.pc = "read"]
  /\ UNCHANGED <<obj, elapsed, inst, snaps, graces, cl, env>>

(* dispatch by all, each interval, of every sandbox not Stopped.           *)
DispatchAll ==
  /\ obj.state \notin {"Gone", "Stopped"} /\ hold = "free"
  /\ hold' = "pass"
  /\ pass' = [IdlePass EXCEPT !.pc = "read"]
  /\ UNCHANGED <<obj, elapsed, inst, snaps, graces, cl, env>>

(* dispatch of a kick, or Reconcile by a waiting caller.                   *)
DispatchKick ==
  /\ hold = "free"
  /\ hold' = "pass"
  /\ pass' = [IdlePass EXCEPT !.pc = "read"]
  /\ UNCHANGED <<obj, elapsed, inst, snaps, graces, cl, env>>

EndPass == pass' = IdlePass /\ hold' = "free"

Goal(s) ==
  CASE s \in {"Provisioning", "Starting"} -> "run"
    [] s = "Stopping" -> "stop"
    [] s = "Deleting" -> "delete"
    [] s = "Ready" -> "watch"
    [] OTHER -> "restart"

(* What there is to do for the state the pass reads.                       *)
PassRead ==
  /\ pass.pc = "read" /\ obj.state \notin {"Gone", "Stopped"}
  /\ pass' = [pass EXCEPT !.sb = obj, !.goal = Goal(obj.state),
                          !.pc = IF Goal(obj.state) = "restart" THEN "write" ELSE "call"]
  /\ UNCHANGED <<obj, elapsed, inst, snaps, hold, graces, cl, env>>

(* There is nothing to do, or the read fails.                              *)
PassSkips ==
  /\ pass.pc = "read"
  /\ Fault("store") \/ (obj.state \in {"Gone", "Stopped"} /\ NoFault)
  /\ EndPass
  /\ UNCHANGED <<obj, elapsed, inst, snaps, graces, cl, ops, crashes>>

(* Create or Start, and Status and Start when Create finds an instance.    *)
(* A running instance is taken as it is; one the driver does not have is   *)
(* created with the object's template; a stopped or ended one is started   *)
(* again, by its id alone, which builds what it was created with.          *)
Built(sb) ==
  CASE inst.phase = "none"    -> [NoInstance EXCEPT !.phase = "running", !.tmpl = sb.tmpl]
    [] OTHER                  -> [inst EXCEPT !.phase = "running"]

(* The instance runs.  A tier that does not meet the required one (a       *)
(* fault) is stopped before it is recorded.                                *)
DriverRun ==
  /\ pass.pc = "call" /\ pass.goal = "run" /\ ~inst.restoring
  /\ inst' = Built(pass.sb)
  /\ \/ NoFault /\ pass' = [pass EXCEPT !.pc = "write", !.res = "ok"]
     \/ Fault("driver") /\ pass' = [pass EXCEPT !.goal = "weak"]
  /\ UNCHANGED <<obj, elapsed, snaps, hold, graces, cl, ops, crashes>>

(* spec finds no workspace or no egress proxy, whatever the instance does: *)
(* the driver is not asked.                                                *)
SpecFails ==
  /\ pass.pc = "call" /\ pass.goal = "run" /\ Fault("spec")
  /\ pass' = [pass EXCEPT !.pc = "write", !.res = "err"]
  /\ UNCHANGED <<obj, elapsed, inst, snaps, hold, graces, cl, ops, crashes>>

(* The driver cannot build it, or it is being restored.                    *)
DriverRunFails ==
  /\ pass.pc = "call" /\ pass.goal = "run" /\ inst.phase # "running"
  /\ Fault("driver") \/ (inst.restoring /\ NoFault)
  /\ pass' = [pass EXCEPT !.pc = "write", !.res = "err"]
  /\ UNCHANGED <<obj, elapsed, inst, snaps, hold, graces, cl, ops, crashes>>

(* Mutant: a stop does not wait for the commands.                          *)
DriverStopNow ==
  /\ pass.pc = "call" /\ pass.goal \in {"stop", "weak", "delete"}
  /\ pass' = [pass EXCEPT !.pc = IF pass.goal = "delete" THEN "remove" ELSE "write", !.res = "ok"]
  /\ inst' = IF inst.phase = "none" THEN inst ELSE [inst EXCEPT !.phase = "stopped"]
  /\ graces' = NoClient
  /\ UNCHANGED <<obj, elapsed, snaps, hold, cl, env>>

(* Stop, also as the first half of Delete: new commands are refused.  The  *)
(* grace a client noted is used up.                                        *)
DriverStop ==
  /\ pass.pc = "call" /\ pass.goal \in {"stop", "weak", "delete"}
  /\ IF inst.phase \in {"none", "stopped"}
       THEN /\ pass' = [pass EXCEPT !.pc = IF pass.goal = "delete" THEN "remove" ELSE "write", !.res = "ok"]
            /\ UNCHANGED inst
       ELSE /\ pass' = [pass EXCEPT !.pc = "drain"]
            /\ inst' = [inst EXCEPT !.phase = "stopping"]
  /\ IF pass.goal = "stop" THEN graces' = NoClient
     ELSE UNCHANGED graces
  /\ UNCHANGED <<obj, elapsed, snaps, hold, cl, env>>

(* Mutant: the sandbox is closed under its commands.                       *)
DriverStoppedEarly ==
  /\ pass.pc = "drain"
  /\ inst' = [inst EXCEPT !.phase = "stopped"]
  /\ pass' = [pass EXCEPT !.pc = IF pass.goal = "delete" THEN "remove" ELSE "write", !.res = "ok"]
  /\ UNCHANGED <<obj, elapsed, snaps, hold, graces, cl, env>>

(* Its commands have ended or were ended, and the sandbox is closed; a     *)
(* failure to close it still leaves the instance stopped.  A weak          *)
(* instance's stop is not looked at.                                       *)
DriverStopped ==
  /\ pass.pc = "drain" /\ ~CommandsRunning
  /\ inst' = [inst EXCEPT !.phase = "stopped"]
  /\ \/ /\ NoFault
        /\ pass' = [pass EXCEPT !.pc = IF pass.goal = "delete" THEN "remove" ELSE "write", !.res = "ok"]
     \/ /\ Fault("driver") /\ pass.goal # "weak"
        /\ pass' = [pass EXCEPT !.pc = "write", !.res = "err"]
  /\ UNCHANGED <<obj, elapsed, snaps, hold, graces, cl, ops, crashes>>

(* Delete drops the instance from the driver's map and then removes its    *)
(* cgroup and its snapshots; after it the workspace and the egress proxy   *)
(* are released.  Each may fail.  A driver that does not have the instance *)
(* answers so before any of its part, and that counts as deleted.          *)
DriverRemove ==
  /\ pass.pc = "remove"
  /\ inst' = NoInstance
  /\ \/ /\ NoFault /\ pass' = [pass EXCEPT !.pc = "write", !.res = "ok"]
        /\ snaps' = (snaps /\ inst.phase = "none")
     \/ /\ Fault("driver") /\ pass' = [pass EXCEPT !.pc = "write", !.res = "err"]
        /\ snaps' \in {snaps, snaps /\ inst.phase = "none"}
  /\ UNCHANGED <<obj, elapsed, hold, graces, cl, ops, crashes>>

(* Status.                                                                 *)
DriverStatus ==
  /\ pass.pc = "call" /\ pass.goal = "watch"
  /\ \/ /\ NoFault
        /\ pass' = [pass EXCEPT !.pc = "write", !.res =
                      CASE inst.phase = "none"    -> "lost"
                        [] inst.phase = "running" -> "ok"
                        [] inst.phase \in {"exited", "failed"} -> inst.phase
                        [] OTHER                  -> "stopped"]
     \/ Fault("driver") /\ pass' = [pass EXCEPT !.pc = "write", !.res = "unknown"]
  /\ UNCHANGED <<obj, elapsed, inst, snaps, hold, graces, cl, ops, crashes>>

(* guarded: the object is still in the state and generation the pass read. *)
Current(sb) == obj.state = sb.state /\ obj.gen = sb.gen

(* The tier no longer meets the required one while the sandbox is Ready:   *)
(* watch hands the running instance to settle, which stops it.             *)
WatchWeak ==
  /\ pass.pc = "call" /\ pass.goal = "watch" /\ inst.phase = "running" /\ Fault("driver")
  /\ pass' = [pass EXCEPT !.goal = "weak"]
  /\ UNCHANGED <<obj, elapsed, inst, snaps, hold, graces, cl, ops, crashes>>

(* settle, observe and watch: the object that the pass's outcome makes of  *)
(* the one now stored.                                                     *)
Observed(o, stable) ==
  LET Failed == [Transition(o, "Error") EXCEPT !.cond = "False"]
  IN CASE pass.goal = "run" /\ pass.res = "ok" -> [Transition(o, "Ready") EXCEPT !.cond = "True"]
       [] pass.goal = "weak" -> Transition(o, "Error")
       [] pass.goal = "stop" /\ pass.res = "ok" -> [Transition(o, "Stopped") EXCEPT !.cond = "False"]
       [] pass.goal = "delete" -> [o EXCEPT !.dfail = TRUE]
       [] pass.goal = "watch" /\ pass.res = "exited" -> [Transition(o, "Completed") EXCEPT !.cond = "False"]
       [] pass.goal = "watch" /\ pass.res = "unknown" -> [o EXCEPT !.cond = "Unknown"]
       [] pass.goal = "watch" /\ pass.res = "ok" ->
            [o EXCEPT !.cond = "True",
                      !.restarts = IF stable /\ o.cond = "True" THEN 0 ELSE @]
       [] OTHER -> Failed

(* The pass writes what it learned.  stable: it has been Ready for long.   *)
PassWrite ==
  /\ pass.pc = "write" /\ pass.goal # "restart"
  /\ ~(pass.goal = "delete" /\ pass.res = "ok")
  /\ Current(pass.sb)
  /\ \E stable \in BOOLEAN :
       IF Observed(obj, stable) = obj THEN UNCHANGED obj ELSE Write(Observed(obj, stable))
  /\ EndPass
  /\ UNCHANGED <<elapsed, inst, snaps, graces, cl, env>>

(* The store fails the write, or the object changed since it was read.     *)
PassWriteLost ==
  /\ pass.pc = "write"
  /\ \/ Fault("store")
     \/ NoFault /\ ~Current(pass.sb) /\ ~(pass.goal = "delete" /\ pass.res = "ok")
  /\ EndPass
  /\ UNCHANGED <<obj, elapsed, inst, snaps, graces, cl, ops, crashes>>

(* Mutant: the object is removed though the driver's delete failed.        *)
PassRemoveAnyway ==
  /\ pass.pc = "write" /\ pass.goal = "delete"
  /\ IF obj.rv = pass.sb.rv THEN obj' = NoObject ELSE UNCHANGED obj
  /\ EndPass
  /\ UNCHANGED <<elapsed, inst, snaps, graces, cl, env>>

(* remove: the object leaves the store if no write came in between.        *)
PassRemove ==
  /\ pass.pc = "write" /\ pass.goal = "delete" /\ pass.res = "ok"
  /\ IF obj.rv = pass.sb.rv
       THEN obj' = NoObject
       ELSE UNCHANGED obj
  /\ EndPass
  /\ UNCHANGED <<elapsed, inst, snaps, graces, cl, env>>

(* Mutant: one restart too many.                                           *)
BudgetLeftOrMet(sb) == sb.restarts <= MaxRestarts

(* Mutant: the last restart is not made.                                   *)
BudgetLeftForTwo(sb) == sb.restarts + 1 < MaxRestarts

(* A restart of the sandbox is still allowed.                              *)
BudgetLeft(sb) == sb.restarts < MaxRestarts

(* restart: a policy that does not restart this state clears NextRestart.  *)
RestartNotDue ==
  /\ pass.pc = "write" /\ pass.goal = "restart" /\ Current(pass.sb)
  /\ ~RestartDue(Policy, pass.sb.state)
  /\ IF pass.sb.next THEN Write([obj EXCEPT !.next = FALSE]) ELSE UNCHANGED obj
  /\ EndPass
  /\ UNCHANGED <<elapsed, inst, snaps, graces, cl, env>>

RestartLimit ==
  /\ pass.pc = "write" /\ pass.goal = "restart" /\ Current(pass.sb)
  /\ RestartDue(Policy, pass.sb.state) /\ ~BudgetLeft(pass.sb)
  /\ IF obj.sched = "LimitReached" /\ ~obj.next THEN UNCHANGED obj
     ELSE Write([obj EXCEPT !.next = FALSE, !.sched = "LimitReached"])
  /\ EndPass
  /\ UNCHANGED <<elapsed, inst, snaps, graces, cl, env>>

RestartSchedule ==
  /\ pass.pc = "write" /\ pass.goal = "restart" /\ Current(pass.sb)
  /\ RestartDue(Policy, pass.sb.state) /\ BudgetLeft(pass.sb)
  /\ ~pass.sb.next
  /\ Write([obj EXCEPT !.next = TRUE, !.sched = "Backoff"])
  /\ elapsed' = FALSE
  /\ EndPass
  /\ UNCHANGED <<inst, snaps, graces, cl, env>>

(* Mutant: restarts are counted down.                                      *)
RestartNowCountsDown ==
  /\ pass.pc = "write" /\ pass.goal = "restart" /\ Current(pass.sb)
  /\ RestartDue(Policy, pass.sb.state) /\ BudgetLeft(pass.sb)
  /\ pass.sb.next /\ elapsed
  /\ Write([Transition(obj, "Starting") EXCEPT !.restarts = @ - 1, !.next = FALSE, !.sched = "Restarted"])
  /\ EndPass
  /\ UNCHANGED <<elapsed, inst, snaps, graces, cl, env>>

(* Before NextRestart the pass does nothing; after it the sandbox starts,  *)
(* as a new generation.                                                    *)
RestartWait ==
  /\ pass.pc = "write" /\ pass.goal = "restart"
  /\ RestartDue(Policy, pass.sb.state) /\ BudgetLeft(pass.sb)
  /\ pass.sb.next /\ ~elapsed
  /\ EndPass
  /\ UNCHANGED <<obj, elapsed, inst, snaps, graces, cl, env>>

RestartNow ==
  /\ pass.pc = "write" /\ pass.goal = "restart" /\ Current(pass.sb)
  /\ RestartDue(Policy, pass.sb.state) /\ BudgetLeft(pass.sb)
  /\ pass.sb.next /\ elapsed
  /\ Write([Transition(obj, "Starting") EXCEPT !.restarts = @ + 1, !.next = FALSE, !.sched = "Restarted"])
  /\ EndPass
  /\ UNCHANGED <<elapsed, inst, snaps, graces, cl, env>>

(***************************************************************************)
(* The world.                                                              *)
(***************************************************************************)

(* NextRestart passes.                                                     *)
Elapse ==
  /\ obj.next /\ ~elapsed
  /\ elapsed' = TRUE
  /\ UNCHANGED <<obj, inst, snaps, hold, graces, pass, cl, env>>

(* The instance ends by itself, and its commands with it.                  *)
InstanceEnds ==
  /\ inst.phase = "running" /\ Fault("driver")
  /\ \E e \in Endings : inst' = [inst EXCEPT !.phase = e]
  /\ cl' = [c \in Clients |-> IF cl[c].pc = "running" THEN IdleClient ELSE cl[c]]
  /\ UNCHANGED <<obj, elapsed, snaps, hold, graces, pass, ops, crashes>>

(* The server dies and starts again: only the store survives.              *)
Crash ==
  /\ crashes < MaxCrashes /\ crashes' = crashes + 1
  /\ inst' = NoInstance /\ hold' = "free" /\ pass' = IdlePass
  /\ graces' = NoClient
  /\ cl' = [c \in Clients |-> IdleClient]
  /\ UNCHANGED <<obj, elapsed, snaps, ops, faults>>

ClientStep(c) ==
  \/ \E v \in Verbs, m \in BOOLEAN : Prepare(c, v, m)
  \/ Refused(c) \/ Commit(c) \/ CommitFails(c) \/ NoteGrace(c)
  \/ ExecBegin(c) \/ ExecEnd(c) \/ TakeBegin(c) \/ TakeEnd(c)
  \/ HoldPass(c) \/ RestoreCommit(c) \/ RestoreConflicts(c) \/ RestoreBegin(c)
  \/ RestoreEnd(c) \/ RestoreFails(c) \/ Rollback(c)

PassStep ==
  \/ PassRead \/ PassSkips
  \/ SpecFails \/ DriverRun \/ DriverRunFails \/ DriverStop \/ DriverStopped \/ DriverRemove
  \/ DriverStatus \/ WatchWeak
  \/ PassWrite \/ PassWriteLost \/ PassRemove
  \/ RestartNotDue \/ RestartLimit \/ RestartSchedule \/ RestartWait \/ RestartNow

Next ==
  \/ \E c \in Clients : ClientStep(c)
  \/ DispatchAll \/ DispatchKick
  \/ PassStep
  \/ Elapse \/ InstanceEnds \/ Crash

Spec == Init /\ [][Next]_vars

(* The reconciler's loop and goroutines run; a command ends, at the latest *)
(* when it is ended; a client that holds the passes goes on to release     *)
(* them; time passes.  Nothing is assumed of a verb that has yet to start. *)
Fairness ==
  /\ WF_vars(DispatchAll) /\ WF_vars(PassStep) /\ WF_vars(Elapse)
  /\ \A c \in Clients :
       /\ WF_vars(ExecEnd(c))
       /\ WF_vars(RestoreCommit(c) \/ RestoreConflicts(c) \/ RestoreBegin(c) \/ RestoreEnd(c)
                  \/ RestoreFails(c) \/ Rollback(c))

FairSpec == Spec /\ Fairness

(***************************************************************************)
(* Properties.                                                             *)
(***************************************************************************)

(* Every variable has its type.                                            *)
TypeOK ==
  /\ obj \in Objects /\ elapsed \in BOOLEAN
  /\ inst \in Instances /\ snaps \in BOOLEAN
  /\ hold \in {"free", "pass"} \cup Clients
  /\ graces \in Clients \cup {NoClient}
  /\ pass \in Passes
  /\ cl \in [Clients -> ClientRecords]
  /\ ops \in Nat /\ faults \in Nat /\ crashes \in Nat

Restoring(c) == cl[c].pc \in {"held", "asked", "swap", "back"}

(* "No start or other change can land while the workspace is replaced"     *)
(* (Restore, verbs.go): then no pass is under way, no other restore holds  *)
(* the passes, no instance or command runs, and the object can at most     *)
(* have been marked for deletion.                                          *)
RestoreIsExclusive ==
  \A c \in Clients : cl[c].pc = "swap" =>
    /\ pass.pc = "idle" /\ hold = c
    /\ inst.phase = "stopped" /\ ~CommandsRunning
    /\ obj.state \in {"Starting", "Deleting"}

(* "Only once its instance is not running" (CanRestore, state.go): a       *)
(* Stopped, Completed or Error sandbox has no running instance and no      *)
(* command still in it, however verbs and passes raced before.             *)
AtRest == CanRestore(obj.state) => inst.phase # "running" /\ ~CommandsRunning

(* AtRest holds through every race, driver failure, lost write and restart *)
(* as long as spec does not fail.  When it does, a pass that finds the     *)
(* instance running may record Error without having stopped it.            *)
AtRestIsQuiet == "spec" \notin Failing => AtRest

(* "Deleting ... the object is removed once the driver confirms" (contract *)
(* 3): when the object is gone the driver has no instance and no command   *)
(* runs.                                                                   *)
GoneIsGone == obj.state = "Gone" => inst.phase = "none" /\ ~CommandsRunning

(* "After restart.max_restarts it stays in Error" (contract 9).            *)
RestartBudget == obj.restarts <= MaxRestarts

(* The table of moves is the whole lifecycle, except that a failed restore *)
(* takes a Starting sandbox back to a state at rest, keeping the new       *)
(* generation, and that Deleting ends in removal.  In particular Deleting  *)
(* never goes back to a state that accepts work.                           *)
LifecycleMoves ==
  [][obj'.state # obj.state =>
       \/ CanTransition(obj.state, obj'.state)
       \/ obj.state = "Deleting" /\ obj'.state = "Gone"
       \/ /\ obj.state = "Starting" /\ CanRestore(obj'.state) /\ obj'.gen = obj.gen
          /\ \E c \in Clients : hold = c]_vars

(* The step begins a new incarnation.                                      *)
Begins == inst.phase # "running" /\ inst'.phase = "running"

(* A new incarnation never begins while the one before it has a command    *)
(* left: it begins from no instance, or from one that drained.             *)
IncarnationsDoNotOverlap ==
  [][Begins => ~CommandsRunning /\ ~inst.restoring]_vars

(* A sandbox that is to start, stop or be deleted does so, though kicks    *)
(* are lost, the driver and the store fail and the server restarts.        *)
Settles ==
  /\ obj.state = "Provisioning" ~> obj.state # "Provisioning"
  /\ obj.state = "Starting" ~> obj.state # "Starting"
  /\ obj.state = "Stopping" ~> obj.state # "Stopping"
  /\ obj.state = "Deleting" ~> obj.state = "Gone"

(* A failed sandbox with restarts left is started again.                   *)
FailureIsRestarted ==
  (obj.state = "Error" /\ RestartDue(Policy, "Error") /\ obj.restarts < MaxRestarts)
    ~> obj.state # "Error"
=============================================================================
