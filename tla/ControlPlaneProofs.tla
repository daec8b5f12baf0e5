-------------------------- MODULE ControlPlaneProofs --------------------------
(***************************************************************************)
(* The safety properties of ControlPlane, for any number of clients, any   *)
(* set of verbs, faults and endings, any policy and all bounds.            *)
(*                                                                         *)
(* The argument: the hold on inflight[id] keeps a pass and a restore apart *)
(* (HoldInv); every write counts the version up, so that a version read    *)
(* earlier and found again names the state it was read with (PassInv,      *)
(* RestoreInv); and an instance is running only where the object has yet   *)
(* to be told otherwise (QuietInv).                                        *)
(***************************************************************************)
EXTENDS ControlPlane, TLAPS

(* The pass has read the object and has not ended.                         *)
Busy == pass.pc \in {"call", "drain", "remove", "write"}

(* inflight[id] says who is at work: a pass, or the one client restoring.  *)
HoldInv ==
  /\ hold = "pass" <=> pass.pc # "idle"
  /\ \A c \in Clients : Restoring(c) <=> hold = c

(* What the driver keeps: a workspace is replaced only in a stopped        *)
(* instance; commands run only in a running or draining one; the instance  *)
(* drains exactly while a pass waits for it.                               *)
InstInv ==
  /\ inst.restoring => inst.phase = "stopped"
  /\ \A c \in Clients : cl[c].pc = "swap" => inst.restoring
  /\ \A c \in Clients : cl[c].pc = "running" => inst.phase \in {"running", "stopping"}
  /\ pass.pc = "drain" <=> inst.phase = "stopping"

(* What a pass read still says about the object: a version that has not    *)
(* moved means a state that has not moved, clients only lower the restart  *)
(* count meanwhile, and no client takes the object to a state at rest      *)
(* under a pass that works on the instance.                                *)
PassInv ==
  Busy =>
    /\ obj.state # "Gone" /\ pass.sb.state \in States \ {"Stopped"}
    /\ pass.sb.rv <= obj.rv /\ (pass.sb.rv = obj.rv => pass.sb.state = obj.state)
    /\ obj.restarts <= pass.sb.restarts
    /\ \/ pass.goal = Goal(pass.sb.state)
       \/ pass.goal = "weak" /\ pass.sb.state \in {"Provisioning", "Starting", "Ready"}
    /\ pass.goal = "restart" => pass.pc = "write"
    /\ pass.goal # "restart" => ~CanRestore(obj.state)
    /\ pass.pc = "drain" => pass.goal \in {"stop", "weak", "delete"}
    /\ pass.pc = "remove" => pass.goal = "delete" /\ inst.phase \in {"none", "stopped"}
    /\ pass.pc = "write" /\ pass.goal = "delete" /\ pass.res = "ok" => inst.phase = "none"

(* The restore has moved the object to Starting.                           *)
Began(c) == cl[c].pc \in {"asked", "swap", "back"}

(* What a restore read still says: while it has not begun its version      *)
(* names the state at rest it read; once it has, the object can only have  *)
(* been marked for deletion since.                                         *)
RestoreInv ==
  \A c \in Clients :
    /\ cl[c].pc = "held" => cl[c].verb = "restore"
    /\ (cl[c].pc \in {"prepared", "held"} /\ cl[c].verb = "restore") \/ Began(c) =>
         CanRestore(cl[c].sb.state) /\ cl[c].sb.restarts <= MaxRestarts
    /\ cl[c].pc \in {"prepared", "held"} /\ cl[c].verb = "restore" /\ obj.state # "Gone" =>
         /\ cl[c].ver <= obj.rv
         /\ cl[c].ver = obj.rv => obj.state = cl[c].sb.state
    /\ Began(c) =>
         /\ obj.state \in {"Starting", "Deleting"}
         /\ cl[c].ver <= obj.rv
         /\ cl[c].ver = obj.rv => obj.state = "Starting"

(* The outcome about to be written is that the instance does not run.      *)
NotRun ==
  /\ pass.pc = "write" /\ pass.goal # "restart"
  /\ ~(pass.goal = "run" /\ pass.res = "ok")
  /\ ~(pass.goal = "watch" /\ pass.res \in {"ok", "unknown"})

(* Where no instance runs.                                                 *)
QuietInv ==
  "spec" \notin Failing =>
    /\ CanRestore(obj.state) => inst.phase # "running"
    /\ \A c \in Clients : Began(c) => inst.phase # "running"
    /\ NotRun => inst.phase # "running"

(* A removed object has no instance.                                       *)
GoneInv == obj.state = "Gone" => inst.phase = "none"

(* The inductive invariant.                                                *)
IInv == TypeOK /\ HoldInv /\ InstInv /\ PassInv /\ RestoreInv /\ QuietInv /\ GoneInv /\ RestartBudget

(* Counting up stays a natural number.                                     *)
LEMMA OneMore == \A n \in Nat : n + 1 \in Nat
OBVIOUS

(* Objects are closed under Sandbox.Transition.                            *)
LEMMA ObjectTypes ==
  /\ NoObject \in Objects /\ Created \in Objects
  /\ \A o \in Objects, s \in States : Transition(o, s) \in Objects
<1>1. NoObject \in Objects /\ Created \in Objects
  BY DEF Objects, NoObject, Created, States
<1>2. ASSUME NEW o \in Objects, NEW s \in States PROVE Transition(o, s) \in Objects
  <2> DEFINE g == IF s = "Starting" THEN o.gen + 1 ELSE o.gen
  <2>1. g \in Nat
    BY OneMore DEF Objects
  <2> HIDE DEF g
  <2>2. [o EXCEPT !.state = s, !.gen = g] \in Objects
    BY <2>1 DEF Objects
  <2>3. QED BY <2>2 DEF g, Transition
<1>3. QED BY <1>1, <1>2

(* What settle, observe and watch make of the object, case by case.        *)
LEMMA ObservedEffect ==
  ASSUME obj \in Objects, NEW stable \in BOOLEAN
  PROVE  LET o == Observed(obj, stable)
         IN  /\ o \in Objects /\ o.gen = obj.gen /\ o.restarts \in {obj.restarts, 0}
             /\ o.state =
                  IF pass.goal = "run" /\ pass.res = "ok" THEN "Ready"
                  ELSE IF pass.goal = "stop" /\ pass.res = "ok" THEN "Stopped"
                  ELSE IF pass.goal = "watch" /\ pass.res = "exited" THEN "Completed"
                  ELSE IF \/ pass.goal = "delete"
                          \/ pass.goal = "watch" /\ pass.res \in {"ok", "unknown"} THEN obj.state
                  ELSE "Error"
<1> DEFINE Same(o, s) == o \in Objects /\ o.state = s /\ o.gen = obj.gen /\ o.restarts = obj.restarts
<1>1. \A s \in States \ {"Starting"} : Same(Transition(obj, s), s)
  BY ObjectTypes DEF Transition, Objects
<1>2. \A o, s : Same(o, s) => \A k \in {"True", "False", "Unknown"} : Same([o EXCEPT !.cond = k], s)
  BY DEF Objects
<1>3. Same(obj, obj.state) /\ Same([obj EXCEPT !.dfail = TRUE], obj.state)
  BY DEF Objects
<1>4. LET o == [obj EXCEPT !.cond = "True", !.restarts = IF stable /\ obj.cond = "True" THEN 0 ELSE @]
      IN  o \in Objects /\ o.state = obj.state /\ o.gen = obj.gen /\ o.restarts \in {obj.restarts, 0}
  BY DEF Objects
<1>5. /\ Same(Transition(obj, "Error"), "Error")
      /\ Same([Transition(obj, "Error") EXCEPT !.cond = "False"], "Error")
      /\ Same([Transition(obj, "Ready") EXCEPT !.cond = "True"], "Ready")
      /\ Same([Transition(obj, "Stopped") EXCEPT !.cond = "False"], "Stopped")
      /\ Same([Transition(obj, "Completed") EXCEPT !.cond = "False"], "Completed")
      /\ Same([obj EXCEPT !.cond = "Unknown"], obj.state)
      /\ Same([obj EXCEPT !.dfail = TRUE], obj.state)
  <2> HIDE DEF Same
  <2>1. "Error" \in States \ {"Starting"} /\ "Ready" \in States \ {"Starting"}
        /\ "Stopped" \in States \ {"Starting"} /\ "Completed" \in States \ {"Starting"}
    BY DEF States
  <2>2. QED BY <1>1, <1>2, <1>3, <2>1
<1>6. QED
  BY <1>4, <1>5 DEF Observed

(* A store update keeps the object's type.                                 *)
LEMMA WriteType ==
  ASSUME obj \in Objects, NEW o \in Objects, Write(o)
  PROVE  obj' \in Objects
BY DEF Write, Objects

(* The records at rest have their types.                                   *)
LEMMA RestType ==
  /\ IdlePass \in Passes /\ IdleClient \in ClientRecords /\ NoInstance \in Instances
BY ObjectTypes DEF IdlePass, Passes, IdleClient, ClientRecords, NoInstance, Instances, AllVerbs

(* Every step keeps the types.                                             *)
LEMMA TypeStep ==
  ASSUME TypeOK, [Next]_vars
  PROVE  TypeOK'
<1> USE DEF TypeOK
<1>1. CASE UNCHANGED vars
  BY <1>1 DEF vars
<1>2. ASSUME NEW c \in Clients, NEW v \in Verbs, NEW m \in BOOLEAN, Prepare(c, v, m) PROVE TypeOK'
  <2>1. [pc |-> "prepared", verb |-> v,
         sb  |-> IF v = "restore" THEN obj ELSE NoObject,
         ver |-> IF m \/ v = "restore" THEN obj.rv ELSE 0] \in ClientRecords
    BY VerbsAssumption, ObjectTypes DEF ClientRecords, Objects
  <2>2. ops' \in Nat
    BY <1>2, OneMore DEF Prepare
  <2>3. cl' \in [Clients -> ClientRecords]
    BY <1>2, <2>1 DEF Prepare
  <2>4. UNCHANGED <<obj, elapsed, inst, snaps, hold, graces, pass, faults, crashes>>
    BY <1>2 DEF Prepare
  <2>5. QED BY <2>2, <2>3, <2>4
<1>3. ASSUME NEW c \in Clients,
             Refused(c) \/ CommitFails(c) \/ NoteGrace(c) \/ ExecEnd(c) \/ TakeEnd(c)
      PROVE  TypeOK'
  BY <1>3, RestType DEF Refused, CommitFails, NoteGrace, ExecEnd, TakeEnd, env
<1>4. ASSUME NEW c \in Clients, ExecBegin(c) \/ TakeBegin(c) \/ HoldPass(c)
      PROVE  TypeOK'
  <2>1. /\ [cl[c] EXCEPT !.pc = "running"] \in ClientRecords
        /\ [cl[c] EXCEPT !.pc = "held"] \in ClientRecords
        /\ [cl[c] EXCEPT !.pc = "taking"] \in ClientRecords
    BY DEF ClientRecords
  <2>2. CASE ExecBegin(c)
    BY <2>1, <2>2, RestType DEF ExecBegin, env
  <2>3. CASE TakeBegin(c)
    BY <2>1, <2>3, RestType DEF TakeBegin, env
  <2>4. CASE HoldPass(c)
    BY <2>1, <2>4, RestType DEF HoldPass, env
  <2>5. QED BY <1>4, <2>2, <2>3, <2>4
<1>5. ASSUME NEW c \in Clients, Commit(c) PROVE TypeOK'
  <2>1. Changed(c) \subseteq Objects
    <3>1. [obj EXCEPT !.gen = @ + 1, !.tmpl = @ + 1] \in Objects
      <4>1. obj.gen + 1 \in Nat /\ obj.tmpl + 1 \in Nat
        BY OneMore DEF Objects
      <4>2. \A g, t \in Nat : [obj EXCEPT !.gen = g, !.tmpl = t] \in Objects
        BY DEF Objects
      <4>3. QED BY <4>1, <4>2
    <3>2. \A o \in Objects : [o EXCEPT !.restarts = 0, !.next = FALSE] \in Objects
      BY DEF Objects
    <3>3. QED BY <3>1, <3>2, ObjectTypes DEF Changed, Target, States
  <2>2. obj' \in Objects
    BY <1>5, <2>1, WriteType DEF Commit
  <2>3. [IdleClient EXCEPT !.pc = "grace"] \in ClientRecords
    BY RestType DEF ClientRecords
  <2>4. cl' \in [Clients -> ClientRecords]
    BY <1>5, <2>3, RestType DEF Commit
  <2>5. QED BY <1>5, <2>2, <2>4 DEF Commit, env
<1>6. ASSUME NEW c \in Clients, RestoreCommit(c) PROVE TypeOK'
  <2>1. obj' \in Objects
    <3>1. \A o \in Objects : [o EXCEPT !.restarts = 0, !.next = FALSE] \in Objects
      BY DEF Objects
    <3>2. QED BY <1>6, <3>1, ObjectTypes, WriteType DEF RestoreCommit, States
  <2>2. [cl[c] EXCEPT !.pc = "asked", !.ver = obj.rv + 1] \in ClientRecords
    <3>1. obj.rv + 1 \in Nat
      BY OneMore DEF Objects
    <3>2. \A n \in Nat : [cl[c] EXCEPT !.pc = "asked", !.ver = n] \in ClientRecords
      BY DEF ClientRecords
    <3>3. QED BY <3>1, <3>2
  <2>3. QED BY <1>6, <2>1, <2>2 DEF RestoreCommit, env
<1>7. ASSUME NEW c \in Clients, RestoreConflicts(c) \/ RestoreBegin(c) \/ RestoreEnd(c) \/ RestoreFails(c)
      PROVE  TypeOK'
  <2>1. /\ [cl[c] EXCEPT !.pc = "swap"] \in ClientRecords
        /\ [cl[c] EXCEPT !.pc = "back"] \in ClientRecords
    BY DEF ClientRecords
  <2>2. \A b \in BOOLEAN : [inst EXCEPT !.restoring = b] \in Instances
    BY DEF Instances
  <2>3. faults' \in Nat
    BY <1>7, OneMore DEF RestoreConflicts, RestoreBegin, RestoreEnd, RestoreFails, Fault, NoFault, env
  <2>4. inst' \in Instances
    BY <1>7, <2>2 DEF RestoreConflicts, RestoreBegin, RestoreEnd, RestoreFails
  <2>5. cl' \in [Clients -> ClientRecords] /\ hold' \in {"free", "pass"} \cup Clients
    BY <1>7, <2>1, RestType DEF RestoreConflicts, RestoreBegin, RestoreEnd, RestoreFails, Unhold
  <2>6. UNCHANGED <<obj, elapsed, snaps, graces, pass, ops, crashes>>
    BY <1>7 DEF RestoreConflicts, RestoreBegin, RestoreEnd, RestoreFails, env
  <2>7. QED BY <2>3, <2>4, <2>5, <2>6
<1>8. ASSUME NEW c \in Clients, Rollback(c) PROVE TypeOK'
  <2>1. [obj EXCEPT !.state = cl[c].sb.state, !.restarts = cl[c].sb.restarts,
                    !.next = cl[c].sb.next] \in Objects
    BY DEF Objects, ClientRecords
  <2>2. obj' \in Objects
    BY <1>8, <2>1, WriteType DEF Rollback
  <2>3. QED BY <1>8, <2>2, RestType DEF Rollback, Unhold, Fault, NoFault
<1>9. CASE DispatchAll \/ DispatchKick
  <2>1. [IdlePass EXCEPT !.pc = "read"] \in Passes
    BY RestType DEF Passes
  <2>2. QED BY <1>9, <2>1 DEF DispatchAll, DispatchKick, env
<1>10. CASE PassRead
  <2>1. [pass EXCEPT !.sb = obj, !.goal = Goal(obj.state),
                     !.pc = IF Goal(obj.state) = "restart" THEN "write" ELSE "call"] \in Passes
    BY DEF Passes, Goal
  <2>2. QED BY <1>10, <2>1 DEF PassRead, env
<1>11. CASE PassSkips \/ PassWriteLost
  BY <1>11, RestType DEF PassSkips, PassWriteLost, EndPass, Fault, NoFault
<1>12. CASE SpecFails \/ DriverRunFails \/ DriverStatus \/ WatchWeak
  <2>1. pass' \in Passes
    BY <1>12 DEF SpecFails, DriverRunFails, DriverStatus, WatchWeak, Passes, Instances
  <2>2. QED BY <1>12, <2>1 DEF SpecFails, DriverRunFails, DriverStatus, WatchWeak, Fault, NoFault
<1>13. CASE DriverRun
  <2>1. Built(pass.sb) \in Instances
    BY RestType DEF Built, Instances, Passes, Objects
  <2>2. pass' \in Passes
    BY <1>13 DEF DriverRun, Passes
  <2>3. faults' \in Nat
    BY <1>13, OneMore DEF DriverRun, Fault, NoFault
  <2>4. inst' \in Instances /\ UNCHANGED <<obj, elapsed, snaps, hold, graces, cl, ops, crashes>>
    BY <1>13, <2>1 DEF DriverRun
  <2>5. QED BY <2>2, <2>3, <2>4
<1>14. CASE DriverStop \/ DriverStopped \/ DriverRemove
  <2>1. pass' \in Passes
    BY <1>14 DEF DriverStop, DriverStopped, DriverRemove, Passes
  <2>2. inst' \in Instances
    BY <1>14, RestType DEF DriverStop, DriverStopped, DriverRemove, Instances
  <2>3. faults' \in Nat
    BY <1>14, OneMore DEF DriverStop, DriverStopped, DriverRemove, Fault, NoFault, env
  <2>4. snaps' \in BOOLEAN
    BY <1>14, Zenon DEF DriverStop, DriverStopped, DriverRemove
  <2>5. /\ graces' \in Clients \cup {NoClient}
        /\ UNCHANGED <<obj, elapsed, hold, cl, ops, crashes>>
    BY <1>14 DEF DriverStop, DriverStopped, DriverRemove, env
  <2>6. QED BY <2>1, <2>2, <2>3, <2>4, <2>5
<1>15. CASE PassWrite
  <2>1. \A stable \in BOOLEAN : Observed(obj, stable) \in Objects
    BY ObservedEffect
  <2>2. obj' \in Objects
    BY <1>15, <2>1, WriteType DEF PassWrite
  <2>3. QED BY <1>15, <2>2, RestType DEF PassWrite, EndPass, env
<1>16. CASE PassRemove
  BY <1>16, ObjectTypes, RestType DEF PassRemove, EndPass, env
<1>17. CASE RestartNotDue \/ RestartLimit \/ RestartSchedule \/ RestartWait \/ RestartNow
  <2>1. /\ [obj EXCEPT !.next = FALSE] \in Objects
        /\ [obj EXCEPT !.next = FALSE, !.sched = "LimitReached"] \in Objects
        /\ [obj EXCEPT !.next = TRUE, !.sched = "Backoff"] \in Objects
    BY DEF Objects
  <2>2. [Transition(obj, "Starting") EXCEPT !.restarts = @ + 1, !.next = FALSE, !.sched = "Restarted"] \in Objects
    <3>1. \A o \in Objects, n \in Nat :
            [o EXCEPT !.restarts = n, !.next = FALSE, !.sched = "Restarted"] \in Objects
      BY DEF Objects
    <3>2. Transition(obj, "Starting") \in Objects
      BY ObjectTypes DEF States
    <3>3. Transition(obj, "Starting").restarts + 1 \in Nat
      BY <3>2, OneMore DEF Objects
    <3>4. QED BY <3>1, <3>2, <3>3
  <2>3. obj' \in Objects
    BY <1>17, <2>1, <2>2, WriteType
    DEF RestartNotDue, RestartLimit, RestartSchedule, RestartWait, RestartNow
  <2>4. QED
    BY <1>17, <2>3, RestType
    DEF RestartNotDue, RestartLimit, RestartSchedule, RestartWait, RestartNow, EndPass, env
<1>18. CASE Elapse \/ Crash
  <2>1. crashes' \in Nat
    BY <1>18, OneMore DEF Elapse, Crash, env
  <2>2. QED BY <1>18, <2>1, RestType DEF Elapse, Crash, env
<1>19. CASE InstanceEnds
  <2>1. \A e \in Endings : [inst EXCEPT !.phase = e] \in Instances
    BY EndingsAssumption DEF Instances
  <2>2. QED BY <1>19, <2>1, RestType DEF InstanceEnds, Fault
<1> HIDE DEF TypeOK
<1>20. QED
  BY <1>1, <1>2, <1>3, <1>4, <1>5, <1>6, <1>7, <1>8, <1>9, <1>10, <1>11, <1>12, <1>13, <1>14,
     <1>15, <1>16, <1>17, <1>18, <1>19
  DEF Next, ClientStep, PassStep

(* Every step keeps the hold with the pass or the restore that took it.    *)
LEMMA HoldStep ==
  ASSUME TypeOK, HoldInv, [Next]_vars
  PROVE  HoldInv'
<1> USE DEF HoldInv, Restoring
<1>0. /\ cl \in [Clients -> ClientRecords] /\ pass \in Passes
      /\ "free" \notin Clients /\ "pass" \notin Clients
  BY ClientsAssumption DEF TypeOK
<1>1. CASE UNCHANGED vars
  BY <1>1 DEF vars
<1>2. ASSUME NEW c \in Clients, NEW v \in Verbs, NEW m \in BOOLEAN, Prepare(c, v, m) PROVE HoldInv'
  BY <1>0, <1>2 DEF Prepare
<1>3. ASSUME NEW c \in Clients,
             Refused(c) \/ CommitFails(c) \/ NoteGrace(c) \/ ExecEnd(c) \/ TakeEnd(c)
      PROVE  HoldInv'
  BY <1>0, <1>3 DEF Refused, CommitFails, NoteGrace, ExecEnd, TakeEnd, IdleClient
<1>4. ASSUME NEW c \in Clients, Commit(c) PROVE HoldInv'
  BY <1>0, <1>4 DEF Commit, IdleClient
<1>5. ASSUME NEW c \in Clients, ExecBegin(c) \/ TakeBegin(c) PROVE HoldInv'
  <2>1. cl'[c].pc \in {"idle", "running", "taking"}
    <3>1. CASE ExecBegin(c)
      BY <1>0, <3>1 DEF ExecBegin, IdleClient, ClientRecords
    <3>2. CASE TakeBegin(c)
      BY <1>0, <3>2 DEF TakeBegin, IdleClient, ClientRecords
    <3>3. QED BY <1>5, <3>1, <3>2
  <2>2. cl[c].pc = "prepared" /\ \A d \in Clients \ {c} : cl'[d] = cl[d]
    BY <1>0, <1>5 DEF ExecBegin, TakeBegin
  <2>3. QED BY <1>0, <1>5, <2>1, <2>2 DEF ExecBegin, TakeBegin
<1>6. ASSUME NEW c \in Clients, HoldPass(c) PROVE HoldInv'
  BY <1>0, <1>6 DEF HoldPass, ClientRecords
<1>7. ASSUME NEW c \in Clients, RestoreCommit(c) \/ RestoreBegin(c) \/ RestoreFails(c) PROVE HoldInv'
  <2>1. cl'[c].pc \in {"asked", "swap", "back"}
    <3>1. CASE RestoreCommit(c)
      BY <1>0, <3>1 DEF RestoreCommit, ClientRecords
    <3>2. CASE RestoreBegin(c)
      BY <1>0, <3>2 DEF RestoreBegin, ClientRecords
    <3>3. CASE RestoreFails(c)
      BY <1>0, <3>3 DEF RestoreFails, ClientRecords
    <3>4. QED BY <1>7, <3>1, <3>2, <3>3
  <2>2. cl[c].pc \in {"held", "asked", "swap"} /\ \A d \in Clients \ {c} : cl'[d] = cl[d]
    BY <1>0, <1>7 DEF RestoreCommit, RestoreBegin, RestoreFails
  <2>3. QED BY <1>0, <1>7, <2>1, <2>2 DEF RestoreCommit, RestoreBegin, RestoreFails
<1>8. ASSUME NEW c \in Clients, RestoreConflicts(c) \/ RestoreEnd(c) \/ Rollback(c) PROVE HoldInv'
  BY <1>0, <1>8 DEF RestoreConflicts, RestoreEnd, Rollback, Unhold, IdleClient
<1>9. CASE DispatchAll \/ DispatchKick
  BY <1>0, <1>9 DEF DispatchAll, DispatchKick, IdlePass
<1>10. CASE PassSkips \/ PassWrite \/ PassWriteLost \/ PassRemove
            \/ RestartNotDue \/ RestartLimit \/ RestartSchedule \/ RestartWait \/ RestartNow
  BY <1>0, <1>10 DEF PassSkips, PassWrite, PassWriteLost, PassRemove, RestartNotDue, RestartLimit,
     RestartSchedule, RestartWait, RestartNow, EndPass, IdlePass
<1>11. CASE PassRead \/ SpecFails \/ DriverRunFails \/ DriverStatus \/ WatchWeak \/ DriverRun
            \/ DriverStop \/ DriverStopped \/ DriverRemove
  BY <1>0, <1>11 DEF PassRead, SpecFails, DriverRunFails, DriverStatus, WatchWeak, DriverRun,
     DriverStop, DriverStopped, DriverRemove, Passes
<1>12. CASE Elapse
  BY <1>12 DEF Elapse
<1>13. CASE InstanceEnds
  BY <1>0, <1>13 DEF InstanceEnds, IdleClient
<1>14. CASE Crash
  BY <1>0, <1>14 DEF Crash, IdleClient, IdlePass
<1> HIDE DEF HoldInv
<1>15. QED
  BY <1>1, <1>2, <1>3, <1>4, <1>5, <1>6, <1>7, <1>8, <1>9, <1>10, <1>11, <1>12, <1>13, <1>14
  DEF Next, ClientStep, PassStep

(* A client's step touches neither the pass nor another client.            *)
LEMMA ClientFrame ==
  ASSUME TypeOK, NEW c \in Clients, ClientStep(c)
  PROVE  pass' = pass /\ \A d \in Clients \ {c} : cl'[d] = cl[d]
<1>0. cl \in [Clients -> ClientRecords]
  BY DEF TypeOK
<1>1. ASSUME NEW v \in Verbs, NEW m \in BOOLEAN, Prepare(c, v, m)
      PROVE  pass' = pass /\ \A d \in Clients \ {c} : cl'[d] = cl[d]
  BY <1>0, <1>1 DEF Prepare
<1>2. CASE Refused(c) \/ Commit(c) \/ CommitFails(c) \/ NoteGrace(c)
           \/ ExecBegin(c) \/ ExecEnd(c) \/ TakeBegin(c) \/ TakeEnd(c)
  BY <1>0, <1>2 DEF Refused, Commit, CommitFails, NoteGrace, ExecBegin, ExecEnd, TakeBegin, TakeEnd
<1>3. CASE HoldPass(c) \/ RestoreCommit(c) \/ RestoreConflicts(c) \/ RestoreBegin(c)
           \/ RestoreEnd(c) \/ RestoreFails(c) \/ Rollback(c)
  BY <1>0, <1>3 DEF HoldPass, RestoreCommit, RestoreConflicts, RestoreBegin, RestoreEnd,
     RestoreFails, Rollback, Unhold
<1>4. QED BY <1>1, <1>2, <1>3 DEF ClientStep

(* Every step keeps what InstInv says of the instance.                     *)
LEMMA InstStep ==
  ASSUME TypeOK, HoldInv, InstInv, PassInv, [Next]_vars
  PROVE  InstInv'
<1> USE DEF InstInv
<1>0. /\ cl \in [Clients -> ClientRecords] /\ pass \in Passes /\ inst \in Instances
      /\ "free" \notin Clients /\ "pass" \notin Clients
      /\ \A c \in Clients : cl[c].pc \in {"held", "asked", "swap", "back"} => hold = c
      /\ \A c \in Clients : cl[c].pc = "swap" => pass.pc = "idle"
  BY ClientsAssumption DEF TypeOK, HoldInv, Restoring
<1>1. CASE UNCHANGED vars
  BY <1>1 DEF vars
<1>2. ASSUME NEW c \in Clients, NEW v \in Verbs, NEW m \in BOOLEAN, Prepare(c, v, m) PROVE InstInv'
  BY <1>0, <1>2 DEF Prepare
<1>3. ASSUME NEW c \in Clients,
             \/ Refused(c) \/ CommitFails(c) \/ NoteGrace(c) \/ ExecEnd(c) \/ TakeEnd(c)
             \/ RestoreConflicts(c) \/ Rollback(c)
      PROVE  InstInv'
  BY <1>0, <1>3 DEF Refused, CommitFails, NoteGrace, ExecEnd, TakeEnd, IdleClient,
     RestoreConflicts, Rollback, Unhold
<1>4. ASSUME NEW c \in Clients, Commit(c) PROVE InstInv'
  BY <1>0, <1>4 DEF Commit, IdleClient
<1>5. ASSUME NEW c \in Clients, ExecBegin(c) PROVE InstInv'
  <2>1. \/ cl'[c].pc = "running" /\ inst.phase = "running"
        \/ cl'[c].pc = "idle"
    BY <1>0, <1>5 DEF ExecBegin, IdleClient, ClientRecords
  <2>2. QED BY <1>5, <2>1, ClientFrame DEF ExecBegin, ClientStep
<1>6. ASSUME NEW c \in Clients, TakeBegin(c) \/ HoldPass(c) \/ RestoreCommit(c) PROVE InstInv'
  <2>1. cl'[c].pc \in {"idle", "taking", "held", "asked"}
    <3>1. CASE TakeBegin(c)
      BY <1>0, <3>1 DEF TakeBegin, IdleClient, ClientRecords
    <3>2. CASE HoldPass(c)
      BY <1>0, <3>2 DEF HoldPass, ClientRecords
    <3>3. CASE RestoreCommit(c)
      BY <1>0, <3>3 DEF RestoreCommit, ClientRecords
    <3>4. QED BY <1>6, <3>1, <3>2, <3>3
  <2>2. UNCHANGED <<inst, pass>> /\ \A d \in Clients \ {c} : cl'[d] = cl[d]
    BY <1>6, ClientFrame DEF ClientStep, TakeBegin, HoldPass, RestoreCommit
  <2>3. QED BY <2>1, <2>2
<1>7. ASSUME NEW c \in Clients, RestoreBegin(c) PROVE InstInv'
  <2>1. \/ /\ inst'.restoring /\ inst'.phase = inst.phase /\ inst.phase = "stopped" /\ cl'[c].pc = "swap"
        \/ /\ inst' = inst /\ cl'[c].pc = "back"
    BY <1>0, <1>7 DEF RestoreBegin, Instances, ClientRecords
  <2>2. pass' = pass /\ \A d \in Clients \ {c} : cl'[d] = cl[d]
    BY <1>7, ClientFrame DEF ClientStep
  <2>3. QED BY <2>1, <2>2
<1>8. ASSUME NEW c \in Clients, RestoreEnd(c) \/ RestoreFails(c) PROVE InstInv'
  <2>1. cl[c].pc = "swap" /\ inst'.phase = inst.phase /\ ~inst'.restoring
    BY <1>0, <1>8 DEF RestoreEnd, RestoreFails, Instances
  <2>2. cl'[c].pc \in {"idle", "back"}
    <3>1. CASE RestoreEnd(c)
      BY <1>0, <3>1 DEF RestoreEnd, Unhold, IdleClient
    <3>2. CASE RestoreFails(c)
      BY <1>0, <3>2 DEF RestoreFails, ClientRecords
    <3>3. QED BY <1>8, <3>1, <3>2
  <2>3. pass' = pass /\ \A d \in Clients \ {c} : cl'[d] = cl[d]
    BY <1>8, ClientFrame DEF ClientStep
  <2>4. QED BY <1>0, <2>1, <2>2, <2>3
<1>9. CASE DispatchAll \/ DispatchKick
  BY <1>0, <1>9 DEF DispatchAll, DispatchKick, IdlePass, HoldInv
<1>10. CASE PassSkips \/ PassWrite \/ PassWriteLost \/ PassRemove
            \/ RestartNotDue \/ RestartLimit \/ RestartSchedule \/ RestartWait \/ RestartNow
  BY <1>10 DEF PassSkips, PassWrite, PassWriteLost, PassRemove, RestartNotDue, RestartLimit,
     RestartSchedule, RestartWait, RestartNow, EndPass, IdlePass
<1>11. CASE PassRead \/ SpecFails \/ DriverRunFails \/ DriverStatus \/ WatchWeak
  BY <1>0, <1>11 DEF PassRead, SpecFails, DriverRunFails, DriverStatus, WatchWeak, Passes
<1>12. CASE DriverRun
  <2>1. inst'.phase = "running" /\ ~inst'.restoring
    BY <1>0, <1>12 DEF DriverRun, Built, Instances, NoInstance
  <2>2. pass.pc = "call" /\ pass'.pc \in {"call", "write"} /\ cl' = cl
    BY <1>0, <1>12 DEF DriverRun, Passes
  <2>3. QED BY <1>0, <2>1, <2>2
<1>13. CASE DriverStop
  <2>1. \/ /\ inst' = inst /\ pass'.pc \in {"remove", "write"}
        \/ /\ inst'.phase = "stopping" /\ pass'.pc = "drain"
           /\ inst'.restoring = inst.restoring /\ inst.phase \notin {"none", "stopped"}
    BY <1>0, <1>13 DEF DriverStop, Instances, Passes
  <2>2. pass.pc = "call" /\ cl' = cl
    BY <1>13 DEF DriverStop
  <2>3. QED BY <1>0, <2>1, <2>2
<1>14. CASE DriverStopped
  <2>1. inst'.phase = "stopped" /\ pass'.pc \in {"remove", "write"}
    BY <1>0, <1>14 DEF DriverStopped, Instances, Passes
  <2>2. cl' = cl /\ pass.pc = "drain" /\ \A c \in Clients : cl[c].pc # "running"
    BY <1>14 DEF DriverStopped, CommandsRunning
  <2>3. QED BY <1>0, <2>1, <2>2
<1>15. CASE DriverRemove
  <2>1. inst'.phase = "none" /\ ~inst'.restoring /\ pass'.pc = "write"
    BY <1>0, <1>15 DEF DriverRemove, NoInstance, Passes
  <2>2. cl' = cl /\ pass.pc = "remove" /\ inst.phase \in {"none", "stopped"}
    BY <1>15 DEF DriverRemove, PassInv, Busy
  <2>3. QED BY <1>0, <2>1, <2>2
<1>16. CASE Elapse
  BY <1>16 DEF Elapse
<1>17. CASE InstanceEnds
  <2>1. inst'.phase \in {"exited", "failed"} /\ inst'.restoring = inst.restoring /\ inst.phase = "running"
    BY <1>0, <1>17, EndingsAssumption DEF InstanceEnds, Instances
  <2>2. \A c \in Clients : cl'[c].pc # "running" /\ (cl'[c].pc = "swap" => cl[c].pc = "swap")
    BY <1>0, <1>17 DEF InstanceEnds, IdleClient
  <2>3. QED BY <1>17, <2>1, <2>2 DEF InstanceEnds
<1>18. CASE Crash
  BY <1>0, <1>18 DEF Crash, IdleClient, IdlePass, NoInstance
<1> HIDE DEF InstInv
<1>19. QED
  BY <1>1, <1>2, <1>3, <1>4, <1>5, <1>6, <1>7, <1>8, <1>9, <1>10, <1>11, <1>12, <1>13, <1>14,
     <1>15, <1>16, <1>17, <1>18
  DEF Next, ClientStep, PassStep

(* A store update stores what it is given and counts the version up.       *)
LEMMA WriteEffect ==
  ASSUME obj \in Objects, NEW o \in Objects, Write(o)
  PROVE  /\ obj'.state = o.state /\ obj'.gen = o.gen /\ obj'.restarts = o.restarts
         /\ obj'.rv = obj.rv + 1
BY DEF Write, Objects

(* Sandbox.Transition moves the state and keeps the restart count.         *)
LEMMA TransitionEffect ==
  ASSUME NEW o \in Objects, NEW s \in States
  PROVE  Transition(o, s).state = s /\ Transition(o, s).restarts = o.restarts
BY DEF Transition, Objects

(* A verb's write makes a legal move to a state in transition, or none,    *)
(* and never raises the restart count.                                     *)
LEMMA CommitEffect ==
  ASSUME TypeOK, NEW c \in Clients, Commit(c)
  PROVE  /\ obj.state # "Gone" /\ obj'.rv = obj.rv + 1 /\ obj'.restarts <= obj.restarts
         /\ \/ obj'.state = obj.state
            \/ /\ CanTransition(obj.state, obj'.state)
               /\ obj'.state \in {"Starting", "Stopping", "Deleting"}
<1>0. obj \in Objects /\ obj.restarts \in Nat /\ Target(cl[c].verb) \in States
  BY DEF TypeOK, Objects, Target, States
<1>1. PICK o \in Changed(c) : Write(o)
  BY DEF Commit
<1>2. CASE cl[c].verb = "update"
  <2>1. o \in Objects /\ o.state = obj.state /\ o.restarts = obj.restarts
    <3>1. CASE o = obj
      BY <1>0, <3>1
    <3>2. CASE o = [obj EXCEPT !.gen = @ + 1, !.tmpl = @ + 1]
      <4>1. obj.gen + 1 \in Nat /\ obj.tmpl + 1 \in Nat
        BY <1>0, OneMore DEF Objects
      <4>2. \A g, t \in Nat : LET u == [obj EXCEPT !.gen = g, !.tmpl = t]
                              IN  u \in Objects /\ u.state = obj.state /\ u.restarts = obj.restarts
        BY <1>0 DEF Objects
      <4>3. QED BY <3>2, <4>1, <4>2
    <3>3. QED BY <1>1, <1>2, <3>1, <3>2 DEF Changed
  <2>2. QED BY <1>0, <1>1, <2>1, WriteEffect DEF Commit, Accepts
<1>3. CASE cl[c].verb = "start"
  <2>1. Transition(obj, "Starting") \in Objects /\ Transition(obj, "Starting").state = "Starting"
    BY <1>0, ObjectTypes, TransitionEffect DEF States
  <2>2. o = [Transition(obj, "Starting") EXCEPT !.restarts = 0, !.next = FALSE]
    BY <1>1, <1>3 DEF Changed
  <2>3. o \in Objects /\ o.state = "Starting" /\ o.restarts = 0
    BY <2>1, <2>2 DEF Objects
  <2>4. CanTransition(obj.state, "Starting") /\ obj.state # "Gone"
    BY <1>3 DEF Commit, Accepts, Target
  <2>5. QED BY <1>0, <1>1, <2>3, <2>4, WriteEffect
<1>4. CASE cl[c].verb \in {"stop", "delete"}
  <2>1. o = Transition(obj, Target(cl[c].verb))
    BY <1>1, <1>4 DEF Changed
  <2>2. o \in Objects /\ o.state = Target(cl[c].verb) /\ o.restarts = obj.restarts
    BY <1>0, <2>1, ObjectTypes, TransitionEffect
  <2>3. CanTransition(obj.state, Target(cl[c].verb)) /\ obj.state # "Gone"
    BY <1>4 DEF Commit, Accepts
  <2>4. Target(cl[c].verb) \in {"Stopping", "Deleting"}
    BY <1>4 DEF Target
  <2>5. QED BY <1>0, <1>1, <2>2, <2>3, <2>4, WriteEffect
<1>5. QED BY <1>2, <1>3, <1>4 DEF Commit

(* Every step keeps what PassInv says of the object a pass read.           *)
LEMMA PassStepInv ==
  ASSUME TypeOK, HoldInv, InstInv, PassInv, [Next]_vars
  PROVE  PassInv'
<1>0. /\ cl \in [Clients -> ClientRecords] /\ pass \in Passes /\ inst \in Instances
      /\ obj \in Objects /\ obj.rv \in Nat /\ obj.restarts \in Nat
      /\ pass.sb.rv \in Nat /\ pass.sb.restarts \in Nat
      /\ \A c \in Clients : Restoring(c) => ~Busy
  BY ClientsAssumption DEF TypeOK, HoldInv, Restoring, Busy, Objects, Passes
<1>1. CASE UNCHANGED <<obj, inst, pass>>
  BY <1>1 DEF PassInv, Busy
<1>2. ASSUME NEW c \in Clients, Commit(c) PROVE PassInv'
  <2>1. UNCHANGED <<inst, pass>>
    BY <1>2 DEF Commit
  <2>2. /\ obj.state # "Gone" /\ obj'.rv = obj.rv + 1 /\ obj'.restarts <= obj.restarts
        /\ obj'.state \in {obj.state, "Starting", "Stopping", "Deleting"}
    BY <1>2, CommitEffect
  <2>3. obj'.restarts \in Nat
    BY TypeStep DEF TypeOK, Objects
  <2>4. ASSUME Busy PROVE pass.sb.rv < obj'.rv /\ obj'.restarts <= pass.sb.restarts
    BY <1>0, <2>2, <2>3, <2>4 DEF PassInv
  <2>5. obj'.state # "Gone" /\ (~CanRestore(obj.state) => ~CanRestore(obj'.state))
    BY <2>2 DEF CanRestore
  <2>6. ASSUME Busy PROVE pass.sb.rv <= obj'.rv /\ pass.sb.rv # obj'.rv
    <3>1. obj'.rv \in Nat
      BY <1>0, <2>2, OneMore
    <3>2. QED BY <1>0, <2>4, <2>6, <3>1
  <2>7. QED BY <2>1, <2>4, <2>5, <2>6 DEF PassInv, Busy
<1>3. ASSUME NEW c \in Clients,
             RestoreCommit(c) \/ RestoreBegin(c) \/ RestoreEnd(c) \/ RestoreFails(c) \/ Rollback(c)
      PROVE  PassInv'
  <2>1. Restoring(c) /\ pass' = pass
    BY <1>3 DEF Restoring, RestoreCommit, RestoreBegin, RestoreEnd, RestoreFails, Rollback
  <2>2. QED BY <1>0, <2>1 DEF PassInv, Busy
<1>4. CASE DispatchAll \/ DispatchKick
  BY <1>4 DEF DispatchAll, DispatchKick, IdlePass, PassInv, Busy
<1>5. CASE PassSkips \/ PassWrite \/ PassWriteLost \/ PassRemove
           \/ RestartNotDue \/ RestartLimit \/ RestartSchedule \/ RestartWait \/ RestartNow \/ Crash
  BY <1>5 DEF PassSkips, PassWrite, PassWriteLost, PassRemove, RestartNotDue, RestartLimit,
     RestartSchedule, RestartWait, RestartNow, Crash, EndPass, IdlePass, PassInv, Busy
<1>6. CASE PassRead
  <2>1. /\ obj' = obj /\ inst' = inst
        /\ pass'.sb = obj /\ pass'.goal = Goal(obj.state)
        /\ pass'.pc = IF Goal(obj.state) = "restart" THEN "write" ELSE "call"
    BY <1>0, <1>6 DEF PassRead, Passes
  <2>2. obj.state \in States \ {"Stopped"} /\ obj.state # "Gone"
    BY <1>0, <1>6 DEF PassRead, Objects, States
  <2>3. Goal(obj.state) # "restart" => ~CanRestore(obj.state)
    BY <2>2 DEF Goal, CanRestore
  <2>4. Goal(obj.state) = "restart" => Goal(obj.state) # "delete"
    OBVIOUS
  <2>5. QED BY <1>0, <2>1, <2>2, <2>3, <2>4 DEF PassInv, Busy
<1>7. ASSUME Busy, obj' = obj, pass'.sb = pass.sb,
             \/ pass'.goal = pass.goal /\ pass'.goal # "restart"
             \/ pass'.goal = "weak" /\ pass.goal \in {"run", "watch"},
             pass'.pc = "drain" => pass'.goal \in {"stop", "weak", "delete"},
             pass'.pc = "remove" => pass'.goal = "delete" /\ inst'.phase \in {"none", "stopped"},
             pass'.pc = "write" /\ pass'.goal = "delete" /\ pass'.res = "ok" => inst'.phase = "none"
      PROVE  PassInv'
  <2>1. pass.goal \in {"run", "watch"} => pass.sb.state \in {"Provisioning", "Starting", "Ready"}
    BY <1>7 DEF PassInv, Goal, States
  <2>2. QED BY <1>7, <2>1 DEF PassInv, Busy
<1>8. CASE SpecFails \/ DriverRunFails \/ DriverStatus \/ WatchWeak
  <2>1. pass.goal \in {"run", "watch"} /\ Busy /\ obj' = obj
    BY <1>8 DEF SpecFails, DriverRunFails, DriverStatus, WatchWeak, Busy
  <2>2. /\ pass'.sb = pass.sb /\ pass'.goal \in {pass.goal, "weak"} /\ pass'.pc \in {"call", "write"}
    BY <1>0, <1>8 DEF SpecFails, DriverRunFails, DriverStatus, WatchWeak, Passes
  <2>3. QED BY <1>7, <2>1, <2>2
<1>9. CASE DriverRun
  <2>1. pass.goal = "run" /\ Busy /\ obj' = obj
    BY <1>9 DEF DriverRun, Busy
  <2>2. /\ pass'.sb = pass.sb /\ pass'.goal \in {pass.goal, "weak"} /\ pass'.pc \in {"call", "write"}
    BY <1>0, <1>9 DEF DriverRun, Passes
  <2>3. QED BY <1>7, <2>1, <2>2
<1>10. CASE DriverStop
  <2>1. pass.goal \in {"stop", "weak", "delete"} /\ Busy /\ obj' = obj
    BY <1>10 DEF DriverStop, Busy
  <2>2. /\ pass'.sb = pass.sb /\ pass'.goal = pass.goal
        /\ \/ pass'.pc = "drain"
           \/ /\ inst'.phase \in {"none", "stopped"}
              /\ pass'.pc = IF pass.goal = "delete" THEN "remove" ELSE "write"
    BY <1>0, <1>10 DEF DriverStop, Passes
  <2>3. QED BY <1>7, <2>1, <2>2
<1>11. CASE DriverStopped
  <2>1. pass.goal \in {"stop", "weak", "delete"} /\ Busy /\ obj' = obj
    BY <1>11 DEF DriverStopped, Busy, PassInv
  <2>2. /\ pass'.sb = pass.sb /\ pass'.goal = pass.goal /\ inst'.phase = "stopped"
        /\ \/ pass'.pc = "write" /\ pass'.res = "err"
           \/ pass'.pc = IF pass.goal = "delete" THEN "remove" ELSE "write"
    BY <1>0, <1>11 DEF DriverStopped, Passes, Instances
  <2>3. QED BY <1>7, <2>1, <2>2
<1>12. CASE DriverRemove
  <2>1. pass.goal = "delete" /\ Busy /\ obj' = obj
    BY <1>12 DEF DriverRemove, Busy, PassInv
  <2>2. pass'.sb = pass.sb /\ pass'.goal = pass.goal /\ inst'.phase = "none" /\ pass'.pc = "write"
    BY <1>0, <1>12 DEF DriverRemove, Passes, NoInstance
  <2>3. QED BY <1>7, <2>1, <2>2
<1>13. CASE InstanceEnds
  <2>1. UNCHANGED <<obj, pass>> /\ inst.phase = "running"
    BY <1>13 DEF InstanceEnds
  <2>2. QED BY <2>1 DEF PassInv, Busy
<1>14. ASSUME NEW c \in Clients,
             \/ \E v \in Verbs, m \in BOOLEAN : Prepare(c, v, m)
             \/ Refused(c) \/ CommitFails(c) \/ NoteGrace(c) \/ ExecBegin(c) \/ ExecEnd(c)
             \/ TakeBegin(c) \/ TakeEnd(c) \/ HoldPass(c) \/ RestoreConflicts(c)
      PROVE  UNCHANGED <<obj, inst, pass>>
  BY <1>14 DEF Prepare, Refused, CommitFails, NoteGrace, ExecBegin, ExecEnd, TakeBegin, TakeEnd,
     HoldPass, RestoreConflicts
<1>15. QED
  BY <1>1, <1>2, <1>3, <1>4, <1>5, <1>6, <1>8, <1>9, <1>10, <1>11, <1>12, <1>13, <1>14
  DEF Next, ClientStep, PassStep, Elapse, vars

(* A pass's write either leaves the object alone or counts its version up, *)
(* and never removes it.                                                   *)
LEMMA PassWritesEffect ==
  ASSUME TypeOK, PassInv,
         PassWrite \/ RestartNotDue \/ RestartLimit \/ RestartSchedule \/ RestartWait \/ RestartNow
  PROVE  /\ obj.state # "Gone" /\ obj'.state # "Gone"
         /\ obj' = obj \/ obj'.rv = obj.rv + 1
<1>0. obj \in Objects /\ obj.state # "Gone"
  BY DEF TypeOK, PassInv, Busy, PassWrite, RestartNotDue, RestartLimit, RestartSchedule, RestartWait, RestartNow
<1>1. obj'.state # "Gone"
  <2>1. CASE PassWrite
    <3>1. ASSUME NEW b \in BOOLEAN
          PROVE  Observed(obj, b).state \in {obj.state, "Ready", "Error", "Stopped", "Completed"}
      BY <1>0, ObservedEffect
    <3>2. ASSUME NEW b \in BOOLEAN, Write(Observed(obj, b)) PROVE obj'.state = Observed(obj, b).state
      BY <1>0, <3>2, ObservedEffect, WriteEffect
    <3>3. QED BY <1>0, <2>1, <3>1, <3>2 DEF PassWrite
  <2>2. CASE RestartNotDue \/ RestartLimit \/ RestartSchedule \/ RestartWait
    BY <1>0, <2>2 DEF RestartNotDue, RestartLimit, RestartSchedule, RestartWait, Write, Objects
  <2>3. CASE RestartNow
    BY <1>0, <2>3 DEF RestartNow, Write, Objects, Transition
  <2>4. QED BY <2>1, <2>2, <2>3
<1>2. obj' = obj \/ \E o : Write(o)
  BY DEF PassWrite, RestartNotDue, RestartLimit, RestartSchedule, RestartWait, RestartNow
<1>3. obj' = obj \/ obj'.rv = obj.rv + 1
  <2>1. ASSUME NEW o, Write(o), obj' \in Objects PROVE obj'.rv = obj.rv + 1
    BY <2>1 DEF Write, Objects
  <2>2. obj' \in Objects
    BY TypeStep DEF TypeOK, Next, PassStep
  <2>3. QED BY <1>2, <2>1, <2>2
<1>4. QED BY <1>0, <1>1, <1>3

(* Starting can only go to Ready, Error or Deleting.                       *)
LEMMA FromStarting ==
  ASSUME NEW s, CanTransition("Starting", s)
  PROVE  s \in {"Ready", "Error", "Deleting"}
BY DEF CanTransition, transitions, States

(* Deleting goes nowhere.                                                  *)
LEMMA FromDeleting == \A s : ~CanTransition("Deleting", s)
BY DEF CanTransition, transitions, States

(* Every step keeps what RestoreInv says of the object a restore read.     *)
LEMMA RestoreStep ==
  ASSUME TypeOK, HoldInv, PassInv, RestoreInv, RestartBudget, [Next]_vars
  PROVE  RestoreInv'
<1> DEFINE Asking(r) == r.pc \in {"prepared", "held"} /\ r.verb = "restore"
           Begun(r) == r.pc \in {"asked", "swap", "back"}
           Good(r) ==
             /\ r.pc = "held" => r.verb = "restore"
             /\ Asking(r) \/ Begun(r) => CanRestore(r.sb.state) /\ r.sb.restarts <= MaxRestarts
           Fits(r, o) ==
             /\ Asking(r) /\ o.state # "Gone" => r.ver <= o.rv /\ (r.ver = o.rv => o.state = r.sb.state)
             /\ Begun(r) => /\ o.state \in {"Starting", "Deleting"}
                            /\ r.ver <= o.rv /\ (r.ver = o.rv => o.state = "Starting")
<1>0. /\ cl \in [Clients -> ClientRecords] /\ obj \in Objects /\ obj.rv \in Nat
      /\ \A d \in Clients : cl[d].ver \in Nat
      /\ \A d \in Clients : Good(cl[d]) /\ Fits(cl[d], obj)
      /\ \A d \in Clients : Begun(cl[d]) => hold = d /\ pass.pc = "idle"
  BY ClientsAssumption DEF TypeOK, HoldInv, Restoring, RestoreInv, Began, Objects, ClientRecords
<1>1. SUFFICES \A d \in Clients : Good(cl'[d]) /\ Fits(cl'[d], obj')
  BY DEF RestoreInv, Began
<1> HIDE DEF Good, Fits
<1>2. CASE UNCHANGED <<obj, cl>>
  BY <1>0, <1>2
<1>3. ASSUME NEW r, r.pc \notin {"prepared", "held", "asked", "swap", "back"}, NEW o
      PROVE  Good(r) /\ Fits(r, o)
  BY <1>3 DEF Good, Fits
<1>4. ASSUME NEW d \in Clients, ~Begun(cl[d]), obj.state # "Gone", obj'.rv = obj.rv + 1
      PROVE  Good(cl[d]) /\ Fits(cl[d], obj')
  <2>1. Asking(cl[d]) => cl[d].ver <= obj'.rv /\ cl[d].ver # obj'.rv
    BY <1>0, <1>4 DEF Fits
  <2>2. QED BY <1>0, <1>4, <2>1 DEF Fits
<1>5. ASSUME NEW c \in Clients, NEW v \in Verbs, NEW m \in BOOLEAN, Prepare(c, v, m)
      PROVE  \A d \in Clients : Good(cl'[d]) /\ Fits(cl'[d], obj')
  <2>1. /\ cl'[c].pc = "prepared" /\ cl'[c].verb = v
        /\ v = "restore" => cl'[c].sb = obj /\ cl'[c].ver = obj.rv /\ CanRestore(obj.state)
    BY <1>0, <1>5 DEF Prepare, MayPrepare
  <2>2. Good(cl'[c]) /\ Fits(cl'[c], obj)
    BY <1>0, <2>1 DEF Good, Fits, RestartBudget
  <2>3. obj' = obj /\ \A d \in Clients \ {c} : cl'[d] = cl[d]
    BY <1>0, <1>5 DEF Prepare
  <2>4. QED BY <1>0, <2>2, <2>3
<1>6. ASSUME NEW c \in Clients,
             \/ Refused(c) \/ CommitFails(c) \/ NoteGrace(c) \/ ExecEnd(c) \/ TakeEnd(c)
             \/ ExecBegin(c) \/ TakeBegin(c) \/ RestoreConflicts(c) \/ RestoreEnd(c)
      PROVE  \A d \in Clients : Good(cl'[d]) /\ Fits(cl'[d], obj')
  <2>1. cl'[c].pc \in {"idle", "running", "taking"}
    <3>1. CASE ExecBegin(c)
      BY <1>0, <3>1 DEF ExecBegin, IdleClient, ClientRecords
    <3>2. CASE TakeBegin(c)
      BY <1>0, <3>2 DEF TakeBegin, IdleClient, ClientRecords
    <3>3. QED
      BY <1>0, <1>6, <3>1, <3>2 DEF Refused, CommitFails, NoteGrace, ExecEnd, TakeEnd,
         RestoreConflicts, RestoreEnd, Unhold, IdleClient
  <2>2. obj' = obj
    BY <1>6 DEF Refused, CommitFails, NoteGrace, ExecEnd, TakeEnd, ExecBegin, TakeBegin,
       RestoreConflicts, RestoreEnd
  <2>3. \A d \in Clients \ {c} : cl'[d] = cl[d]
    BY <1>6, ClientFrame DEF ClientStep
  <2>4. QED BY <1>0, <1>3, <2>1, <2>2, <2>3
<1>7. ASSUME NEW c \in Clients, Commit(c)
      PROVE  \A d \in Clients : Good(cl'[d]) /\ Fits(cl'[d], obj')
  <2>1. cl'[c].pc \in {"idle", "grace"}
    BY <1>0, <1>7 DEF Commit, IdleClient
  <2>2. \A d \in Clients \ {c} : cl'[d] = cl[d]
    BY <1>7, ClientFrame DEF ClientStep
  <2>3. /\ obj.state # "Gone" /\ obj'.rv = obj.rv + 1
        /\ \/ obj'.state = obj.state
           \/ CanTransition(obj.state, obj'.state) /\ obj'.state \in {"Starting", "Stopping", "Deleting"}
    BY <1>7, CommitEffect
  <2>4. ASSUME NEW d \in Clients \ {c}, Begun(cl[d]) PROVE Good(cl[d]) /\ Fits(cl[d], obj')
    <3>1. obj'.state \in {"Starting", "Deleting"}
      BY <1>0, <2>3, <2>4, FromStarting, FromDeleting DEF Fits
    <3>2. cl[d].ver <= obj'.rv /\ cl[d].ver # obj'.rv
      BY <1>0, <2>3, <2>4 DEF Fits
    <3>3. QED BY <1>0, <2>4, <3>1, <3>2 DEF Fits
  <2>5. QED BY <1>3, <1>4, <2>1, <2>2, <2>3, <2>4
<1>8. ASSUME NEW c \in Clients, HoldPass(c) \/ RestoreBegin(c) \/ RestoreFails(c)
      PROVE  \A d \in Clients : Good(cl'[d]) /\ Fits(cl'[d], obj')
  <2>1. /\ cl'[c].verb = cl[c].verb /\ cl'[c].sb = cl[c].sb /\ cl'[c].ver = cl[c].ver
        /\ \/ cl'[c].pc = "held" /\ Asking(cl[c])
           \/ cl'[c].pc \in {"swap", "back"} /\ Begun(cl[c])
    <3>1. CASE HoldPass(c)
      BY <1>0, <3>1 DEF HoldPass, ClientRecords
    <3>2. CASE RestoreBegin(c)
      BY <1>0, <3>2 DEF RestoreBegin, ClientRecords
    <3>3. CASE RestoreFails(c)
      BY <1>0, <3>3 DEF RestoreFails, ClientRecords
    <3>4. QED BY <1>8, <3>1, <3>2, <3>3
  <2>2. Good(cl'[c]) /\ Fits(cl'[c], obj)
    BY <1>0, <2>1 DEF Good, Fits
  <2>3. obj' = obj /\ \A d \in Clients \ {c} : cl'[d] = cl[d]
    BY <1>8, ClientFrame DEF ClientStep, HoldPass, RestoreBegin, RestoreFails
  <2>4. QED BY <1>0, <2>2, <2>3
<1>9. ASSUME NEW c \in Clients, RestoreCommit(c)
      PROVE  \A d \in Clients : Good(cl'[d]) /\ Fits(cl'[d], obj')
  <2>1. obj.state # "Gone" /\ cl[c].pc = "held" /\ hold = c
    BY <1>9 DEF RestoreCommit, Unchanged, HoldInv, Restoring
  <2>2. obj'.state = "Starting" /\ obj'.rv = obj.rv + 1
    BY <1>0, <1>9 DEF RestoreCommit, Write, Transition, Objects
  <2>3. cl'[c].pc = "asked" /\ cl'[c].sb = cl[c].sb /\ cl'[c].ver = obj.rv + 1
    BY <1>0, <1>9 DEF RestoreCommit, ClientRecords
  <2>4. Good(cl'[c]) /\ Fits(cl'[c], obj')
    BY <1>0, <2>1, <2>2, <2>3 DEF Good, Fits
  <2>5. \A d \in Clients \ {c} : cl'[d] = cl[d] /\ ~Begun(cl[d])
    BY <1>0, <1>9, <2>1, ClientFrame DEF ClientStep
  <2>6. QED BY <1>4, <2>1, <2>2, <2>4, <2>5
<1>10. ASSUME NEW c \in Clients, Rollback(c)
       PROVE  \A d \in Clients : Good(cl'[d]) /\ Fits(cl'[d], obj')
  <2>1. cl'[c].pc = "idle" /\ cl[c].pc = "back"
    BY <1>0, <1>10 DEF Rollback, Unhold, IdleClient
  <2>2. obj' = obj \/ (obj'.rv = obj.rv + 1 /\ obj.state # "Gone")
    BY <1>0, <1>10 DEF Rollback, Write, Objects, Unchanged
  <2>3. \A d \in Clients \ {c} : cl'[d] = cl[d] /\ ~Begun(cl[d])
    BY <1>0, <1>10, <2>1, ClientFrame DEF ClientStep
  <2>4. QED BY <1>0, <1>3, <1>4, <2>1, <2>2, <2>3
<1>11. CASE PassWrite \/ RestartNotDue \/ RestartLimit \/ RestartSchedule \/ RestartWait \/ RestartNow
  <2>1. pass.pc = "write" /\ cl' = cl
    BY <1>11 DEF PassWrite, RestartNotDue, RestartLimit, RestartSchedule, RestartWait, RestartNow
  <2>2. obj.state # "Gone" /\ (obj' = obj \/ obj'.rv = obj.rv + 1)
    BY <1>11, PassWritesEffect
  <2>3. \A d \in Clients : ~Begun(cl[d])
    BY <1>0, <2>1
  <2>4. QED BY <1>0, <1>4, <2>1, <2>2, <2>3
<1>12. CASE PassRemove
  <2>1. pass.pc = "write" /\ cl' = cl /\ (obj' = obj \/ obj'.state = "Gone")
    BY <1>12 DEF PassRemove, NoObject
  <2>2. \A d \in Clients : ~Begun(cl[d])
    BY <1>0, <2>1
  <2>3. QED BY <1>0, <2>1, <2>2 DEF Fits
<1>13. CASE InstanceEnds \/ Crash
  <2>1. obj' = obj /\ \A d \in Clients : cl'[d] = IdleClient \/ cl'[d] = cl[d]
    BY <1>13 DEF InstanceEnds, Crash
  <2>2. QED BY <1>0, <1>3, <2>1 DEF IdleClient
<1>14. CASE DispatchAll \/ DispatchKick \/ PassRead \/ PassSkips \/ SpecFails \/ DriverRun
            \/ DriverRunFails \/ DriverStop \/ DriverStopped \/ DriverRemove \/ DriverStatus
            \/ WatchWeak \/ PassWriteLost \/ Elapse \/ UNCHANGED vars
  BY <1>2, <1>14 DEF DispatchAll, DispatchKick, PassRead, PassSkips, SpecFails, DriverRun,
     DriverRunFails, DriverStop, DriverStopped, DriverRemove, DriverStatus, WatchWeak,
     PassWriteLost, Elapse, vars
<1>15. QED
  BY <1>5, <1>6, <1>7, <1>8, <1>9, <1>10, <1>11, <1>12, <1>13, <1>14 DEF Next, ClientStep, PassStep

(* Every step keeps the instance from running where it must not.           *)
LEMMA QuietStep ==
  ASSUME TypeOK, HoldInv, InstInv, PassInv, RestoreInv, QuietInv, [Next]_vars
  PROVE  QuietInv'
<1> SUFFICES ASSUME "spec" \notin Failing
             PROVE  /\ (CanRestore(obj.state) => inst.phase # "running")'
                    /\ \A d \in Clients : (Began(d) => inst.phase # "running")'
                    /\ (NotRun => inst.phase # "running")'
  BY DEF QuietInv
<1> DEFINE Goal1 == /\ (CanRestore(obj.state) => inst.phase # "running")'
                    /\ \A d \in Clients : (Began(d) => inst.phase # "running")'
                    /\ (NotRun => inst.phase # "running")'
<1>0. /\ cl \in [Clients -> ClientRecords] /\ pass \in Passes /\ inst \in Instances /\ obj \in Objects
      /\ \A d \in Clients : Began(d) => pass.pc = "idle" /\ hold = d
      /\ CanRestore(obj.state) => inst.phase # "running"
      /\ \A d \in Clients : Began(d) => inst.phase # "running"
      /\ NotRun => inst.phase # "running"
  BY ClientsAssumption DEF TypeOK, HoldInv, Restoring, Began, QuietInv
<1>1. CASE inst'.phase # "running"
  BY <1>1
<1>2. CASE UNCHANGED <<obj, inst, pass>> /\ \A d \in Clients : Began(d)' => Began(d)
  BY <1>0, <1>2 DEF NotRun
<1>3. ASSUME NEW c \in Clients, NEW v \in Verbs, NEW m \in BOOLEAN, Prepare(c, v, m) PROVE Goal1
  <2>1. UNCHANGED <<obj, inst, pass>> /\ \A d \in Clients : Began(d)' => Began(d)
    BY <1>0, <1>3 DEF Prepare, Began
  <2>2. QED BY <1>2, <2>1
<1>4. ASSUME NEW c \in Clients,
             \/ Refused(c) \/ CommitFails(c) \/ NoteGrace(c) \/ ExecEnd(c) \/ TakeEnd(c)
             \/ ExecBegin(c) \/ TakeBegin(c) \/ HoldPass(c) \/ RestoreConflicts(c)
      PROVE Goal1
  <2>1. cl'[c].pc \in {"idle", "running", "taking", "held"}
    <3>1. CASE ExecBegin(c)
      BY <1>0, <3>1 DEF ExecBegin, IdleClient, ClientRecords
    <3>2. CASE TakeBegin(c)
      BY <1>0, <3>2 DEF TakeBegin, IdleClient, ClientRecords
    <3>3. CASE HoldPass(c)
      BY <1>0, <3>3 DEF HoldPass, ClientRecords
    <3>4. QED
      BY <1>0, <1>4, <3>1, <3>2, <3>3 DEF Refused, CommitFails, NoteGrace, ExecEnd, TakeEnd,
         RestoreConflicts, Unhold, IdleClient
  <2>2. UNCHANGED <<obj, inst, pass>>
    BY <1>4 DEF Refused, CommitFails, NoteGrace, ExecEnd, TakeEnd, ExecBegin, TakeBegin, HoldPass,
       RestoreConflicts
  <2>3. \A d \in Clients \ {c} : cl'[d] = cl[d]
    BY <1>4, ClientFrame DEF ClientStep
  <2>4. QED BY <1>2, <2>1, <2>2, <2>3 DEF Began
<1>5. ASSUME NEW c \in Clients, Commit(c) PROVE Goal1
  <2>1. UNCHANGED <<inst, pass>> /\ cl'[c].pc \in {"idle", "grace"}
    BY <1>0, <1>5 DEF Commit, IdleClient
  <2>2. obj'.state \in {obj.state, "Starting", "Stopping", "Deleting"}
    BY <1>5, CommitEffect
  <2>3. \A d \in Clients \ {c} : cl'[d] = cl[d]
    BY <1>5, ClientFrame DEF ClientStep
  <2>4. QED BY <1>0, <2>1, <2>2, <2>3 DEF CanRestore, Began, NotRun
<1>6. ASSUME NEW c \in Clients, RestoreCommit(c) PROVE Goal1
  <2>1. inst.phase # "running"
    <3>1. obj.state = cl[c].sb.state /\ CanRestore(cl[c].sb.state)
      BY <1>6 DEF RestoreCommit, Unchanged, RestoreInv
    <3>2. QED BY <1>0, <3>1
  <2>2. QED BY <1>1, <1>6, <2>1 DEF RestoreCommit
<1>7. ASSUME NEW c \in Clients, RestoreBegin(c) \/ RestoreEnd(c) \/ RestoreFails(c) \/ Rollback(c)
      PROVE  Goal1
  <2>1. inst.phase # "running"
    BY <1>0, <1>7 DEF RestoreBegin, RestoreEnd, RestoreFails, Rollback, Began
  <2>2. inst'.phase = inst.phase
    BY <1>0, <1>7 DEF RestoreBegin, RestoreEnd, RestoreFails, Rollback, Instances
  <2>3. QED BY <1>1, <2>1, <2>2
<1>8. CASE DispatchAll \/ DispatchKick \/ PassSkips \/ PassWriteLost \/ Elapse
  <2>1. UNCHANGED <<obj, inst, cl>> /\ (pass' = pass \/ pass'.pc \in {"idle", "read"})
    BY <1>8 DEF DispatchAll, DispatchKick, PassSkips, PassWriteLost, EndPass, IdlePass, Elapse
  <2>2. QED BY <1>0, <2>1 DEF Began, NotRun
<1>9. CASE PassRead
  <2>1. UNCHANGED <<obj, inst, cl>> /\ (pass'.pc = "call" \/ pass'.goal = "restart")
    BY <1>0, <1>9 DEF PassRead, Passes
  <2>2. QED BY <1>0, <2>1 DEF Began, NotRun
<1>10. CASE DriverRun
  <2>1. UNCHANGED <<obj, cl>> /\ pass.pc = "call" /\ pass.goal = "run"
    BY <1>10 DEF DriverRun
  <2>2. pass'.pc = "call" \/ (pass'.goal = "run" /\ pass'.res = "ok")
    BY <1>0, <1>10 DEF DriverRun, Passes
  <2>3. ~CanRestore(obj.state)
    BY <2>1 DEF PassInv, Busy
  <2>4. QED BY <1>0, <2>1, <2>2, <2>3 DEF Began, NotRun
<1>11. CASE SpecFails
  BY <1>11 DEF SpecFails, Fault
<1>12. CASE DriverRunFails \/ DriverRemove
  BY <1>1, <1>12 DEF DriverRunFails, DriverRemove, NoInstance
<1>13. CASE DriverStop \/ DriverStopped
  BY <1>0, <1>1, <1>13 DEF DriverStop, DriverStopped, Instances
<1>14. CASE DriverStatus \/ WatchWeak
  <2>1. UNCHANGED <<obj, inst, cl>> /\ pass.goal = "watch"
    BY <1>14 DEF DriverStatus, WatchWeak
  <2>2. CASE inst.phase = "running"
    <3>1. pass'.pc = "call" \/ (pass'.goal = "watch" /\ pass'.res \in {"ok", "unknown"})
      BY <1>0, <1>14, <2>2 DEF DriverStatus, WatchWeak, Passes
    <3>2. QED BY <1>0, <2>1, <3>1 DEF Began, NotRun
  <2>3. QED BY <1>1, <2>1, <2>2
<1>15. CASE PassWrite
  <2>1. UNCHANGED <<inst, cl>> /\ pass.pc = "write" /\ pass.goal # "restart" /\ pass'.pc = "idle"
    BY <1>15 DEF PassWrite, EndPass, IdlePass
  <2>2. ASSUME ~NotRun PROVE ~CanRestore(obj'.state)
    <3>1. ~CanRestore(obj.state)
      BY <2>1 DEF PassInv, Busy
    <3>2. \A b \in BOOLEAN : Observed(obj, b) \in Objects /\ Observed(obj, b).state \in {obj.state, "Ready"}
      BY <1>0, <2>1, <2>2, ObservedEffect DEF NotRun
    <3>3. \A b \in BOOLEAN : Write(Observed(obj, b)) => obj'.state \in {obj.state, "Ready"}
      BY <1>0, <3>2, WriteEffect
    <3>4. obj'.state \in {obj.state, "Ready"}
      BY <1>15, <3>3 DEF PassWrite
    <3>5. QED BY <3>1, <3>4 DEF CanRestore
  <2>3. QED BY <1>0, <2>1, <2>2 DEF Began, NotRun
<1>16. CASE PassRemove
  <2>1. inst' = inst /\ inst.phase = "none"
    BY <1>16 DEF PassRemove, PassInv, Busy
  <2>2. QED BY <1>1, <2>1
<1>17. CASE RestartNotDue \/ RestartLimit \/ RestartSchedule \/ RestartWait \/ RestartNow
  <2>1. UNCHANGED <<inst, cl>> /\ pass'.pc = "idle"
    BY <1>17 DEF RestartNotDue, RestartLimit, RestartSchedule, RestartWait, RestartNow, EndPass, IdlePass
  <2>2. obj'.state = obj.state \/ obj'.state = "Starting"
    <3>1. CASE RestartNotDue \/ RestartLimit \/ RestartSchedule \/ RestartWait
      BY <1>0, <3>1 DEF RestartNotDue, RestartLimit, RestartSchedule, RestartWait, Write, Objects
    <3>2. CASE RestartNow
      BY <1>0, <3>2 DEF RestartNow, Write, Objects, Transition
    <3>3. QED BY <1>17, <3>1, <3>2
  <2>3. QED BY <1>0, <2>1, <2>2 DEF Began, NotRun, CanRestore
<1>18. CASE InstanceEnds \/ Crash
  BY <1>0, <1>1, <1>18, EndingsAssumption DEF InstanceEnds, Crash, NoInstance, Instances
<1>19. CASE UNCHANGED vars
  BY <1>2, <1>19 DEF vars, Began
<1>20. QED
  BY <1>3, <1>4, <1>5, <1>6, <1>7, <1>8, <1>9, <1>10, <1>11, <1>12, <1>13, <1>14, <1>15, <1>16, <1>17,
     <1>18, <1>19
  DEF Next, ClientStep, PassStep

(* Every step keeps a removed object without an instance.                  *)
LEMMA GoneStep ==
  ASSUME TypeOK, HoldInv, PassInv, RestoreInv, GoneInv, [Next]_vars
  PROVE  GoneInv'
<1>0. obj \in Objects /\ inst \in Instances
  BY DEF TypeOK
<1>1. CASE UNCHANGED <<obj, inst>>
  BY <1>1 DEF GoneInv
<1>2. CASE obj'.state # "Gone"
  BY <1>2 DEF GoneInv
<1>3. ASSUME NEW c \in Clients, Commit(c) PROVE GoneInv'
  BY <1>2, <1>3, CommitEffect
<1>4. ASSUME NEW c \in Clients, RestoreCommit(c) \/ RestoreBegin(c) \/ RestoreEnd(c) \/ RestoreFails(c) \/ Rollback(c)
      PROVE  obj'.state # "Gone"
  <2>1. CASE RestoreCommit(c)
    BY <1>0, <2>1 DEF RestoreCommit, Write, Transition, Objects
  <2>2. ASSUME Began(c) PROVE obj.state # "Gone" /\ CanRestore(cl[c].sb.state)
    BY <2>2 DEF RestoreInv
  <2>3. CASE RestoreBegin(c) \/ RestoreEnd(c) \/ RestoreFails(c)
    BY <2>2, <2>3 DEF RestoreBegin, RestoreEnd, RestoreFails, Began
  <2>4. CASE Rollback(c)
    <3>1. obj.state # "Gone" /\ CanRestore(cl[c].sb.state)
      BY <2>2, <2>4 DEF Rollback, Began
    <3>2. obj' = obj \/ obj'.state = cl[c].sb.state
      BY <1>0, <2>4 DEF Rollback, Write, Objects
    <3>3. QED BY <3>1, <3>2 DEF CanRestore
  <2>5. QED BY <1>4, <2>1, <2>3, <2>4
<1>5. CASE SpecFails \/ DriverRun \/ DriverRunFails \/ DriverStop \/ DriverStopped \/ DriverRemove
           \/ DriverStatus \/ WatchWeak
  BY <1>2, <1>5 DEF SpecFails, DriverRun, DriverRunFails, DriverStop, DriverStopped, DriverRemove,
     DriverStatus, WatchWeak, PassInv, Busy
<1>6. CASE PassWrite \/ RestartNotDue \/ RestartLimit \/ RestartSchedule \/ RestartWait \/ RestartNow
  BY <1>2, <1>6, PassWritesEffect
<1>7. CASE PassRemove
  BY <1>7 DEF PassRemove, PassInv, Busy, GoneInv
<1>8. CASE InstanceEnds
  BY <1>8 DEF InstanceEnds, GoneInv
<1>9. CASE Crash
  BY <1>9 DEF Crash, GoneInv, NoInstance
<1>10. ASSUME NEW c \in Clients,
             \/ \E v \in Verbs, m \in BOOLEAN : Prepare(c, v, m)
             \/ Refused(c) \/ CommitFails(c) \/ NoteGrace(c) \/ ExecBegin(c) \/ ExecEnd(c)
             \/ TakeBegin(c) \/ TakeEnd(c) \/ HoldPass(c) \/ RestoreConflicts(c)
      PROVE  UNCHANGED <<obj, inst>>
  BY <1>10 DEF Prepare, Refused, CommitFails, NoteGrace, ExecBegin, ExecEnd, TakeBegin, TakeEnd,
     HoldPass, RestoreConflicts
<1>11. CASE DispatchAll \/ DispatchKick \/ PassRead \/ PassSkips \/ PassWriteLost \/ Elapse \/ UNCHANGED vars
  BY <1>1, <1>11 DEF DispatchAll, DispatchKick, PassRead, PassSkips, PassWriteLost, Elapse, vars
<1>12. QED
  BY <1>1, <1>2, <1>3, <1>4, <1>5, <1>6, <1>7, <1>8, <1>9, <1>10, <1>11 DEF Next, ClientStep, PassStep

(* Every step keeps the restart count within the budget.                   *)
LEMMA BudgetStep ==
  ASSUME TypeOK, PassInv, RestoreInv, RestartBudget, [Next]_vars
  PROVE  RestartBudget'
<1>0. obj \in Objects /\ obj.restarts \in Nat /\ MaxRestarts \in Nat
  BY BoundsAssumption DEF TypeOK, Objects
<1>1. obj'.restarts \in Nat
  BY TypeStep DEF TypeOK, Objects
<1>2. CASE obj'.restarts = obj.restarts \/ obj'.restarts = 0
  BY <1>0, <1>2 DEF RestartBudget
<1>3. ASSUME NEW c \in Clients, Commit(c) PROVE RestartBudget'
  BY <1>0, <1>1, <1>3, CommitEffect DEF RestartBudget
<1>4. ASSUME NEW c \in Clients, RestoreCommit(c) PROVE RestartBudget'
  <2>1. obj'.restarts = 0
    BY <1>0, <1>4 DEF RestoreCommit, Write, Transition, Objects
  <2>2. QED BY <1>2, <2>1
<1>5. ASSUME NEW c \in Clients, Rollback(c) PROVE RestartBudget'
  <2>1. obj' = obj \/ obj'.restarts = cl[c].sb.restarts
    BY <1>0, <1>5 DEF Rollback, Write, Objects
  <2>2. cl[c].sb.restarts <= MaxRestarts
    BY <1>5 DEF Rollback, RestoreInv, Began
  <2>3. QED BY <2>1, <2>2 DEF RestartBudget
<1>6. CASE PassWrite
  <2>1. \A b \in BOOLEAN : Write(Observed(obj, b)) => obj'.restarts = Observed(obj, b).restarts
    BY <1>0, ObservedEffect, WriteEffect
  <2>2. QED BY <1>0, <1>2, <1>6, <2>1, ObservedEffect DEF PassWrite
<1>7. CASE PassRemove
  <2>1. obj' = obj \/ obj'.restarts = 0
    BY <1>7 DEF PassRemove, NoObject
  <2>2. QED BY <1>2, <2>1
<1>8. CASE RestartNotDue \/ RestartLimit \/ RestartSchedule \/ RestartWait
  <2>1. obj' = obj \/ obj'.restarts = obj.restarts
    BY <1>0, <1>8 DEF RestartNotDue, RestartLimit, RestartSchedule, RestartWait, Write, Objects
  <2>2. QED BY <1>2, <2>1
<1>9. CASE RestartNow
  <2>1. obj.restarts <= pass.sb.restarts /\ pass.sb.restarts < MaxRestarts /\ pass.sb.restarts \in Nat
    BY <1>9 DEF RestartNow, BudgetLeft, PassInv, Busy, TypeOK, Passes, Objects
  <2>2. obj'.restarts = obj.restarts + 1
    <3>1. Transition(obj, "Starting") \in Objects /\ Transition(obj, "Starting").restarts = obj.restarts
      BY <1>0, ObjectTypes, TransitionEffect DEF States
    <3>2. QED BY <1>9, <3>1 DEF RestartNow, Write, Objects
  <2>3. QED BY <1>0, <2>1, <2>2 DEF RestartBudget
<1>10. ASSUME NEW c \in Clients,
             \/ \E v \in Verbs, m \in BOOLEAN : Prepare(c, v, m)
             \/ Refused(c) \/ CommitFails(c) \/ NoteGrace(c) \/ ExecBegin(c) \/ ExecEnd(c)
             \/ TakeBegin(c) \/ TakeEnd(c) \/ HoldPass(c) \/ RestoreConflicts(c)
             \/ RestoreBegin(c) \/ RestoreEnd(c) \/ RestoreFails(c)
      PROVE  obj' = obj
  BY <1>10 DEF Prepare, Refused, CommitFails, NoteGrace, ExecBegin, ExecEnd, TakeBegin, TakeEnd,
     HoldPass, RestoreConflicts, RestoreBegin, RestoreEnd, RestoreFails
<1>11. CASE DispatchAll \/ DispatchKick \/ PassRead \/ PassSkips \/ SpecFails \/ DriverRun
            \/ DriverRunFails \/ DriverStop \/ DriverStopped \/ DriverRemove \/ DriverStatus
            \/ WatchWeak \/ PassWriteLost \/ Elapse \/ InstanceEnds \/ Crash \/ UNCHANGED vars
  <2>1. obj' = obj
    BY <1>11 DEF DispatchAll, DispatchKick, PassRead, PassSkips, SpecFails, DriverRun,
       DriverRunFails, DriverStop, DriverStopped, DriverRemove, DriverStatus, WatchWeak,
       PassWriteLost, Elapse, InstanceEnds, Crash, vars
  <2>2. QED BY <1>2, <2>1
<1>12. QED
  BY <1>2, <1>3, <1>4, <1>5, <1>6, <1>7, <1>8, <1>9, <1>10, <1>11 DEF Next, ClientStep, PassStep

(* The invariant holds of a created sandbox.                               *)
LEMMA InitInv == Init => IInv
<1> SUFFICES ASSUME Init PROVE IInv
  OBVIOUS
<1> USE DEF Init
<1>1. TypeOK
  BY ObjectTypes, RestType DEF TypeOK
<1>2. HoldInv /\ InstInv /\ PassInv
  BY ClientsAssumption
  DEF HoldInv, Restoring, InstInv, PassInv, Busy, IdleClient, IdlePass, NoInstance
<1>3. RestoreInv
  BY DEF RestoreInv, Began, IdleClient
<1>4. QuietInv /\ GoneInv /\ RestartBudget
  BY BoundsAssumption DEF QuietInv, NotRun, Began, GoneInv, RestartBudget, NoInstance, IdleClient,
     IdlePass, Created, NoObject
<1>5. QED BY <1>1, <1>2, <1>3, <1>4 DEF IInv

(* The invariant holds in every reachable state, whatever verbs, passes,   *)
(* faults and restarts of the server came before.                          *)
THEOREM Invariant == Spec => []IInv
<1>1. IInv /\ [Next]_vars => IInv'
  <2> SUFFICES ASSUME IInv, [Next]_vars PROVE IInv'
    OBVIOUS
  <2>1. TypeOK' /\ HoldInv' /\ InstInv' /\ PassInv'
    BY TypeStep, HoldStep, InstStep, PassStepInv DEF IInv
  <2>2. RestoreInv' /\ QuietInv' /\ GoneInv' /\ RestartBudget'
    BY RestoreStep, QuietStep, GoneStep, BudgetStep DEF IInv
  <2>3. QED BY <2>1, <2>2 DEF IInv
<1>2. QED BY InitInv, <1>1, PTL DEF Spec

(* Every variable keeps its type.                                          *)
THEOREM TypeCorrect == Spec => []TypeOK
<1>1. IInv => TypeOK
  BY DEF IInv
<1>2. QED BY Invariant, <1>1, PTL

(* No command runs in an instance that neither runs nor drains.            *)
LEMMA NoCommandAtRest ==
  ASSUME InstInv, PassInv, inst.phase # "running", ~Busy \/ pass.pc # "drain"
  PROVE  ~CommandsRunning
BY DEF InstInv, CommandsRunning, Busy

(* While Restore (verbs.go) replaces the workspace no pass, command or     *)
(* other restore is under way, and the object is Starting or Deleting.     *)
THEOREM RestoreExclusive == Spec => []RestoreIsExclusive
<1>1. IInv => RestoreIsExclusive
  <2> SUFFICES ASSUME IInv, NEW c \in Clients, cl[c].pc = "swap"
               PROVE  /\ pass.pc = "idle" /\ hold = c
                      /\ inst.phase = "stopped" /\ ~CommandsRunning
                      /\ obj.state \in {"Starting", "Deleting"}
    BY DEF RestoreIsExclusive
  <2>1. hold = c /\ pass.pc = "idle"
    BY ClientsAssumption DEF IInv, HoldInv, Restoring
  <2>2. inst.phase = "stopped"
    BY DEF IInv, InstInv
  <2>3. ~CommandsRunning
    BY <2>1, <2>2, NoCommandAtRest DEF IInv
  <2>4. obj.state \in {"Starting", "Deleting"}
    BY DEF IInv, RestoreInv, Began
  <2>5. QED BY <2>1, <2>2, <2>3, <2>4
<1>2. QED BY Invariant, <1>1, PTL

(* A Stopped, Completed or Error sandbox has no running instance and no    *)
(* command, unless spec (reconcile.go) can fail.                           *)
THEOREM RestQuiet == Spec => []AtRestIsQuiet
<1>1. IInv => AtRestIsQuiet
  <2> SUFFICES ASSUME IInv, "spec" \notin Failing, CanRestore(obj.state)
               PROVE  inst.phase # "running" /\ ~CommandsRunning
    BY DEF AtRestIsQuiet, AtRest
  <2>1. inst.phase # "running"
    BY DEF IInv, QuietInv
  <2>2. pass.pc # "drain"
    BY DEF IInv, PassInv, Busy
  <2>3. QED BY <2>1, <2>2, NoCommandAtRest DEF IInv
<1>2. QED BY Invariant, <1>1, PTL

(* When remove (reconcile.go) has taken the object out of the store, the   *)
(* driver has no instance and no command runs.                             *)
THEOREM GoneQuiet == Spec => []GoneIsGone
<1>1. IInv => GoneIsGone
  <2>1. IInv /\ obj.state = "Gone" => inst.phase = "none" /\ pass.pc # "drain"
    BY DEF IInv, GoneInv, PassInv, Busy
  <2>2. QED BY <2>1, NoCommandAtRest DEF IInv, GoneIsGone
<1>2. QED BY Invariant, <1>1, PTL

(* restart (restart.go) never makes more than max_restarts restarts, also  *)
(* when verbs race it and a failed restore puts an earlier count back.     *)
THEOREM BudgetKept == Spec => []RestartBudget
<1>1. IInv => RestartBudget
  BY DEF IInv
<1>2. QED BY Invariant, <1>1, PTL

(* An incarnation begins only when the one before it has no command left   *)
(* and no restore works in it (process.go).                                *)
THEOREM NoOverlap == Spec => IncarnationsDoNotOverlap
<1>1. IInv /\ [Next]_vars => [Begins => ~CommandsRunning /\ ~inst.restoring]_vars
  <2> SUFFICES ASSUME IInv, [Next]_vars, inst.phase # "running", inst'.phase = "running"
               PROVE  ~CommandsRunning /\ ~inst.restoring
    BY DEF Begins
  <2>0. inst \in Instances
    BY DEF IInv, TypeOK
  <2>1. CASE DriverRun
    BY <2>1, NoCommandAtRest DEF IInv, DriverRun
  <2>2. ASSUME NEW c \in Clients, ClientStep(c) PROVE inst'.phase = inst.phase
    BY <2>0, <2>2 DEF ClientStep, Prepare, Refused, Commit, CommitFails, NoteGrace, ExecBegin, ExecEnd,
       TakeBegin, TakeEnd, HoldPass, RestoreCommit, RestoreConflicts, RestoreBegin, RestoreEnd,
       RestoreFails, Rollback, Instances
  <2>3. CASE PassStep /\ ~DriverRun
    <3>1. inst'.phase \in {inst.phase, "stopping", "stopped", "none"}
      <4>1. CASE DriverStop \/ DriverStopped \/ DriverRemove
        BY <2>0, <4>1 DEF DriverStop, DriverStopped, DriverRemove, Instances, NoInstance
      <4>2. CASE ~(DriverStop \/ DriverStopped \/ DriverRemove)
        BY <2>3, <4>2 DEF PassStep, PassRead, PassSkips, SpecFails, DriverRunFails, DriverStatus,
           WatchWeak, PassWrite, PassWriteLost, PassRemove, RestartNotDue, RestartLimit,
           RestartSchedule, RestartWait, RestartNow
      <4>3. QED BY <4>1, <4>2
    <3>2. QED BY <3>1
  <2>4. CASE InstanceEnds \/ Crash
    BY <2>0, <2>4, EndingsAssumption DEF InstanceEnds, Crash, NoInstance, Instances
  <2>5. CASE DispatchAll \/ DispatchKick \/ Elapse \/ UNCHANGED vars
    BY <2>5 DEF DispatchAll, DispatchKick, Elapse, vars
  <2>6. QED BY <2>1, <2>2, <2>3, <2>4, <2>5 DEF Next
<1>2. QED BY Invariant, <1>1, PTL DEF Spec, IncarnationsDoNotOverlap

(* A state at rest may start.                                              *)
LEMMA FromRest ==
  ASSUME NEW s, CanRestore(s)
  PROVE  CanTransition(s, "Starting")
BY DEF CanRestore, CanTransition, transitions, States

(* The moves a pass makes are in the table (state.go).                     *)
LEMMA WorkMoves ==
  /\ \A s \in {"Provisioning", "Starting"} : CanTransition(s, "Ready")
  /\ \A s \in {"Provisioning", "Starting", "Ready", "Stopping"} : CanTransition(s, "Error")
  /\ CanTransition("Stopping", "Stopped") /\ CanTransition("Ready", "Completed")
<1>1. \A s \in {"Provisioning", "Starting"} : CanTransition(s, "Ready")
  BY DEF CanTransition, transitions, States
<1>2. \A s \in {"Provisioning", "Starting", "Ready", "Stopping"} : CanTransition(s, "Error")
  BY DEF CanTransition, transitions, States
<1>3. CanTransition("Stopping", "Stopped") /\ CanTransition("Ready", "Completed")
  BY DEF CanTransition, transitions, States
<1>4. QED BY <1>1, <1>2, <1>3

(* The object only makes the moves of the table (state.go), the way back   *)
(* of a failed restore, or its removal after Deleting.                     *)
THEOREM Moves == Spec => LifecycleMoves
<1> DEFINE Legal == obj'.state # obj.state =>
                      \/ CanTransition(obj.state, obj'.state)
                      \/ obj.state = "Deleting" /\ obj'.state = "Gone"
                      \/ /\ obj.state = "Starting" /\ CanRestore(obj'.state) /\ obj'.gen = obj.gen
                         /\ \E c \in Clients : hold = c
<1>1. IInv /\ [Next]_vars => Legal
  <2> SUFFICES ASSUME IInv, [Next]_vars PROVE Legal
    OBVIOUS
  <2>0. obj \in Objects /\ pass \in Passes
    BY DEF IInv, TypeOK
  <2>1. CASE obj'.state = obj.state
    BY <2>1
  <2>2. ASSUME NEW c \in Clients, Commit(c) PROVE Legal
    BY <2>2, CommitEffect DEF IInv
  <2>3. ASSUME NEW c \in Clients, RestoreCommit(c) PROVE Legal
    <3>1. obj.state = cl[c].sb.state /\ CanRestore(cl[c].sb.state)
      BY <2>3 DEF RestoreCommit, Unchanged, IInv, RestoreInv
    <3>2. obj'.state = "Starting"
      BY <2>0, <2>3 DEF RestoreCommit, Write, Transition, Objects
    <3>3. QED BY <3>1, <3>2, FromRest
  <2>4. ASSUME NEW c \in Clients, Rollback(c) PROVE Legal
    <3>1. hold = c
      BY <2>4 DEF Rollback, IInv, HoldInv, Restoring
    <3>2. CASE obj' # obj
      <4>1. obj.rv = cl[c].ver /\ obj'.state = cl[c].sb.state /\ obj'.gen = obj.gen
        BY <2>0, <2>4, <3>2 DEF Rollback, Unchanged, Write, Objects
      <4>2. obj.state = "Starting" /\ CanRestore(cl[c].sb.state)
        BY <2>4, <4>1 DEF Rollback, IInv, RestoreInv, Began
      <4>3. QED BY <3>1, <4>1, <4>2
    <3>3. QED BY <2>1, <3>2
  <2>5. CASE PassWrite
    <3>1. /\ pass.sb.state \in States \ {"Stopped"} /\ obj.state = pass.sb.state
          /\ \/ pass.goal = Goal(pass.sb.state)
             \/ pass.goal = "weak" /\ pass.sb.state \in {"Provisioning", "Starting", "Ready"}
          /\ pass.goal # "restart"
      BY <2>5 DEF PassWrite, Current, IInv, PassInv, Busy
    <3>2. /\ pass.goal = "run" => obj.state \in {"Provisioning", "Starting"}
          /\ pass.goal = "stop" => obj.state = "Stopping"
          /\ pass.goal = "watch" => obj.state = "Ready"
          /\ pass.goal = "weak" => obj.state \in {"Provisioning", "Starting", "Ready"}
          /\ pass.goal \in {"run", "stop", "watch", "weak", "delete"}
      BY <3>1 DEF Goal, States
    <3>3. ASSUME NEW b \in BOOLEAN
          PROVE  \/ Observed(obj, b).state = obj.state
                 \/ CanTransition(obj.state, Observed(obj, b).state)
      BY <2>0, <3>2, ObservedEffect, WorkMoves
    <3>4. ASSUME NEW b \in BOOLEAN, Write(Observed(obj, b)) PROVE obj'.state = Observed(obj, b).state
      BY <2>0, <3>4, ObservedEffect, WriteEffect
    <3>5. QED BY <2>5, <3>3, <3>4 DEF PassWrite
  <2>6. CASE PassRemove
    <3>1. CASE obj.rv = pass.sb.rv
      <4>1. obj.state = pass.sb.state /\ pass.sb.state = "Deleting"
        BY <2>6, <3>1 DEF PassRemove, IInv, PassInv, Busy, Goal
      <4>2. QED BY <2>6, <3>1, <4>1 DEF PassRemove, NoObject
    <3>2. QED BY <2>1, <2>6, <3>1 DEF PassRemove
  <2>7. CASE RestartNotDue \/ RestartLimit \/ RestartSchedule \/ RestartWait
    <3>1. obj'.state = obj.state
      BY <2>0, <2>7 DEF RestartNotDue, RestartLimit, RestartSchedule, RestartWait, Write, Objects
    <3>2. QED BY <2>1, <3>1
  <2>8. CASE RestartNow
    <3>1. obj'.state = "Starting" /\ obj.state = pass.sb.state
      BY <2>0, <2>8 DEF RestartNow, Write, Transition, Objects, Current
    <3>2. CanRestore(pass.sb.state)
      BY <2>8 DEF RestartNow, RestartDue, CanRestore
    <3>3. QED BY <3>1, <3>2, FromRest
  <2>9. ASSUME NEW c \in Clients,
               \/ \E v \in Verbs, m \in BOOLEAN : Prepare(c, v, m)
               \/ Refused(c) \/ CommitFails(c) \/ NoteGrace(c) \/ ExecBegin(c) \/ ExecEnd(c)
               \/ TakeBegin(c) \/ TakeEnd(c) \/ HoldPass(c) \/ RestoreConflicts(c)
               \/ RestoreBegin(c) \/ RestoreEnd(c) \/ RestoreFails(c)
        PROVE  Legal
    BY <2>1, <2>9 DEF Prepare, Refused, CommitFails, NoteGrace, ExecBegin, ExecEnd, TakeBegin, TakeEnd,
       HoldPass, RestoreConflicts, RestoreBegin, RestoreEnd, RestoreFails
  <2>10. CASE DispatchAll \/ DispatchKick \/ PassRead \/ PassSkips \/ SpecFails \/ DriverRun
              \/ DriverRunFails \/ DriverStop \/ DriverStopped \/ DriverRemove \/ DriverStatus
              \/ WatchWeak \/ PassWriteLost \/ Elapse \/ InstanceEnds \/ Crash \/ UNCHANGED vars
    BY <2>1, <2>10 DEF DispatchAll, DispatchKick, PassRead, PassSkips, SpecFails, DriverRun,
       DriverRunFails, DriverStop, DriverStopped, DriverRemove, DriverStatus, WatchWeak,
       PassWriteLost, Elapse, InstanceEnds, Crash, vars
  <2>11. QED
    BY <2>2, <2>3, <2>4, <2>5, <2>6, <2>7, <2>8, <2>9, <2>10 DEF Next, ClientStep, PassStep
<1>2. QED BY Invariant, <1>1, PTL DEF Spec, LifecycleMoves
=============================================================================
