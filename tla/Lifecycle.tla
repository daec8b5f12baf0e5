----------------------------- MODULE Lifecycle -----------------------------
(***************************************************************************)
(* The lifecycle of a sandbox object: its states, the moves between them   *)
(* and the restart policy (controlplane/state.go, controlplane/restart.go).*)
(* "Gone" stands for an id the store no longer holds.                      *)
(***************************************************************************)
EXTENDS Naturals

States == {"Provisioning", "Ready", "Stopping", "Stopped", "Starting",
           "Completed", "Error", "Deleting"}

(* The whole lifecycle: a move not listed here is refused.                 *)
transitions ==
  [s \in States |->
     CASE s = "Provisioning" -> {"Ready", "Error", "Deleting"}
       [] s = "Ready"        -> {"Stopping", "Completed", "Error", "Deleting"}
       [] s = "Stopping"     -> {"Stopped", "Error", "Deleting"}
       [] s = "Starting"     -> {"Ready", "Error", "Deleting"}
       [] s = "Deleting"     -> {}
       [] OTHER              -> {"Starting", "Deleting"}]

CanTransition(from, to) == from \in States /\ to \in transitions[from]

(* Only Ready takes exec, attach, ssh, forward, expose and cp.             *)
AcceptsWork(s) == s = "Ready"

CanRestore(s) == s \in {"Stopped", "Completed", "Error"}

(* A state whose instance is not changing.                                 *)
settled(s) == s = "Ready" \/ CanRestore(s)

(* Sandbox.Transition; starting again bumps the generation.                *)
Transition(sb, to) ==
  [sb EXCEPT !.state = to, !.gen = IF to = "Starting" THEN @ + 1 ELSE @]

(* Whether the policy restarts a sandbox that ended in state s.            *)
RestartDue(policy, s) ==
  \/ policy = "always" /\ s \in {"Error", "Completed"}
  \/ policy = "on-failure" /\ s = "Error"
=============================================================================
