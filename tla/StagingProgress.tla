-------------------------- MODULE StagingProgress --------------------------
(***************************************************************************)
(* What the checkpoints of the Android staging workflow promise            *)
(* (src/android-workflow/contracts.ts 259-275 and the design in            *)
(* docs/superpowers/specs/2026-08-15-staging-android-verify-design.md): a  *)
(* run only moves along the edges of the state graph, whoever resumes it   *)
(* and however often, and is forgotten only at the end of the graph.       *)
(***************************************************************************)
CONSTANT Runs

VARIABLE progress    \* the last safe point of each run

States ==
  {"created", "preflight_passed", "tunnel_connected", "app_ready", "scenario_started",
   "scenario_passed", "tunnel_interrupted", "failure_state_confirmed",
   "tunnel_reconnected", "recovery_passed", "evidence_written", "completed", "failed",
   "cancelled", "cleanup_failed"}

(* The edges of VALID_TRANSITIONS.                                         *)
Edges(s) ==
  CASE s = "created" -> {"preflight_passed", "cancelled", "failed"}
    [] s = "preflight_passed" -> {"tunnel_connected", "failed", "cancelled"}
    [] s = "tunnel_connected" -> {"app_ready", "tunnel_interrupted", "failed", "cancelled"}
    [] s = "app_ready" -> {"scenario_started", "failed", "cancelled"}
    [] s = "scenario_started" -> {"scenario_passed", "tunnel_interrupted", "failed", "cancelled"}
    [] s = "scenario_passed" -> {"evidence_written", "failed", "cancelled"}
    [] s = "tunnel_interrupted" -> {"tunnel_reconnected", "failure_state_confirmed", "cancelled"}
    [] s = "failure_state_confirmed" -> {"failed", "cancelled"}
    [] s = "tunnel_reconnected" -> {"recovery_passed", "failure_state_confirmed", "cancelled"}
    [] s = "recovery_passed" -> {"scenario_started", "evidence_written", "failed", "cancelled"}
    [] s = "evidence_written" -> {"completed", "failed"}
    [] OTHER -> {}

IsTerminal(s) == Edges(s) = {}

Init == progress = [r \in Runs |-> "created"]

Advance(r) == \E s \in Edges(progress[r]) : progress' = [progress EXCEPT ![r] = s]

(* A run whose evidence is written, or that a branch of its profile has    *)
(* brought to a terminal state, is done: its record goes, and its name may *)
(* be used for a new run.                                                  *)
Forget(r) ==
  /\ progress[r] = "evidence_written" \/ IsTerminal(progress[r])
  /\ progress' = [progress EXCEPT ![r] = "created"]

Next == \E r \in Runs : Advance(r) \/ Forget(r)

Spec == Init /\ [][Next]_progress

=============================================================================
