------------------------ MODULE MCStagingWorkflow ------------------------
(* Instances of StagingWorkflow for TLC.                                   *)
EXTENDS StagingWorkflow

CONSTANTS c1, c2, r1, r2, a1, a2

MCCalls == {c1, c2}
MCRuns == {r1, r2}
MCApks == {a1, a2}

(* A profile that goes offline on purpose.                                 *)
Offline ==
  <<Node("install", "tunnel_connected", "app_ready", None),
    Node("launch", "app_ready", "scenario_started", None),
    Node("disconnect", "scenario_started", "tunnel_interrupted", None),
    Node("reconnect", "tunnel_interrupted", "tunnel_reconnected", None),
    Node("assert", "tunnel_reconnected", "recovery_passed", None)>>

(* A profile whose tunnel is only ever the first one.                      *)
Plain ==
  <<Node("install", "tunnel_connected", "app_ready", None),
    Node("launch", "app_ready", "scenario_started", None),
    Node("assert", "scenario_started", "scenario_passed", None)>>

Scenario(profiles, runs, apks, duplicates, kinds, n) ==
  [profiles |-> profiles, runs |-> runs, apks |-> apks, duplicates |-> duplicates,
   kinds |-> kinds, faults |-> n]

(* One run with every fault, of profiles that reconnect and of one that    *)
(* does not; two runs side by side.                                        *)
MCScenarios ==
  {Scenario({ZeroXCore, Offline}, {r1}, {a1}, FALSE, {"crash", "io", "node", "abort", "device"}, 2),
   Scenario({Plain}, {r1}, {a1}, FALSE, {"crash", "io", "node", "abort", "device"}, 2),
   Scenario({ZeroXCore}, {r1, r2}, {a1}, FALSE, {"crash", "node"}, 1)}

(* A run that is resumed after a new build of the APK.                     *)
MCRebuilt == {Scenario({ZeroXCore}, {r1}, {a1, a2}, FALSE, {"crash"}, 1)}

(* Two calls for one run.                                                  *)
MCDuplicates == {Scenario({ZeroXCore}, {r1}, {a1}, TRUE, {}, 0)}

(* A profile whose nodes branch to the state of a failed run.              *)
Branching ==
  <<Node("install", "tunnel_connected", "app_ready", "failed"),
    Node("launch", "app_ready", "scenario_started", "failed"),
    Node("assert", "scenario_started", "scenario_passed", "failed")>>

MCBranching == {Scenario({Branching}, {r1}, {a1}, FALSE, {"node", "io"}, 2)}

=============================================================================
