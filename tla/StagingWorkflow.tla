-------------------------- MODULE StagingWorkflow --------------------------
(***************************************************************************)
(* The Android staging workflow (src/android-workflow/): a call of         *)
(* staging_android_verify drives one run through the nodes of a profile on *)
(* the one emulator, writes a checkpoint after every state, and a later    *)
(* call with the same run id goes on from the checkpoint.                  *)
(*                                                                         *)
(* Every request has a server of its own (index.ts 358), so what calls     *)
(* share are the files, the emulator and the profile, not the tunnels.     *)
(* adb is called synchronously: a device command is one step, a checkpoint *)
(* is a read, a write of a temporary file and a rename.                    *)
(***************************************************************************)
EXTENDS Naturals, Sequences, FiniteSets

CONSTANTS
  Calls,      \* calls in flight at the same time
  Runs,       \* run ids
  Apks,       \* contents of the APK file
  Scenarios   \* what the clients do and which faults may happen

VARIABLES
  scenario,
  profile,    \* the registered profile
  call,       \* the local variables of each call of coordinator.run
  file,       \* the checkpoint of each run, or None
  temp,       \* its temporary file, or None
  live,       \* per call: does the ssh of its map live, and one that a reconnect displaced
  installed,  \* the APK on the emulator, or None
  evidence,   \* the status and the APK in the evidence of each run
  done,       \* history: the kinds of nodes that succeeded since the run was created
  checked,    \* history: the APKs on which an assertion of the run has passed
  faults      \* faults so far

vars == <<scenario, profile, call, file, temp, live, installed, evidence, done, checked, faults>>

None == "none"

(* The refinement mapping: a run without a checkpoint is a new one.        *)
Progress == [r \in Runs |-> IF file[r] = None THEN "created" ELSE file[r]]

P == INSTANCE StagingProgress WITH progress <- Progress

Node(kind, from, success, failure) ==
  [kind |-> kind, from |-> from, success |-> success, failure |-> failure]

ZeroXCore ==
  <<Node("install", "tunnel_connected", "app_ready", None),
    Node("launch", "app_ready", "scenario_started", None),
    Node("assert", "scenario_started", "scenario_passed", "tunnel_interrupted"),
    Node("reconnect", "tunnel_interrupted", "tunnel_reconnected", None),
    Node("assert", "tunnel_reconnected", "recovery_passed", None)>>

Kinds == {"install", "launch", "assert", "disconnect", "reconnect"}

(* What the registry asks of a profile; a graph in which a run gets stuck  *)
(* passes, and one with a node that leads to a terminal state.  A node     *)
(* that starts in an unknown state would be one that is never eligible.    *)
Nodes ==
  [kind : Kinds, from : P!States, success : P!States, failure : P!States \cup {None}]

Valid(nodes) == nodes \in Seq(Nodes)

(* "at" is what comes next; "save" says which of the five calls of         *)
(* checkpoint() is under way; "passed" is the node the loop has come to.   *)
Idle ==
  [at |-> "idle", run |-> None, apk |-> None, nodes |-> <<>>, state |-> "created", passed |-> 0,
   save |-> None, error |-> None, aborted |-> FALSE, tried |-> FALSE]

Active(c) == call[c].at # "idle"

ASSUME ScenariosAssumption ==
  \A s \in Scenarios :
    /\ s.profiles # {} /\ \A nodes \in s.profiles : Valid(nodes)
    /\ s.runs \subseteq Runs /\ s.apks \subseteq Apks
    /\ s.duplicates \in BOOLEAN /\ s.faults \in Nat
    /\ s.kinds \subseteq {"crash", "io", "node", "abort", "device"}

Init ==
  /\ scenario \in Scenarios
  /\ profile \in scenario.profiles
  /\ call = [c \in Calls |-> Idle]
  /\ file = [r \in Runs |-> None]
  /\ temp = [r \in Runs |-> None]
  /\ live = [c \in Calls |-> [own |-> FALSE, displaced |-> FALSE]]
  /\ installed = None
  /\ evidence = [r \in Runs |-> [status |-> None, apk |-> None]]
  /\ done = [r \in Runs |-> {}]
  /\ checked = [r \in Runs |-> {}]
  /\ faults = 0

Go(c, rec) == call' = [call EXCEPT ![c] = rec]
Fault(k) == k \in scenario.kinds /\ faults < scenario.faults /\ faults' = faults + 1
Save(rec, state, save) == [rec EXCEPT !.at = "read", !.state = state, !.save = save]

-----------------------------------------------------------------------------
(* The tool parses the request, reads the profile and the digest of the    *)
(* APK again, and run() loads the checkpoint.  Only a run without one goes *)
(* through the preflight.                                                  *)
Begin(c, r, a) ==
  /\ ~Active(c)
  /\ r \in scenario.runs /\ a \in scenario.apks
  /\ scenario.duplicates \/ \A d \in Calls : call[d].run # r
  /\ LET state == IF file[r] = None THEN "created" ELSE file[r] IN
     /\ Go(c, [Idle EXCEPT !.at = IF state = "created" THEN "preflight" ELSE "connect",
                           !.run = r, !.apk = a, !.nodes = profile, !.state = state])
     /\ done' = [done EXCEPT ![r] = IF state = "created" THEN {} ELSE @]
     /\ checked' = [checked EXCEPT ![r] = IF state = "created" THEN {} ELSE @]
  /\ UNCHANGED <<scenario, profile, file, temp, live, installed, evidence, faults>>

Preflight(c) ==
  /\ call[c].at = "preflight"
  /\ Go(c, Save(call[c], "preflight_passed", "preflight"))
  /\ UNCHANGED <<scenario, profile, file, temp, live, installed, evidence, done, checked, faults>>

(* The device is not there: run() throws before it owns a tunnel.          *)
PreflightFails(c) ==
  /\ call[c].at = "preflight"
  /\ Fault("device")
  /\ Go(c, Idle)
  /\ UNCHANGED <<scenario, profile, file, temp, live, installed, evidence, done, checked>>

(* connect() spawns ssh and puts it into the map of the adapter, over      *)
(* whatever stands there: a first ssh lives on, and nobody knows it.       *)
Spawn(l) == [own |-> TRUE, displaced |-> l.displaced \/ l.own]

(* disconnect() kills the ssh of the map.                                  *)
Kill(l) == [l EXCEPT !.own = FALSE]

Connect(c) ==
  /\ call[c].at = "connect"
  /\ live' = [live EXCEPT ![c] = Spawn(@)]
  /\ Go(c, IF call[c].state = "preflight_passed"
           THEN Save(call[c], "tunnel_connected", "tunnel")
           ELSE [call[c] EXCEPT !.at = "loop"])
  /\ UNCHANGED <<scenario, profile, file, temp, installed, evidence, done, checked, faults>>

-----------------------------------------------------------------------------
(* The loop over the nodes and the terminal transition after it.           *)

(* Mutant of Eligible: the nodes are taken in their order, from the first. *)
Eligible_InOrder(rec) ==
  {i \in DOMAIN rec.nodes : i = rec.passed + 1 /\ rec.nodes[i].from = rec.state}

Eligible(rec) ==
  {i \in DOMAIN rec.nodes : i > rec.passed /\ rec.nodes[i].from = rec.state}

(* The next node of the profile, in its order, that starts in the current  *)
(* state; a node the run has passed does not come again in this call.      *)
NextNode(c) ==
  LET E == Eligible(call[c])
      i == CHOOSE i \in E : \A j \in E : i <= j IN
  /\ call[c].at = "loop" /\ E # {}
  /\ Go(c, IF call[c].aborted
           THEN [call[c] EXCEPT !.at = "cleanup", !.error = "cancelled"]
           ELSE [call[c] EXCEPT !.at = "node", !.passed = i, !.tried = FALSE])
  /\ UNCHANGED <<scenario, profile, file, temp, live, installed, evidence, done, checked, faults>>

(* No node is left.                                                        *)
Conclude(c) ==
  /\ call[c].at = "loop" /\ Eligible(call[c]) = {}
  /\ Go(c, LET rec == call[c] IN
           IF rec.aborted THEN [rec EXCEPT !.at = "cleanup", !.error = "cancelled"]
           ELSE IF rec.state \in {"scenario_passed", "recovery_passed"}
           THEN Save(rec, "evidence_written", "final")
           ELSE IF P!IsTerminal(rec.state) THEN [rec EXCEPT !.at = "cleanup"]
           ELSE [rec EXCEPT !.at = "cleanup", !.error = "failed"])
  /\ UNCHANGED <<scenario, profile, file, temp, live, installed, evidence, done, checked, faults>>

(* Mutant of Caught: a node that fails without a branch leaves no error.   *)
Caught_Silent(rec) ==
  LET branch == rec.nodes[rec.passed].failure IN
  IF rec.aborted THEN [rec EXCEPT !.at = "cleanup", !.error = "cancelled"]
  ELSE IF branch = None THEN [rec EXCEPT !.at = "cleanup"]
  ELSE Save(rec, branch, "branch")

(* What the catch clause of the loop makes of an error of the node or of   *)
(* the checkpoint after it: the failure branch, or the end of the run.  A  *)
(* branch the graph does not allow from the state is thrown out of run().  *)
Caught(rec) ==
  LET branch == rec.nodes[rec.passed].failure IN
  IF rec.aborted THEN [rec EXCEPT !.at = "cleanup", !.error = "cancelled"]
  ELSE IF branch = None THEN [rec EXCEPT !.at = "cleanup", !.error = "failed"]
  ELSE IF branch \in P!Edges(rec.state) THEN Save(rec, branch, "branch")
  ELSE [rec EXCEPT !.at = "cleanup", !.error = "thrown"]

(* The action of the node has succeeded.                                   *)
NodeDone(c) ==
  LET rec == call[c]  r == rec.run  node == rec.nodes[rec.passed] IN
  /\ rec.at = "node"
  /\ installed' = IF node.kind = "install" THEN rec.apk ELSE installed
  /\ live' = [live EXCEPT ![c] = IF node.kind = "reconnect" THEN Spawn(@)
                                 ELSE IF node.kind = "disconnect" THEN Kill(@) ELSE @]
  /\ done' = [done EXCEPT ![r] = @ \cup {node.kind}]
  /\ checked' = [checked EXCEPT ![r] = IF node.kind = "assert" THEN @ \cup {installed} ELSE @]
  /\ Go(c, IF node.success \in P!Edges(rec.state) THEN Save(rec, node.success, "node")
           ELSE Caught(rec))
  /\ UNCHANGED <<scenario, profile, file, temp, evidence, faults>>

(* adb and the assertions fail; ssh is only spawned and killed.            *)
MayFail(kind) == kind \notin {"reconnect", "disconnect"}

(* It has failed: a connection error is tried once more.                   *)
NodeFails(c) ==
  /\ call[c].at = "node"
  /\ MayFail(call[c].nodes[call[c].passed].kind)
  /\ Fault("node")
  /\ \/ /\ ~call[c].tried /\ ~call[c].aborted
        /\ Go(c, [call[c] EXCEPT !.tried = TRUE])
     \/ Go(c, Caught(call[c]))
  /\ UNCHANGED <<scenario, profile, file, temp, live, installed, evidence, done, checked>>

-----------------------------------------------------------------------------
(* StateStore.save                                                         *)

(* A call of checkpoint() that throws: only the one after a node is inside *)
(* the catch clause of the loop.                                           *)
SaveThrows(rec) ==
  IF rec.save = "node" THEN Caught(rec) ELSE [rec EXCEPT !.at = "cleanup", !.error = "thrown"]

(* The transition is checked against the checkpoint on disk.               *)
Allowed(old, new) == old \in {None, new} \/ new \in P!Edges(old)

SaveRead(c) ==
  /\ call[c].at = "read"
  /\ Go(c, IF Allowed(file[call[c].run], call[c].state) THEN [call[c] EXCEPT !.at = "write"]
           ELSE SaveThrows(call[c]))
  /\ UNCHANGED <<scenario, profile, file, temp, live, installed, evidence, done, checked, faults>>

SaveWrite(c) ==
  /\ call[c].at = "write"
  /\ temp' = [temp EXCEPT ![call[c].run] = call[c].state]
  /\ Go(c, [call[c] EXCEPT !.at = "rename"])
  /\ UNCHANGED <<scenario, profile, file, live, installed, evidence, done, checked, faults>>

(* Where run() goes on after each of the five checkpoints.                 *)
After(rec) ==
  CASE rec.save = "preflight" -> [rec EXCEPT !.at = "connect"]
    [] rec.save = "final" -> [rec EXCEPT !.at = "cleanup"]
    [] OTHER -> [rec EXCEPT !.at = "loop"]

(* All calls of a run share one name for the temporary file, so it may be  *)
(* gone or hold what another call wrote.                                   *)
SaveRename(c) ==
  LET r == call[c].run IN
  /\ call[c].at = "rename"
  /\ IF temp[r] = None THEN Go(c, SaveThrows(call[c])) /\ UNCHANGED <<file, temp>>
     ELSE /\ file' = [file EXCEPT ![r] = temp[r]]
          /\ temp' = [temp EXCEPT ![r] = None]
          /\ Go(c, After(call[c]))
  /\ UNCHANGED <<scenario, profile, live, installed, evidence, done, checked, faults>>

(* A file operation of the save fails.                                     *)
SaveFails(c) ==
  /\ call[c].at \in {"read", "write", "rename"}
  /\ Fault("io")
  /\ Go(c, SaveThrows(call[c]))
  /\ UNCHANGED <<scenario, profile, file, temp, live, installed, evidence, done, checked>>

-----------------------------------------------------------------------------
(* The finally clause, the evidence and the removal of the checkpoint.     *)

Status(rec) ==
  CASE rec.error = "cancelled" -> "cancelled" [] rec.error = None -> "completed" [] OTHER -> "failed"

(* Mutant of Cleanup: only a run that reaches its end disconnects.         *)
Cleanup_AtTheEnd(c) ==
  /\ call[c].at = "cleanup"
  /\ IF call[c].error = "thrown" THEN Go(c, Idle) /\ UNCHANGED live
     ELSE Go(c, [call[c] EXCEPT !.at = "evidence"]) /\ live' = [live EXCEPT ![c] = Kill(@)]
  /\ UNCHANGED <<scenario, profile, file, temp, installed, evidence, done, checked, faults>>

Cleanup(c) ==
  /\ call[c].at = "cleanup"
  /\ live' = [live EXCEPT ![c] = Kill(@)]
  /\ Go(c, IF call[c].error = "thrown" THEN Idle ELSE [call[c] EXCEPT !.at = "evidence"])
  /\ UNCHANGED <<scenario, profile, file, temp, installed, evidence, done, checked, faults>>

(* Mutant of WriteEvidence: every run with evidence drops its checkpoint.  *)
WriteEvidence_Always(c) ==
  LET rec == call[c] IN
  /\ rec.at = "evidence"
  /\ evidence' = [evidence EXCEPT ![rec.run] = [status |-> Status(rec), apk |-> rec.apk]]
  /\ Go(c, [rec EXCEPT !.at = "unlink"])
  /\ UNCHANGED <<scenario, profile, file, temp, live, installed, done, checked, faults>>

WriteEvidence(c) ==
  LET rec == call[c] IN
  /\ rec.at = "evidence"
  /\ evidence' = [evidence EXCEPT ![rec.run] = [status |-> Status(rec), apk |-> rec.apk]]
  /\ Go(c, IF Status(rec) = "completed" THEN [rec EXCEPT !.at = "unlink"] ELSE Idle)
  /\ UNCHANGED <<scenario, profile, file, temp, live, installed, done, checked, faults>>

Finish(c) ==
  /\ call[c].at = "unlink"
  /\ file' = [file EXCEPT ![call[c].run] = None]
  /\ Go(c, Idle)
  /\ UNCHANGED <<scenario, profile, temp, live, installed, evidence, done, checked, faults>>

EndFails(c) ==
  /\ call[c].at \in {"evidence", "unlink"}
  /\ Fault("io")
  /\ Go(c, Idle)
  /\ UNCHANGED <<scenario, profile, file, temp, live, installed, evidence, done, checked>>

-----------------------------------------------------------------------------
(* The environment.                                                        *)

(* The abort signal is a timer of the call.                                *)
Abort(c) ==
  /\ Active(c) /\ ~call[c].aborted
  /\ Fault("abort")
  /\ Go(c, [call[c] EXCEPT !.aborted = TRUE])
  /\ UNCHANGED <<scenario, profile, file, temp, live, installed, evidence, done, checked>>

(* The server dies; the ssh processes it has started do not, and no later  *)
(* call knows them.  (live is about calls that ended by themselves.)       *)
Crash ==
  /\ Fault("crash")
  /\ call' = [c \in Calls |-> Idle]
  /\ live' = [c \in Calls |-> [live[c] EXCEPT !.own = FALSE]]
  /\ UNCHANGED <<scenario, profile, file, temp, installed, evidence, done, checked>>

(* The file with the profile is edited; the next call reads it again.      *)
EditProfile ==
  /\ profile' \in scenario.profiles \ {profile}
  /\ UNCHANGED <<scenario, call, file, temp, live, installed, evidence, done, checked, faults>>

Step(c) ==
  \/ Preflight(c) \/ PreflightFails(c) \/ Connect(c) \/ NextNode(c) \/ Conclude(c)
  \/ NodeDone(c) \/ NodeFails(c) \/ SaveRead(c) \/ SaveWrite(c) \/ SaveRename(c)
  \/ SaveFails(c) \/ Cleanup(c) \/ WriteEvidence(c) \/ Finish(c) \/ EndFails(c)

Next ==
  \/ \E c \in Calls :
       (\E r \in Runs, a \in Apks : Begin(c, r, a)) \/ Step(c) \/ Abort(c)
  \/ Crash \/ EditProfile

Spec == Init /\ [][Next]_vars

(* Promises that are settled go on; a client that has an unfinished run    *)
(* resumes it.                                                             *)
Resumed(r) == file[r] # None /\ \E c \in Calls, a \in Apks : Begin(c, r, a)

FairSpec ==
  /\ Spec
  /\ \A c \in Calls : WF_vars(Step(c))
  /\ \A r \in Runs : SF_vars(Resumed(r))

-----------------------------------------------------------------------------
(* The checkpoints of a run are a path through the state graph over any    *)
(* number of calls, crashes, failed saves and edits of the profile, and    *)
(* only a run at its end is forgotten (stateStore.ts 68-127,               *)
(* coordinator.ts 160-221).  It fails for calls that overlap on one run.   *)
RunsFollowGraph == P!Spec

(* A run that is reported completed has, over all the calls that drove it, *)
(* installed and started the application and seen the assertion hold       *)
(* (coordinator.ts 166-176: status "completed" is the absence of an error).*)
CompletedVerified ==
  \A c \in Calls :
    call[c].at = "unlink" => {"install", "launch", "assert"} \subseteq done[call[c].run]

(* A run that a branch has brought to "failed" or "cancelled" is not       *)
(* reported completed (the design: these are terminal branches;            *)
(* coordinator.ts 218 drops the checkpoint "on terminal success").  The    *)
(* code takes every terminal state for a success.                          *)
FailedNotCompleted ==
  \A c \in Calls :
    call[c].at = "unlink" =>
      file[call[c].run] \notin {"failed", "cancelled", "cleanup_failed"}

(* Some profile of the scenario has a node that reconnects the tunnel.     *)
Reconnects ==
  \E nodes \in scenario.profiles : \E i \in DOMAIN nodes : nodes[i].kind = "reconnect"

(* However a call ends, by success, failure, cancellation or an exception  *)
(* of the store, before or after a resumption, no ssh it has started is    *)
(* left, unless its profile reconnects (coordinator.ts 100-113, 189-198).  *)
TunnelClosed ==
  \A c \in Calls : ~Active(c) => ~live[c].own /\ (live[c].displaced => Reconnects)

(* The end of a run cleans up the ssh it has started (the design, line     *)
(* 127; coordinator.ts 5-7), whatever the profile.  The code does not: a   *)
(* reconnect node of a tunnel that is up, which is what ZeroXCore comes to *)
(* after a failed assertion, and what a resumption makes of any, takes the *)
(* place of the first ssh in the map (tunnelAdapter.ts 75).                *)
NoTunnelLeft == \A c \in Calls : ~Active(c) => ~live[c].own /\ ~live[c].displaced

(* A run is never stuck at a checkpoint: resumed after any failure, it     *)
(* ends, or has come to the one state from which no call goes on, the      *)
(* evidence checkpoint (coordinator.ts 126-176).                           *)
ResumesComplete ==
  \A r \in Runs : file[r] # None ~> file[r] \in {None, "evidence_written"}

(* The evidence of a completed run names the APK its assertions were made  *)
(* on (the design keeps the digest of the APK with the state of the run).  *)
EvidenceNamesApk ==
  \A r \in Runs : evidence[r].status = "completed" => checked[r] \subseteq {evidence[r].apk}

=============================================================================
