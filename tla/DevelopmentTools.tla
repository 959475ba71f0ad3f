--------------------------- MODULE DevelopmentTools ---------------------------
(***************************************************************************)
(* The owner's development tools (src/tools/androidDevelopment.ts,         *)
(* windowsDevelopment.ts, localWorkflows.ts, localDevServer.ts): what each *)
(* action asks a decision for, and the resource keys of the task it        *)
(* enqueues, which decide what runs beside it.                             *)
(*                                                                         *)
(* A record describes a call.  An action that finds its arguments, its     *)
(* toolchain or its plan invalid ends before it asks anything, and is left *)
(* out; so are the inspections.                                            *)
(***************************************************************************)
EXTENDS Approvals

CONSTANTS
  MaxSessions,   \* DEV_SERVER_MAX_SESSIONS
  MaxCommands,   \* MAX_CONCURRENT_COMMANDS
  MaxTasks       \* bound: tasks of a behaviour

VARIABLES
  tasks,     \* the tasks enqueued: their calls and states
  starting   \* the calls that start a server and wait for the port probe

queue == <<tasks, starting>>

ASSUME LimitsAssumption == MaxSessions \in Nat \ {0} /\ MaxCommands \in Nat \ {0}

TInit == tasks = <<>> /\ starting = {}

(* A call of a tool by a user, that needs no decision and does nothing.    *)
Tool(t, u) ==
  [tool |-> t, user |-> u, dirs |-> {}, subjects |-> <<>>, single |-> FALSE,
   confirms |-> FALSE, question |-> FALSE, resolves |-> FALSE, rich |-> TRUE, effect |-> <<"none">>, keys |-> {}]

Enqueues(c, subject, single, keys) ==
  [c EXCEPT !.subjects = <<subject>>, !.single = single, !.effect = <<"task">>, !.keys = keys]

Android == Tool("android_development", Owner)
Windows == Tool("windows_development", Owner)

(* The builds are approved by the digest of some of the scripts they run   *)
(* (Key of Approvals), and may be for good.                                *)
Gradle(root) == Enqueues(Android, <<"script", root>>, FALSE, {<<"root", root>>})
StandardProject(root) == Enqueues(Windows, <<"script", root>>, FALSE, {<<"root", root>>})
RunArtifact(path) == Enqueues(Windows, <<"artifact", path>>, FALSE, {<<"file", path>>})

(* The others need a decision of their own each time.                      *)
Device(serial) == Enqueues(Android, <<"device", serial>>, TRUE, {<<"device", serial>>})
EmulatorStop(serial) == Enqueues(Android, <<"device", serial>>, TRUE, {<<"device", serial>>})
EmulatorStart(avd) == Enqueues(Android, <<"avd", avd>>, TRUE, {<<"avd", avd>>})
SignApk(out) == Enqueues(Android, <<"credential", out>>, TRUE, {<<"file", out>>})
VerifyApk(in) == Enqueues(Android, <<"credential", in>>, TRUE, {<<"file", in>>})
DependencyLock(project) == Enqueues(Windows, <<"project", project>>, TRUE, {<<"file", project>>})
SignWindows(out) == Enqueues(Windows, <<"credential", out>>, TRUE, {<<"file", out>>})
VerifyWindows(in) == Enqueues(Windows, <<"credential", in>>, TRUE, {<<"file", in>>})
Workflow(workspace) ==
  Enqueues(Tool("run_local_workflow", Owner), <<"recipe", workspace>>, TRUE, {<<"workspace", workspace>>})
CreateProject(destination) ==
  [Tool("manage_development_project", Owner) EXCEPT
     !.subjects = <<<<"create", destination>>>>, !.single = TRUE]

(* A server is started without a decision.                                 *)
DevServer(workspace, port) ==
  [Tool("local_dev_server", Owner) EXCEPT
     !.effect = <<"server">>, !.keys = {<<"workspace", workspace>>, <<"port", port>>}]

-----------------------------------------------------------------------------
Enqueue(c) ==
  /\ Len(tasks) < MaxTasks
  /\ tasks' = Append(tasks, [call |-> c, state |-> "queued"])

Active(i) == tasks[i].state \in {"queued", "running"}
Servers == {i \in DOMAIN tasks : Call[tasks[i].call].effect = <<"server">> /\ Active(i)}

(* Mutant of BeginServer: sessions that wait for the scheduler are not     *)
(* counted.                                                                *)
BeginServer_RunningOnly(c) ==
  /\ Call[c].effect = <<"server">> /\ c \notin starting
  /\ Cardinality(starting) < MaxCommands
  /\ Cardinality({i \in Servers : tasks[i].state = "running"}) < MaxSessions
  /\ starting' = starting \cup {c}
  /\ UNCHANGED tasks

(* The limit is read before the port is probed.                            *)
BeginServer(c) ==
  /\ Call[c].effect = <<"server">> /\ c \notin starting
  /\ Cardinality(starting) < MaxCommands
  /\ Cardinality(Servers) < MaxSessions
  /\ starting' = starting \cup {c}
  /\ UNCHANGED tasks

PortProbed(c) ==
  /\ c \in starting
  /\ starting' = starting \ {c}
  /\ UNCHANGED tasks \/ Enqueue(c)

(* The scheduler starts a task when no running one shares a key with it.   *)
Free(i) ==
  \A j \in DOMAIN tasks : tasks[j].state = "running" =>
    Call[tasks[i].call].keys \cap Call[tasks[j].call].keys = {}

Start(i) ==
  /\ tasks[i].state = "queued" /\ Free(i)
  /\ tasks' = [tasks EXCEPT ![i].state = "running"]
  /\ UNCHANGED starting

(* A task ends, or is cancelled while it waits.                            *)
End(i) ==
  /\ Active(i)
  /\ tasks' = [tasks EXCEPT ![i].state = "ended"]
  /\ UNCHANGED starting

=============================================================================
