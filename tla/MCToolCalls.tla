----------------------------- MODULE MCToolCalls -----------------------------
(***************************************************************************)
(* Instances of ToolCalls: the calls of the scenarios, and the scenarios   *)
(* of each run.                                                            *)
(***************************************************************************)
EXTENDS ToolCalls

u == "user"
o == "owner"
MCDirOf == [a |-> "in", b |-> "in", c |-> "in", x |-> "out", y |-> "other"]
MCFiles == [p \in {"a", "b", "c", "x", "y"} |->
              CASE p = "a" -> [dir |-> FALSE, pieces |-> {"old"}]
                [] p = "b" -> [dir |-> TRUE, pieces |-> {"one", "two"}]
                [] OTHER -> Absent]

MCCall == [c \in STRING |->
  CASE c = "move" -> Move(u, "x", "y") [] c = "write" -> Write(u, "x")
    [] c = "read" -> ReadFile(u, "x") [] c = "list" -> ListDirectory(u, "x")
    [] c = "search" -> SearchFiles(u, "y") [] c = "info" -> FileInfo(u, "x")
    [] c = "differ" -> CompareFiles(u, "c", "x")
    [] c = "node" -> NodeAction(u, "out", "test")
    [] c = "python" -> PythonAction(u, "out", "test", FALSE)
    [] c = "java" -> JavaAction("out") [] c = "run" -> Command(u, "out", "make")
    [] c = "plain" -> [Command(o, "out", "make") EXCEPT !.rich = FALSE]
    [] c = "show" -> [ReadFile(o, "b") EXCEPT !.rich = FALSE, !.dirs = {"out"}]
    [] c = "git" -> GitCommand("out", "push")
    [] c = "fetch" -> Fetch(u, <<"first", "second">>) [] c = "ask" -> AskUser(u)
    [] c = "look" -> ReadFile(o, "x") [] c = "contexts" -> UseWorkspaces
    [] c = "patch" -> ApplyPatch(u, <<"a", "x">>)
    [] c = "content" -> SearchContent(u, "x") [] c = "status" -> GitStatus(u, "x")
    [] c = "diff" -> GitDiff(u, "x") [] c = "flow" -> GitWorkflow(u, "x")
    [] c = "writeA" -> Write(u, "a") [] c = "editA" -> Edit(u, "a")
    [] c = "editB" -> Edit(u, "b")
    [] c = "makeC" -> [MakeDirectory(u, "c") EXCEPT !.subjects = <<>>]
    [] c = "moveAB" -> Move(u, "a", "b") [] c = "moveBA" -> Move(u, "b", "a")
    [] c = "gradle" -> Gradle("root") [] c = "build" -> StandardProject("root")
    [] c = "exe" -> RunArtifact("exe") [] c = "install" -> Device("phone")
    [] c = "stop" -> EmulatorStop("phone") [] c = "avd" -> EmulatorStart("avd")
    [] c = "sign" -> SignApk("apk") [] c = "verify" -> VerifyApk("apk")
    [] c = "lock" -> DependencyLock("project") [] c = "signW" -> SignWindows("exe")
    [] c = "verifyW" -> VerifyWindows("exe") [] c = "verifyAll" -> Workflow("ws")
    [] c = "create" -> CreateProject("new") [] c = "server1" -> DevServer("ws", 1)
    [] c = "server2" -> DevServer("ws", 2) [] c = "server3" -> DevServer("ws", 3)]

MCPieces == {"old", "one", "two", "write", "writeA", "editA", "editB"}
MCWorkspaces == {"app", "lib", "tool", "gone"}
MCCatalogs ==
  <<[w \in {"app", "lib", "tool"} |-> [root |-> IF w = "app" THEN "in" ELSE "out", files |-> {"AGENTS"}]],
    [w \in {"app", "lib"} |-> [root |-> "in", files |-> IF w = "app" THEN {"AGENTS", "README"} ELSE {}]]>>

Of(calls, answers, events, n) ==
  [calls |-> calls, answers |-> answers, events |-> events, forms |-> n]
All == {"allow_once", "allow_session", "allow_permanent", "deny", "declined"}
Some == {"allow_once", "deny"}

(* Rounds of one or two calls; grants with what can happen to them; tokens *)
(* and challenges; tasks; servers; files.                                  *)
MCScenarios ==
  {Of({"move"}, Some, {}, 4), Of({"differ"}, All, {"restart"}, 2), Of({"fetch"}, All, {"restart"}, 3),
   Of({"run", "node"}, Some, {}, 3), Of({"write", "read"}, All, {"restart", "fault"}, 2),
   Of({"write", "info"}, {"allow_permanent"}, {"restart", "revoke"}, 2),
   Of({"git"}, {"allow_once", "allow_permanent", "declined"}, {"age", "restart"}, 3),
   Of({"show"}, All \ {"declined"}, {"age", "restart"}, 2), Of({"plain"}, All, {}, 2),
   Of({"install"}, Some \cup {"declined"}, {"age", "restart"}, 2),
   Of({"install"}, Some, {"age"}, 3),
   Of({"gradle", "build"}, {"allow_once", "allow_session"}, {"edit"}, 2),
   Of({"server1", "server2", "server3"}, {}, {"restart"}, 0),
   Of({"ask"}, {"allow_once", "declined"}, {"age"}, 3),
   Of({"look", "contexts"}, {"allow_session"}, {"day"}, 1),
   Of({"writeA", "editA", "moveAB"}, {}, {}, 0), Of({"makeC", "moveBA", "editB"}, {}, {}, 0)}

(* The others, one at a time.                                              *)
MCMore ==
  {Of({c}, Some, {}, 2) : c \in {"content", "status", "diff", "flow", "patch", "list", "search", "python", "java", "exe", "stop", "avd", "sign",
     "verify", "lock", "signW", "verifyW", "verifyAll", "create"}}
AllScenarios == MCScenarios \cup MCMore

SessionScenarios == {Of({"run"}, {"allow_once", "allow_session"}, {}, 3)}
=============================================================================
