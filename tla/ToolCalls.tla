------------------------------ MODULE ToolCalls ------------------------------
(***************************************************************************)
(* Tool calls from their requests to their effects: the decisions of       *)
(* Approvals, then the files of FileTools, a task of DevelopmentTools or   *)
(* the contexts of WorkspaceContexts, in the same step because only        *)
(* settled promises are awaited in between.                                *)
(***************************************************************************)
EXTENDS DevelopmentTools, FileTools, WorkspaceContexts

CONSTANTS
  DirOf,     \* the directory each path is in
  Asks,      \* the paths whose access has to be approved (consent policy)
  Scenarios  \* calls, answers, events, and a bound on the forms

VARIABLE
  scenario   \* the one of this behaviour

vars == <<scenario, approvals, tree, queue, workspaces>>

(* The effects of calls, with the paths they change: a call writes a piece *)
(* of content of its own.                                                  *)
Changes(c) ==
  LET e == Call[c].effect IN
  /\ e[1] \in {"write", "edit"} => c \in Pieces
  /\ e[1] \in {"write", "edit", "mkdir", "move"} => e[2] \in Paths
  /\ e[1] = "move" => e[3] \in Paths

(* What calls ask for.  A git command and a question ask for nothing else; *)
(* a tool whose decisions are for one use asks for one of them, and starts *)
(* no server.                                                              *)
Needs(c) ==
  LET d == Call[c] IN
  /\ d.subjects \in Seq(ToSet(d.subjects))
  /\ {d.single, d.confirms, d.question, d.rich, d.resolves} \subseteq BOOLEAN
  /\ d.confirms \/ d.question => d.subjects = <<>>
  /\ d.single => Len(d.subjects) = 1 /\ d.effect # <<"server">>

ASSUME CallsAssumption == \A s \in Scenarios : \A c \in s.calls : Changes(c) /\ Needs(c)

-----------------------------------------------------------------------------
(* What the calls of the file, command and network tools need.             *)
OfPaths(t, u, ps, effect) ==
  [Tool(t, u) EXCEPT
     !.dirs = {DirOf[ps[i]] : i \in DOMAIN ps},
     !.subjects = SelectSeq([i \in DOMAIN ps |-> <<"path", ps[i]>>], LAMBDA s : s[2] \in Asks),
     !.effect = effect]

ReadFile(u, p) == OfPaths("read_file", u, <<p>>, <<"none">>)
ListDirectory(u, p) == OfPaths("list_directory", u, <<p>>, <<"none">>)
SearchFiles(u, p) == OfPaths("search_files", u, <<p>>, <<"none">>)
SearchContent(u, p) == OfPaths("search_content", u, <<p>>, <<"none">>)
GitPath(t, u, p) == OfPaths(t, u, <<p>>, <<"none">>)
GitStatus(u, p) == GitPath("git_status", u, p)
GitDiff(u, p) == GitPath("git_diff", u, p)
GitWorkflow(u, p) == GitPath("git_workflow", u, p)
FileInfo(u, p) == OfPaths("get_file_info", u, <<p>>, <<"none">>)
CompareFiles(u, p, q) == OfPaths("compare_files", u, <<p, q>>, <<"none">>)
Write(u, p) == OfPaths("write_file", u, <<p>>, <<"write", p>>)
Edit(u, p) == OfPaths("edit_file", u, <<p>>, <<"edit", p>>)
MakeDirectory(u, p) == OfPaths("create_directory", u, <<p>>, <<"mkdir", p>>)
Move(u, p, q) == OfPaths("move_file", u, <<p, q>>, <<"move", p, q>>)

(* A patch asks once for all its targets if one of them has to be approved.*)
ApplyPatch(u, ps) ==
  [OfPaths("apply_patch", u, ps, <<"patch">>) EXCEPT
     !.subjects = IF ToSet(ps) \cap Asks = {} THEN <<>> ELSE <<<<"paths", ToSet(ps)>>>>]

InDirectory(t, u, d, subject) ==
  [Tool(t, u) EXCEPT !.dirs = {d}, !.subjects = <<subject>>]
Command(u, d, text) == InDirectory("execute_command", u, d, <<"command", d, text>>)
GitCommand(d, text) ==
  [Command(Owner, d, text) EXCEPT !.subjects = <<>>, !.confirms = TRUE]
NodeAction(u, d, action) == InDirectory("node_development", u, d, <<"node", d, action>>)
PythonAction(u, d, action, resolves) ==
  [InDirectory("python_development", u, d, <<"python", d, action>>) EXCEPT !.resolves = resolves]
JavaAction(d) == [Tool("java_development", Owner) EXCEPT !.dirs = {d}]
Fetch(u, origins) ==
  [Tool("web_fetch", u) EXCEPT
     !.subjects = [i \in DOMAIN origins |-> <<"origin", origins[i]>>], !.effect = <<"fetch">>]
AskUser(u) == [Tool("ask_user", u) EXCEPT !.question = TRUE]
UseWorkspaces == [Tool("workspace_context", Owner) EXCEPT !.effect = <<"context">>]

-----------------------------------------------------------------------------
Init ==
  /\ scenario \in Scenarios
  /\ AInit /\ FInit /\ TInit /\ CInit

(* What a request of a call that came to st acts on.  A fetch goes to each *)
(* origin as soon as it is approved, before it asks for the next one.      *)
ActsOn(c, st) ==
  IF st.out = "allowed"
  THEN {<<"dir", d>> : d \in Call[c].dirs} \cup {<<"subject", s>> : s \in ToSet(Subjects(c))}
       \cup (IF Call[c].confirms THEN {<<"git", c>>} ELSE {})
  ELSE IF Call[c].effect = <<"fetch">> THEN {<<"subject", s>> : s \in ToSet(st.passed)} ELSE {}

Effect(c) ==
  LET e == Call[c].effect IN
  CASE e[1] = "write" -> WriteFile(e[2], c) /\ UNCHANGED <<queue, workspaces>>
    [] e[1] = "edit" -> EditFile(e[2], c) /\ UNCHANGED <<queue, workspaces>>
    [] e[1] = "mkdir" -> CreateDirectory(e[2]) /\ UNCHANGED <<queue, workspaces>>
    [] e[1] = "move" -> MoveFile(e[2], e[3]) /\ UNCHANGED <<queue, workspaces>>
    [] e[1] = "task" -> Enqueue(c) /\ UNCHANGED <<starting, tree, workspaces>>
    [] e[1] = "context" -> /\ WorkspaceContext({d \in WorkspaceRoots : Access(mem, Owner, d)})
                           /\ UNCHANGED <<tree, queue>>
    [] OTHER -> UNCHANGED <<tree, queue, workspaces>>

Request(c) ==
  /\ Call[c].effect # <<"server">>
  /\ \E q \in Requests(c) :
       LET st == Decided(q) IN
       /\ q.ok \/ "fault" \in scenario.events
       /\ Keep(st) /\ Len(forms') <= scenario.forms
       /\ IF st.out = "allowed" THEN Effect(c) ELSE UNCHANGED <<tree, queue, workspaces>>
  /\ UNCHANGED <<scenario, scripts>>

Idle == UNCHANGED <<scenario, tree, workspaces>>

(* People answer with what the scenario lets them answer.                  *)
Answers(n) ==
  /\ Answer(n) /\ forms'[n].answer \in scenario.answers
  /\ UNCHANGED queue /\ Idle

Submits(n) == Submit(n) /\ forms'[n].answer \in scenario.answers /\ UNCHANGED queue /\ Idle

Restarts ==
  /\ "restart" \in scenario.events /\ Restart
  /\ starting' = {}
  /\ UNCHANGED <<scenario, tree, tasks, workspaces>>

Happens(e, A) == e \in scenario.events /\ A /\ UNCHANGED queue /\ Idle

Next ==
  \/ \E c \in scenario.calls : Request(c)
  \/ \E n \in DOMAIN forms : Answers(n) \/ Submits(n)
  \/ \E n \in DOMAIN forms : Happens("age", Age(n))
  \/ \E r \in Roots : Happens("edit", Edited(r))
  \/ Happens("revoke", Revoke)
  \/ Restarts
  \/ /\ "day" \in scenario.events
     /\ (CatalogEdited \/ Expire) /\ UNCHANGED <<scenario, approvals, tree, queue>>
  \/ \E c \in scenario.calls : (BeginServer(c) \/ PortProbed(c)) /\ UNCHANGED approvals /\ Idle
  \/ \E i \in DOMAIN tasks : (Start(i) \/ End(i)) /\ UNCHANGED approvals /\ Idle

Spec == Init /\ [][Next]_vars

-----------------------------------------------------------------------------
Told(n, c, a) == forms[n].call = c /\ forms[n].told \cap a # {}

DirDecided(c, d) ==
  \/ d \in Static \/ (Call[c].user = Owner /\ d \in OwnerDirs)
  \/ \E n \in DOMAIN forms : d \in forms[n].roots /\
       \/ Told(n, c, Allows)
       \/ Told(n, forms[n].call, Lasting) /\ Call[c].user = Call[forms[n].call].user

SubjectDecided(c, s) ==
  \E n \in DOMAIN forms : forms[n].kind = "operation" /\ forms[n].subject = s /\
    \/ Told(n, c, Allows)
    \/ /\ Told(n, forms[n].call, Lasting)
       /\ Call[c].user = Call[forms[n].call].user /\ Call[c].tool = Call[forms[n].call].tool

IsDecided(c, x) ==
  CASE x[1] = "dir" -> DirDecided(c, x[2])
    [] x[1] = "git" -> \E n \in DOMAIN forms : forms[n].kind = "git" /\ Told(n, c, {"allow_once"})
    [] x[1] = "subject" -> SubjectDecided(c, x[2])

(* Whatever a request would act on, its user has allowed: for this call    *)
(* with these arguments, or for good.  What was shown is what is acted on, *)
(* over all the rounds of a call, forms that are sent again, expiry,       *)
(* restarts and grants that are revoked (approval.ts 78-104,               *)
(* directoryAuthorization.ts 74-82).  Of the scripts of a build it is the  *)
(* digest that was shown, so this is about the scripts the digest reads.   *)
ActsOnDecisions ==
  \A c \in scenario.calls : \A q \in Requests(c) :
    LET st == Decided(q) IN \A x \in ActsOn(c, st) : IsDecided(c, x)

(* A tool whose decisions are for one use has enqueued at most one task    *)
(* for each, however often the call was sent again, until the server is    *)
(* restarted, when it forgets the forms used (approval.ts 40-53, 161-170). *)
OneDecisionOneTask ==
  \A c \in scenario.calls : Call[c].single /\ "restart" \notin scenario.events =>
    Cardinality({i \in DOMAIN tasks : tasks[i].call = c})
      <= Cardinality({n \in DOMAIN forms : Told(n, c, {"allow_once"})})

(* A call sent again with an allowed form not yet used goes on when        *)
(* nothing else has happened: it is let through or asks for what is next   *)
(* (conversational-directory-authorization-design.md 252-253, 260).        *)
GoesOn ==
  scenario.events = {} =>
    \A c \in scenario.calls : \A q \in Requests(c) :
      q.ok /\ q.form # NoForm /\ Consumable(mem, q.form) /\ forms[q.form].answer \in Allows
        => Decided(q).out # "refused"

(* That holds where decisions are for one call, and                        *)
AllowedOnceGoesOn == scenario.answers \cap Lasting = {} => GoesOn

(* should hold for the others: "allow_session: added to the user's set of  *)
(* the process, then the call goes on" (the same document, 252).           *)
AllowedGoesOn == GoesOn

(* The limit on server sessions is exceeded at most by the starts that     *)
(* were let past it together, which the command gate bounds                *)
(* (localDevServer.ts 46-54).                                              *)
SessionsBounded == Cardinality(Servers) <= MaxSessions + MaxCommands - 1

=============================================================================
