--------------------------- MODULE ToolCallsProofs ---------------------------
(***************************************************************************)
(* Proofs about ToolCalls: the files that are kept, the bound on server    *)
(* sessions, the contexts of workspaces, and the decisions of people that  *)
(* calls act on.                                                           *)
(***************************************************************************)
EXTENDS ToolCalls, SequenceTheorems, BasicLemmas

(* What a step does to the parts of the state beside the decisions.        *)
LEMMA EffectCases ==
  ASSUME NEW c, Effect(c)
  PROVE  LET e == Call[c].effect IN
         \/ UNCHANGED <<tree, queue, workspaces>>
         \/ /\ \/ e[1] = "write" /\ WriteFile(e[2], c)
               \/ e[1] = "edit" /\ EditFile(e[2], c)
               \/ e[1] = "mkdir" /\ CreateDirectory(e[2])
               \/ e[1] = "move" /\ MoveFile(e[2], e[3])
            /\ UNCHANGED <<queue, workspaces>>
         \/ e[1] = "task" /\ Enqueue(c) /\ UNCHANGED <<starting, tree, workspaces>>
         \/ (\E g : WorkspaceContext(g)) /\ UNCHANGED <<tree, queue>>
BY DEF Effect

LEMMA ContextSteps ==
  ASSUME [Next]_vars
  PROVE  UNCHANGED workspaces \/ (\E g : WorkspaceContext(g)) \/ CatalogEdited \/ Expire
<1>1. CASE UNCHANGED vars
  BY <1>1 DEF vars
<1>2. CASE \E c \in scenario.calls : Request(c)
  <2>1. PICK c \in scenario.calls : Request(c)
    BY <1>2
  <2>2. CASE UNCHANGED <<tree, queue, workspaces>>
    BY <2>2
  <2>3. CASE Effect(c)
    BY <2>3, EffectCases
  <2> QED BY <2>1, <2>2, <2>3 DEF Request
<1>3. CASE /\ "day" \in scenario.events
           /\ (CatalogEdited \/ Expire) /\ UNCHANGED <<scenario, approvals, tree, queue>>
  BY <1>3
<1> QED BY <1>1, <1>2, <1>3 DEF Next, Answers, Submits, Happens, Restarts, Idle

-----------------------------------------------------------------------------
(* Contexts that have left their first phase have acknowledged the files   *)
(* of the catalog they were written under.                                 *)
Instructions == UNION {UNION {Catalogs[d][w].files : w \in DOMAIN Catalogs[d]} : d \in DOMAIN Catalogs}

Honest ==
  {x \in [workspace : Workspaces \cup UNION {DOMAIN Catalogs[d] : d \in DOMAIN Catalogs},
          digest : DOMAIN Catalogs, phase : {"selected", "instructions_ready"},
          read : SUBSET Instructions] :
     x.phase # "selected" => Catalogs[x.digest][x.workspace].files \subseteq x.read}

ContextsInv ==
  /\ catalog \in DOMAIN Catalogs \cup {None}
  /\ contexts \in Seq(Honest)
  /\ expired \in 0..Len(contexts)

LEMMA RemoveAtType ==
  ASSUME NEW S, NEW s \in Seq(S), NEW i \in DOMAIN s
  PROVE  RemoveAt(s, i) \in Seq(S)
<1>1. i \in 1..Len(s) /\ Len(s) \in Nat
  OBVIOUS
<1>2. SubSeq(s, 1, i - 1) \in Seq(S)
  BY <1>1, SubSeqProperties
<1>3. SubSeq(s, i + 1, Len(s)) \in Seq(S)
  BY <1>1, SubSeqProperties
<1> QED BY <1>2, <1>3 DEF RemoveAt

LEMMA UnexpiredType == ASSUME ContextsInv PROVE Unexpired \in Seq(Honest)
<1>1. Len(contexts) \in Nat /\ expired \in Nat
  BY DEF ContextsInv
<1> QED BY <1>1, SubSeqProperties DEF ContextsInv, Unexpired

LEMMA StoredContexts ==
  ASSUME NEW cs \in Seq(Honest), Store(cs)
  PROVE  contexts' \in Seq(Honest) /\ expired' \in 0..Len(contexts')
BY DEF Store

LEMMA CreatedHonest ==
  ASSUME ContextsInv, catalog # None,
         NEW w \in Workspaces \cup UNION {DOMAIN Catalogs[d] : d \in DOMAIN Catalogs}
  PROVE  Created(w) \in Honest
BY DEF ContextsInv, Created, Honest

LEMMA AcknowledgedHonest ==
  ASSUME ContextsInv, NEW x \in Honest, catalog # None, x.digest = catalog,
         x.workspace \in Listed, NEW files_ \in SUBSET Declared(x.workspace)
  PROVE  Acknowledged(x, files_) \in Honest
<1>1. Declared(x.workspace) \subseteq Instructions
  BY DEF ContextsInv, Declared, Instructions, Listed
<1> DEFINE all == x.read \cup files_
<1>2. all \in SUBSET Instructions
  BY <1>1 DEF Honest
<1>3. PICK p \in {"selected", "instructions_ready"} :
        /\ p = IF Declared(x.workspace) \subseteq all THEN "instructions_ready" ELSE x.phase
        /\ Acknowledged(x, files_) = [x EXCEPT !.read = all, !.phase = p]
  BY DEF Honest, Acknowledged
<1>4. x = [workspace |-> x.workspace, digest |-> x.digest, phase |-> x.phase, read |-> x.read]
  BY DEF Honest
<1> DEFINE y == [x EXCEPT !.read = all, !.phase = p]
<1>5. y = [workspace |-> x.workspace, digest |-> x.digest, phase |-> p, read |-> all]
  <2>1. PICK w, d, h, r : x = [workspace |-> w, digest |-> d, phase |-> h, read |-> r]
    BY <1>4
  <2> DEFINE z == [x EXCEPT !.read = all]
  <2>2. y = [z EXCEPT !.phase = p]
    OBVIOUS
  <2>3. z = [workspace |-> w, digest |-> d, phase |-> h, read |-> all]
    BY <2>1
  <2> HIDE DEF all, y, z
  <2>4. y = [workspace |-> w, digest |-> d, phase |-> p, read |-> all]
    BY <2>2, <2>3
  <2> QED BY <2>1, <2>4
<1>6. p # "selected" => Catalogs[x.digest][x.workspace].files \subseteq all
  BY <1>3 DEF Honest, Declared
<1> HIDE DEF y, all
<1>7. y \in Honest
  <2>1. /\ x.workspace \in Workspaces \cup UNION {DOMAIN Catalogs[d] : d \in DOMAIN Catalogs}
        /\ x.digest \in DOMAIN Catalogs
    BY DEF Honest
  <2>2. y.phase = p /\ y.read = all /\ y.digest = x.digest /\ y.workspace = x.workspace
    BY <1>5
  <2>3. y.phase # "selected" => Catalogs[y.digest][y.workspace].files \subseteq y.read
    BY <1>6, <2>2
  <2>4. y \in [workspace : Workspaces \cup UNION {DOMAIN Catalogs[d] : d \in DOMAIN Catalogs},
               digest : DOMAIN Catalogs, phase : {"selected", "instructions_ready"},
               read : SUBSET Instructions]
    BY <1>2, <1>5, <2>1
  <2> QED BY <2>3, <2>4 DEF Honest
<1> QED BY <1>3, <1>7 DEF y

LEMMA ContextsKept ==
  ASSUME ContextsInv,
         UNCHANGED workspaces \/ (\E g : WorkspaceContext(g)) \/ CatalogEdited \/ Expire
  PROVE  ContextsInv'
<1>1. Unexpired \in Seq(Honest)
  BY UnexpiredType
<1>2. CASE UNCHANGED workspaces \/ CatalogEdited
  BY <1>2 DEF ContextsInv, workspaces, CatalogEdited, Untouched
<1>3. CASE Expire
  BY <1>3 DEF ContextsInv, Expire
<1>4. CASE \E g : WorkspaceContext(g)
  <2>1. PICK g : WorkspaceContext(g)
    BY <1>4
  <2>2. ASSUME NEW cs \in Seq(Honest), Store(cs) PROVE ContextsInv'
    BY <2>1, <2>2, StoredContexts DEF ContextsInv, WorkspaceContext
  <2>3. CASE Untouched
    BY <2>1, <2>3 DEF ContextsInv, WorkspaceContext, Untouched
  <2>4. CASE Cleaned
    BY <1>1, <2>2, <2>4 DEF Cleaned
  <2>5. ASSUME catalog # None, NEW w \in Workspaces, Select(w, g) PROVE ContextsInv'
    <3> DEFINE cs == Unexpired
               mine == {i \in DOMAIN cs : cs[i].workspace = w}
    <3>1. Created(w) \in Honest
      BY <2>5, CreatedHonest
    <3>2. ASSUME NEW i \in mine, Store(Append(RemoveAt(cs, i), Refreshed(cs[i])))
          PROVE  ContextsInv'
      <4>1. i \in DOMAIN cs /\ cs[i] \in Honest /\ cs[i].workspace = w
        BY <1>1
      <4>2. Refreshed(cs[i]) \in Honest
        BY <3>1, <4>1 DEF Refreshed
      <4>3. RemoveAt(cs, i) \in Seq(Honest)
        BY <1>1, <4>1, RemoveAtType
      <4> QED BY <2>2, <3>2, <4>2, <4>3, AppendProperties
    <3>3. ASSUME Store(Append(IF Len(cs) >= MaxContexts THEN Tail(cs) ELSE cs, Created(w)))
          PROVE  ContextsInv'
      <4> DEFINE kept == IF Len(cs) >= MaxContexts THEN Tail(cs) ELSE cs
      <4>1. kept \in Seq(Honest)
        BY <1>1, CatalogsAssumption
      <4>2. Store(Append(kept, Created(w)))
        BY <3>3
      <4> HIDE DEF kept, cs
      <4>3. Append(kept, Created(w)) \in Seq(Honest)
        BY <3>1, <4>1, AppendProperties
      <4> QED BY <2>2, <4>2, <4>3
    <3> QED BY <2>3, <2>5, <3>2, <3>3 DEF Select, Upsert
  <2>6. ASSUME catalog # None, NEW i \in Ids, NEW fs, MarkInstructionsRead(i, fs)
        PROVE  ContextsInv'
    <3>1. CASE Current(i) /\ fs \subseteq Declared(Unexpired[i].workspace)
      <4>1. i \in DOMAIN Unexpired /\ Unexpired[i] \in Honest
        BY <1>1, <3>1 DEF Current, Ids
      <4>2. Acknowledged(Unexpired[i], fs) \in Honest
        BY <2>6, <3>1, <4>1, AcknowledgedHonest DEF Current
      <4>3. RemoveAt(Unexpired, i) \in Seq(Honest)
        BY <1>1, <4>1, RemoveAtType
      <4>4. Store(Append(RemoveAt(Unexpired, i), Acknowledged(Unexpired[i], fs)))
        BY <2>6, <3>1 DEF MarkInstructionsRead
      <4>5. Append(RemoveAt(Unexpired, i), Acknowledged(Unexpired[i], fs)) \in Seq(Honest)
        BY <4>2, <4>3, AppendProperties
      <4> QED BY <2>2, <4>4, <4>5
    <3> QED BY <2>4, <2>6, <3>1 DEF MarkInstructionsRead
  <2>7. ASSUME NEW i \in Ids, Clear(i) PROVE ContextsInv'
    <3>1. CASE i = NoContext
      BY <2>4, <2>7, <3>1 DEF Clear
    <3>2. CASE i # NoContext
      <4>1. i \in DOMAIN Unexpired
        BY <3>2 DEF Ids
      <4> QED BY <1>1, <2>2, <2>7, <3>2, <4>1, RemoveAtType DEF Clear
    <3> QED BY <3>1, <3>2
  <2> QED BY <2>1, <2>3, <2>4, <2>5, <2>6, <2>7 DEF WorkspaceContext, Get
<1> QED BY <1>2, <1>3, <1>4

(* The contexts in the store are honest, whatever catalog they were        *)
(* written under, and those that expire are the oldest (context.ts 98-212).*)
THEOREM ContextsInvariant == Spec => []ContextsInv
<1>1. Init => ContextsInv
  <2> SUFFICES ASSUME Init PROVE ContextsInv
    OBVIOUS
  <2>1. catalog = 1 /\ contexts = <<>> /\ expired = 0
    BY DEF Init, CInit
  <2>2. <<>> \in Seq(Honest) /\ Len(<<>>) = 0
    OBVIOUS
  <2> QED BY <2>1, <2>2, CatalogsAssumption DEF ContextsInv
<1>2. ContextsInv /\ [Next]_vars => ContextsInv'
  BY ContextSteps, ContextsKept
<1> QED BY <1>1, <1>2, PTL DEF Spec

(* A client is sent to the source of a workspace only when every           *)
(* instruction file the catalog now declares for it has been acknowledged  *)
(* (context.ts 98-147 and 177-212, routing.ts 67-98).                      *)
THEOREM InstructionsFirst == Spec => []ReadBeforeSource
<1>1. ContextsInv => ReadBeforeSource
  <2> SUFFICES ASSUME ContextsInv, catalog # None, NEW id \in Ids, Answered(id) = "read_source"
               PROVE  LET x == Unexpired[IF id = NoContext THEN FindUnambiguous ELSE id]
                      IN  Declared(x.workspace) \subseteq x.read
    BY DEF ReadBeforeSource
  <2> DEFINE i == IF id = NoContext THEN FindUnambiguous ELSE id
  <2>1. Unexpired \in Seq(Honest)
    BY UnexpiredType
  <2>2. i \in {NoContext} \cup DOMAIN Unexpired
    BY <2>1 DEF Ids, FindUnambiguous, NoContext
  <2>3. Current(i) /\ Route(i) = "read_source"
    BY DEF Answered
  <2>4. i \in DOMAIN Unexpired /\ Unexpired[i].digest = catalog
    BY <2>2, <2>3 DEF Current
  <2>5. Unexpired[i] \in Honest /\ Unexpired[i].phase # "selected"
    BY <2>1, <2>3, <2>4 DEF Route
  <2> QED BY <2>4, <2>5 DEF Honest, Declared
<1> QED BY <1>1, ContextsInvariant, PTL

-----------------------------------------------------------------------------
(* The tasks and the starts of servers.                                    *)
CallNames == UNION {s.calls : s \in Scenarios}
TaskRecords == [call : CallNames, state : {"queued", "running", "ended"}]

SessionsInv ==
  /\ scenario \in Scenarios
  /\ tasks \in Seq(TaskRecords)
  /\ IsFiniteSet(starting) /\ Cardinality(starting) <= MaxCommands
  /\ Cardinality(Servers) + Cardinality(starting) <= MaxSessions + MaxCommands - 1

LEMMA QueueSteps ==
  ASSUME [Next]_vars
  PROVE  \/ UNCHANGED queue
         \/ UNCHANGED tasks /\ starting' = {}
         \/ \E c \in scenario.calls : \/ Call[c].effect[1] = "task" /\ Enqueue(c) /\ UNCHANGED starting
                                      \/ BeginServer(c) \/ PortProbed(c)
         \/ \E i \in DOMAIN tasks : Start(i) \/ End(i)
<1>1. CASE UNCHANGED vars
  BY <1>1 DEF vars
<1>2. CASE \E c \in scenario.calls : Request(c)
  <2>1. PICK c \in scenario.calls : Request(c)
    BY <1>2
  <2>2. CASE UNCHANGED <<tree, queue, workspaces>>
    BY <2>2
  <2>3. CASE Effect(c)
    BY <2>3, EffectCases
  <2> QED BY <2>1, <2>2, <2>3 DEF Request
<1>3. CASE Restarts
  BY <1>3 DEF Restarts
<1> QED BY <1>1, <1>2, <1>3 DEF Next, Answers, Submits, Happens, Idle

LEMMA ServersFinite ==
  ASSUME SessionsInv
  PROVE  IsFiniteSet(Servers) /\ Cardinality(Servers) \in Nat /\ Cardinality(starting) \in Nat
<1>1. Servers \subseteq 1..Len(tasks) /\ Len(tasks) \in Nat
  BY DEF SessionsInv, Servers
<1>2. IsFiniteSet(1..Len(tasks))
  BY <1>1, FS_Interval
<1>3. IsFiniteSet(Servers)
  BY <1>1, <1>2, FS_Subset
<1>4. IsFiniteSet(starting)
  BY DEF SessionsInv
<1> QED BY <1>3, <1>4, FS_CardinalityType

LEMMA FewerServers ==
  ASSUME SessionsInv, tasks' \in Seq(TaskRecords), Servers' \subseteq Servers, UNCHANGED <<scenario, starting>>
  PROVE  SessionsInv'
<1>1. /\ IsFiniteSet(Servers) /\ Cardinality(Servers) \in Nat
      /\ Cardinality(starting) \in Nat
  BY ServersFinite
<1>2. Cardinality(Servers') <= Cardinality(Servers) /\ Cardinality(Servers') \in Nat
  BY <1>1, FS_Subset, FS_CardinalityType
<1> QED BY <1>1, <1>2, LimitsAssumption DEF SessionsInv

LEMMA SessionsKept == ASSUME SessionsInv, [Next]_vars PROVE SessionsInv'
<1> USE LimitsAssumption
<1>1. UNCHANGED scenario
  BY DEF Next, vars, Request, Answers, Submits, Happens, Restarts, Idle
<1>2. /\ IsFiniteSet(Servers) /\ Cardinality(Servers) \in Nat
      /\ Cardinality(starting) \in Nat
  BY ServersFinite
<1>3. CASE UNCHANGED queue
  <2>1. Servers' = Servers
    BY <1>3 DEF queue, Servers, Active
  <2> QED BY <1>1, <1>3, <2>1 DEF SessionsInv, queue
<1>4. CASE UNCHANGED tasks /\ starting' = {}
  <2>1. Servers' = Servers
    BY <1>4 DEF Servers, Active
  <2>2. IsFiniteSet({}) /\ Cardinality({}) = 0
    BY FS_EmptySet
  <2> QED BY <1>1, <1>2, <1>4, <2>1, <2>2 DEF SessionsInv
<1>5. ASSUME NEW c \in scenario.calls, Call[c].effect[1] = "task", Enqueue(c), UNCHANGED starting
      PROVE  SessionsInv'
  <2>1. c \in CallNames
    BY DEF SessionsInv, CallNames
  <2>2. tasks' \in Seq(TaskRecords)
    BY <1>5, <2>1 DEF SessionsInv, Enqueue, TaskRecords
  <2>3. Servers' \subseteq Servers
    BY <1>5 DEF SessionsInv, Servers, Active, Enqueue
  <2> QED BY <1>1, <1>5, <2>2, <2>3, FewerServers
<1>6. ASSUME NEW c \in scenario.calls, BeginServer(c) PROVE SessionsInv'
  <2>1. Servers' = Servers /\ UNCHANGED tasks
    BY <1>6 DEF Servers, Active, BeginServer
  <2>2. /\ IsFiniteSet(starting \cup {c})
        /\ Cardinality(starting \cup {c}) = Cardinality(starting) + 1
    BY <1>6, FS_AddElement DEF BeginServer, SessionsInv
  <2>3. Cardinality(starting) < MaxCommands /\ Cardinality(Servers) < MaxSessions
        /\ starting' = starting \cup {c}
    BY <1>6 DEF BeginServer
  <2> QED BY <1>1, <1>2, <2>1, <2>2, <2>3 DEF SessionsInv
<1>7. ASSUME NEW c \in scenario.calls, PortProbed(c) PROVE SessionsInv'
  <2>1. c \in starting /\ starting' = starting \ {c}
    BY <1>7 DEF PortProbed
  <2>2. /\ IsFiniteSet(starting \ {c})
        /\ Cardinality(starting \ {c}) = Cardinality(starting) - 1
    BY <2>1, FS_RemoveElement DEF SessionsInv
  <2>3. CASE UNCHANGED tasks
    <3>1. Servers' = Servers
      BY <2>3 DEF Servers, Active
    <3> QED BY <1>1, <1>2, <2>1, <2>2, <2>3, <3>1 DEF SessionsInv
  <2>4. CASE Enqueue(c)
    <3>1. c \in CallNames
      BY DEF SessionsInv, CallNames
    <3>2. tasks' \in Seq(TaskRecords)
      BY <2>4, <3>1 DEF SessionsInv, Enqueue, TaskRecords
    <3>3. Servers' \subseteq Servers \cup {Len(tasks) + 1}
      BY <2>4 DEF SessionsInv, Servers, Active, Enqueue
    <3> DEFINE new == Len(tasks) + 1
    <3> HIDE DEF new
    <3>4. IsFiniteSet(Servers \cup {new}) /\ Cardinality(Servers \cup {new}) \in Nat
          /\ Cardinality(Servers \cup {new}) <= Cardinality(Servers) + 1
      <4>1. IsFiniteSet(Servers \cup {new})
            /\ Cardinality(Servers \cup {new}) =
                 IF new \in Servers THEN Cardinality(Servers) ELSE Cardinality(Servers) + 1
        BY <1>2, FS_AddElement
      <4> QED BY <1>2, <4>1
    <3>5. Cardinality(Servers') <= Cardinality(Servers) + 1 /\ Cardinality(Servers') \in Nat
      BY <3>3, <3>4, FS_Subset, FS_CardinalityType DEF new
    <3> QED BY <1>1, <1>2, <2>1, <2>2, <3>2, <3>5 DEF SessionsInv
  <2> QED BY <1>7, <2>3, <2>4 DEF PortProbed
<1>8. ASSUME NEW i \in DOMAIN tasks, Start(i) \/ End(i) PROVE SessionsInv'
  <2>1. PICK s \in {"running", "ended"} : tasks' = [tasks EXCEPT ![i].state = s]
    BY <1>8 DEF Start, End
  <2>2. UNCHANGED starting /\ Active(i)
    BY <1>8 DEF Start, End, Active
  <2>3. tasks' \in Seq(TaskRecords)
    <3>1. tasks \in Seq(TaskRecords) /\ i \in 1..Len(tasks) /\ tasks[i] \in TaskRecords
      BY DEF SessionsInv
    <3>2. [tasks[i] EXCEPT !.state = s] \in TaskRecords
      BY <3>1 DEF TaskRecords
    <3>3. tasks' = [tasks EXCEPT ![i] = [tasks[i] EXCEPT !.state = s]]
      BY <2>1
    <3> QED BY <3>1, <3>2, <3>3, ExceptSeq
  <2>4. Servers' \subseteq Servers
    BY <2>1, <2>2 DEF SessionsInv, Servers, Active, TaskRecords
  <2> QED BY <1>1, <2>2, <2>3, <2>4, FewerServers
<1> QED BY <1>3, <1>4, <1>5, <1>6, <1>7, <1>8, QueueSteps

(* The sessions and the starts under way together stay within the bound:   *)
(* a start that passed the check was counted by the gate of the commands   *)
(* (localDevServer.ts 46-54).                                              *)
THEOREM SessionsInvariant == Spec => []SessionsInv
<1>1. Init => SessionsInv
  <2> SUFFICES ASSUME Init PROVE SessionsInv
    OBVIOUS
  <2>1. tasks = <<>> /\ starting = {} /\ scenario \in Scenarios
    BY DEF Init, TInit
  <2>2. Servers = {}
    BY <2>1 DEF Servers
  <2>3. IsFiniteSet({}) /\ Cardinality({}) = 0
    BY FS_EmptySet
  <2> QED BY <2>1, <2>2, <2>3, LimitsAssumption DEF SessionsInv
<1>2. SessionsInv /\ [Next]_vars => SessionsInv'
  BY SessionsKept
<1> QED BY <1>1, <1>2, PTL DEF Spec

(* There are never more server sessions than the limit and the starts that *)
(* the command gate lets through at once (localDevServer.ts 29-69).        *)
THEOREM SessionsWithinBound == Spec => []SessionsBounded
<1>1. SessionsInv => SessionsBounded
  BY ServersFinite, LimitsAssumption DEF SessionsInv, SessionsBounded
<1> QED BY <1>1, SessionsInvariant, PTL

-----------------------------------------------------------------------------
(* Files and the trash.  A directory in either holds only what an initial  *)
(* directory held, so what else has been stored is in files; and a step    *)
(* that keeps every file somewhere keeps that.                             *)
Held == trash \cup {files[p] : p \in {q \in Paths : At(q)}}

FilesInv ==
  /\ files \in [Paths -> Entries \cup {Absent}]
  /\ trash \subseteq Entries
  /\ \A e \in Held : e.dir => e.pieces \subseteq OfDirectories
  /\ FilesKept

LEMMA TreeSteps ==
  ASSUME [Next]_vars
  PROVE  \/ UNCHANGED tree
         \/ \E c \in scenario.calls :
              LET e == Call[c].effect IN
              \/ e[1] = "write" /\ WriteFile(e[2], c)
              \/ e[1] = "edit" /\ EditFile(e[2], c)
              \/ e[1] = "mkdir" /\ CreateDirectory(e[2])
              \/ e[1] = "move" /\ MoveFile(e[2], e[3])
<1>1. CASE UNCHANGED vars
  BY <1>1 DEF vars
<1>2. CASE \E c \in scenario.calls : Request(c)
  <2>1. PICK c \in scenario.calls : Request(c)
    BY <1>2
  <2>2. CASE UNCHANGED <<tree, queue, workspaces>>
    BY <2>2
  <2>3. CASE Effect(c)
    BY <2>3, EffectCases
  <2> QED BY <2>1, <2>2, <2>3 DEF Request
<1>3. CASE /\ "day" \in scenario.events
           /\ (CatalogEdited \/ Expire) /\ UNCHANGED <<scenario, approvals, tree, queue>>
  BY <1>3
<1> QED BY <1>1, <1>2, <1>3 DEF Next, Answers, Submits, Happens, Restarts, Idle

(* It is enough that the entries there are after a step are old ones, new  *)
(* files or parts of old directories, and that no file has gone.           *)
LEMMA NothingGone ==
  ASSUME FilesInv, files' \in [Paths -> Entries \cup {Absent}], trash' \subseteq Entries,
         \A e \in Held' : e.dir => e.pieces \subseteq OfDirectories,
         \A e \in Held : e.dir \/ e.pieces = {} \/ e \in Held',
         \A x \in stored' \ stored : \E e \in Held' : x \in e.pieces
  PROVE  FilesInv'
<1>1. Anywhere = UNION {e.pieces : e \in Held} /\ Anywhere' = UNION {e.pieces : e \in Held'}
  BY DEF Anywhere, Held
<1>2. ASSUME NEW x \in stored' \ OfDirectories PROVE x \in Anywhere'
  <2>1. CASE x \in stored
    <3>1. PICK e \in Held : x \in e.pieces
      BY <1>1, <2>1 DEF FilesInv, FilesKept
    <3>2. ~e.dir
      BY <3>1 DEF FilesInv
    <3> QED BY <1>1, <3>1, <3>2
  <2>2. CASE x \notin stored
    BY <1>1, <2>2
  <2> QED BY <2>1, <2>2
<1> QED BY <1>2 DEF FilesInv, FilesKept, OfDirectories

LEMMA HeldEntries ==
  ASSUME FilesInv
  PROVE  /\ Held \subseteq Entries
         /\ \A p \in Paths : At(p) => files[p] \in Held
         /\ \A p \in Paths : Trashed(p) \subseteq Held /\ trash \subseteq Trashed(p)
         /\ \A p \in Paths : Trashed(p) \subseteq Entries
BY DEF FilesInv, Held, At, Trashed

LEMMA RefusedKeeps == ASSUME FilesInv, NEW p \in Paths, Refused(p) PROVE FilesInv'
<1>1. files' = files /\ stored' = stored /\ trash' \in {trash, Trashed(p)}
  BY DEF Refused
<1>2. trash' \subseteq Entries /\ trash' \subseteq Held /\ Held \subseteq Held'
  BY <1>1, HeldEntries DEF FilesInv, Held, Trashed, At
<1>3. Held' \subseteq Held
  BY <1>1, <1>2 DEF Held, At
<1>4. \A e \in Held' : e.dir => e.pieces \subseteq OfDirectories
  BY <1>3 DEF FilesInv
<1> QED BY <1>1, <1>2, <1>4, NothingGone DEF FilesInv

(* What is at a path is put in the trash, and something else there.        *)
LEMMA PutKeeps ==
  ASSUME FilesInv, NEW p \in Paths, NEW e \in Entries \cup {Absent},
         Becomes(Put(files, p, e), Trashed(p)),
         e # Absent /\ e.dir => e.pieces \subseteq OfDirectories,
         \A x \in stored' \ stored : e # Absent /\ x \in e.pieces
  PROVE  FilesInv'
<1>1. files' = [files EXCEPT ![p] = e] /\ trash' = Trashed(p)
  BY DEF Becomes, Put
<1>2. files' \in [Paths -> Entries \cup {Absent}] /\ trash' \subseteq Entries
  BY <1>1, HeldEntries DEF FilesInv
<1>3. files'[p] = e /\ \A q \in Paths \ {p} : files'[q] = files[q]
  BY <1>1 DEF FilesInv
<1>4. Held \subseteq Held'
  <2> SUFFICES ASSUME NEW h \in Held PROVE h \in Held'
    OBVIOUS
  <2>1. CASE h \in trash
    BY <1>1, <2>1, HeldEntries DEF Held
  <2>2. CASE h \notin trash
    <3>1. PICK q \in Paths : At(q) /\ h = files[q]
      BY <2>2 DEF Held
    <3>2. CASE q = p
      BY <1>1, <3>1, <3>2 DEF Held, Trashed
    <3>3. CASE q # p
      BY <1>3, <3>1, <3>3 DEF Held, At
    <3> QED BY <3>2, <3>3
  <2> QED BY <2>1, <2>2
<1>5. Held' \subseteq Held \cup ({e} \ {Absent})
  BY <1>1, <1>3, HeldEntries DEF Held, At
<1>6. \A h \in Held' : h.dir => h.pieces \subseteq OfDirectories
  BY <1>5 DEF FilesInv
<1>7. e # Absent => e \in Held'
  BY <1>3 DEF Held, At
<1> QED BY <1>2, <1>4, <1>6, <1>7, NothingGone

LEMMA ReplaceKeeps ==
  ASSUME FilesInv, NEW p \in Paths, NEW piece \in Pieces, Replace(p, piece)
  PROVE  FilesInv'
<1>1. CASE Refused(p)
  BY <1>1, RefusedKeeps
<1>2. CASE Becomes(Put(files, p, Absent), Trashed(p)) /\ UNCHANGED stored
  BY <1>2, PutKeeps
<1>3. CASE Becomes(Put(files, p, File(piece)), Trashed(p)) /\ stored' = stored \cup {piece}
  <2>1. /\ File(piece) \in Entries /\ ~File(piece).dir
        /\ \A x \in stored' \ stored : File(piece) # Absent /\ x \in File(piece).pieces
    <3>1. File(piece) \in Entries
      BY DEF File, Entries
    <3>2. File(piece).pieces = {piece} /\ ~File(piece).dir
      BY DEF File
    <3> QED BY <1>3, <3>1, <3>2, FilesAssumption
  <2> QED BY <1>3, <2>1, PutKeeps
<1> QED BY <1>1, <1>2, <1>3 DEF Replace

LEMMA UnchangedKeeps == ASSUME FilesInv, UNCHANGED tree PROVE FilesInv'
BY DEF FilesInv, tree, Held, At, FilesKept, Anywhere, OfDirectories

LEMMA MakeKeeps == ASSUME FilesInv, NEW p \in Paths, CreateDirectory(p) PROVE FilesInv'
<1> DEFINE e == [dir |-> TRUE, pieces |-> {}]
<1>1. CASE UNCHANGED files
  BY <1>1, UnchangedKeeps DEF CreateDirectory, tree
<1>2. CASE ~At(p) /\ files' = Put(files, p, e)
  <2>1. Becomes(Put(files, p, e), Trashed(p)) /\ UNCHANGED stored
    BY <1>2 DEF CreateDirectory, Becomes, Trashed
  <2>2. e \in Entries /\ e.pieces = {}
    BY DEF Entries
  <2> HIDE DEF e
  <2> QED BY <2>1, <2>2, PutKeeps
<1> QED BY <1>1, <1>2 DEF CreateDirectory

(* What move_file leaves at the destination and at the source: the file    *)
(* moved is at one of them, and what was at the destination is there or in *)
(* the trash.                                                              *)
LEMMA BothKeep ==
  ASSUME FilesInv, NEW from \in Paths, NEW to \in Paths, from # to, At(from),
         NEW a \in Entries \cup {Absent}, NEW b \in Entries \cup {Absent},
         files' = [q \in Paths |-> IF q = to THEN a ELSE IF q = from THEN b ELSE files[q]],
         trash' \subseteq Trashed(to), trash \subseteq trash', UNCHANGED stored,
         a = files[to] \/ trash' = Trashed(to),
         \A e \in {a, b} \ {Absent} : e.dir => e.pieces \subseteq OfDirectories,
         files[from].dir \/ files[from].pieces = {} \/ files[from] \in {a, b}
  PROVE  FilesInv'
<1>1. files' \in [Paths -> Entries \cup {Absent}] /\ trash' \subseteq Entries
  BY HeldEntries DEF FilesInv
<1>2. /\ files'[to] = a /\ files'[from] = b
      /\ \A q \in Paths \ {from, to} : files'[q] = files[q]
  OBVIOUS
<1>3. Held' \subseteq Held \cup ({a, b} \ {Absent})
  <2>1. ASSUME NEW q \in Paths, At(q)' PROVE files'[q] \in Held \cup ({a, b} \ {Absent})
    BY <1>2, <2>1 DEF Held, At
  <2>2. trash' \subseteq Held
    BY HeldEntries
  <2> QED BY <2>1, <2>2 DEF Held
<1>4. {a, b} \ {Absent} \subseteq Held'
  BY <1>2 DEF Held, At
<1>5. ASSUME NEW h \in Held PROVE h.dir \/ h.pieces = {} \/ h \in Held'
  <2>1. CASE h \in trash
    BY <2>1 DEF Held
  <2>2. ASSUME NEW q \in Paths, At(q), h = files[q] PROVE h.dir \/ h.pieces = {} \/ h \in Held'
    <3>1. CASE q = from
      BY <1>4, <2>2, <3>1 DEF At
    <3>2. CASE q = to
      <4>1. CASE a = files[to]
        BY <1>4, <2>2, <3>2, <4>1 DEF At
      <4>2. CASE trash' = Trashed(to)
        BY <2>2, <3>2, <4>2 DEF Trashed, Held
      <4> QED BY <4>1, <4>2
    <3>3. CASE q \notin {from, to}
      BY <1>2, <2>2, <3>3 DEF Held, At
    <3> QED BY <3>1, <3>2, <3>3
  <2> QED BY <2>1, <2>2 DEF Held
<1>6. \A h \in Held' : h.dir => h.pieces \subseteq OfDirectories
  BY <1>3 DEF FilesInv
<1> QED BY <1>1, <1>5, <1>6, NothingGone

LEMMA PartsOfEntries ==
  ASSUME NEW e \in Entries, NEW part \in Parts(e)
  PROVE  /\ part \in Entries /\ part.dir = e.dir /\ part.pieces \subseteq e.pieces
         /\ ~e.dir /\ part.pieces # {} => part = e
<1>1. PICK s \in SUBSET e.pieces : part = [e EXCEPT !.pieces = s] /\ (e.dir \/ s = {} \/ s = e.pieces)
  BY DEF Parts
<1>2. PICK d \in BOOLEAN, ps \in SUBSET Pieces : e = [dir |-> d, pieces |-> ps]
  BY DEF Entries
<1>3. part = [dir |-> d, pieces |-> s] /\ s \subseteq ps /\ (d \/ s = {} \/ s = ps)
  BY <1>1, <1>2
<1> QED BY <1>2, <1>3 DEF Entries

LEMMA MoveKeeps ==
  ASSUME FilesInv, NEW from \in Paths, NEW to \in Paths, MoveFile(from, to)
  PROVE  FilesInv'
<1> DEFINE Both(a, b) == [q \in Paths |-> IF q = to THEN a ELSE IF q = from THEN b ELSE files[q]]
<1>1. CASE Refused(to)
  BY <1>1, RefusedKeeps
<1>2. CASE At(from) /\ UNCHANGED stored /\ Becomes(Put(files, to, Absent), Trashed(to))
  BY <1>2, PutKeeps
<1>3. ASSUME At(from), UNCHANGED stored, from # to
      PROVE  /\ files \in [Paths -> Entries \cup {Absent}]
             /\ files[from] \in Entries
             /\ files[from].dir => files[from].pieces \subseteq OfDirectories
             /\ files[to] # Absent /\ files[to].dir => files[to].pieces \subseteq OfDirectories
             /\ trash \subseteq Trashed(to)
             /\ \A part \in Parts(files[from]) :
                  /\ part \in Entries /\ part.dir = files[from].dir
                  /\ part.pieces \subseteq files[from].pieces
                  /\ part.dir => part.pieces \subseteq OfDirectories
                  /\ ~files[from].dir /\ part.pieces # {} => part = files[from]
  <2>1. files[from] \in Entries
    BY <1>3 DEF FilesInv, At
  <2>2. files[from].dir => files[from].pieces \subseteq OfDirectories
    BY <1>3, HeldEntries DEF FilesInv
  <2>3. files[to] # Absent /\ files[to].dir => files[to].pieces \subseteq OfDirectories
    BY HeldEntries DEF FilesInv, At
  <2>4. trash \subseteq Trashed(to)
    BY HeldEntries
  <2> QED BY <2>1, <2>2, <2>3, <2>4, PartsOfEntries DEF FilesInv
<1>4. ASSUME At(from), UNCHANGED stored, from # to,
             Becomes(Put(Put(files, to, files[from]), from, Absent), Trashed(to))
      PROVE  FilesInv'
  <2>1. files' = Both(files[from], Absent)
    BY <1>3, <1>4 DEF Becomes, Put
  <2> HIDE DEF Both
  <2>2. trash' = Trashed(to)
    BY <1>4 DEF Becomes
  <2> QED BY <1>3, <1>4, <2>1, <2>2, BothKeep DEF Both
<1>5. ASSUME At(from), UNCHANGED stored, from # to,
             NEW e \in Parts(files[from]), Restored(Put(files, to, e), to)
      PROVE  FilesInv'
  <2>1. CASE Becomes(Put(Put(files, to, e), to, files[to]), trash)
    <3>1. files' = files
      BY <1>3, <1>5, <2>1 DEF Becomes, Put
    <3> QED BY <1>5, <2>1, <3>1, UnchangedKeeps DEF tree, Becomes
  <2>2. ASSUME NEW part \in {Absent} \cup Parts(Put(files, to, e)[to]),
               Becomes(Put(Put(files, to, e), to, part), Trashed(to))
        PROVE  FilesInv'
    <3>1. e \in Entries /\ e.dir => e.pieces \subseteq OfDirectories
      BY <1>3, <1>5
    <3>2. Put(files, to, e)[to] = e
      BY <1>3, <1>5 DEF Put
    <3>3. /\ part \in Entries \cup {Absent}
          /\ part # Absent /\ part.dir => part.pieces \subseteq OfDirectories
      BY <1>3, <1>5, <2>2, <3>1, <3>2, PartsOfEntries
    <3>4. Put(Put(files, to, e), to, part) = Put(files, to, part)
      BY <1>3, <1>5 DEF Put
    <3> QED BY <1>5, <2>2, <3>3, <3>4, PutKeeps
  <2> QED BY <1>5, <2>1, <2>2 DEF Restored
<1>6. ASSUME At(from), UNCHANGED stored, from # to,
             NEW e \in Parts(files[from]), e.dir \/ e.pieces # {},
             Restored(Put(Put(files, to, files[from]), from, e), to)
      PROVE  FilesInv'
  <2> DEFINE f == Put(Put(files, to, files[from]), from, e)
  <2>1. /\ f[to] = files[from] /\ e \in Entries /\ (e.dir => e.pieces \subseteq OfDirectories)
        /\ files[from].dir \/ e = files[from]
    BY <1>3, <1>6 DEF Put
  <2>2. \A a : Put(f, to, a) = Both(a, e)
    BY <1>3, <1>6 DEF Put
  <2> HIDE DEF f, Both
  <2>3. CASE Becomes(Put(f, to, files[to]), trash)
    <3>1. files' = Both(files[to], e) /\ trash' = trash
      BY <2>2, <2>3 DEF Becomes
    <3> QED BY <1>3, <1>6, <2>1, <3>1, BothKeep DEF Both
  <2>4. ASSUME NEW part \in {Absent} \cup Parts(f[to]), Becomes(Put(f, to, part), Trashed(to))
        PROVE  FilesInv'
    <3>1. files' = Both(part, e) /\ trash' = Trashed(to)
      BY <2>2, <2>4 DEF Becomes
    <3>2. /\ part \in Entries \cup {Absent}
          /\ part # Absent /\ part.dir => part.pieces \subseteq OfDirectories
      BY <1>3, <1>6, <2>1, <2>4
    <3> QED BY <1>3, <1>6, <2>1, <3>1, <3>2, BothKeep DEF Both
  <2> QED BY <1>6, <2>3, <2>4 DEF Restored, f
<1> QED BY <1>1, <1>2, <1>4, <1>5, <1>6 DEF MoveFile

(* No file tool loses a piece of content, nor moves one into a directory   *)
(* that it could lose with it (filesystem.ts 175-525).                     *)
THEOREM FilesInvariant == Spec => []FilesInv
<1>1. Init => FilesInv
  <2> SUFFICES ASSUME Init PROVE FilesInv
    OBVIOUS
  <2>1. files = Files /\ trash = {} /\ stored = UNION {Files[p].pieces : p \in {q \in Paths : Files[q] # Absent}}
    BY DEF Init, FInit
  <2>2. Held = {Files[p] : p \in {q \in Paths : Files[q] # Absent}}
    BY <2>1 DEF Held, At
  <2>3. Anywhere = stored
    BY <2>1 DEF Anywhere, At
  <2> QED BY <2>1, <2>2, <2>3, FilesAssumption DEF FilesInv, FilesKept, OfDirectories
<1>2. Spec => [](scenario \in Scenarios)
  BY SessionsInvariant, PTL DEF SessionsInv
<1>3. FilesInv /\ scenario \in Scenarios /\ [Next]_vars => FilesInv'
  <2> SUFFICES ASSUME FilesInv, scenario \in Scenarios, [Next]_vars PROVE FilesInv'
    OBVIOUS
  <2>1. ASSUME NEW c \in scenario.calls PROVE Changes(c)
    BY CallsAssumption
  <2>2. ASSUME NEW c \in scenario.calls, Call[c].effect[1] = "write", WriteFile(Call[c].effect[2], c)
        PROVE  FilesInv'
    BY <2>1, <2>2, ReplaceKeeps DEF WriteFile, Changes
  <2>3. ASSUME NEW c \in scenario.calls, Call[c].effect[1] = "edit", EditFile(Call[c].effect[2], c)
        PROVE  FilesInv'
    BY <2>1, <2>3, ReplaceKeeps, UnchangedKeeps DEF EditFile, Changes
  <2>4. ASSUME NEW c \in scenario.calls, Call[c].effect[1] = "mkdir", CreateDirectory(Call[c].effect[2])
        PROVE  FilesInv'
    BY <2>1, <2>4, MakeKeeps DEF Changes
  <2>5. ASSUME NEW c \in scenario.calls, Call[c].effect[1] = "move",
               MoveFile(Call[c].effect[2], Call[c].effect[3])
        PROVE  FilesInv'
    BY <2>1, <2>5, MoveKeeps DEF Changes
  <2> QED BY <2>2, <2>3, <2>4, <2>5, TreeSteps, UnchangedKeeps
<1> QED BY <1>1, <1>2, <1>3, PTL DEF Spec

(* What has been in a file is still in a file or in the trash, wherever a  *)
(* call fails or the server is killed (atomicWrite.ts 62-123, trash.ts     *)
(* 22-69, filesystem.ts 453-525).                                          *)
THEOREM ContentsKept == Spec => []FilesKept
<1>1. FilesInv => FilesKept
  BY DEF FilesInv
<1> QED BY <1>1, FilesInvariant, PTL

-----------------------------------------------------------------------------
(* The decisions.  What the stores hold, and what forms say has been       *)
(* decided before them, has been decided by the answers forms were given.  *)
Decisions == {"allow_once", "allow_session", "allow_permanent", "deny", "declined"}

IsMem(m) ==
  m = [used |-> m.used, session |-> m.session, permanent |-> m.permanent,
       dirSession |-> m.dirSession, dirPermanent |-> m.dirPermanent, once |-> m.once]
IsDisk(d) == d = [approvals |-> d.approvals, dirs |-> d.dirs]
IsForm(f) ==
  /\ f = [kind |-> f.kind, call |-> f.call, args |-> f.args, subject |-> f.subject, roots |-> f.roots,
          priors |-> f.priors, proof |-> f.proof, answer |-> f.answer, told |-> f.told, age |-> f.age]
  /\ f.answer \in {"open"} \cup f.told /\ f.told \subseteq Decisions

GrantsDecided(grants) ==
  \A g \in grants : \E n \in DOMAIN forms :
    /\ forms[n].kind = "operation" /\ forms[n].subject = g[3] /\ forms[n].told \cap Lasting # {}
    /\ Call[forms[n].call].user = g[1] /\ Call[forms[n].call].tool = g[2]
RootsDecided(grants) ==
  \A g \in grants : \E n \in DOMAIN forms :
    /\ g[2] \in forms[n].roots /\ forms[n].told \cap Lasting # {}
    /\ Call[forms[n].call].user = g[1]
OnceDecided(once) ==
  \A o \in once : \E n \in DOMAIN forms :
    forms[n].call = o.call /\ forms[n].roots = o.roots /\ "allow_once" \in forms[n].told

StoresDecided(m, d) ==
  /\ IsMem(m) /\ IsDisk(d)
  /\ GrantsDecided(m.session) /\ GrantsDecided(m.permanent) /\ GrantsDecided(d.approvals)
  /\ RootsDecided(m.dirSession) /\ RootsDecided(m.dirPermanent) /\ RootsDecided(d.dirs)
  /\ OnceDecided(m.once)

FormDecided(f) ==
  /\ IsForm(f)
  /\ \A d \in f.proof : DirDecided(f.call, d)
  /\ \A s \in f.priors : SubjectDecided(f.call, s)

DecisionsInv ==
  /\ scenario \in Scenarios
  /\ forms \in Seq(ToSet(forms))
  /\ \A n \in DOMAIN forms : FormDecided(forms[n])
  /\ StoresDecided(mem, disk)

(* The same of the record of a call that has come so far.                  *)
IsState(st) ==
  st = [mem |-> st.mem, disk |-> st.disk, out |-> st.out, form |-> st.form,
        passed |-> st.passed, proof |-> st.proof]

StateDecided(st, c) ==
  /\ IsState(st) /\ StoresDecided(st.mem, st.disk)
  /\ st.passed \in Seq(ToSet(st.passed)) /\ \A s \in ToSet(st.passed) : SubjectDecided(c, s)
  /\ \A d \in st.proof : DirDecided(c, d)
  /\ st.out = "asked" => st.form.call = c /\ FormDecided(st.form)

AllDecided == \A c \in scenario.calls : \A q \in Requests(c) : StateDecided(Decided(q), c)

(* Sequences that are known by what they hold.                             *)
LEMMA AppendToSet ==
  ASSUME NEW s, s \in Seq(ToSet(s)), NEW x
  PROVE  LET t == Append(s, x) IN
         /\ t \in Seq(ToSet(t)) /\ ToSet(t) = ToSet(s) \cup {x}
         /\ DOMAIN s = 1..Len(s) /\ Len(s) \in Nat /\ DOMAIN t = 1..(Len(s) + 1)
         /\ \A i \in DOMAIN s : t[i] = s[i]
         /\ t[Len(s) + 1] = x
<1> DEFINE t == Append(s, x)
           S == ToSet(s) \cup {x}
<1>1. s \in Seq(S) /\ x \in S
  OBVIOUS
<1> HIDE DEF S
<1>2. /\ t \in Seq(S) /\ Len(t) = Len(s) + 1 /\ t[Len(s) + 1] = x
      /\ \A i \in 1..Len(s) : t[i] = s[i]
  BY <1>1, AppendProperties
<1>3. DOMAIN s = 1..Len(s) /\ Len(s) \in Nat /\ DOMAIN t = 1..(Len(s) + 1)
  BY <1>1, <1>2
<1> HIDE DEF t
<1>4. ToSet(t) = ToSet(s) \cup {x}
  BY <1>2, <1>3 DEF ToSet
<1>5. t \in Seq(ToSet(t))
  BY <1>2, <1>4 DEF S
<1> QED BY <1>2, <1>3, <1>4, <1>5 DEF t

LEMMA ExceptToSet ==
  ASSUME NEW s, s \in Seq(ToSet(s)), NEW n \in DOMAIN s, NEW x
  PROVE  LET t == [s EXCEPT ![n] = x] IN
         t \in Seq(ToSet(t)) /\ DOMAIN t = DOMAIN s /\ \A i \in DOMAIN s : t[i] = IF i = n THEN x ELSE s[i]
<1> DEFINE t == [s EXCEPT ![n] = x]
           S == ToSet(s) \cup {x}
<1>1. s \in Seq(S) /\ x \in S /\ n \in 1..Len(s)
  OBVIOUS
<1> HIDE DEF S
<1>2. t \in Seq(S) /\ Len(t) = Len(s) /\ \A i \in 1..Len(s) : t[i] = IF i = n THEN x ELSE s[i]
  BY <1>1, ExceptSeq
<1>3. DOMAIN t = 1..Len(t) /\ DOMAIN s = 1..Len(s)
  BY <1>1, <1>2
<1>4. t \in Seq(ToSet(t))
  <2>1. \A i \in 1..Len(t) : t[i] \in ToSet(t)
    BY <1>3 DEF ToSet
  <2> HIDE DEF t
  <2>2. Len(t) \in Nat /\ t = [i \in 1..Len(t) |-> t[i]]
    BY <1>2
  <2>3. PICK l \in Nat : l = Len(t)
    BY <2>2
  <2>4. t \in [1..l -> ToSet(t)]
    BY <2>1, <2>2, <2>3
  <2> QED BY <2>3, <2>4
<1> QED BY <1>2, <1>3, <1>4

-----------------------------------------------------------------------------
(* What Rounds is: the recursive function there is, since one for the      *)
(* first numbers can be extended to the next.                              *)
After(st, q, n, before) ==
  IF n = 0 THEN st
  ELSE IF before.out = "allowed" THEN Operation(before, q, Subjects(q.call)[n]) ELSE before

LEMMA RoundsAre ==
  ASSUME NEW st, NEW q, NEW l \in Nat, l = Len(Subjects(q.call))
  PROVE  /\ Rounds(st, q)[0] = st
         /\ \A n \in 1..l : Rounds(st, q)[n] = After(st, q, n, Rounds(st, q)[n - 1])
<1> DEFINE Is(f, m) == f = [n \in 0..m |-> After(st, q, n, f[n - 1])]
           Bad == {m \in 0..l : ~ \E f : Is(f, m)}
<1>1. Bad = {}
  <2> SUFFICES ASSUME Bad # {} PROVE FALSE
    OBVIOUS
  <2>1. PICK m \in Bad : \A n \in Bad : m <= n
    <3>1. Bad \in SUBSET Nat
      OBVIOUS
    <3> HIDE DEF Bad
    <3> QED BY <3>1, LeastNumber
  <2>2. CASE m = 0
    <3> DEFINE f == [n \in 0..0 |-> st]
    <3>1. Is(f, 0)
      BY DEF After
    <3> QED BY <2>1, <2>2, <3>1
  <2>3. CASE m # 0
    <3>1. m - 1 \in 0..l /\ m \in 1..l /\ m - 1 \notin Bad
      BY <2>1, <2>3, SMTT(30)
    <3>2. PICK f : Is(f, m - 1)
      BY <3>1
    <3> DEFINE g == [n \in 0..m |-> After(st, q, n, f[n - 1])]
    <3>3. ASSUME NEW n \in 0..m PROVE g[n] = After(st, q, n, g[n - 1])
      <4>1. CASE n = 0
        BY <4>1 DEF After
      <4>2. CASE n # 0
        <5>1. n - 1 \in 0..(m - 1) /\ n - 1 \in 0..m
          BY <3>1, <4>2
        <5>2. g[n - 1] = After(st, q, n - 1, f[n - 1 - 1])
          BY <5>1
        <5>3. f[n - 1] = After(st, q, n - 1, f[n - 1 - 1])
          BY <3>2, <5>1
        <5>4. g[n] = After(st, q, n, f[n - 1])
          OBVIOUS
        <5> HIDE DEF g, Is
        <5> QED BY <5>2, <5>3, <5>4
      <4> QED BY <4>1, <4>2
    <3>4. Is(g, m)
      <4>1. g = [n \in 0..m |-> g[n]]
        OBVIOUS
      <4> HIDE DEF g
      <4> QED BY <3>3, <4>1
    <3> QED BY <2>1, <3>4
  <2> QED BY <2>2, <2>3
<1>2. \E f : Is(f, l)
  BY <1>1
<1>3. Rounds(st, q) = CHOOSE f : Is(f, l)
  BY DEF Rounds, After
<1>4. Is(Rounds(st, q), l)
  <2> HIDE DEF Is
  <2> QED BY <1>2, <1>3
<1> HIDE DEF Bad
<1> QED BY <1>4 DEF After

-----------------------------------------------------------------------------
(* The records of calls that the steps of a decision make: each keeps what *)
(* is decided when what it adds is.                                        *)
Same(t, st) ==
  t.mem.used = st.mem.used /\ t.out = st.out /\ t.passed = st.passed /\ t.proof = st.proof

LEMMA WithMem ==
  ASSUME NEW st, NEW c, StateDecided(st, c), NEW m, StoresDecided(m, st.disk)
  PROVE  LET t == [st EXCEPT !.mem = m] IN
         /\ StateDecided(t, c) /\ t.mem = m /\ t.disk = st.disk
         /\ t.out = st.out /\ t.passed = st.passed /\ t.proof = st.proof
<1> DEFINE t == [st EXCEPT !.mem = m]
<1>1. /\ IsState(t) /\ t.mem = m /\ t.disk = st.disk /\ t.out = st.out /\ t.form = st.form
      /\ t.passed = st.passed /\ t.proof = st.proof
  BY DEF IsState, StateDecided
<1> HIDE DEF t
<1>2. StateDecided(t, c)
  BY <1>1 DEF StateDecided
<1> QED BY <1>1, <1>2 DEF t

LEMMA WithUsed ==
  ASSUME NEW st, NEW c, StateDecided(st, c), NEW u
  PROVE  LET t == [st EXCEPT !.mem.used = u] IN
         StateDecided(t, c) /\ t.mem.used = u /\ t.out = st.out /\ t.passed = st.passed /\ t.proof = st.proof
<1> DEFINE m == [st.mem EXCEPT !.used = u]
           t == [st EXCEPT !.mem = m]
<1>1. /\ IsMem(m) /\ m.used = u
      /\ m.session = st.mem.session /\ m.permanent = st.mem.permanent /\ m.dirSession = st.mem.dirSession /\ m.dirPermanent = st.mem.dirPermanent /\ m.once = st.mem.once
  BY DEF IsMem, StateDecided, StoresDecided
<1>2. t = [st EXCEPT !.mem.used = u]
  OBVIOUS
<1> HIDE DEF m
<1>3. StoresDecided(m, st.disk)
  BY <1>1 DEF StateDecided, StoresDecided
<1>4. /\ StateDecided(t, c) /\ t.mem = m
      /\ t.out = st.out /\ t.passed = st.passed /\ t.proof = st.proof
  BY <1>3, WithMem
<1> HIDE DEF t
<1> QED BY <1>1, <1>2, <1>4 DEF Same

LEMMA WithSession ==
  ASSUME NEW st, NEW c, StateDecided(st, c), NEW u, GrantsDecided(u)
  PROVE  LET t == [st EXCEPT !.mem.session = u] IN
         StateDecided(t, c) /\ Same(t, st)
<1> DEFINE m == [st.mem EXCEPT !.session = u]
           t == [st EXCEPT !.mem = m]
<1>1. /\ IsMem(m) /\ m.session = u
      /\ m.used = st.mem.used /\ m.permanent = st.mem.permanent /\ m.dirSession = st.mem.dirSession /\ m.dirPermanent = st.mem.dirPermanent /\ m.once = st.mem.once
  BY DEF IsMem, StateDecided, StoresDecided
<1>2. t = [st EXCEPT !.mem.session = u]
  OBVIOUS
<1> HIDE DEF m
<1>3. StoresDecided(m, st.disk)
  BY <1>1 DEF StateDecided, StoresDecided
<1>4. /\ StateDecided(t, c) /\ t.mem = m
      /\ t.out = st.out /\ t.passed = st.passed /\ t.proof = st.proof
  BY <1>3, WithMem
<1> HIDE DEF t
<1> QED BY <1>1, <1>2, <1>4 DEF Same

LEMMA WithPermanent ==
  ASSUME NEW st, NEW c, StateDecided(st, c), NEW u, GrantsDecided(u)
  PROVE  LET t == [st EXCEPT !.mem.permanent = u] IN
         StateDecided(t, c) /\ Same(t, st)
<1> DEFINE m == [st.mem EXCEPT !.permanent = u]
           t == [st EXCEPT !.mem = m]
<1>1. /\ IsMem(m) /\ m.permanent = u
      /\ m.used = st.mem.used /\ m.session = st.mem.session /\ m.dirSession = st.mem.dirSession /\ m.dirPermanent = st.mem.dirPermanent /\ m.once = st.mem.once
  BY DEF IsMem, StateDecided, StoresDecided
<1>2. t = [st EXCEPT !.mem.permanent = u]
  OBVIOUS
<1> HIDE DEF m
<1>3. StoresDecided(m, st.disk)
  BY <1>1 DEF StateDecided, StoresDecided
<1>4. /\ StateDecided(t, c) /\ t.mem = m
      /\ t.out = st.out /\ t.passed = st.passed /\ t.proof = st.proof
  BY <1>3, WithMem
<1> HIDE DEF t
<1> QED BY <1>1, <1>2, <1>4 DEF Same

LEMMA WithDirSession ==
  ASSUME NEW st, NEW c, StateDecided(st, c), NEW u, RootsDecided(u)
  PROVE  LET t == [st EXCEPT !.mem.dirSession = u] IN
         StateDecided(t, c) /\ Same(t, st)
<1> DEFINE m == [st.mem EXCEPT !.dirSession = u]
           t == [st EXCEPT !.mem = m]
<1>1. /\ IsMem(m) /\ m.dirSession = u
      /\ m.used = st.mem.used /\ m.session = st.mem.session /\ m.permanent = st.mem.permanent /\ m.dirPermanent = st.mem.dirPermanent /\ m.once = st.mem.once
  BY DEF IsMem, StateDecided, StoresDecided
<1>2. t = [st EXCEPT !.mem.dirSession = u]
  OBVIOUS
<1> HIDE DEF m
<1>3. StoresDecided(m, st.disk)
  BY <1>1 DEF StateDecided, StoresDecided
<1>4. /\ StateDecided(t, c) /\ t.mem = m
      /\ t.out = st.out /\ t.passed = st.passed /\ t.proof = st.proof
  BY <1>3, WithMem
<1> HIDE DEF t
<1> QED BY <1>1, <1>2, <1>4 DEF Same

LEMMA WithDirPermanent ==
  ASSUME NEW st, NEW c, StateDecided(st, c), NEW u, RootsDecided(u)
  PROVE  LET t == [st EXCEPT !.mem.dirPermanent = u] IN
         StateDecided(t, c) /\ Same(t, st)
<1> DEFINE m == [st.mem EXCEPT !.dirPermanent = u]
           t == [st EXCEPT !.mem = m]
<1>1. /\ IsMem(m) /\ m.dirPermanent = u
      /\ m.used = st.mem.used /\ m.session = st.mem.session /\ m.permanent = st.mem.permanent /\ m.dirSession = st.mem.dirSession /\ m.once = st.mem.once
  BY DEF IsMem, StateDecided, StoresDecided
<1>2. t = [st EXCEPT !.mem.dirPermanent = u]
  OBVIOUS
<1> HIDE DEF m
<1>3. StoresDecided(m, st.disk)
  BY <1>1 DEF StateDecided, StoresDecided
<1>4. /\ StateDecided(t, c) /\ t.mem = m
      /\ t.out = st.out /\ t.passed = st.passed /\ t.proof = st.proof
  BY <1>3, WithMem
<1> HIDE DEF t
<1> QED BY <1>1, <1>2, <1>4 DEF Same

LEMMA WithOnce ==
  ASSUME NEW st, NEW c, StateDecided(st, c), NEW u, OnceDecided(u)
  PROVE  LET t == [st EXCEPT !.mem.once = u] IN
         StateDecided(t, c) /\ Same(t, st)
<1> DEFINE m == [st.mem EXCEPT !.once = u]
           t == [st EXCEPT !.mem = m]
<1>1. /\ IsMem(m) /\ m.once = u
      /\ m.used = st.mem.used /\ m.session = st.mem.session /\ m.permanent = st.mem.permanent /\ m.dirSession = st.mem.dirSession /\ m.dirPermanent = st.mem.dirPermanent
  BY DEF IsMem, StateDecided, StoresDecided
<1>2. t = [st EXCEPT !.mem.once = u]
  OBVIOUS
<1> HIDE DEF m
<1>3. StoresDecided(m, st.disk)
  BY <1>1 DEF StateDecided, StoresDecided
<1>4. /\ StateDecided(t, c) /\ t.mem = m
      /\ t.out = st.out /\ t.passed = st.passed /\ t.proof = st.proof
  BY <1>3, WithMem
<1> HIDE DEF t
<1> QED BY <1>1, <1>2, <1>4 DEF Same

LEMMA WithDisk ==
  ASSUME NEW st, NEW c, StateDecided(st, c), NEW d, StoresDecided(st.mem, d)
  PROVE  LET t == [st EXCEPT !.disk = d] IN StateDecided(t, c) /\ Same(t, st)
<1> DEFINE t == [st EXCEPT !.disk = d]
<1>1. /\ IsState(t) /\ t.mem = st.mem /\ t.disk = d /\ t.out = st.out /\ t.form = st.form
      /\ t.passed = st.passed /\ t.proof = st.proof
  BY DEF IsState, StateDecided
<1> HIDE DEF t
<1>2. StateDecided(t, c)
  BY <1>1 DEF StateDecided
<1> QED BY <1>1, <1>2 DEF t, Same

(* A permanent grant, in memory and on disk.                               *)
LEMMA WithApprovals ==
  ASSUME NEW st, NEW c, StateDecided(st, c), NEW u, GrantsDecided(u)
  PROVE  LET t == [st EXCEPT !.mem.permanent = u, !.disk.approvals = u] IN
         StateDecided(t, c) /\ Same(t, st)
<1> DEFINE s == [st EXCEPT !.mem.permanent = u]
           d == [s.disk EXCEPT !.approvals = u]
           t == [s EXCEPT !.disk = d]
<1>1. t = [st EXCEPT !.mem.permanent = u, !.disk.approvals = u]
  OBVIOUS
<1>2. StateDecided(s, c) /\ Same(s, st)
  BY WithPermanent
<1> HIDE DEF s
<1>3. IsDisk(d) /\ d.approvals = u /\ d.dirs = s.disk.dirs
  BY <1>2 DEF StateDecided, StoresDecided, IsDisk
<1> HIDE DEF d
<1>4. StoresDecided(s.mem, d)
  BY <1>2, <1>3 DEF StateDecided, StoresDecided
<1>5. StateDecided(t, c) /\ Same(t, s)
  BY <1>2, <1>4, WithDisk
<1> HIDE DEF t
<1> QED BY <1>1, <1>2, <1>5 DEF Same

LEMMA WithDirs ==
  ASSUME NEW st, NEW c, StateDecided(st, c), NEW u, RootsDecided(u)
  PROVE  LET t == [st EXCEPT !.mem.dirPermanent = u, !.disk.dirs = u] IN
         StateDecided(t, c) /\ Same(t, st)
<1> DEFINE s == [st EXCEPT !.mem.dirPermanent = u]
           d == [s.disk EXCEPT !.dirs = u]
           t == [s EXCEPT !.disk = d]
<1>1. t = [st EXCEPT !.mem.dirPermanent = u, !.disk.dirs = u]
  OBVIOUS
<1>2. StateDecided(s, c) /\ Same(s, st)
  BY WithDirPermanent
<1> HIDE DEF s
<1>3. IsDisk(d) /\ d.dirs = u /\ d.approvals = s.disk.approvals
  BY <1>2 DEF StateDecided, StoresDecided, IsDisk
<1> HIDE DEF d
<1>4. StoresDecided(s.mem, d)
  BY <1>2, <1>3 DEF StateDecided, StoresDecided
<1>5. StateDecided(t, c) /\ Same(t, s)
  BY <1>2, <1>4, WithDisk
<1> HIDE DEF t
<1> QED BY <1>1, <1>2, <1>5 DEF Same

LEMMA WithProof ==
  ASSUME NEW st, NEW c, StateDecided(st, c), NEW roots, \A d \in roots : DirDecided(c, d)
  PROVE  LET t == [st EXCEPT !.proof = roots] IN
         /\ StateDecided(t, c) /\ t.mem.used = st.mem.used /\ t.out = st.out
         /\ t.passed = st.passed /\ t.proof = roots
<1> DEFINE t == [st EXCEPT !.proof = roots]
<1>1. /\ IsState(t) /\ t.mem = st.mem /\ t.disk = st.disk /\ t.out = st.out /\ t.form = st.form
      /\ t.passed = st.passed /\ t.proof = roots
  BY DEF IsState, StateDecided
<1> HIDE DEF t
<1>2. StateDecided(t, c)
  BY <1>1 DEF StateDecided
<1> QED BY <1>1, <1>2 DEF t

LEMMA Rejected ==
  ASSUME NEW st, NEW c, StateDecided(st, c)
  PROVE  LET t == Refuse(st) IN
         /\ StateDecided(t, c) /\ t.mem.used = st.mem.used /\ t.out = "refused"
         /\ t.passed = st.passed /\ t.proof = st.proof
<1> DEFINE t == Refuse(st)
<1>1. /\ IsState(t) /\ t.mem = st.mem /\ t.disk = st.disk /\ t.out = "refused" /\ t.form = st.form
      /\ t.passed = st.passed /\ t.proof = st.proof
  BY DEF IsState, StateDecided, Refuse
<1> HIDE DEF t
<1>2. StateDecided(t, c)
  BY <1>1 DEF StateDecided
<1> QED BY <1>1, <1>2 DEF t

LEMMA Passed ==
  ASSUME NEW st, NEW c, StateDecided(st, c), NEW s, SubjectDecided(c, s)
  PROVE  LET t == Pass(st, s) IN
         /\ StateDecided(t, c) /\ t.mem.used = st.mem.used /\ t.out = st.out
         /\ t.passed = Append(st.passed, s) /\ t.proof = st.proof
<1> DEFINE p == Append(st.passed, s)
           t == [st EXCEPT !.passed = p]
<1>1. p \in Seq(ToSet(p)) /\ ToSet(p) = ToSet(st.passed) \cup {s}
  BY AppendToSet DEF StateDecided
<1> HIDE DEF p
<1>2. /\ IsState(t) /\ t.mem = st.mem /\ t.disk = st.disk /\ t.out = st.out /\ t.form = st.form
      /\ t.passed = p /\ t.proof = st.proof
  BY DEF IsState, StateDecided
<1>3. t = Pass(st, s)
  BY DEF Pass, p
<1> HIDE DEF t
<1>4. StateDecided(t, c)
  BY <1>1, <1>2 DEF StateDecided
<1> QED BY <1>2, <1>3, <1>4 DEF p

LEMMA Asked ==
  ASSUME NEW st, NEW c, StateDecided(st, c), NEW f, f.call = c, FormDecided(f)
  PROVE  LET t == Ask(st, f) IN
         /\ StateDecided(t, c) /\ t.mem.used = st.mem.used /\ t.out = "asked" /\ t.form = f
         /\ t.passed = st.passed /\ t.proof = st.proof
<1> DEFINE z == [st EXCEPT !.out = "asked"]
           t == [z EXCEPT !.form = f]
<1>1. t = Ask(st, f)
  BY DEF Ask
<1>2. /\ IsState(z) /\ z.mem = st.mem /\ z.disk = st.disk /\ z.out = "asked" /\ z.form = st.form
      /\ z.passed = st.passed /\ z.proof = st.proof
  BY DEF IsState, StateDecided
<1> HIDE DEF z
<1>3. /\ IsState(t) /\ t.mem = z.mem /\ t.disk = z.disk /\ t.out = z.out /\ t.form = f
      /\ t.passed = z.passed /\ t.proof = z.proof
  BY <1>2 DEF IsState
<1> HIDE DEF t
<1>4. StateDecided(t, c)
  BY <1>2, <1>3 DEF StateDecided
<1> QED BY <1>1, <1>2, <1>3, <1>4

-----------------------------------------------------------------------------
(* The requests, and the use of a form.                                    *)
Retains(before, now) == \A n \in before : n \in now \/ forms[n].age = "stale"

LEMMA RequestForms ==
  ASSUME DecisionsInv, NEW c, NEW q \in Requests(c)
  PROVE  /\ q.call = c
         /\ q.form # NoForm =>
              /\ q.form \in DOMAIN forms /\ forms[q.form].call = c /\ forms[q.form].age = "fresh"
              /\ forms[q.form].answer \in forms[q.form].told \cap Decisions
         /\ q.token # NoForm =>
              /\ q.token \in DOMAIN forms /\ forms[q.token].call = c /\ forms[q.token].kind = "git"
              /\ "allow_once" \in forms[q.token].told
<1>1. /\ q.call = c
      /\ q.form \in {NoForm} \cup Sendable(c, {"directory", "operation", "question"})
      /\ q.token \in {NoForm} \cup {n \in Sendable(c, {"git"}) : forms[n].answer = "allow_once"}
  BY DEF Requests
<1>2. \A n \in DOMAIN forms :
        forms[n].answer \in {"open"} \cup forms[n].told /\ forms[n].told \subseteq Decisions
  BY DEF DecisionsInv, FormDecided, IsForm
<1> QED BY <1>1, <1>2 DEF Sendable

LEMMA Consumed ==
  ASSUME NEW st, NEW c, StateDecided(st, c), NEW n
  PROVE  LET t == Consume(st, n) IN
         /\ StateDecided(t, c) /\ t.out = st.out /\ t.passed = st.passed /\ t.proof = st.proof
         /\ Retains(st.mem.used, t.mem.used) /\ t.mem.used \subseteq st.mem.used \cup {n}
         /\ Consumable(st.mem, n) => n \in t.mem.used
<1>1. CASE n \in st.mem.used
  BY <1>1 DEF Consume, Retains, Consumable
<1>2. CASE n \notin st.mem.used
  <2> DEFINE u == Swept(st.mem.used) \cup (IF Consumable(st.mem, n) THEN {n} ELSE {})
             t == [st EXCEPT !.mem.used = u]
  <2>1. Consume(st, n) = t
    BY <1>2 DEF Consume
  <2>2. Retains(st.mem.used, u) /\ u \subseteq st.mem.used \cup {n} /\ (Consumable(st.mem, n) => n \in u)
    BY DEF Retains, Swept
  <2> HIDE DEF u
  <2>3. /\ StateDecided(t, c) /\ t.mem.used = u /\ t.out = st.out
        /\ t.passed = st.passed /\ t.proof = st.proof
    BY WithUsed
  <2> HIDE DEF t
  <2> QED BY <2>1, <2>2, <2>3
<1> QED BY <1>1, <1>2

(* A form that is made for a call says what has been decided so far.       *)
LEMMA FormMade ==
  ASSUME NEW st, NEW q, StateDecided(st, q.call), NEW k, NEW args, NEW s, NEW roots
  PROVE  LET f == Form(k, q, args, s, roots, st) IN
         f.call = q.call /\ FormDecided(f) /\ f.kind = k /\ f.priors = ToSet(st.passed)
<1> DEFINE f == Form(k, q, args, s, roots, st)
<1>1. /\ f.call = q.call /\ f.priors = ToSet(st.passed) /\ f.proof = st.proof
      /\ f.answer = "open" /\ f.told = {} /\ f.kind = k
      /\ f = [kind |-> f.kind, call |-> f.call, args |-> f.args, subject |-> f.subject, roots |-> f.roots,
              priors |-> f.priors, proof |-> f.proof, answer |-> f.answer, told |-> f.told, age |-> f.age]
  BY DEF Form
<1> HIDE DEF f
<1>2. FormDecided(f)
  BY <1>1 DEF FormDecided, IsForm, StateDecided
<1> QED BY <1>1, <1>2 DEF f

-----------------------------------------------------------------------------
(* The directory step.                                                     *)
LEMMA GrantedRoots ==
  ASSUME NEW n \in DOMAIN forms, forms[n].told \cap Lasting # {},
         NEW u, u = Call[forms[n].call].user, NEW roots, roots = forms[n].roots
  PROVE  RootsDecided({<<u, d>> : d \in roots})
BY DEF RootsDecided

LEMMA DirsKept ==
  ASSUME NEW st, NEW c, StateDecided(st, c), NEW u, NEW roots, NEW a, NEW ok,
         a \in Lasting => RootsDecided({<<u, d>> : d \in roots})
  PROVE  LET t == KeepDirs(st, u, roots, a, ok) IN
         /\ StateDecided(t, c) /\ t.mem.used = st.mem.used /\ t.out \in {st.out, "refused"}
         /\ t.passed = st.passed /\ t.proof = st.proof
<1> DEFINE new == {<<u, d>> : d \in roots}
           all == st.mem.dirPermanent \cup new
           ses == st.mem.dirSession \cup new
           t == KeepDirs(st, u, roots, a, ok)
<1>1. /\ RootsDecided(st.mem.dirPermanent) /\ RootsDecided(st.mem.dirSession)
      /\ a \in Lasting => RootsDecided(new)
  BY DEF StateDecided, StoresDecided
<1>2. a \in Lasting => RootsDecided(all) /\ RootsDecided(ses)
  BY <1>1 DEF RootsDecided
<1>3. /\ a = "allow_session" => t = [st EXCEPT !.mem.dirSession = ses]
      /\ a # "allow_session" =>
           t \in {st, Refuse(st)} \/
           (a = "allow_permanent" /\ t = [st EXCEPT !.mem.dirPermanent = all, !.disk.dirs = all])
  BY DEF KeepDirs
<1> HIDE DEF new, all, ses, t
<1>4. CASE a = "allow_session"
  <2>1. RootsDecided(ses)
    BY <1>2, <1>4 DEF Lasting
  <2>2. StateDecided(t, c) /\ Same(t, st)
    BY <1>3, <1>4, <2>1, WithDirSession
  <2> QED BY <2>2 DEF Same, t
<1>5. CASE t = st
  BY <1>5 DEF t
<1>6. CASE t = Refuse(st)
  BY <1>6, Rejected DEF t
<1>7. CASE a = "allow_permanent" /\ t = [st EXCEPT !.mem.dirPermanent = all, !.disk.dirs = all]
  <2>1. RootsDecided(all)
    BY <1>2, <1>7 DEF Lasting
  <2>2. StateDecided(t, c) /\ Same(t, st)
    BY <1>7, <2>1, WithDirs
  <2> QED BY <2>2 DEF Same, t
<1> QED BY <1>3, <1>4, <1>5, <1>6, <1>7

LEMMA DirectoryAnswered ==
  ASSUME DecisionsInv, NEW c, NEW q \in Requests(c), q.form # NoForm,
         NEW st, StateDecided(st, c), NEW roots
  PROVE  LET t == DirectoryAnswer(st, q, roots) IN
         /\ StateDecided(t, c) /\ t.passed = st.passed /\ t.out \in {st.out, "refused"}
         /\ Retains(st.mem.used, t.mem.used) /\ t.mem.used \subseteq st.mem.used \cup {q.form}
         /\ forms[q.form].kind # "directory" => t.mem.used = st.mem.used
         /\ t.out = "allowed" => \A d \in roots : DirDecided(c, d)
<1> DEFINE f == forms[q.form]
           used == Consume(st, q.form)
           kept == KeepDirs(used, Call[q.call].user, roots, f.answer, q.ok)
           t == DirectoryAnswer(st, q, roots)
<1>1. /\ q.call = c /\ q.form \in DOMAIN forms /\ f.call = c
      /\ f.answer \in f.told \cap Decisions
  BY RequestForms
<1>2. /\ StateDecided(used, c) /\ used.out = st.out /\ used.passed = st.passed
      /\ Retains(st.mem.used, used.mem.used) /\ used.mem.used \subseteq st.mem.used \cup {q.form}
  BY Consumed
<1>3. CASE ~(f.kind = "directory" /\ f.call = q.call /\ f.args = Given(q) /\ f.roots = roots)
  <2>1. t = Refuse(st)
    BY <1>3 DEF DirectoryAnswer
  <2>2. /\ StateDecided(Refuse(st), c) /\ Refuse(st).mem.used = st.mem.used
        /\ Refuse(st).out = "refused" /\ Refuse(st).passed = st.passed
    BY Rejected
  <2> HIDE DEF t
  <2> QED BY <2>1, <2>2 DEF t, Retains
<1>4. CASE /\ f.kind = "directory" /\ f.call = q.call /\ f.args = Given(q) /\ f.roots = roots
           /\ ~Consumable(st.mem, q.form) \/ f.answer \notin Allows
  <2>1. t = Refuse(used)
    BY <1>4 DEF DirectoryAnswer
  <2> HIDE DEF t, used
  <2>2. /\ StateDecided(Refuse(used), c) /\ Refuse(used).mem.used = used.mem.used
        /\ Refuse(used).out = "refused" /\ Refuse(used).passed = used.passed
    BY <1>2, Rejected
  <2> QED BY <1>2, <1>4, <2>1, <2>2 DEF t
<1>5. CASE /\ f.kind = "directory" /\ f.call = q.call /\ f.args = Given(q) /\ f.roots = roots
           /\ Consumable(st.mem, q.form) /\ f.answer \in Allows
  <2>1. t = IF f.answer = "allow_once" THEN [kept EXCEPT !.proof = roots] ELSE kept
    BY <1>5 DEF DirectoryAnswer
  <2>2. \A d \in roots : DirDecided(c, d)
    BY <1>1, <1>5 DEF DirDecided, Told
  <2>3. f.answer \in Lasting => RootsDecided({<<Call[q.call].user, d>> : d \in roots})
    BY <1>1, <1>5, GrantedRoots
  <2> HIDE DEF t, used, f
  <2>4. /\ StateDecided(kept, c) /\ kept.mem.used = used.mem.used /\ kept.out \in {used.out, "refused"}
        /\ kept.passed = used.passed
    <3>1. PICK u, a, ok : u = Call[q.call].user /\ a = f.answer /\ ok = q.ok
      OBVIOUS
    <3>2. a \in Lasting => RootsDecided({<<u, d>> : d \in roots})
      BY <2>3, <3>1
    <3>3. LET k == KeepDirs(used, u, roots, a, ok) IN
          /\ StateDecided(k, c) /\ k.mem.used = used.mem.used /\ k.out \in {used.out, "refused"}
          /\ k.passed = used.passed
      BY <1>2, <3>2, DirsKept
    <3> QED BY <3>1, <3>3
  <2> HIDE DEF kept
  <2>5. CASE t = kept
    BY <1>2, <1>5, <2>2, <2>4, <2>5 DEF t, f
  <2>6. CASE t = [kept EXCEPT !.proof = roots]
    <3>1. /\ StateDecided(t, c) /\ t.mem.used = kept.mem.used /\ t.out = kept.out
          /\ t.passed = kept.passed
      BY <2>2, <2>4, <2>6, WithProof
    <3> QED BY <1>2, <1>5, <2>2, <2>4, <3>1 DEF t, f
  <2> QED BY <2>1, <2>5, <2>6
<1> QED BY <1>3, <1>4, <1>5

LEMMA AccessDecided ==
  ASSUME NEW st, NEW c, StateDecided(st, c), NEW d, Access(st.mem, Call[c].user, d)
  PROVE  DirDecided(c, d)
<1>1. CASE <<Call[c].user, d>> \in st.mem.dirSession \cup st.mem.dirPermanent
  <2>1. PICK n \in DOMAIN forms : /\ d \in forms[n].roots /\ forms[n].told \cap Lasting # {}
                                  /\ Call[forms[n].call].user = Call[c].user
    BY <1>1 DEF StateDecided, StoresDecided, RootsDecided
  <2> QED BY <2>1 DEF DirDecided, Told
<1> QED BY <1>1 DEF Access, DirDecided

LEMMA DirectoryDecided ==
  ASSUME DecisionsInv, NEW c, NEW q \in Requests(c), NEW st, StateDecided(st, c), st.out = "allowed"
  PROVE  LET t == Directory(st, q) IN
         /\ StateDecided(t, c) /\ t.passed = st.passed /\ t.out \in {"allowed", "asked", "refused"}
         /\ Retains(st.mem.used, t.mem.used) /\ t.mem.used \subseteq st.mem.used \cup {q.form}
         /\ q.form # NoForm /\ forms[q.form].kind # "directory" => t.mem.used = st.mem.used
         /\ t.out = "allowed" => \A d \in Call[c].dirs : DirDecided(c, d)
         /\ t.out = "asked" => t.form.priors = ToSet(st.passed)
<1> DEFINE roots == Outside(st.mem, q.call)
           t == Directory(st, q)
           Goal(x) == /\ StateDecided(x, c) /\ x.passed = st.passed /\ x.out \in {"allowed", "asked", "refused"}
                      /\ Retains(st.mem.used, x.mem.used) /\ x.mem.used \subseteq st.mem.used \cup {q.form}
                      /\ q.form # NoForm /\ forms[q.form].kind # "directory" => x.mem.used = st.mem.used
                      /\ x.out = "allowed" => \A d \in roots : DirDecided(c, d)
                      /\ x.out = "asked" => x.form.priors = ToSet(st.passed)
<1>1. q.call = c
  BY RequestForms
<1>2. \A d \in Call[c].dirs \ roots : DirDecided(c, d)
  BY <1>1, AccessDecided DEF Outside
<1>3. Retains(st.mem.used, st.mem.used)
  BY DEF Retains
<1>4. CASE roots = {}
  <2>1. t = st
    BY <1>4 DEF Directory
  <2>2. Goal(st)
    BY <1>3, <1>4
  <2> HIDE DEF t, roots, Goal
  <2> QED BY <1>2, <2>1, <2>2 DEF t, Goal
<1>5. ASSUME roots # {}, Proves(q, roots) PROVE Goal(t)
  <2>1. t = [st EXCEPT !.proof = roots]
    BY <1>5 DEF Directory
  <2>2. \A d \in roots : DirDecided(c, d)
    BY <1>1, <1>5, RequestForms DEF Proves, DecisionsInv, FormDecided
  <2> HIDE DEF t, roots
  <2>3. /\ StateDecided(t, c) /\ t.mem.used = st.mem.used /\ t.out = st.out /\ t.passed = st.passed
    BY <2>1, <2>2, WithProof
  <2> QED BY <1>3, <2>2, <2>3
<1>6. ASSUME t = Refuse(st) PROVE Goal(t)
  <2> HIDE DEF t, roots
  <2>1. /\ StateDecided(Refuse(st), c) /\ Refuse(st).mem.used = st.mem.used
        /\ Refuse(st).out = "refused" /\ Refuse(st).passed = st.passed
    BY Rejected
  <2> QED BY <1>3, <1>6, <2>1
<1>7. ASSUME roots # {}, ~Proves(q, roots), Call[q.call].user # Nobody, Once(q, roots) \in st.mem.once
      PROVE  Goal(t)
  <2> DEFINE u == st.mem.once \ {Once(q, roots)}
             w == [st EXCEPT !.mem.once = u]
  <2>1. t = [w EXCEPT !.proof = roots]
    BY <1>7 DEF Directory
  <2>2. \A d \in roots : DirDecided(c, d)
    <3>1. Once(q, roots).call = c /\ Once(q, roots).roots = roots
      BY <1>1 DEF Once
    <3>2. PICK n \in DOMAIN forms : /\ forms[n].call = c /\ forms[n].roots = roots
                                    /\ "allow_once" \in forms[n].told
      BY <1>7, <3>1 DEF StateDecided, StoresDecided, OnceDecided
    <3> QED BY <3>2 DEF DirDecided, Told, Allows
  <2>3. OnceDecided(u)
    BY DEF StateDecided, StoresDecided, OnceDecided
  <2> HIDE DEF t, roots, u
  <2>4. StateDecided(w, c) /\ Same(w, st)
    BY <2>3, WithOnce
  <2> HIDE DEF w
  <2>5. /\ StateDecided(t, c) /\ t.mem.used = w.mem.used /\ t.out = w.out /\ t.passed = w.passed
    BY <2>1, <2>2, <2>4, WithProof
  <2> QED BY <1>3, <2>2, <2>4, <2>5 DEF Same
<1>8. ASSUME roots # {}, ~Proves(q, roots), Call[q.call].user # Nobody, Once(q, roots) \notin st.mem.once,
             q.form # NoForm
      PROVE  Goal(t)
  <2>1. t = DirectoryAnswer(st, q, roots)
    BY <1>8 DEF Directory
  <2> HIDE DEF t, roots
  <2> QED BY <1>8, <2>1, DirectoryAnswered
<1>9. ASSUME NEW k, q.form = NoForm, t = Ask(st, Form(k, q, Given(q), <<>>, roots, st)) PROVE Goal(t)
  <2> DEFINE f == Form(k, q, Given(q), <<>>, roots, st)
  <2>1. f.call = c /\ FormDecided(f) /\ f.priors = ToSet(st.passed)
    BY <1>1, FormMade
  <2>2. t = Ask(st, f)
    BY <1>9
  <2> HIDE DEF t, roots, f
  <2>3. /\ StateDecided(t, c) /\ t.mem.used = st.mem.used /\ t.out = "asked" /\ t.passed = st.passed
        /\ t.form = f
    BY <2>1, <2>2, Asked
  <2> QED BY <1>3, <1>9, <2>1, <2>3
<1>10. roots # {} => Goal(t)
  <2>1. CASE roots # {} /\ ~Proves(q, roots) /\ Call[q.call].user = Nobody
    BY <1>6, <2>1 DEF Directory
  <2>2. CASE /\ roots # {} /\ ~Proves(q, roots) /\ Call[q.call].user # Nobody
             /\ Once(q, roots) \notin st.mem.once /\ q.form = NoForm
    <3>1. \/ \E k : t = Ask(st, Form(k, q, Given(q), <<>>, roots, st))
          \/ t = Refuse(st)
      BY <2>2 DEF Directory, Challenge
    <3> HIDE DEF t, roots, Goal
    <3> QED BY <1>6, <1>9, <2>2, <3>1
  <2> HIDE DEF t, roots, Goal
  <2> QED BY <1>5, <1>7, <1>8, <2>1, <2>2
<1>11. roots # {} => \A d \in Call[c].dirs : t.out = "allowed" => DirDecided(c, d)
  <2> HIDE DEF t, roots
  <2> QED BY <1>2, <1>10
<1> HIDE DEF t, roots
<1> QED BY <1>4, <1>10, <1>11 DEF t

-----------------------------------------------------------------------------
(* The operation step.                                                     *)
LEMMA ApprovalKept ==
  ASSUME NEW st, NEW c, StateDecided(st, c), NEW q, q.call = c, NEW s,
         forms[q.form].answer \in Lasting => GrantsDecided({Grant(c, s)})
  PROVE  LET t == KeepApproval(st, q, s) IN
         /\ StateDecided(t, c) /\ t.mem.used = st.mem.used /\ t.out \in {st.out, "refused"}
         /\ t.passed = st.passed
<1> DEFINE g == Grant(c, s)
           all == st.mem.permanent \cup {g}
           ses == st.mem.session \cup {g}
           a == forms[q.form].answer
           w == [st EXCEPT !.mem.permanent = all]
           t == KeepApproval(st, q, s)
<1>1. GrantsDecided(st.mem.session) /\ GrantsDecided(st.mem.permanent)
  BY DEF StateDecided, StoresDecided
<1>2. a \in Lasting => GrantsDecided(all) /\ GrantsDecided(ses)
  BY <1>1 DEF GrantsDecided
<1>3. \/ a = "allow_session" /\ t = [st EXCEPT !.mem.session = ses]
      \/ a = "allow_permanent" /\ t = [st EXCEPT !.mem.permanent = all, !.disk.approvals = all]
      \/ a = "allow_permanent" /\ t = Refuse(w)
      \/ t = st
  BY DEF KeepApproval
<1> HIDE DEF all, ses, g, t
<1>4. CASE a = "allow_session" /\ t = [st EXCEPT !.mem.session = ses]
  <2>1. GrantsDecided(ses)
    BY <1>2, <1>4 DEF Lasting
  <2>2. StateDecided(t, c) /\ Same(t, st)
    BY <1>4, <2>1, WithSession
  <2> QED BY <2>2 DEF Same, t
<1>5. CASE a = "allow_permanent" /\ t = [st EXCEPT !.mem.permanent = all, !.disk.approvals = all]
  <2>1. GrantsDecided(all)
    BY <1>2, <1>5 DEF Lasting
  <2>2. StateDecided(t, c) /\ Same(t, st)
    BY <1>5, <2>1, WithApprovals
  <2> QED BY <2>2 DEF Same, t
<1>6. CASE a = "allow_permanent" /\ t = Refuse(w)
  <2>1. GrantsDecided(all)
    BY <1>2, <1>6 DEF Lasting
  <2>2. StateDecided(w, c) /\ Same(w, st)
    BY <2>1, WithPermanent
  <2> HIDE DEF w
  <2>3. /\ StateDecided(t, c) /\ t.mem.used = w.mem.used /\ t.out = "refused" /\ t.passed = w.passed
    BY <1>6, <2>2, Rejected
  <2> QED BY <2>2, <2>3 DEF Same, t
<1>7. CASE t = st
  BY <1>7 DEF t
<1> QED BY <1>3, <1>4, <1>5, <1>6, <1>7

(* An answer lets the operation pass once, for good if it says so.  A tool *)
(* whose decisions are for one use is let pass only by one for this call.  *)
LEMMA OperationAnswered ==
  ASSUME DecisionsInv, NEW c, NEW q \in Requests(c), q.form # NoForm,
         NEW st, StateDecided(st, c), st.out = "allowed", NEW s,
         forms[q.form].kind = "operation", forms[q.form].subject = s
  PROVE  LET t == OperationAnswer(st, q, s) IN
         /\ StateDecided(t, c) /\ t.out \in {"allowed", "refused"}
         /\ Retains(st.mem.used, t.mem.used)
         /\ t.out = "allowed" =>
              /\ t.passed = Append(st.passed, s)
              /\ q.form \in t.mem.used /\ q.form \notin st.mem.used
              /\ Call[c].single => "allow_once" \in forms[q.form].told
<1> DEFINE f == forms[q.form]
           used == Consume(st, q.form)
           kept == KeepApproval(used, q, s)
           t == OperationAnswer(st, q, s)
           Goal(x) == /\ StateDecided(x, c) /\ x.out \in {"allowed", "refused"}
                      /\ Retains(st.mem.used, x.mem.used)
                      /\ x.out = "allowed" =>
                           /\ x.passed = Append(st.passed, s)
                           /\ q.form \in x.mem.used /\ q.form \notin st.mem.used
                           /\ Call[c].single => "allow_once" \in forms[q.form].told
<1>1. /\ q.call = c /\ q.form \in DOMAIN forms /\ f.call = c
      /\ f.answer \in f.told \cap Decisions
  BY RequestForms
<1>2. /\ StateDecided(used, c) /\ used.out = st.out /\ used.passed = st.passed
      /\ Retains(st.mem.used, used.mem.used)
      /\ Consumable(st.mem, q.form) => q.form \in used.mem.used
  BY Consumed
<1>3. CASE q.form \in st.mem.used \/ f.answer = "declined"
  <2>1. t = Refuse(st)
    BY <1>3 DEF OperationAnswer
  <2>2. /\ StateDecided(Refuse(st), c) /\ Refuse(st).mem.used = st.mem.used
        /\ Refuse(st).out = "refused"
    BY Rejected
  <2> HIDE DEF t
  <2> QED BY <2>1, <2>2 DEF t, Retains
<1>4. CASE t = Refuse(used)
  <2> HIDE DEF t, used
  <2>2. /\ StateDecided(Refuse(used), c) /\ Refuse(used).mem.used = used.mem.used
        /\ Refuse(used).out = "refused"
    BY <1>2, Rejected
  <2> QED BY <1>2, <1>4, <2>2 DEF t
<1>5. CASE /\ ~(q.form \in st.mem.used \/ f.answer = "declined") /\ Consumable(st.mem, q.form)
           /\ ~(f.answer = "deny" \/ (Call[q.call].single /\ f.answer \in Lasting))
  <2>1. t = Pass(kept, s)
    BY <1>5 DEF OperationAnswer
  <2>2. f.answer \in Allows /\ (Call[c].single => f.answer = "allow_once")
    BY <1>1, <1>5 DEF Decisions, Allows, Lasting
  <2>3. f.answer \in Lasting => GrantsDecided({Grant(c, s)})
    BY <1>1 DEF GrantsDecided, Grant
  <2>4. SubjectDecided(c, s)
    BY <1>1, <2>2 DEF SubjectDecided, Told
  <2> HIDE DEF t, used
  <2>5. /\ StateDecided(kept, c) /\ kept.mem.used = used.mem.used /\ kept.out \in {used.out, "refused"}
        /\ kept.passed = used.passed
    BY <1>1, <1>2, <2>3, ApprovalKept
  <2> HIDE DEF kept
  <2>6. /\ StateDecided(t, c) /\ t.mem.used = kept.mem.used /\ t.out = kept.out
        /\ t.passed = Append(kept.passed, s)
    BY <2>1, <2>4, <2>5, Passed
  <2>7. Call[c].single => "allow_once" \in f.told
    BY <1>1, <2>2
  <2> HIDE DEF f
  <2>8. Goal(t)
    BY <1>2, <1>5, <2>5, <2>6, <2>7 DEF f
  <2> HIDE DEF Goal
  <2> QED BY <2>8 DEF Goal, t
<1>6. CASE /\ ~(q.form \in st.mem.used \/ f.answer = "declined")
           /\ \/ ~Consumable(st.mem, q.form)
              \/ f.answer = "deny" \/ (Call[q.call].single /\ f.answer \in Lasting)
  <2>1. t = Refuse(used)
    BY <1>6 DEF OperationAnswer
  <2> QED BY <1>4, <2>1
<1> QED BY <1>3, <1>5, <1>6

LEMMA HasDecided ==
  ASSUME NEW st, NEW c, StateDecided(st, c), NEW s, Has(st.mem, c, s)
  PROVE  SubjectDecided(c, s)
<1>1. PICK n \in DOMAIN forms :
        /\ forms[n].kind = "operation" /\ forms[n].subject = s /\ forms[n].told \cap Lasting # {}
        /\ Call[forms[n].call].user = Call[c].user /\ Call[forms[n].call].tool = Call[c].tool
  BY DEF StateDecided, StoresDecided, GrantsDecided, Has, Grant
<1> QED BY <1>1 DEF SubjectDecided, Told

LEMMA OperationDecided ==
  ASSUME DecisionsInv, NEW c, NEW q \in Requests(c), NEW st, StateDecided(st, c),
         st.out = "allowed", NEW s
  PROVE  LET t == Operation(st, q, s) IN
         /\ StateDecided(t, c) /\ t.out \in {"allowed", "asked", "refused"}
         /\ Retains(st.mem.used, t.mem.used)
         /\ t.out = "allowed" => t.passed = Append(st.passed, s)
         /\ t.out = "asked" => t.form.kind = "operation" /\ t.form.priors = ToSet(st.passed)
         /\ t.out = "allowed" /\ Call[c].single /\ forms[q.form].priors = {} =>
              /\ q.form \in DOMAIN forms /\ forms[q.form].kind = "operation" /\ forms[q.form].call = c
              /\ q.form \in t.mem.used /\ q.form \notin st.mem.used
              /\ "allow_once" \in forms[q.form].told
<1> DEFINE f == forms[q.form]
           t == Operation(st, q, s)
           form == Form("operation", q, OpArgs(q), s, {}, st)
           mine == f.kind = "operation" /\ f.call = q.call /\ f.args = OpArgs(q)
           passes == ~Call[c].single /\ Has(st.mem, c, s)
           One(x) == /\ q.form \in DOMAIN forms /\ forms[q.form].kind = "operation"
                     /\ forms[q.form].call = c
                     /\ q.form \in x.mem.used /\ q.form \notin st.mem.used
                     /\ "allow_once" \in forms[q.form].told
           Goal(x) == /\ StateDecided(x, c) /\ x.out \in {"allowed", "asked", "refused"}
                      /\ Retains(st.mem.used, x.mem.used)
                      /\ x.out = "allowed" => x.passed = Append(st.passed, s)
                      /\ x.out = "asked" => x.form.kind = "operation" /\ x.form.priors = ToSet(st.passed)
                      /\ x.out = "allowed" /\ Call[c].single /\ f.priors = {} => One(x)
<1>1. q.call = c /\ (q.form # NoForm => q.form \in DOMAIN forms /\ f.call = c)
  BY RequestForms
<1>2. Retains(st.mem.used, st.mem.used)
  BY DEF Retains
<1>3. ASSUME SubjectDecided(c, s), ~Call[c].single \/ f.priors # {} PROVE Goal(Pass(st, s))
  <2> DEFINE x == Pass(st, s)
  <2>1. /\ StateDecided(x, c) /\ x.mem.used = st.mem.used /\ x.out = st.out
        /\ x.passed = Append(st.passed, s)
    BY <1>3, Passed
  <2> HIDE DEF x, f, One
  <2> QED BY <1>2, <1>3, <2>1 DEF x
<1>4. Goal(Refuse(st))
  <2> DEFINE x == Refuse(st)
  <2>1. StateDecided(x, c) /\ x.mem.used = st.mem.used /\ x.out = "refused"
    BY Rejected
  <2> HIDE DEF x, f, One
  <2> QED BY <1>2, <2>1 DEF x
<1>5. Goal(Ask(st, form))
  <2> DEFINE x == Ask(st, form)
  <2>1. form.call = c /\ FormDecided(form) /\ form.kind = "operation" /\ form.priors = ToSet(st.passed)
    BY <1>1, FormMade
  <2> HIDE DEF form
  <2>2. StateDecided(x, c) /\ x.mem.used = st.mem.used /\ x.out = "asked" /\ x.form = form
    BY <2>1, Asked
  <2> HIDE DEF x, f, One
  <2> QED BY <1>2, <2>1, <2>2 DEF x
<1>6. CASE passes
  <2>1. t = Pass(st, s)
    BY <1>1, <1>6 DEF Operation
  <2>2. SubjectDecided(c, s)
    BY <1>6, HasDecided
  <2>3. Goal(Pass(st, s))
    BY <1>3, <1>6, <2>2
  <2> HIDE DEF t
  <2> QED BY <2>1, <2>3 DEF t
<1>7. CASE ~passes /\ q.form # NoForm /\ mine /\ s \in f.priors
  <2>1. t = Pass(st, s)
    BY <1>1, <1>7 DEF Operation
  <2>2. SubjectDecided(c, s)
    BY <1>1, <1>7 DEF DecisionsInv, FormDecided
  <2>3. Goal(Pass(st, s))
    BY <1>3, <1>7, <2>2
  <2> HIDE DEF t
  <2> QED BY <2>1, <2>3 DEF t
<1>8. CASE ~passes /\ q.form # NoForm /\ mine /\ s \notin f.priors /\ s = f.subject
  <2>1. t = OperationAnswer(st, q, s)
    BY <1>1, <1>8 DEF Operation
  <2>2. /\ StateDecided(OperationAnswer(st, q, s), c)
        /\ OperationAnswer(st, q, s).out \in {"allowed", "refused"}
        /\ Retains(st.mem.used, OperationAnswer(st, q, s).mem.used)
        /\ OperationAnswer(st, q, s).out = "allowed" =>
             /\ OperationAnswer(st, q, s).passed = Append(st.passed, s)
             /\ q.form \in OperationAnswer(st, q, s).mem.used /\ q.form \notin st.mem.used
             /\ Call[c].single => "allow_once" \in f.told
    BY <1>8, OperationAnswered
  <2> HIDE DEF t
  <2>3. Goal(t)
    BY <1>1, <1>8, <2>1, <2>2
  <2> HIDE DEF Goal
  <2> QED BY <2>3 DEF t, Goal
<1>9. CASE ~passes /\ ~(q.form # NoForm /\ mine /\ (s \in f.priors \/ s = f.subject))
  <2>1. t = Ask(st, form) \/ t = Refuse(st)
    BY <1>1, <1>9 DEF Operation
  <2> HIDE DEF t, Goal, form
  <2>2. Goal(t)
    BY <1>4, <1>5, <2>1
  <2> QED BY <2>2 DEF t, Goal
<1> QED BY <1>6, <1>7, <1>8, <1>9

-----------------------------------------------------------------------------
(* A whole request: all its subjects are decided when it is allowed.       *)
LEMMA SubjectsOfCalls ==
  ASSUME NEW c, Needs(c)
  PROVE  /\ Len(Subjects(c)) \in Nat /\ DOMAIN Subjects(c) = 1..Len(Subjects(c))
         /\ Len(Subjects(c)) = Len(Call[c].subjects)
<1>1. Call[c].subjects \in Seq(ToSet(Call[c].subjects))
  BY DEF Needs
<1>2. PICK l \in Nat : l = Len(Call[c].subjects) /\ DOMAIN Call[c].subjects = 1..l
  BY <1>1
<1>3. Subjects(c) = [i \in 1..l |-> Key(Call[c].subjects[i])]
  BY <1>2 DEF Subjects
<1>4. Len(Subjects(c)) = l
  BY <1>3
<1> QED BY <1>2, <1>3, <1>4

LEMMA RetainsTwice ==
  ASSUME NEW A, NEW B, NEW C, Retains(A, B), Retains(B, C) PROVE Retains(A, C)
BY DEF Retains

LEMMA RoundsDecided ==
  ASSUME DecisionsInv, NEW c, Needs(c), NEW q \in Requests(c), NEW st, StateDecided(st, c),
         st.out = "allowed"
  PROVE  LET l == Len(Subjects(c))  t == Rounds(st, q)[l] IN
         /\ StateDecided(t, c) /\ t.out \in {"allowed", "asked", "refused"}
         /\ Retains(st.mem.used, t.mem.used)
         /\ t.out = "allowed" => \A i \in 1..l : Subjects(c)[i] \in ToSet(t.passed)
<1>1. q.call = c
  BY RequestForms
<1>2. PICK l \in Nat : l = Len(Subjects(c))
  BY SubjectsOfCalls
<1> DEFINE r(n) == Rounds(st, q)[n]
           Good(n) == /\ StateDecided(r(n), c) /\ r(n).out \in {"allowed", "asked", "refused"}
                      /\ Retains(st.mem.used, r(n).mem.used)
                      /\ r(n).out = "allowed" => \A i \in 1..n : Subjects(c)[i] \in ToSet(r(n).passed)
           Bad == {n \in 0..l : ~Good(n)}
<1>3. r(0) = st /\ \A n \in 1..l : r(n) = After(st, q, n, r(n - 1))
  BY <1>1, <1>2, RoundsAre
<1>4. Good(0)
  BY <1>3 DEF Retains
<1>5. ASSUME NEW n \in 1..l, Good(n - 1) PROVE Good(n)
  <2> DEFINE b == r(n - 1)
             s == Subjects(c)[n]
  <2>1. r(n) = IF b.out = "allowed" THEN Operation(b, q, s) ELSE b
    <3>1. r(n) = After(st, q, n, b)
      BY <1>3
    <3> QED BY <1>1, <3>1 DEF After
  <2>2. /\ StateDecided(b, c) /\ b.out \in {"allowed", "asked", "refused"}
        /\ Retains(st.mem.used, b.mem.used)
        /\ b.out = "allowed" => \A i \in 1..(n - 1) : Subjects(c)[i] \in ToSet(b.passed)
    BY <1>5
  <2> DEFINE t == r(n)
  <2> HIDE DEF r, b, s, t
  <2>3. CASE b.out # "allowed"
    BY <2>1, <2>2, <2>3 DEF t
  <2>4. CASE b.out = "allowed"
    <3>1. t = Operation(b, q, s)
      BY <2>1, <2>4 DEF t
    <3>2. /\ StateDecided(t, c) /\ t.out \in {"allowed", "asked", "refused"}
          /\ Retains(b.mem.used, t.mem.used)
          /\ t.out = "allowed" => t.passed = Append(b.passed, s)
      BY <2>2, <2>4, <3>1, OperationDecided
    <3>3. ToSet(Append(b.passed, s)) = ToSet(b.passed) \cup {s}
      BY <2>2, AppendToSet DEF StateDecided
    <3>4. Retains(st.mem.used, t.mem.used)
      BY <2>2, <3>2, RetainsTwice
    <3>5. ASSUME t.out = "allowed", NEW i \in 1..n PROVE Subjects(c)[i] \in ToSet(t.passed)
      <4>1. i \in 1..(n - 1) \/ i = n
        OBVIOUS
      <4> QED BY <2>2, <2>4, <3>2, <3>3, <3>5, <4>1 DEF s
    <3> QED BY <3>2, <3>4, <3>5 DEF t
  <2> QED BY <2>3, <2>4
<1>6. Bad = {}
  <2> SUFFICES ASSUME Bad # {} PROVE FALSE
    OBVIOUS
  <2>1. PICK m \in Bad : \A n \in Bad : m <= n
    <3>1. Bad \in SUBSET Nat
      OBVIOUS
    <3> HIDE DEF Bad
    <3> QED BY <3>1, LeastNumber
  <2> HIDE DEF Good
  <2>2. m \in 1..l /\ m - 1 \in 0..l /\ ~Good(m)
    BY <1>4, <2>1
  <2>3. Good(m - 1)
    BY <2>1, <2>2
  <2> QED BY <1>5, <2>2, <2>3
<1>7. Good(l)
  <2> HIDE DEF Good
  <2> QED BY <1>6
<1> HIDE DEF Good, Bad, r
<1> QED BY <1>2, <1>7 DEF Good, r

LEMMA CallDecided ==
  ASSUME DecisionsInv, NEW c, Needs(c), NEW q \in Requests(c)
  PROVE  LET st == Decided(q) IN
         /\ StateDecided(st, c) /\ st.out \in {"allowed", "asked", "refused"}
         /\ Retains(mem.used, st.mem.used)
         /\ st.out = "allowed" =>
              /\ \A d \in Call[c].dirs : DirDecided(c, d)
              /\ \A s \in ToSet(Subjects(c)) : SubjectDecided(c, s)
              /\ Call[c].confirms => IsDecided(c, <<"git", c>>)
<1> DEFINE dirs == Directory(Begun, q)
           Good(st) == /\ StateDecided(st, c) /\ st.out \in {"allowed", "asked", "refused"}
                       /\ Retains(mem.used, st.mem.used)
           Goal(st) == /\ Good(st)
                       /\ st.out = "allowed" =>
                            /\ \A d \in Call[c].dirs : DirDecided(c, d)
                            /\ \A s \in ToSet(Subjects(c)) : SubjectDecided(c, s)
                            /\ Call[c].confirms => IsDecided(c, <<"git", c>>)
<1>1. q.call = c
  BY RequestForms
<1>2. StateDecided(Begun, c) /\ Begun.out = "allowed" /\ Begun.mem = mem
  <2>1. ToSet(<<>>) = {} /\ <<>> \in Seq({})
    BY DEF ToSet
  <2> QED BY <2>1 DEF StateDecided, IsState, DecisionsInv, Begun
<1>3. Decided(q) = IF dirs.out # "allowed" THEN dirs
                   ELSE IF Call[c].confirms THEN Confirmation(dirs, q)
                   ELSE IF Call[c].question THEN Question(dirs, q)
                   ELSE Rounds(dirs, q)[Len(Subjects(c))]
  BY <1>1 DEF Decided
<1>4. Good(dirs) /\ (dirs.out = "allowed" => \A d \in Call[c].dirs : DirDecided(c, d))
  BY <1>2, DirectoryDecided
<1> HIDE DEF dirs
<1>5. ASSUME NEW n, NEW k, Good(dirs)
      PROVE  /\ Good(Consume(dirs, n)) /\ Good(Refuse(dirs)) /\ Good(Refuse(Consume(dirs, n)))
             /\ Refuse(dirs).out = "refused" /\ Refuse(Consume(dirs, n)).out = "refused"
             /\ Good(Ask(dirs, Form(k, q, Given(q), <<>>, {}, dirs)))
             /\ Ask(dirs, Form(k, q, Given(q), <<>>, {}, dirs)).out = "asked"
  <2> DEFINE x == Consume(dirs, n)
             f == Form(k, q, Given(q), <<>>, {}, dirs)
  <2>1. StateDecided(x, c) /\ x.out = dirs.out /\ Retains(dirs.mem.used, x.mem.used)
    BY <1>5, Consumed
  <2> HIDE DEF x
  <2>2. Good(x)
    BY <1>5, <2>1, RetainsTwice
  <2>3. Good(Refuse(dirs)) /\ Refuse(dirs).out = "refused"
    <3>1. /\ StateDecided(Refuse(dirs), c) /\ Refuse(dirs).mem.used = dirs.mem.used
          /\ Refuse(dirs).out = "refused"
      BY <1>5, Rejected
    <3> QED BY <1>5, <3>1
  <2>4. Good(Refuse(x)) /\ Refuse(x).out = "refused"
    <3>1. /\ StateDecided(Refuse(x), c) /\ Refuse(x).mem.used = x.mem.used
          /\ Refuse(x).out = "refused"
      BY <2>2, Rejected
    <3> QED BY <2>2, <3>1
  <2>5. f.call = c /\ FormDecided(f)
    BY <1>1, <1>5, FormMade
  <2> HIDE DEF f
  <2>6. StateDecided(Ask(dirs, f), c) /\ Ask(dirs, f).mem.used = dirs.mem.used /\ Ask(dirs, f).out = "asked"
    BY <1>5, <2>5, Asked
  <2>7. Good(Ask(dirs, f))
    BY <1>5, <2>6
  <2> HIDE DEF Good
  <2> QED BY <2>2, <2>3, <2>4, <2>6, <2>7 DEF x, f
<1>6. ASSUME dirs.out = "allowed", Call[c].confirms \/ Call[c].question
      PROVE  \A s \in ToSet(Subjects(c)) : SubjectDecided(c, s)
  BY <1>6 DEF Needs, Subjects, ToSet
<1>7. CASE dirs.out # "allowed"
  BY <1>3, <1>4, <1>7
<1>8. CASE dirs.out = "allowed" /\ Call[c].confirms
  <2>1. q.token # NoForm => IsDecided(c, <<"git", c>>)
    BY RequestForms DEF IsDecided, Told
  <2>2. \/ /\ q.token = NoForm
           /\ Decided(q) = Ask(dirs, Form("git", q, Given(q), <<>>, {}, dirs))
        \/ q.token # NoForm /\ Decided(q) = Consume(dirs, q.token)
        \/ Decided(q) = Refuse(Consume(dirs, q.token))
    BY <1>3, <1>8 DEF Confirmation
  <2> HIDE DEF Good
  <2>3. Goal(Decided(q))
    BY <1>4, <1>5, <1>6, <1>8, <2>1, <2>2
  <2> QED BY <2>3 DEF Good
<1>9. CASE dirs.out = "allowed" /\ ~Call[c].confirms /\ Call[c].question
  <2>1. \/ Decided(q) = Ask(dirs, Form("question", q, Given(q), <<>>, {}, dirs))
        \/ Decided(q) = Consume(dirs, q.form)
        \/ Decided(q) = Refuse(Consume(dirs, q.form))
        \/ Decided(q) = Refuse(dirs)
    BY <1>3, <1>9 DEF Question
  <2> HIDE DEF Good
  <2>2. Goal(Decided(q))
    BY <1>4, <1>5, <1>6, <1>9, <2>1
  <2> QED BY <2>2 DEF Good
<1>10. CASE dirs.out = "allowed" /\ ~Call[c].confirms /\ ~Call[c].question
  <2> DEFINE l == Len(Subjects(c))
             t == Rounds(dirs, q)[l]
  <2>1. Decided(q) = t
    BY <1>3, <1>10
  <2>2. /\ StateDecided(t, c) /\ t.out \in {"allowed", "asked", "refused"}
        /\ Retains(dirs.mem.used, t.mem.used)
        /\ t.out = "allowed" => \A i \in 1..l : Subjects(c)[i] \in ToSet(t.passed)
    BY <1>4, <1>10, RoundsDecided
  <2>3. l \in Nat /\ DOMAIN Subjects(c) = 1..l
    BY SubjectsOfCalls
  <2> HIDE DEF l, t
  <2>4. t.out = "allowed" => \A s \in ToSet(Subjects(c)) : SubjectDecided(c, s)
    BY <2>2, <2>3 DEF StateDecided, ToSet
  <2>5. Retains(mem.used, t.mem.used)
    BY <1>4, <2>2, RetainsTwice
  <2> QED BY <1>4, <1>10, <2>1, <2>2, <2>4, <2>5
<1> QED BY <1>7, <1>8, <1>9, <1>10

LEMMA DecisionsActedOn == ASSUME DecisionsInv PROVE ActsOnDecisions
<1> SUFFICES ASSUME NEW c \in scenario.calls, NEW q \in Requests(c), NEW x \in ActsOn(c, Decided(q))
             PROVE  IsDecided(c, x)
  BY DEF ActsOnDecisions
<1>1. Needs(c)
  BY CallsAssumption DEF DecisionsInv
<1> DEFINE st == Decided(q)
<1>2. /\ StateDecided(st, c)
      /\ st.out = "allowed" =>
           /\ \A d \in Call[c].dirs : DirDecided(c, d)
           /\ \A s \in ToSet(Subjects(c)) : SubjectDecided(c, s)
           /\ Call[c].confirms => IsDecided(c, <<"git", c>>)
  BY <1>1, CallDecided
<1>3. x \in ActsOn(c, st)
  OBVIOUS
<1> HIDE DEF st
<1>4. CASE st.out = "allowed"
  <2>1. CASE \E d \in Call[c].dirs : x = <<"dir", d>>
    BY <1>2, <1>4, <2>1 DEF IsDecided
  <2>2. CASE \E s \in ToSet(Subjects(c)) : x = <<"subject", s>>
    BY <1>2, <1>4, <2>2 DEF IsDecided
  <2>3. CASE Call[c].confirms /\ x = <<"git", c>>
    BY <1>2, <1>4, <2>3
  <2> QED BY <1>3, <1>4, <2>1, <2>2, <2>3 DEF ActsOn
<1>5. CASE st.out # "allowed"
  <2>1. PICK s \in ToSet(st.passed) : x = <<"subject", s>>
    BY <1>3, <1>5 DEF ActsOn
  <2>2. SubjectDecided(c, s)
    BY <1>2 DEF StateDecided
  <2> QED BY <2>1, <2>2 DEF IsDecided
<1> QED BY <1>4, <1>5

-----------------------------------------------------------------------------
(* What has been decided stays so: forms stay, and answers are added.      *)
Grows ==
  /\ DOMAIN forms \subseteq DOMAIN forms'
  /\ \A n \in DOMAIN forms :
       /\ forms'[n].kind = forms[n].kind /\ forms'[n].call = forms[n].call
       /\ forms'[n].subject = forms[n].subject /\ forms'[n].roots = forms[n].roots
       /\ forms[n].told \subseteq forms'[n].told

LEMMA DecidedGrows ==
  ASSUME Grows, NEW c
  PROVE  /\ \A d : DirDecided(c, d) => DirDecided(c, d)'
         /\ \A s : SubjectDecided(c, s) => SubjectDecided(c, s)'
<1>1. ASSUME NEW n \in DOMAIN forms, NEW k, NEW a, Told(n, k, a) PROVE Told(n, k, a)'
  BY <1>1 DEF Grows, Told
<1>2. ASSUME NEW d, DirDecided(c, d) PROVE DirDecided(c, d)'
  <2>1. CASE \E n \in DOMAIN forms : d \in forms[n].roots /\
               \/ Told(n, c, Allows)
               \/ Told(n, forms[n].call, Lasting) /\ Call[c].user = Call[forms[n].call].user
    <3>1. PICK n \in DOMAIN forms : d \in forms[n].roots /\
               \/ Told(n, c, Allows)
               \/ Told(n, forms[n].call, Lasting) /\ Call[c].user = Call[forms[n].call].user
      BY <2>1
    <3> QED BY <1>1, <3>1 DEF DirDecided, Grows
  <2> QED BY <1>2, <2>1 DEF DirDecided
<1>3. ASSUME NEW s, SubjectDecided(c, s) PROVE SubjectDecided(c, s)'
  <2>1. PICK n \in DOMAIN forms : forms[n].kind = "operation" /\ forms[n].subject = s /\
          \/ Told(n, c, Allows)
          \/ /\ Told(n, forms[n].call, Lasting)
             /\ Call[c].user = Call[forms[n].call].user /\ Call[c].tool = Call[forms[n].call].tool
    BY <1>3 DEF SubjectDecided
  <2> QED BY <1>1, <2>1 DEF SubjectDecided, Grows
<1> QED BY <1>2, <1>3

LEMMA StoresGrow ==
  ASSUME Grows, NEW m, NEW d, StoresDecided(m, d)
  PROVE  StoresDecided(m, d)'
<1>1. ASSUME NEW G, GrantsDecided(G) PROVE GrantsDecided(G)'
  BY <1>1 DEF GrantsDecided, Grows
<1>2. ASSUME NEW G, RootsDecided(G) PROVE RootsDecided(G)'
  BY <1>2 DEF RootsDecided, Grows
<1>3. ASSUME NEW G, OnceDecided(G) PROVE OnceDecided(G)'
  BY <1>3 DEF OnceDecided, Grows
<1> QED BY <1>1, <1>2, <1>3 DEF StoresDecided, IsMem, IsDisk

LEMMA FormGrows ==
  ASSUME Grows, NEW f, FormDecided(f) PROVE FormDecided(f)'
<1>1. PICK c : c = f.call
  OBVIOUS
<1> QED BY <1>1, DecidedGrows DEF FormDecided, IsForm

LEMMA SameForms ==
  ASSUME DecisionsInv, UNCHANGED <<scenario, forms>>, StoresDecided(mem', disk')
  PROVE  DecisionsInv' /\ Grows
<1>1. Grows
  BY DEF Grows
<1>2. StoresDecided(mem, disk)'
  <2>1. PICK m, d : m = mem' /\ d = disk'
    OBVIOUS
  <2>2. StoresDecided(m, d)'
    BY <1>1, <2>1, StoresGrow
  <2> QED BY <2>1, <2>2 DEF StoresDecided, IsMem, IsDisk, GrantsDecided, RootsDecided, OnceDecided
<1>3. ASSUME NEW n \in DOMAIN forms' PROVE FormDecided(forms[n])'
  <2>1. PICK f : f = forms[n]
    OBVIOUS
  <2>2. FormDecided(f)
    BY <1>3, <2>1 DEF DecisionsInv
  <2>3. FormDecided(f)'
    BY <1>1, <2>2, FormGrows
  <2> QED BY <2>1, <2>3
<1> QED BY <1>1, <1>2, <1>3 DEF DecisionsInv

LEMMA RequestKeeps ==
  ASSUME DecisionsInv, NEW c, Needs(c), NEW q \in Requests(c), Keep(Decided(q)), UNCHANGED scenario
  PROVE  DecisionsInv' /\ Grows
<1> DEFINE st == Decided(q)
<1>1. StateDecided(st, c)
  BY CallDecided
<1>2. mem' = st.mem /\ disk' = st.disk
      /\ forms' = IF st.out = "asked" THEN Append(forms, st.form) ELSE forms
  BY DEF Keep
<1> HIDE DEF st
<1>3. CASE st.out # "asked"
  <2>1. StoresDecided(mem', disk')
    BY <1>1, <1>2 DEF StateDecided
  <2> QED BY <1>2, <1>3, <2>1, SameForms
<1>4. CASE st.out = "asked"
  <2>1. PICK m, d, x : m = st.mem /\ d = st.disk /\ x = st.form
    OBVIOUS
  <2>2. forms' = Append(forms, x) /\ mem' = m /\ disk' = d
    BY <1>2, <1>4, <2>1
  <2>3. StoresDecided(m, d) /\ FormDecided(x)
    BY <1>1, <1>4, <2>1 DEF StateDecided
  <2>4. /\ forms' \in Seq(ToSet(forms'))
        /\ DOMAIN forms = 1..Len(forms) /\ Len(forms) \in Nat /\ DOMAIN forms' = 1..(Len(forms) + 1)
        /\ \A i \in DOMAIN forms : forms'[i] = forms[i]
        /\ forms'[Len(forms) + 1] = x
    BY <2>2, AppendToSet DEF DecisionsInv
  <2>5. Grows
    BY <2>4 DEF Grows
  <2>6. StoresDecided(m, d)'
    BY <2>3, <2>5, StoresGrow
  <2>7. StoresDecided(mem, disk)'
    BY <2>2, <2>6 DEF StoresDecided, IsMem, IsDisk, GrantsDecided, RootsDecided, OnceDecided
  <2>8. ASSUME NEW n \in DOMAIN forms' PROVE FormDecided(forms[n])'
    <3>1. PICK f : f = forms'[n]
      OBVIOUS
    <3>2. FormDecided(f)
      BY <2>3, <2>4, <2>8, <3>1 DEF DecisionsInv
    <3>3. FormDecided(f)'
      BY <2>5, <3>2, FormGrows
    <3> QED BY <3>1, <3>3
  <2> QED BY <2>4, <2>5, <2>7, <2>8 DEF DecisionsInv
<1> QED BY <1>3, <1>4

-----------------------------------------------------------------------------
(* Answers to forms.                                                       *)
LEMMA MarkedForms ==
  ASSUME DecisionsInv, NEW n \in DOMAIN forms, NEW a \in Decisions, forms' = Marked(n, a)
  PROVE  /\ Grows /\ forms' \in Seq(ToSet(forms')) /\ DOMAIN forms' = DOMAIN forms
         /\ \A k \in DOMAIN forms : FormDecided(forms[k])'
         /\ \A k \in DOMAIN forms : forms'[k].age = forms[k].age /\ forms'[k].priors = forms[k].priors
         /\ a \in forms'[n].told
<1> DEFINE f == forms[n]
           w == [f EXCEPT !.answer = a]
           told == w.told \cup {a}
           y == [w EXCEPT !.told = told]
<1>1. FormDecided(f) /\ \A k \in DOMAIN forms : FormDecided(forms[k])
  BY DEF DecisionsInv
<1>2. forms' = [forms EXCEPT ![n] = y]
  <2>1. forms' = [forms EXCEPT ![n] = WithAnswer(f, a)]
    BY DEF Marked
  <2>2. WithAnswer(f, a) = y
    BY DEF WithAnswer
  <2> HIDE DEF y
  <2> QED BY <2>1, <2>2
<1>3. /\ w.kind = f.kind /\ w.call = f.call /\ w.args = f.args /\ w.subject = f.subject
      /\ w.roots = f.roots /\ w.priors = f.priors /\ w.proof = f.proof /\ w.age = f.age
      /\ w.answer = a /\ w.told = f.told
      /\ w = [kind |-> w.kind, call |-> w.call, args |-> w.args, subject |-> w.subject, roots |-> w.roots,
              priors |-> w.priors, proof |-> w.proof, answer |-> w.answer, told |-> w.told, age |-> w.age]
  <2> HIDE DEF f
  <2> QED BY <1>1 DEF FormDecided, IsForm
<1> HIDE DEF w, f, told
<1>4. /\ y.kind = f.kind /\ y.call = f.call /\ y.args = f.args /\ y.subject = f.subject
      /\ y.roots = f.roots /\ y.priors = f.priors /\ y.proof = f.proof /\ y.age = f.age
      /\ y.answer = a /\ y.told = told
      /\ y = [kind |-> y.kind, call |-> y.call, args |-> y.args, subject |-> y.subject, roots |-> y.roots,
              priors |-> y.priors, proof |-> y.proof, answer |-> y.answer, told |-> y.told, age |-> y.age]
  BY <1>3
<1> HIDE DEF y
<1>5. /\ forms' \in Seq(ToSet(forms')) /\ DOMAIN forms' = DOMAIN forms
      /\ \A k \in DOMAIN forms : forms'[k] = IF k = n THEN y ELSE forms[k]
  <2>1. PICK old, new : old = forms /\ new = forms'
    OBVIOUS
  <2>2. old \in Seq(ToSet(old)) /\ n \in DOMAIN old /\ new = [old EXCEPT ![n] = y]
    BY <1>2, <2>1 DEF DecisionsInv
  <2>3. /\ new \in Seq(ToSet(new)) /\ DOMAIN new = DOMAIN old
        /\ \A k \in DOMAIN old : new[k] = IF k = n THEN y ELSE old[k]
    BY ONLY <2>2, ExceptToSet
  <2> QED BY <2>1, <2>3
<1>6. Grows
  BY <1>3, <1>4, <1>5 DEF Grows, f, told
<1>7. FormDecided(y)
  BY <1>1, <1>3, <1>4 DEF FormDecided, IsForm, told
<1>8. ASSUME NEW k \in DOMAIN forms PROVE FormDecided(forms[k])'
  <2>1. PICK g : g = forms'[k]
    OBVIOUS
  <2>2. FormDecided(g)
    BY <1>1, <1>5, <1>7, <2>1
  <2>3. FormDecided(g)'
    BY <1>6, <2>2, FormGrows
  <2> QED BY <2>1, <2>3
<1>9. \A k \in DOMAIN forms : forms'[k].age = forms[k].age /\ forms'[k].priors = forms[k].priors
  BY <1>4, <1>5 DEF f
<1>10. a \in forms'[n].told
  BY <1>4, <1>5 DEF told
<1> QED BY <1>5, <1>6, <1>8, <1>9, <1>10

LEMMA AnswerKeeps ==
  ASSUME DecisionsInv, NEW n \in DOMAIN forms, Answer(n), UNCHANGED scenario
  PROVE  DecisionsInv' /\ Grows
<1>1. PICK a \in AnswersTo(forms[n]) : forms' = Marked(n, a)
  BY DEF Answer
<1>2. a \in Decisions
  BY DEF AnswersTo, Decisions, Allows, Lasting
<1>3. /\ Grows /\ forms' \in Seq(ToSet(forms')) /\ DOMAIN forms' = DOMAIN forms
      /\ \A k \in DOMAIN forms : FormDecided(forms[k])'
  BY <1>1, <1>2, MarkedForms
<1>4. StoresDecided(mem, disk)'
  <2>1. PICK m, d : m = mem /\ d = disk
    OBVIOUS
  <2>2. StoresDecided(m, d)'
    BY <1>3, <2>1, StoresGrow DEF DecisionsInv
  <2> QED BY <2>1, <2>2 DEF StoresDecided, IsMem, IsDisk, GrantsDecided, RootsDecided, OnceDecided, Answer
<1> QED BY <1>3, <1>4 DEF DecisionsInv

(* What a decision on directories does to the stores.                      *)
LEMMA DirsStored ==
  ASSUME NEW st, IsState(st), IsMem(st.mem), IsDisk(st.disk), NEW u, NEW roots, NEW a, NEW ok
  PROVE  LET t == KeepDirs(st, u, roots, a, ok)
             new == IF a \in Lasting THEN {<<u, d>> : d \in roots} ELSE {}
         IN  /\ IsMem(t.mem) /\ IsDisk(t.disk) /\ t.disk.approvals = st.disk.approvals
             /\ t.mem.used = st.mem.used /\ t.mem.once = st.mem.once
             /\ t.mem.session = st.mem.session /\ t.mem.permanent = st.mem.permanent
             /\ t.mem.dirSession \subseteq st.mem.dirSession \cup new
             /\ t.mem.dirPermanent \subseteq st.mem.dirPermanent \cup new
             /\ t.disk.dirs \subseteq st.disk.dirs \cup st.mem.dirPermanent \cup new
<1> DEFINE given == {<<u, d>> : d \in roots}
           all == st.mem.dirPermanent \cup given
           ses == st.mem.dirSession \cup given
           ms == [st.mem EXCEPT !.dirSession = ses]
           mp == [st.mem EXCEPT !.dirPermanent = all]
           dp == [st.disk EXCEPT !.dirs = all]
           sp == [st EXCEPT !.mem = mp]
           t == KeepDirs(st, u, roots, a, ok)
<1>1. \/ a = "allow_session" /\ t = [st EXCEPT !.mem = ms]
      \/ t = st
      \/ t = [st EXCEPT !.out = "refused"]
      \/ a = "allow_permanent" /\ t = [sp EXCEPT !.disk = dp]
  <2>1. CASE a = "allow_session"
    BY <2>1 DEF KeepDirs
  <2>2. CASE a # "allow_session" /\ (a # "allow_permanent" \/ given \subseteq st.mem.dirPermanent)
    BY <2>2 DEF KeepDirs
  <2>3. CASE a = "allow_permanent" /\ ~(given \subseteq st.mem.dirPermanent) /\ ok
    <3>1. t = [st EXCEPT !.mem.dirPermanent = all, !.disk.dirs = all]
      BY <2>3 DEF KeepDirs
    <3>2. [st EXCEPT !.mem.dirPermanent = all, !.disk.dirs = all]
           = [sp EXCEPT !.disk = [sp.disk EXCEPT !.dirs = all]]
      OBVIOUS
    <3>3. sp.disk = st.disk
      <4> HIDE DEF mp
      <4> QED BY DEF IsState
    <3> HIDE DEF t, sp, all
    <3> QED BY <2>3, <3>1, <3>2, <3>3
  <2>4. CASE a = "allow_permanent" /\ ~(given \subseteq st.mem.dirPermanent) /\ ~ok
    BY <2>4 DEF KeepDirs, Refuse
  <2> QED BY <2>1, <2>2, <2>3, <2>4
<1>2. /\ IsMem(ms) /\ ms.dirSession = ses /\ ms.dirPermanent = st.mem.dirPermanent
      /\ ms.used = st.mem.used /\ ms.once = st.mem.once
      /\ ms.session = st.mem.session /\ ms.permanent = st.mem.permanent
  <2> HIDE DEF ses
  <2> QED BY DEF IsMem
<1>3. /\ IsMem(mp) /\ mp.dirPermanent = all /\ mp.dirSession = st.mem.dirSession
      /\ mp.used = st.mem.used /\ mp.once = st.mem.once
      /\ mp.session = st.mem.session /\ mp.permanent = st.mem.permanent
  <2> HIDE DEF all
  <2> QED BY DEF IsMem
<1>4. IsDisk(dp) /\ dp.dirs = all /\ dp.approvals = st.disk.approvals
  <2> HIDE DEF all
  <2> QED BY DEF IsDisk
<1>5. ses = st.mem.dirSession \cup given /\ all = st.mem.dirPermanent \cup given
  OBVIOUS
<1> HIDE DEF ms, mp, dp, all, ses, given, t
<1>6. CASE a = "allow_session" /\ t = [st EXCEPT !.mem = ms]
  <2>1. t.mem = ms /\ t.disk = st.disk
    BY <1>6 DEF IsState
  <2> QED BY <1>2, <1>5, <1>6, <2>1 DEF Lasting, t, given
<1>7. CASE t = st
  BY <1>7 DEF t, given
<1>8. CASE t = [st EXCEPT !.out = "refused"]
  <2>1. t.mem = st.mem /\ t.disk = st.disk
    BY <1>8 DEF IsState
  <2> QED BY <2>1 DEF t, given
<1>9. CASE a = "allow_permanent" /\ t = [sp EXCEPT !.disk = dp]
  <2>1. IsState(sp) /\ sp.mem = mp
    BY DEF IsState
  <2> HIDE DEF sp
  <2>2. t.mem = mp /\ t.disk = dp
    BY <1>9, <2>1 DEF IsState
  <2> QED BY <1>3, <1>4, <1>5, <1>9, <2>2 DEF Lasting, t, given
<1> QED BY <1>1, <1>6, <1>7, <1>8, <1>9

LEMMA SubmitKeeps ==
  ASSUME DecisionsInv, NEW n \in DOMAIN forms, Submit(n), UNCHANGED scenario
  PROVE  DecisionsInv' /\ Grows /\ Retains(mem.used, mem'.used)
<1> DEFINE f == forms[n]
           st == Consume(Begun, n)
           once == [call |-> f.call, args |-> f.args, roots |-> f.roots]
           Kept(a, ok) == IF a = "allow_once" THEN [st EXCEPT !.mem.once = @ \cup {once}]
                          ELSE KeepDirs(st, Owner, f.roots, a, ok)
<1>1. PICK a \in Allows \cup {"deny"}, ok \in BOOLEAN :
        /\ mem' = Kept(a, ok).mem /\ disk' = Kept(a, ok).disk
        /\ forms' = Marked(n, a)
  BY DEF Submit
<1>2. Call[f.call].user = Owner
  BY DEF Submit
<1>3. /\ Grows /\ forms' \in Seq(ToSet(forms')) /\ DOMAIN forms' = DOMAIN forms
      /\ \A k \in DOMAIN forms : FormDecided(forms[k])'
      /\ a \in forms'[n].told
  <2>1. a \in Decisions
    BY DEF Decisions, Allows, Lasting
  <2> QED BY <1>1, <2>1, MarkedForms
<1>4. StateDecided(st, f.call) /\ Retains(mem.used, st.mem.used)
  <2>1. StateDecided(Begun, f.call) /\ Begun.mem = mem
    <3>1. ToSet(<<>>) = {} /\ <<>> \in Seq({})
      BY DEF ToSet
    <3> QED BY <3>1 DEF StateDecided, IsState, DecisionsInv, Begun
  <2> HIDE DEF f
  <2> QED BY <2>1, Consumed
<1>5. IsState(st) /\ IsMem(st.mem) /\ IsDisk(st.disk) /\ StoresDecided(st.mem, st.disk)
  BY <1>4 DEF StateDecided, StoresDecided
<1> DEFINE new == IF a \in Lasting THEN {<<Owner, d>> : d \in f.roots} ELSE {}
           then == IF a = "allow_once" THEN {once} ELSE {}
<1>6. /\ IsMem(mem') /\ IsDisk(disk') /\ disk'.approvals = st.disk.approvals
      /\ mem'.used = st.mem.used /\ mem'.once \subseteq st.mem.once \cup then
      /\ mem'.session = st.mem.session /\ mem'.permanent = st.mem.permanent
      /\ mem'.dirSession \subseteq st.mem.dirSession \cup new
      /\ mem'.dirPermanent \subseteq st.mem.dirPermanent \cup new
      /\ disk'.dirs \subseteq st.disk.dirs \cup st.mem.dirPermanent \cup new
  <2>1. CASE a = "allow_once"
    <3> DEFINE o == st.mem.once \cup {once}
               m == [st.mem EXCEPT !.once = o]
               t == [st EXCEPT !.mem = m]
    <3>1. t = [st EXCEPT !.mem.once = @ \cup {once}]
      OBVIOUS
    <3>2. mem' = t.mem /\ disk' = t.disk
      BY <1>1, <2>1, <3>1
    <3>3. then = {once} /\ new = {}
      BY <2>1 DEF Lasting
    <3> HIDE DEF st, once, then, new
    <3>4. o = st.mem.once \cup then
      BY <3>3
    <3> HIDE DEF o
    <3>5. /\ IsMem(m) /\ m.once = o /\ m.used = st.mem.used
          /\ m.session = st.mem.session /\ m.permanent = st.mem.permanent
          /\ m.dirSession = st.mem.dirSession /\ m.dirPermanent = st.mem.dirPermanent
      BY <1>5 DEF IsMem
    <3> HIDE DEF m
    <3>6. t.mem = m /\ t.disk = st.disk
      BY <1>5 DEF IsState
    <3> HIDE DEF t
    <3> QED BY <1>5, <3>2, <3>4, <3>5, <3>6
  <2>2. CASE a # "allow_once"
    <3> DEFINE roots == f.roots
               t == KeepDirs(st, Owner, roots, a, ok)
               given == IF a \in Lasting THEN {<<Owner, d>> : d \in roots} ELSE {}
    <3>1. mem' = t.mem /\ disk' = t.disk
      BY <1>1, <2>2
    <3>2. given = new
      OBVIOUS
    <3> HIDE DEF st, roots, then
    <3>3. /\ IsMem(t.mem) /\ IsDisk(t.disk) /\ t.disk.approvals = st.disk.approvals
          /\ t.mem.used = st.mem.used /\ t.mem.once = st.mem.once
          /\ t.mem.session = st.mem.session /\ t.mem.permanent = st.mem.permanent
          /\ t.mem.dirSession \subseteq st.mem.dirSession \cup given
          /\ t.mem.dirPermanent \subseteq st.mem.dirPermanent \cup given
          /\ t.disk.dirs \subseteq st.disk.dirs \cup st.mem.dirPermanent \cup given
      BY <1>5, DirsStored
    <3> HIDE DEF t, given, new
    <3> QED BY <3>1, <3>2, <3>3
  <2> QED BY <2>1, <2>2
<1>7. PICK roots, r, o : roots = f.roots /\ r = new /\ o = then
  OBVIOUS
<1>8. RootsDecided(r)' /\ OnceDecided(o)'
  <2>1. /\ forms'[n].call = f.call /\ forms'[n].roots = roots /\ n \in DOMAIN forms'
    BY <1>3, <1>7 DEF Grows
  <2>2. ASSUME NEW x \in o
        PROVE  x.call = forms'[n].call /\ x.roots = forms'[n].roots /\ a = "allow_once"
    BY <1>7, <2>1, <2>2
  <2>3. OnceDecided(o)'
    BY <1>3, <2>1, <2>2 DEF OnceDecided
  <2>4. ASSUME NEW g \in r PROVE a \in Lasting /\ g[1] = Owner /\ g[2] \in roots
    BY <1>7, <2>4
  <2>5. RootsDecided(r)'
    BY <1>2, <1>3, <2>1, <2>4 DEF RootsDecided
  <2> QED BY <2>3, <2>5
<1>9. StoresDecided(mem, disk)'
  <2>1. PICK m, d : m = st.mem /\ d = st.disk
    OBVIOUS
  <2>2. StoresDecided(m, d)'
    BY <1>3, <1>5, <2>1, StoresGrow
  <2> HIDE DEF st, new, then
  <2>5. GrantsDecided(mem.session)' /\ GrantsDecided(mem.permanent)' /\ GrantsDecided(disk.approvals)'
    BY <1>6, <2>1, <2>2 DEF StoresDecided, GrantsDecided
  <2>6. RootsDecided(mem.dirSession)' /\ RootsDecided(mem.dirPermanent)' /\ RootsDecided(disk.dirs)'
    BY <1>6, <1>7, <1>8, <2>1, <2>2 DEF StoresDecided, RootsDecided
  <2>7. OnceDecided(mem.once)'
    BY <1>6, <1>7, <1>8, <2>1, <2>2 DEF StoresDecided, OnceDecided
  <2>8. IsMem(mem)' /\ IsDisk(disk)'
    BY <1>6 DEF IsMem, IsDisk
  <2> QED BY <2>5, <2>6, <2>7, <2>8 DEF StoresDecided
<1> HIDE DEF st
<1> QED BY <1>3, <1>4, <1>6, <1>9 DEF DecisionsInv

LEMMA AgeKeeps ==
  ASSUME DecisionsInv, NEW n \in DOMAIN forms, Age(n), UNCHANGED scenario
  PROVE  /\ DecisionsInv' /\ Grows /\ mem'.used = mem.used
         /\ DOMAIN forms' = DOMAIN forms
         /\ \A k \in DOMAIN forms :
              /\ forms'[k].told = forms[k].told /\ forms'[k].priors = forms[k].priors
              /\ forms'[k].age # forms[k].age => forms[k].age = "fresh" \/ (k \in mem.used /\ forms'[k].age = "stale")
              /\ forms[k].age = "stale" => forms'[k].age = "stale"
<1> DEFINE f == forms[n]
<1>1. PICK g : /\ forms' = [forms EXCEPT ![n].age = g]
               /\ \/ f.age = "fresh" /\ g = "expired"
                  \/ f.age = "expired" /\ g = "stale" /\ n \in mem.used
  BY DEF Age
<1> DEFINE y == [f EXCEPT !.age = g]
<1>2. FormDecided(f) /\ \A k \in DOMAIN forms : FormDecided(forms[k])
  BY DEF DecisionsInv
<1>3. forms' = [forms EXCEPT ![n] = y]
  BY <1>1
<1> HIDE DEF f
<1>4. /\ y.kind = f.kind /\ y.call = f.call /\ y.args = f.args /\ y.subject = f.subject
      /\ y.roots = f.roots /\ y.priors = f.priors /\ y.proof = f.proof /\ y.age = g
      /\ y.answer = f.answer /\ y.told = f.told
      /\ y = [kind |-> y.kind, call |-> y.call, args |-> y.args, subject |-> y.subject, roots |-> y.roots,
              priors |-> y.priors, proof |-> y.proof, answer |-> y.answer, told |-> y.told, age |-> y.age]
  BY <1>2 DEF FormDecided, IsForm
<1> HIDE DEF y
<1>5. /\ forms' \in Seq(ToSet(forms')) /\ DOMAIN forms' = DOMAIN forms
      /\ \A k \in DOMAIN forms : forms'[k] = IF k = n THEN y ELSE forms[k]
  BY <1>3, ExceptToSet DEF DecisionsInv
<1>6. Grows
  BY <1>4, <1>5 DEF Grows, f
<1>7. FormDecided(y)
  BY <1>2, <1>4 DEF FormDecided, IsForm
<1>8. ASSUME NEW k \in DOMAIN forms PROVE FormDecided(forms[k])'
  <2>1. PICK x : x = forms'[k]
    OBVIOUS
  <2>2. FormDecided(x)
    BY <1>2, <1>5, <1>7, <2>1
  <2>3. FormDecided(x)'
    BY <1>6, <2>2, FormGrows
  <2> QED BY <2>1, <2>3
<1>9. PICK o : mem' = [mem EXCEPT !.once = o] /\ o \subseteq mem.once
  BY DEF Age
<1>10. /\ IsMem(mem') /\ mem'.once = o /\ mem'.used = mem.used
       /\ mem'.session = mem.session /\ mem'.permanent = mem.permanent
       /\ mem'.dirSession = mem.dirSession /\ mem'.dirPermanent = mem.dirPermanent
  BY <1>9 DEF DecisionsInv, StoresDecided, IsMem
<1>11. StoresDecided(mem, disk)'
  <2>1. PICK m, d : m = mem /\ d = disk
    OBVIOUS
  <2>2. StoresDecided(m, d)'
    BY <1>6, <2>1, StoresGrow DEF DecisionsInv
  <2>3. UNCHANGED disk
    BY DEF Age
  <2> QED BY <1>9, <1>10, <2>1, <2>2, <2>3
          DEF StoresDecided, IsMem, IsDisk, GrantsDecided, RootsDecided, OnceDecided
<1>12. ASSUME NEW k \in DOMAIN forms
       PROVE  /\ forms'[k].told = forms[k].told /\ forms'[k].priors = forms[k].priors
              /\ forms'[k].age # forms[k].age => forms[k].age = "fresh" \/ (k \in mem.used /\ forms'[k].age = "stale")
              /\ forms[k].age = "stale" => forms'[k].age = "stale"
  BY <1>1, <1>4, <1>5 DEF f
<1> QED BY <1>5, <1>6, <1>8, <1>10, <1>11, <1>12 DEF DecisionsInv

LEMMA RestartKeeps ==
  ASSUME DecisionsInv, Restart, UNCHANGED scenario
  PROVE  DecisionsInv'
<1>1. StoresDecided(mem', disk')
  BY DEF Restart, Loaded, DecisionsInv, StoresDecided, IsMem, IsDisk, GrantsDecided, RootsDecided, OnceDecided
<1> QED BY <1>1, SameForms DEF Restart

LEMMA RevokeKeeps ==
  ASSUME DecisionsInv, Revoke, UNCHANGED scenario
  PROVE  DecisionsInv' /\ Grows /\ UNCHANGED <<mem, forms>>
<1>1. PICK a \in SUBSET disk.approvals, d \in SUBSET disk.dirs : disk' = [approvals |-> a, dirs |-> d]
  BY DEF Revoke
<1>2. StoresDecided(mem', disk')
  BY <1>1 DEF Revoke, DecisionsInv, StoresDecided, IsDisk, GrantsDecided, RootsDecided
<1> QED BY <1>2, SameForms DEF Revoke

LEMMA StoresUnchangedKeep ==
  ASSUME DecisionsInv, UNCHANGED <<scenario, mem, disk, forms>>
  PROVE  DecisionsInv' /\ Grows
<1>1. StoresDecided(mem', disk')
  BY DEF DecisionsInv
<1> QED BY <1>1, SameForms
(***************************************************************************)
(* The invariant of decisions: every grant in memory and in the files, the *)
(* proofs and the earlier subjects of every form come from an answer       *)
(* somebody gave.                                                          *)
(***************************************************************************)
LEMMA DecisionsStart == Init => DecisionsInv
<1> SUFFICES ASSUME Init PROVE DecisionsInv
  OBVIOUS
<1>1. /\ mem = [used |-> {}, session |-> {}, permanent |-> {},
                dirSession |-> {}, dirPermanent |-> {}, once |-> {}]
      /\ disk = [approvals |-> {}, dirs |-> {}]
      /\ forms = <<>> /\ scenario \in Scenarios
  BY DEF Init, AInit, Loaded
<1>2. StoresDecided(mem, disk)
  BY <1>1 DEF StoresDecided, IsMem, IsDisk, GrantsDecided, RootsDecided, OnceDecided
<1> QED BY <1>1, <1>2 DEF DecisionsInv, ToSet

LEMMA DecisionsKept == ASSUME DecisionsInv, [Next]_vars PROVE DecisionsInv'
<1>1. ASSUME NEW c \in scenario.calls, Request(c) PROVE DecisionsInv'
  <2>1. Needs(c)
    BY CallsAssumption DEF DecisionsInv
  <2>2. PICK q \in Requests(c) : Keep(Decided(q))
    BY <1>1 DEF Request
  <2>3. UNCHANGED scenario
    BY <1>1 DEF Request
  <2> QED BY <2>1, <2>2, <2>3, RequestKeeps
<1>2. ASSUME NEW n \in DOMAIN forms, Answers(n) PROVE DecisionsInv'
  BY <1>2, AnswerKeeps DEF Answers, Idle
<1>3. ASSUME NEW n \in DOMAIN forms, Submits(n) PROVE DecisionsInv'
  BY <1>3, SubmitKeeps DEF Submits, Idle
<1>4. ASSUME NEW n \in DOMAIN forms, Happens("age", Age(n)) PROVE DecisionsInv'
  BY <1>4, AgeKeeps DEF Happens, Idle
<1>5. ASSUME NEW r \in Roots, Happens("edit", Edited(r)) PROVE DecisionsInv'
  BY <1>5, StoresUnchangedKeep DEF Happens, Idle, Edited
<1>6. CASE Happens("revoke", Revoke)
  BY <1>6, RevokeKeeps DEF Happens, Idle
<1>7. CASE Restarts
  BY <1>7, RestartKeeps DEF Restarts
<1>8. CASE UNCHANGED <<scenario, approvals>>
  BY <1>8, StoresUnchangedKeep DEF approvals
<1>9. CASE UNCHANGED vars
  BY <1>8, <1>9 DEF vars
<1>10. ASSUME NEW c \in scenario.calls, BeginServer(c) \/ PortProbed(c), UNCHANGED approvals, Idle
       PROVE  DecisionsInv'
  BY <1>8, <1>10 DEF Idle
<1>11. ASSUME NEW i \in DOMAIN tasks, Start(i) \/ End(i), UNCHANGED approvals, Idle
       PROVE  DecisionsInv'
  BY <1>8, <1>11 DEF Idle
<1> QED BY <1>1, <1>2, <1>3, <1>4, <1>5, <1>6, <1>7, <1>8, <1>9, <1>10, <1>11 DEF Next

(* What the stores and the forms say is allowed, a person has allowed      *)
(* (approvalStore.ts 52-153, directoryGrantStore.ts 148-270).              *)
THEOREM DecisionsInvariant == Spec => []DecisionsInv
<1>1. Init => DecisionsInv
  BY DecisionsStart
<1>2. DecisionsInv /\ [Next]_vars => DecisionsInv'
  BY DecisionsKept
<1> QED BY <1>1, <1>2, PTL DEF Spec

(***************************************************************************)
(* Whatever a request acts on, whether the directories, files, commands    *)
(* and origins of the call or a git command, was allowed by its user: with *)
(* ALLOWED_DIRS, for this call, or for good for the same user and tool     *)
(* (approval.ts 78-104, directoryAuthorization.ts 74-82).                   *)
(***************************************************************************)
THEOREM DecisionsRespected == Spec => []ActsOnDecisions
<1>1. DecisionsInv => ActsOnDecisions
  BY DecisionsActedOn
<1> QED BY <1>1, DecisionsInvariant, PTL
-----------------------------------------------------------------------------
(* Decisions for one use.  A task of a tool whose decisions are for one    *)
(* use is enqueued when a form, not used before, is used; the form stays   *)
(* used, or goes stale, and cannot let a second task through.  There is    *)
(* nothing before the one subject of such a tool, so its forms name none,  *)
(* and a form of it cannot pass without being used.                        *)
Spent(n) == n \in mem.used \/ forms[n].age = "stale"
SpentForms(c) ==
  {n \in DOMAIN forms : /\ forms[n].kind = "operation" /\ forms[n].call = c
                        /\ "allow_once" \in forms[n].told /\ Spent(n)}
TasksOf(c) == {i \in DOMAIN tasks : tasks[i].call = c}

OnceInv ==
  /\ \A c \in starting : Call[c].effect = <<"server">>
  /\ \A n \in DOMAIN forms : Call[forms[n].call].single => forms[n].priors = {}
  /\ "restart" \notin scenario.events =>
       \A c \in scenario.calls : Call[c].single =>
         Cardinality(TasksOf(c)) <= Cardinality(SpentForms(c))

(* What a request of such a tool comes to.                                 *)
LEMMA OncePassed ==
  ASSUME DecisionsInv, NEW c, Call[c].single, NEW q \in Requests(c), NEW st, StateDecided(st, c),
         NEW s, Operation(st, q, s).out = "allowed"
  PROVE  q.form # NoForm /\ forms[q.form].kind = "operation"
<1> SUFFICES ASSUME ~(q.form # NoForm /\ forms[q.form].kind = "operation") PROVE FALSE
  OBVIOUS
<1> DEFINE form == Form("operation", q, OpArgs(q), s, {}, st)
<1>1. q.call = c
  BY RequestForms
<1>2. Operation(st, q, s) = Ask(st, form) \/ Operation(st, q, s) = Refuse(st)
  BY <1>1 DEF Operation
<1>3. form.call = c /\ FormDecided(form)
  BY <1>1, FormMade
<1> HIDE DEF form
<1>4. Ask(st, form).out = "asked"
  BY <1>3, Asked
<1>5. Refuse(st).out = "refused"
  BY Rejected
<1> QED BY <1>2, <1>4, <1>5

LEMMA OnceDecision ==
  ASSUME DecisionsInv, NEW c, Needs(c), Call[c].single, NEW q \in Requests(c),
         \A n \in DOMAIN forms : Call[forms[n].call].single => forms[n].priors = {}
  PROVE  LET st == Decided(q)  n == q.form IN
         /\ st.out = "asked" => st.form.priors = {}
         /\ st.out = "allowed" =>
              /\ n \in DOMAIN forms /\ forms[n].kind = "operation" /\ forms[n].call = c
              /\ "allow_once" \in forms[n].told /\ forms[n].age = "fresh"
              /\ n \in st.mem.used /\ n \notin mem.used
<1> DEFINE dirs == Directory(Begun, q)
           s == Subjects(c)[1]
           t == Operation(dirs, q, s)
<1>1. q.call = c
  BY RequestForms
<1>2. Len(Call[c].subjects) = 1 /\ ~Call[c].confirms /\ ~Call[c].question
  <2>1. /\ Len(Call[c].subjects) = 1
        /\ Call[c].confirms \/ Call[c].question => Call[c].subjects = <<>>
    BY DEF Needs
  <2>2. Len(<<>>) = 0
    OBVIOUS
  <2> QED BY <2>1, <2>2
<1>3. Len(Subjects(c)) = 1
  BY <1>2, SubjectsOfCalls
<1>4. /\ StateDecided(Begun, c) /\ Begun.out = "allowed" /\ Begun.mem = mem
      /\ Begun.passed = <<>> /\ ToSet(<<>>) = {}
  <2>1. ToSet(<<>>) = {} /\ <<>> \in Seq({})
    BY DEF ToSet
  <2> QED BY <2>1 DEF StateDecided, IsState, DecisionsInv, Begun
<1>5. /\ StateDecided(dirs, c) /\ dirs.passed = <<>> /\ dirs.out \in {"allowed", "asked", "refused"}
      /\ q.form # NoForm /\ forms[q.form].kind # "directory" => dirs.mem.used = mem.used
      /\ dirs.out = "asked" => dirs.form.priors = {}
  BY <1>4, DirectoryDecided
<1>6. Decided(q) = IF dirs.out # "allowed" THEN dirs ELSE Rounds(dirs, q)[1]
  BY <1>1, <1>2, <1>3 DEF Decided
<1>7. Rounds(dirs, q)[1] = IF dirs.out = "allowed" THEN t ELSE dirs
  <2>1. PICK l, b : l \in Nat /\ l = Len(Subjects(c)) /\ b = dirs
    BY <1>3
  <2> HIDE DEF dirs, t
  <2>2. /\ Rounds(b, q)[0] = b
        /\ \A n \in 1..l : Rounds(b, q)[n] = After(b, q, n, Rounds(b, q)[n - 1])
    <3>1. l = Len(Subjects(q.call))
      BY <1>1, <2>1
    <3>2. l \in Nat
      BY <2>1
    <3> QED BY ONLY <3>1, <3>2, RoundsAre
  <2>3. Rounds(b, q)[1] = After(b, q, 1, b)
    <3>1. l = 1
      BY <1>3, <2>1
    <3> QED BY <2>2, <3>1
  <2> QED BY <1>1, <2>1, <2>3 DEF After, t
<1> HIDE DEF dirs, s
<1>8. CASE dirs.out # "allowed"
  BY <1>5, <1>6, <1>8
<1>9. CASE dirs.out = "allowed"
  <2>1. Decided(q) = t
    BY <1>6, <1>7, <1>9
  <2>2. /\ t.out = "asked" => t.form.priors = ToSet(dirs.passed)
        /\ t.out = "allowed" /\ forms[q.form].priors = {} =>
             /\ q.form \in DOMAIN forms /\ forms[q.form].kind = "operation" /\ forms[q.form].call = c
             /\ q.form \in t.mem.used /\ q.form \notin dirs.mem.used
             /\ "allow_once" \in forms[q.form].told
    BY <1>5, <1>9, OperationDecided
  <2>3. t.out = "allowed" => q.form # NoForm /\ forms[q.form].kind = "operation"
    BY <1>5, OncePassed
  <2> HIDE DEF t
  <2>4. q.form # NoForm =>
          /\ q.form \in DOMAIN forms /\ forms[q.form].call = c /\ forms[q.form].age = "fresh"
    BY RequestForms
  <2> QED BY <1>4, <1>5, <2>1, <2>2, <2>3, <2>4
<1> QED BY <1>8, <1>9

(* Forms go on being used, and new ones name nothing before their subject. *)
Progress ==
  /\ Grows
  /\ \A n \in DOMAIN forms : forms'[n].priors = forms[n].priors /\ (Spent(n) => Spent(n)')
  /\ \A n \in DOMAIN forms' \ DOMAIN forms :
       Call[forms'[n].call].single => forms'[n].priors = {}

LEMMA RequestProgress ==
  ASSUME DecisionsInv, NEW c, Needs(c), NEW q \in Requests(c), Keep(Decided(q)), UNCHANGED scenario,
         \A n \in DOMAIN forms : Call[forms[n].call].single => forms[n].priors = {}
  PROVE  Progress /\ mem' = Decided(q).mem
<1> DEFINE st == Decided(q)
<1>1. /\ StateDecided(st, c) /\ Retains(mem.used, st.mem.used)
      /\ st.out \in {"allowed", "asked", "refused"}
  BY CallDecided
<1>2. mem' = st.mem /\ forms' = IF st.out = "asked" THEN Append(forms, st.form) ELSE forms
  BY DEF Keep
<1>3. Call[c].single /\ st.out = "asked" => st.form.priors = {}
  BY OnceDecision
<1>4. Grows
  BY RequestKeeps
<1> HIDE DEF st
<1>5. PICK x : x = st.form
  OBVIOUS
<1>6. \/ forms' = forms
      \/ /\ \A n \in DOMAIN forms : forms'[n] = forms[n]
         /\ \A n \in DOMAIN forms' \ DOMAIN forms : forms'[n] = x /\ st.out = "asked"
  <2>1. LET t == Append(forms, x) IN
        /\ DOMAIN forms = 1..Len(forms) /\ Len(forms) \in Nat /\ DOMAIN t = 1..(Len(forms) + 1)
        /\ \A n \in DOMAIN forms : t[n] = forms[n]
        /\ t[Len(forms) + 1] = x
    BY AppendToSet DEF DecisionsInv
  <2>2. forms' = forms \/ (st.out = "asked" /\ forms' = Append(forms, x))
    BY <1>2, <1>5
  <2>3. ASSUME st.out = "asked", forms' = Append(forms, x), NEW n \in DOMAIN forms' \ DOMAIN forms
        PROVE  forms'[n] = x
    BY <2>1, <2>3
  <2> QED BY <2>1, <2>2, <2>3
<1>7. st.out = "asked" => st.form.call = c
  BY <1>1 DEF StateDecided
<1>8. ASSUME NEW n \in DOMAIN forms PROVE forms'[n] = forms[n]
  BY <1>6
<1>9. ASSUME NEW n \in DOMAIN forms, Spent(n) PROVE Spent(n)'
  BY <1>1, <1>2, <1>8, <1>9 DEF Spent, Retains
<1>10. ASSUME NEW n \in DOMAIN forms' \ DOMAIN forms, Call[forms'[n].call].single
       PROVE  forms'[n].priors = {}
  BY <1>3, <1>5, <1>6, <1>7, <1>10
<1> QED BY <1>2, <1>4, <1>8, <1>9, <1>10 DEF Progress, st

LEMMA AnswerProgress ==
  ASSUME DecisionsInv, NEW n \in DOMAIN forms, Answer(n) PROVE Progress
<1>1. PICK a \in AnswersTo(forms[n]) : forms' = Marked(n, a)
  BY DEF Answer
<1>2. a \in Decisions
  BY DEF AnswersTo, Decisions, Allows, Lasting
<1>3. /\ Grows /\ DOMAIN forms' = DOMAIN forms
      /\ \A k \in DOMAIN forms : forms'[k].age = forms[k].age /\ forms'[k].priors = forms[k].priors
  BY <1>1, <1>2, MarkedForms
<1> QED BY <1>3 DEF Progress, Spent, Answer

LEMMA SubmitProgress ==
  ASSUME DecisionsInv, NEW n \in DOMAIN forms, Submit(n), UNCHANGED scenario PROVE Progress
<1>1. PICK a \in Allows \cup {"deny"} : forms' = Marked(n, a)
  BY DEF Submit
<1>2. a \in Decisions
  BY DEF Decisions, Allows, Lasting
<1>3. /\ Grows /\ DOMAIN forms' = DOMAIN forms
      /\ \A k \in DOMAIN forms : forms'[k].age = forms[k].age /\ forms'[k].priors = forms[k].priors
  BY <1>1, <1>2, MarkedForms
<1>4. Retains(mem.used, mem'.used)
  BY SubmitKeeps
<1> QED BY <1>3, <1>4 DEF Progress, Spent, Retains

LEMMA AgeProgress ==
  ASSUME DecisionsInv, NEW n \in DOMAIN forms, Age(n), UNCHANGED scenario PROVE Progress
<1>1. /\ Grows /\ mem'.used = mem.used /\ DOMAIN forms' = DOMAIN forms
      /\ \A k \in DOMAIN forms :
           /\ forms'[k].priors = forms[k].priors
           /\ forms[k].age = "stale" => forms'[k].age = "stale"
  BY AgeKeeps
<1> QED BY <1>1 DEF Progress, Spent

LEMMA SameProgress ==
  ASSUME UNCHANGED <<mem, forms>> PROVE Progress
BY DEF Progress, Grows, Spent

(* Every step but a restart makes such progress.                           *)
LEMMA StepsProgress ==
  ASSUME DecisionsInv, OnceInv, [Next]_vars PROVE Progress \/ Restarts
<1>1. ASSUME NEW c \in scenario.calls, Request(c) PROVE Progress
  <2>1. Needs(c)
    BY CallsAssumption DEF DecisionsInv
  <2>2. PICK q \in Requests(c) : Keep(Decided(q))
    BY <1>1 DEF Request
  <2>3. UNCHANGED scenario
    BY <1>1 DEF Request
  <2> QED BY <2>1, <2>2, <2>3, RequestProgress DEF OnceInv
<1>2. ASSUME NEW n \in DOMAIN forms, Answers(n) PROVE Progress
  BY <1>2, AnswerProgress DEF Answers
<1>3. ASSUME NEW n \in DOMAIN forms, Submits(n) PROVE Progress
  BY <1>3, SubmitProgress DEF Submits, Idle
<1>4. ASSUME NEW n \in DOMAIN forms, Happens("age", Age(n)) PROVE Progress
  BY <1>4, AgeProgress DEF Happens, Idle
<1>5. ASSUME NEW r \in Roots, Happens("edit", Edited(r)) PROVE Progress
  BY <1>5, SameProgress DEF Happens, Edited
<1>6. CASE Happens("revoke", Revoke)
  BY <1>6, SameProgress DEF Happens, Revoke
<1>7. CASE UNCHANGED approvals
  BY <1>7, SameProgress DEF approvals
<1>8. CASE UNCHANGED vars
  BY <1>7, <1>8 DEF vars
<1> QED BY <1>1, <1>2, <1>3, <1>4, <1>5, <1>6, <1>7, <1>8 DEF Next
(* The tasks of a call, and the forms used for it.                         *)
LEMMA SetsFinite ==
  ASSUME DecisionsInv, SessionsInv, NEW c
  PROVE  /\ IsFiniteSet(TasksOf(c)) /\ Cardinality(TasksOf(c)) \in Nat
         /\ IsFiniteSet(SpentForms(c)) /\ Cardinality(SpentForms(c)) \in Nat
<1>1. DOMAIN tasks = 1..Len(tasks) /\ Len(tasks) \in Nat
  BY DEF SessionsInv
<1>2. DOMAIN forms = 1..Len(forms) /\ Len(forms) \in Nat
  BY DEF DecisionsInv
<1>3. TasksOf(c) \subseteq 1..Len(tasks) /\ SpentForms(c) \subseteq 1..Len(forms)
  BY <1>1, <1>2 DEF TasksOf, SpentForms
<1>4. IsFiniteSet(1..Len(tasks)) /\ IsFiniteSet(1..Len(forms))
  BY <1>1, <1>2, FS_Interval
<1>5. IsFiniteSet(TasksOf(c)) /\ IsFiniteSet(SpentForms(c))
  BY <1>3, <1>4, FS_Subset
<1> QED BY <1>5, FS_CardinalityType

LEMMA SpentGrows ==
  ASSUME Progress, NEW c PROVE SpentForms(c) \subseteq SpentForms(c)'
<1>1. ASSUME NEW n \in SpentForms(c) PROVE n \in SpentForms(c)'
  BY <1>1 DEF SpentForms, Progress, Grows
<1> QED BY <1>1

LEMMA EnqueuedTasks ==
  ASSUME SessionsInv, NEW k, Enqueue(k), NEW c
  PROVE  TasksOf(c)' = TasksOf(c) \/ (k = c /\ \E i : TasksOf(c)' = TasksOf(c) \cup {i})
<1> DEFINE S == TaskRecords \cup {[call |-> k, state |-> "queued"]}
<1>1. PICK x : x = [call |-> k, state |-> "queued"]
  OBVIOUS
<1>2. tasks \in Seq(S) /\ x \in S /\ tasks' = Append(tasks, x)
  BY <1>1 DEF SessionsInv, Enqueue
<1> HIDE DEF S
<1>3. /\ DOMAIN tasks = 1..Len(tasks) /\ Len(tasks) \in Nat
      /\ DOMAIN tasks' = 1..(Len(tasks) + 1) /\ tasks'[Len(tasks) + 1] = x
      /\ \A i \in DOMAIN tasks : tasks'[i] = tasks[i]
  BY <1>2, AppendProperties
<1>4. TasksOf(c)' = TasksOf(c) \cup (IF k = c THEN {Len(tasks) + 1} ELSE {})
  BY <1>1, <1>3 DEF TasksOf
<1> QED BY <1>4

LEMMA MovedTasks ==
  ASSUME SessionsInv, NEW i \in DOMAIN tasks, Start(i) \/ End(i), NEW c
  PROVE  TasksOf(c)' = TasksOf(c)
<1>1. PICK x : tasks' = [tasks EXCEPT ![i].state = x]
  BY DEF Start, End
<1>2. DOMAIN tasks' = DOMAIN tasks /\ \A j \in DOMAIN tasks : tasks'[j].call = tasks[j].call
  BY <1>1 DEF SessionsInv, TaskRecords
<1> QED BY <1>2 DEF TasksOf

(* A task more only when a form is used that was not used before.          *)
LEMMA TasksOfOne ==
  ASSUME DecisionsInv, SessionsInv, OnceInv, [Next]_vars, NEW c \in scenario.calls, Call[c].single
  PROVE  \/ TasksOf(c)' = TasksOf(c)
         \/ /\ \E i : TasksOf(c)' = TasksOf(c) \cup {i}
            /\ \E n : n \in SpentForms(c)' /\ n \notin SpentForms(c)
<1>1. Needs(c) /\ Call[c].effect # <<"server">>
  BY CallsAssumption DEF DecisionsInv, Needs
<1>2. CASE UNCHANGED tasks
  BY <1>2 DEF TasksOf
<1>3. ASSUME NEW k \in scenario.calls, Request(k), ~UNCHANGED tasks
      PROVE  \/ TasksOf(c)' = TasksOf(c)
             \/ /\ \E i : TasksOf(c)' = TasksOf(c) \cup {i}
                /\ \E n : n \in SpentForms(c)' /\ n \notin SpentForms(c)
  <2>1. PICK q \in Requests(k) :
          /\ Keep(Decided(q))
          /\ IF Decided(q).out = "allowed" THEN Effect(k) ELSE UNCHANGED <<tree, queue, workspaces>>
    BY <1>3 DEF Request
  <2>2. Decided(q).out = "allowed" /\ Effect(k)
    BY <1>3, <2>1 DEF queue
  <2>3. Enqueue(k)
    BY <1>3, <2>2, EffectCases DEF queue
  <2>4. CASE k = c
    <3>1. UNCHANGED scenario
      BY <1>3 DEF Request
    <3>2. Progress /\ mem' = Decided(q).mem
      BY <1>1, <2>1, <2>4, <3>1, RequestProgress DEF OnceInv
    <3>3. PICK n : n = q.form
      OBVIOUS
    <3>4. /\ n \in DOMAIN forms /\ forms[n].kind = "operation" /\ forms[n].call = c
          /\ "allow_once" \in forms[n].told /\ forms[n].age = "fresh"
          /\ n \in Decided(q).mem.used /\ n \notin mem.used
      BY <1>1, <2>2, <2>4, <3>3, OnceDecision DEF OnceInv
    <3>5. n \in SpentForms(c)'
      BY <3>2, <3>4 DEF SpentForms, Spent, Progress, Grows
    <3>6. n \notin SpentForms(c)
      BY <3>4 DEF SpentForms, Spent
    <3> QED BY <2>3, <3>5, <3>6, EnqueuedTasks
  <2>5. CASE k # c
    BY <2>3, <2>5, EnqueuedTasks
  <2> QED BY <2>4, <2>5
<1>4. ASSUME NEW k \in scenario.calls, PortProbed(k) PROVE TasksOf(c)' = TasksOf(c)
  <2>1. k # c
    BY <1>1, <1>4 DEF PortProbed, OnceInv
  <2>2. UNCHANGED tasks \/ Enqueue(k)
    BY <1>4 DEF PortProbed
  <2> QED BY <1>2, <2>1, <2>2, EnqueuedTasks DEF TasksOf
<1>5. ASSUME NEW i \in DOMAIN tasks, Start(i) \/ End(i) PROVE TasksOf(c)' = TasksOf(c)
  BY <1>5, MovedTasks
<1>6. \/ UNCHANGED tasks
      \/ \E k \in scenario.calls : Request(k) \/ PortProbed(k)
      \/ \E i \in DOMAIN tasks : Start(i) \/ End(i)
  BY DEF Next, vars, queue, Answers, Submits, Happens, Restarts, Idle, BeginServer
<1> QED BY <1>2, <1>3, <1>4, <1>5, <1>6

LEMMA OnceKept == ASSUME DecisionsInv, SessionsInv, OnceInv, [Next]_vars PROVE OnceInv'
<1>1. UNCHANGED scenario
  BY DEF Next, vars, Request, Answers, Submits, Happens, Restarts, Idle
<1>2. DecisionsInv' /\ SessionsInv'
  BY DecisionsKept, SessionsKept
<1>3. \A c \in starting' : Call[c].effect = <<"server">>
  BY QueueSteps DEF OnceInv, queue, BeginServer, PortProbed, Start, End
<1>4. ASSUME NEW n \in DOMAIN forms', Call[forms'[n].call].single PROVE forms'[n].priors = {}
  <2>1. CASE Progress
    BY <1>4, <2>1 DEF Progress, Grows, OnceInv
  <2>2. CASE Restarts
    BY <1>4, <2>2 DEF Restarts, Restart, OnceInv
  <2> QED BY <2>1, <2>2, StepsProgress
<1>5. ASSUME "restart" \notin scenario.events, NEW c \in scenario.calls, Call[c].single
      PROVE  Cardinality(TasksOf(c)') <= Cardinality(SpentForms(c)')
  <2>1. Progress
    BY <1>5, StepsProgress DEF Restarts
  <2>2. PICK T, S, t, s : T = TasksOf(c) /\ S = SpentForms(c) /\ t = TasksOf(c)' /\ s = SpentForms(c)'
    OBVIOUS
  <2>3. /\ IsFiniteSet(T) /\ Cardinality(T) \in Nat /\ IsFiniteSet(S) /\ Cardinality(S) \in Nat
        /\ Cardinality(T) <= Cardinality(S)
    BY <1>5, <2>2, SetsFinite DEF OnceInv
  <2>4. IsFiniteSet(s) /\ Cardinality(s) \in Nat
    <3>1. DOMAIN forms' = 1..Len(forms') /\ Len(forms') \in Nat
      BY <1>2 DEF DecisionsInv
    <3>2. s \subseteq 1..Len(forms')
      BY <2>2, <3>1 DEF SpentForms
    <3>3. IsFiniteSet(1..Len(forms'))
      BY <3>1, FS_Interval
    <3> QED BY <3>2, <3>3, FS_Subset, FS_CardinalityType
  <2>5. S \subseteq s
    BY <2>1, <2>2, SpentGrows
  <2>6. CASE t = T
    BY <2>2, <2>3, <2>4, <2>5, <2>6, FS_Subset
  <2>7. ASSUME NEW i, t = T \cup {i}, NEW n, n \in s, n \notin S
        PROVE  Cardinality(t) <= Cardinality(s)
    <3>1. /\ IsFiniteSet(T \cup {i})
          /\ Cardinality(T \cup {i}) = IF i \in T THEN Cardinality(T) ELSE Cardinality(T) + 1
      BY <2>3, FS_AddElement
    <3>2. IsFiniteSet(S \cup {n}) /\ Cardinality(S \cup {n}) = Cardinality(S) + 1
      BY <2>3, <2>7, FS_AddElement
    <3>3. S \cup {n} \subseteq s
      BY <2>5, <2>7
    <3>4. Cardinality(S \cup {n}) <= Cardinality(s)
      BY <2>4, <3>3, FS_Subset
    <3> QED BY <2>3, <2>4, <2>7, <3>1, <3>2, <3>4
  <2>8. t = T \/ ((\E i : t = T \cup {i}) /\ (\E n : n \in s /\ n \notin S))
    <3>1. \/ TasksOf(c)' = TasksOf(c)
          \/ /\ \E i : TasksOf(c)' = TasksOf(c) \cup {i}
             /\ \E n : n \in SpentForms(c)' /\ n \notin SpentForms(c)
      BY <1>5, TasksOfOne
    <3> QED BY <2>2, <3>1
  <2> QED BY <2>2, <2>6, <2>7, <2>8
<1> QED BY <1>1, <1>3, <1>4, <1>5 DEF OnceInv, TasksOf, SpentForms, Spent

LEMMA OnceStart == Init => OnceInv
<1> SUFFICES ASSUME Init PROVE OnceInv
  OBVIOUS
<1>1. starting = {} /\ forms = <<>> /\ tasks = <<>>
  BY DEF Init, AInit, TInit
<1>2. ASSUME NEW c PROVE TasksOf(c) = {} /\ SpentForms(c) = {}
  BY <1>1 DEF TasksOf, SpentForms
<1>3. Cardinality({}) = 0
  BY FS_EmptySet
<1>4. ASSUME NEW c PROVE Cardinality(TasksOf(c)) <= Cardinality(SpentForms(c))
  <2>1. TasksOf(c) = {} /\ SpentForms(c) = {}
    BY <1>2
  <2> QED BY <1>3, <2>1
<1> QED BY <1>1, <1>4 DEF OnceInv

(***************************************************************************)
(* A tool whose decisions are for one use has enqueued at most one task    *)
(* for each form that allowed it once, however often its call was sent     *)
(* again and however the forms aged, unless the server was restarted, when *)
(* it forgets the forms used (approval.ts 40-53, 161-170).                 *)
(***************************************************************************)
THEOREM OneTaskEach == Spec => []OneDecisionOneTask
<1> DEFINE Inv == DecisionsInv /\ SessionsInv
<1>1. Spec => []Inv
  BY DecisionsInvariant, SessionsInvariant, PTL
<1>2. Init => OnceInv
  BY OnceStart
<1>3. Inv /\ OnceInv /\ [Next]_vars => OnceInv'
  BY OnceKept
<1>4. Inv /\ OnceInv => OneDecisionOneTask
  <2> SUFFICES ASSUME DecisionsInv, SessionsInv, OnceInv, NEW c \in scenario.calls,
                      Call[c].single, "restart" \notin scenario.events
               PROVE  Cardinality({i \in DOMAIN tasks : tasks[i].call = c})
                        <= Cardinality({n \in DOMAIN forms : Told(n, c, {"allow_once"})})
    BY DEF OneDecisionOneTask
  <2>1. PICK T, S, A : /\ T = TasksOf(c) /\ S = SpentForms(c)
                       /\ A = {n \in DOMAIN forms : Told(n, c, {"allow_once"})}
    OBVIOUS
  <2>2. /\ Cardinality(T) \in Nat /\ Cardinality(S) \in Nat /\ Cardinality(T) <= Cardinality(S)
    BY <2>1, SetsFinite DEF OnceInv
  <2>3. S \subseteq A
    BY <2>1 DEF SpentForms, Told
  <2>4. IsFiniteSet(A) /\ Cardinality(A) \in Nat
    <3>1. DOMAIN forms = 1..Len(forms) /\ Len(forms) \in Nat
      BY DEF DecisionsInv
    <3>2. A \subseteq 1..Len(forms)
      BY <2>1, <3>1
    <3>3. IsFiniteSet(1..Len(forms))
      BY <3>1, FS_Interval
    <3> QED BY <3>2, <3>3, FS_Subset, FS_CardinalityType
  <2>5. Cardinality(S) <= Cardinality(A)
    BY <2>3, <2>4, FS_Subset
  <2> QED BY <2>1, <2>2, <2>4, <2>5 DEF TasksOf
<1> HIDE DEF Inv
<1> QED BY <1>1, <1>2, <1>3, <1>4, PTL DEF Spec

=============================================================================
