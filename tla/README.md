# Verification project for feishu_mcp

`feishu_mcp` is an MCP server (TypeScript, Node) that lets a remote client read
and edit files, run commands and patches, and run long development tasks
(builds, tests, local servers, Android device verification) on one Windows
machine. This directory holds TLA+ models of the parts of it whose correctness
depends on *order*: who runs when, what a crash leaves behind, what two
processes do to one file. TLC checks the models on small instances; TLAPS
proves the most important properties of the task system, of the gates, the
patches, the transfers, the artifact store, the logs, the Android workflow and the tool
calls (decisions, files, sessions, contexts) and of the plans for the
environment for every number of tasks, calls, plans, texts, resources and limits.

Contents: 1 inventory, 2 the models, 3 the runs, 4 what is proved, 5 where the
sources and the code disagree, 6 what is not modelled, and what could come next.

Paths below are relative to the repository.

## 1. Inventory

The server is one Node process: synchronous code is atomic with respect to the
process's other callbacks, and every `await`, timer or child process is a point
where something else may run. Detached worker processes, child processes, the
administrator broker and (briefly, at restarts) a second server process share
files with it.

| component | state it keeps | operations | interacts with | what is hard | what makes it correct |
|---|---|---|---|---|---|
| development task scheduler (`development/tasks/scheduler.ts`) | active and waiting tasks, resource counts, class counters | `run`, `adopt`, `cancel`, queue timer, settlement | called by the coordinator | counters updated on several paths; settlement, timeout and cancel in any order | exact counters, exclusion, caps, no lost wake-up, order of rivals |
| coordinator, worker, store, protocol (`development/tasks/`) | `metadata.json`, launch spec, token, heartbeat, cancel file; in memory the scheduler, child handles, poll state; in the worker its flags and its tool process | `enqueue`, dispatch, `cancel`, poll, `recover`, `cleanup`; the worker's start, timers, verdict | three kinds of processes over files | lost updates, crashes between steps, late answers, stale heartbeats | at most one tool per task, lease outlives the tool, verdict after the tool, every task ends |
| task logs (`tasks/redaction.ts`, `worker.ts`, `tools/developmentTasks.ts`) | the held back tail; log files; a client's cursor | a chunk of the pipe, flush, read a slice | the worker, a client that reads while the log grows | cuts by the pipe, by bytes and by lines, anywhere | what reaches the log is what arrived, redacted as a whole; a reader gets every character once |
| text transfers (`textTransfers/service.ts`, `tools/textTransfer.ts`) | per session: `session.json`, `content.partial`, receipts | `begin`, `append`, `inspect`, `verify`, `commit`, `discard`, expiry | files; a retrying client | crash between any two file operations | acknowledged chunks are a prefix of the content, each once; verified means as declared |
| binary artifacts (`artifacts/`) | upload sessions, content-addressed objects | `begin`, `append`, `commit`, import, materialize | files; a retrying client | crash or failed write between two steps, deduplication | an object is its digest; no retry is stuck; no bytes twice |
| tool gates (`tools/concurrency.ts`, `registry.ts`) | five FIFO semaphores | acquire (with timeout), release | every tool call | timeouts against grants; two gates in sequence | limits, no leak, order, progress |
| patch tool (`tools/patch.ts`) | a map of path locks; staged files and backups | lock, plan, stage, commit, roll back | gates, other patches, files | interleaved patches, a failure half way | all or nothing, mutual exclusion per path, no deadlock |
| atomic write and trash (`tools/atomicWrite.ts`, `security/trash.ts`) | files | replace with history | filesystem tools, transfers | failure after the original has moved | the original or the replacement is there |
| approvals (`security/approval*.ts`, `directoryAuthorization.ts`, `directoryGrantStore.ts`, `legacyDirectoryApproval.ts`, `gitSoftApproval.ts`) | used nonces, session and permanent decisions, files | request, answer, remember, revoke | a client that resends signed states | multi-round chains; memory against file | one decision per nonce; what is reported is what holds |
| filesystem and development tools (`tools/`) | files; a task each | the calls of every tool | approvals, gates, coordinator | several rounds per call; failures between two file operations | a call acts on what was allowed; no content is lost; one task per one-time decision |
| rate limit, authentication, guards, terminal prompts (`security/rateLimit.ts`, `auth.ts`, `pathGuard.ts`, `consent.ts`, ...) | request time stamps | check | every request | | not modelled, section 6 |
| Android staging workflow (`android-workflow/`) | checkpoint, tunnel, node records | run, resume, retry a node | device, tunnel, files | resume at any checkpoint, cancel between nodes | legal transitions only; a resumed run can finish |
| workspace contexts (`development/workspaces/`, `tools/workspaceContext.ts`) | one file per context | select, get, acknowledge, clear, expiry, eviction | the catalog file, which is edited outside | the catalog changes between two calls | no client is sent to sources before the instructions now declared |
| environment plans and the broker (`development/environment/`, `broker/`) | plan files; the broker's replay memory | plan, claim, apply step by step | a Windows service behind a pipe | timeouts against late answers; drift of the machine | each operation once, in order; completed means installed |
| supervisor (`scripts/prod-supervisor.mjs`) | the child handle, a `restarting` flag, failure counts | respawn, two watchdogs, forced restart | the server processes, the port | exit handler against watchdogs, failed spawns | a port nobody serves is served again |
| credentials, project providers, command builders, development tools, other filesystem/search/git/web tools, configuration | (mostly) none | translate a request, run it | the above | text processing, platform commands | not temporal |

`PROJECT.json` lists every component with its files and status, and every
hazard with the line where it bites and the properties that watch it.

## 2. The models

| module | models | state | grain of a step |
|---|---|---|---|
| `DevTaskScheduler` | `tasks/scheduler.ts` | the counters, the list of waiters, the requests | one method call or callback |
| `DevTaskLifecycle` | `tasks/coordinator.ts`, `worker.ts`, `store.ts`, `workerProtocol.ts`, and the scheduler as they use it | the files of a task, the coordinator's and the workers' memory | one access to a shared file |
| `TaskLogs` | `tasks/redaction.ts`, the pipe handlers of `worker.ts`, the log reader of `tools/developmentTasks.ts` | the output, the held back tail, the log, a reader | one chunk, one call |
| `TextTransfer` | `textTransfers/service.ts`, `tools/textTransfer.ts`, `tools/atomicWrite.ts` | the staging files, the destination, the trash | one file operation |
| `ArtifactStore` | `artifacts/uploads.ts`, `store.ts`, `urlImport.ts`, `materialize.ts` | the staging directories, the objects, the destination | one file operation |
| `FifoSemaphore` | class `Semaphore` of `tools/concurrency.ts` | (operators on a record) | |
| `ToolGates` | `withConcurrency` of the same file | the global gate, the gates of the classes | what runs between two awaits |
| `PatchTransactions` | `tools/patch.ts` on top of `ToolGates` | path locks, transactions, files | one file operation, or what runs between two awaits |
| `StagingProgress` | the promise of `android-workflow/contracts.ts`: the state graph | the last safe point of each run | one edge |
| `StagingWorkflow` | `android-workflow/coordinator.ts`, `stateStore.ts`, the adapters as they use them, `tools/stagingAndroidVerify.ts` | calls, checkpoints, tunnels, the device, evidence | what runs between two awaits |
| `EnvironmentPlans` | `development/environment/`, `tools/developmentEnvironment.ts`, the broker (C#) | plan files, calls, the broker, the machine | what runs between two awaits |
| `ServerSupervisor` | `scripts/prod-supervisor.mjs` | processes, the known child, watchdogs | one callback |
| `Service` | both: the server that makes and applies plans, under its supervisor | | |
| `Approvals` | `security/approval*.ts`, `directoryAuthorization.ts`, `directoryGrantStore.ts`, `legacyDirectoryApproval.ts`, `gitSoftApproval.ts`, `tools/helpers.ts` | memory and file of the stores, forms and answers | one handler |
| `FileTools` | the writing tools of `tools/filesystem.ts`, `atomicWrite.ts`, `trash.ts` | files and trash | one tool call |
| `DevelopmentTools` | `androidDevelopment.ts`, `windowsDevelopment.ts`, `localWorkflows.ts`, `developmentProjects.ts`, `localDevServer.ts` | tasks, starts of servers | one handler, or up to the awaited probe |
| `WorkspaceContexts` | `development/workspaces/context.ts`, `routing.ts`, `tools/workspaceContext.ts` | contexts, the catalog's digest | one handler |
| `ToolCalls` | all tools: what they ask for, composed with the four modules above | | one request |

`ToolGates` extends `FifoSemaphore`, and `PatchTransactions` extends
`ToolGates`, so that patches compete with each other for paths and with all
other calls for the gates. `Service` composes `EnvironmentPlans` with
`ServerSupervisor`: a call makes progress only while its process serves, and
dies with it. `ToolCalls` composes `Approvals` with `FileTools`,
`DevelopmentTools` and `WorkspaceContexts`: what a request comes to decides
whether its effect takes place, in the same step. `StagingWorkflow`
instantiates `StagingProgress` under a refinement mapping. Each `MC...` module
extends one specification and fixes constants for TLC; each `...Proofs` module
extends the modules it is about and `BasicLemmas` or `TLAPS`.

Conventions. A variable `scenario`, chosen in `Init` from the constant
`Scenarios` and never changed, says what clients may ask for and which faults
may happen; a property that needs a condition (no crash of the server, a client
that keeps the order) says so itself, as an implication from the scenario. A
definition whose name contains an underscore is a wrong variant of the
definition it precedes; `PROJECT.json` names the property that each one
violates. Time is replaced by nondeterminism: a timer may fire whenever it is
armed, and a deadline (`late` in the staging models) may pass at any moment.

### 2.1 DevTaskScheduler

`occ` is the occupied capacity (active tasks, count per resource, class
counters); `waiters` and `ahead` are the list of waiters, as the set of its
members and, for each of them, the set of those before it; `request`,
`adopted` and `outcome` say what was asked, which continuation is the adoption
one, and how the promise of a call stands.

| action | code |
|---|---|
| `RunStart`, `RunQueue` | `run()`: start at once if the task fits, else join the list |
| `Adopt` | `adopt()`: count recovered work without asking |
| `Settle` | the function of an active task settles: `release` and `drain` |
| `Cancel` | `cancel()` of a waiter |
| `QueueTimeout` | the queue timer of a waiter |

All of it is synchronous code of one process, so one operation is one action,
the `drain` it ends with included. `Drains` describes the outcome of the whole
loop without recursion: a waiter starts iff it can beside the waiters ahead of
it that start.

### 2.2 DevTaskLifecycle

The coordinator, the workers and their tools together. `store.update` is a
read-and-check step and a write step (a rename), because another process can
write in between; `at` (coordinator) and `w[t]` (worker) are program counters
between such steps. A record (`metadata.json`) is abstracted to its `state`;
`spec`, `token`, `beat` and `cancelFile` are the other files. The scheduler is
reduced to one exclusive resource that every task asks for: what it does in
general is the subject of the module above.

| actions | code |
|---|---|
| `Create`, `SaveSpec` | `enqueue()` |
| `IssueToken`, `TokenExists`, `MarkRunning`, `SpawnWorker`, `RecordPid`, `RecordPidWrite` | `dispatch()` with `issueWorkerToken` |
| `CancelWaiter`, `CancelRead`, `CancelCheck`, `CancelWrite`, `RequestCancel` | `cancel()` |
| `PollEnded`, `PollFresh`, `PollLost`, `ExpireCheck`, `ExpireWrite` | `waitForTerminal()` |
| `Restart`, `RecoverEnded`, `RecoverQueued`, `RecoverAdopt`, `RecoverStale`, `RecoverWrite` | the constructor and `recover()`, one record after the other |
| `Cleanup` | `cleanupDevelopmentTasks` |
| `WorkerRefused`, `CommandStart`, `StartFails`, `FailWrite`, `StagedRead`, `StagedStart`, `Progress`, `ProgressWrite`, `CancelTick`, `CancelTickWrite`, `RuntimeTimer`, `Heartbeat`, `Finalize`, `FinalizeWrite` | the three worker bodies in `worker.ts` |
| `Crash`, `ChildExit`, `BeatAges`, `WorkerCrash` | the environment |

A scenario gives the tasks and their kinds, and which of cancels, crashes of
the server (at most `MaxCrashes`), crashes of workers, stalls (a live worker
whose heartbeat grows old), retention and tools without a runtime limit may
happen.

Abstracted: the steps of a workflow are one tool stage with any number of
progress writes; sinks, artifact capture, signing and logs are covered by the
nondeterministic result of the tool and by `StartFails`; every caller is the
owner; records created in the same millisecond are taken to be listed in
creation order. A write into a removed directory revives a record, as the
store's `atomicWrite` creates missing directories: the model keeps this.

Fairness (`FairSpec`). Synchronous code runs on and due timers fire: weak
fairness for continuations, strong fairness for the timers (`Poll`,
`CancelTick`, `Finalize`), since other callbacks may run in between any number
of times but cannot keep a due timer out of the event loop. A child whose
worker keeps killing its process tree exits (`ChildKilled`); a heartbeat nobody
renews grows old; a supervisor restarts the server (`Restart`). A tool that is
not killed may run for ever: `Limits` adds the runtime limit, unless the
scenario says "endless".

### 2.3 TextTransfer

A session has three parts on disk: `session`, `content` and `receipts`. The
calls of the tool are synchronous, but the process may die or an operation
fail between any two file operations; `at` says which operation of which call
comes next. The text is a sequence of numbers cut into the chunks the client
sends, and a digest is the text it is the digest of.

| actions | code |
|---|---|
| `Begin`, `Sweep`, `Room`, `Stage`, `FirstSession` | `begin()` with `cleanupExpired`, `createStaging` |
| `OpenNoReceipt`, `OpenNotAppended`, `OpenAppended`, `OpenNoContent`, `Repair`, `Repaired` | `requireActive()` with `reconcilePendingReceipt`, with which every other call begins |
| `Check`, `CreateReceipt`, `FillReceipt`, `AppendBytes`, `CountBytes`, `Appended` | `append()` |
| `AskGuard`, `ResumeCommit`, `Verify`, `MarkVerified` | commit: the path guard is the one wait; then `verify()` |
| `WriteTemp`, `TrashTarget`, `Replace`, `ReplaceFails`, `Restore` | `atomicWriteFile()` |
| `RemovePart`, `RemoveStaging` | `removeStaging()`, a recursive removal that a crash can cut short |
| `Fails`, `Crash`, `Expire` | the environment |

Faults are of five kinds: the process dies (`crash`), an operation throws
(`error`), a file that cannot be read is taken for wrong (`unread`), a write
stops half way with an error (`torn`) or without one (`short`: the number of
bytes that `writeSync` returns is not looked at, service.ts 248-251). With
`unread`, `torn` and `short` the content need not stay a prefix of the client's
text; what holds then is that nothing but the declared text is ever verified or
put in place, which `VerifiedAsDeclared` and `CommitWritesDeclared` say for all
faults.

### 2.4 ArtifactStore

`dirs`, `content` and `session` are the upload directories; `objects` and
`described` the content-addressed objects and their metadata; `importing` the
downloads that are in progress, whose chunks arrive as events between other
calls. `target` and `trash` are the destination in a project.

| actions | code |
|---|---|
| `Begin`, `CreateDirectory`, `CreateContent`, `CreateSession` | `begin()`, `createUploadStaging()` |
| `AppendChunk`, `AppendBytes`, `CountBytes` | `append()` |
| `Commit`, `MarkCommitted` | `commit()`, which marks the session before it promotes |
| `Import`, `ImportData`, `ImportEnds`, `ImportFails` | `importArtifactUrl()` |
| `Promote`, `CreateObject`, `MoveContent`, `Describe`, `Discard` | `promoteStaging()` |
| `Materialize`, `Copy`, `Backup`, `Place` | `materializeArtifact()` |
| `Fails`, `Crash`, `Expire` | the environment |

Content types, owners and redirects of a download are left out: a refused
response is `ImportFails`, a wrong type is the second disjunct of `Promote`.

### 2.5 ToolGates and PatchTransactions

A call waits for the gate of its class, if it has one, and then for the gate
all calls share; each wait may time out. `stage` says how far a call is. The
semaphore is a record (`active`, `waiters`), its methods operators.

A patch first locks the paths it touches in sorted order (`Lock`,
`LockTimeout`, `Unlock`), where `pathLocks` is a map that drops a semaphore
that looks unused: a semaphore therefore has an identity, its path and the
patch that made it, and somebody may still hold or wait for one that is no
longer in the map. Inside the gates the patch is planned against the files
(`Plan`, `PlanFails`), staged (`Stage`), committed (`Backup`, `Rename`,
`Clean`), and rolled back if that fails (`CommitFails`, `Remove`, `Restore`,
`Undone`). A file is the list of patches that have written it, so that a lost
or a doubled application is visible.

Abstracted: staging the temporary files is one step (nobody else knows their
names); created parent directories are left out; nothing but patches writes the
paths; each call is made once (a repeated call is another call). The guards and
approvals before the locks only decide whether the call is made.

Fairness: promises that are settled continue, file operations and tool bodies
end. No timer is assumed to fire, so that `EveryCallEnds` shows that progress
does not rest on timeouts.

### 2.6 TaskLogs

The output of a child is a sequence of characters, of one to four bytes each,
that the pipe cuts into chunks anywhere (`Push(n)`). The worker decodes every
chunk for itself, as `chunk.toString("utf8")` does, so that a cut character
becomes invalid ones; the redactor appends it to what it holds back, replaces
the literal secrets, emits all but a tail that may be the start of a secret,
and at the end the rest (`Finalize`). A client reads slices by cursor meanwhile
(`ReadDevelopmentTaskLogs`): `Slice` cuts at whole characters and at the limit
of lines, as `readLogSlice` does. `Encoded`, `Bytes` and `Decode` stand for
Node's `Buffer`.

The redactor works on strings, which JavaScript measures and cuts in UTF-16
code units: `text`, `buffer`, the secrets and what replaces them are sequences
of units (`Units`), of which a character of four bytes has two, and `HoldCount`
counts units. What is emitted is encoded piece by piece (`Emit`, `FromUnits`),
half of a pair as an invalid character. `written` remembers the units that were
emitted, `split` whether a piece has ended within a pair.

`Finalize` is the handler of the child's exit event, which does not wait for
the pipes: it may come while output is still under way. A chunk that comes
after it is written to a closed descriptor, which throws; none of it is
written, so that the model has no step for it. (It ends the worker, whose
verdict is written by then.)

Abstracted: the regular expressions of the redactor (a match of unbounded
length cannot be held back as a whole), the second stream, the symlink check,
the owner check before a read. The model is that of a command. A server's worker
differs in that it catches the error of a late write; in a workflow, whose steps
share one log, the late output of a step comes after its flush and is not
modelled. Fairness: the child writes what it has and ends,
and the client goes on reading with the same limits.

### 2.7 StagingProgress and StagingWorkflow

`StagingProgress` says what checkpoints promise: a run moves along the edges of
the state graph and is forgotten only with its evidence. `StagingWorkflow` is
the coordinator. A run is driven by calls; each call carries the local
variables of `coordinator.run` in a record, `at` says what comes next, and a
checkpoint is a read (`SaveRead`), a write of the temporary file (`SaveWrite`)
and a rename (`SaveRename`), with awaits in between.

| actions | code |
|---|---|
| `Begin`, `Preflight`, `PreflightFails`, `Connect` | the tool, `loadOrCreate`, preflight and the tunnel |
| `NextNode`, `NodeDone`, `NodeFails`, `Conclude` | the loop over the nodes with its failure branches |
| `SaveRead`, `SaveWrite`, `SaveRename`, `SaveFails` | `StateStore.save` |
| `Cleanup`, `WriteEvidence`, `Finish`, `EndFails` | the `finally` block, the evidence and `StateStore.finish` |
| `Abort`, `Crash`, `EditProfile` | the environment |

`Progress` maps a run without a checkpoint to "created", and `RunsFollowGraph`
is the specification of `StagingProgress` under that mapping. `live` says of
the ssh processes that a call has started whether the one in the map of its
adapter lives (`own`), and whether one does that a later `connect` has displaced
from it (`displaced`); when the server dies with a call, its ssh is nobody's, and
`live` is about calls that ended by themselves. `done` and
`checked` are history variables: what has succeeded since the run was created,
and on which APKs its assertions have passed.

Fairness: promises that are settled continue; the client resumes a run that has
a checkpoint, again and again (strong fairness, as another call may hold the
slot). Faults are finite in number, so a run that never gets anywhere would be
a violation of `ResumesComplete`.

### 2.8 EnvironmentPlans, ServerSupervisor and Service

A call of the environment tools inspects the components one after the other
(`Inspect`), saves a plan (`SavePlan`) or claims one (`Claim`) and applies it
operation by operation (`ApplyStep`, `ConnectFails`, `TimesOut`, `Answered`).
The broker takes one request at a time, checks it in the order of
`BrokerService.cs` (`BrokerTakes`), installs (`Installed`, `InstallFails`) and
answers; an answer nobody waits for ends the service (`BrokerAnswers`), whose
replay memory goes with it (`BrokerStarts`, `BrokerStops`). The machine changes
by itself (`Drift`), plans expire (`Expire`), and the server dies
(`ServerDies`).

The supervisor is one Node process. `ExitEvent` is the exit handler of any
child, `Respawn` its timer (of one second to a minute, growing), `SpawnNode` the
spawn of a child, which may fail: then the child is forgotten and nothing else
happens, `Tick`, `ProbeSucceeds`, `ProbeFails`,
`ProbeTimesOut` the two watchdogs, `RestartSpawns` and `RestartForces`
`restartNode`. `Listen` is the operating system, which gives the port to one
process. An interval of a watchdog is taken to be long against the delivery of
an exit event and against the start of a server. A spawn that throws, instead of
reporting its error, ends the supervisor itself, which is left out.

Fairness: processes start or exit, timers fire, probes end. A tick whose guard
does not hold is dropped, not put off, so it is promised only if the guard
holds from some time on. Nothing is assumed of the calls.

### 2.9 Approvals, FileTools, DevelopmentTools, WorkspaceContexts, ToolCalls

A tool call that needs a decision ends with a form; the client sends the call
again with the form's signed state and the answer. A handler decides without
waiting, so `Decided` is a function from the stores to what the request comes
to: the directories first (`Directory`), then a git confirmation
(`Confirmation`), a question of `ask_user` (`Question`), or the subjects one
after the other (`Operation`). `forms` holds all forms ever given out with
their answers; what the server keeps of them is only the set of used nonces.
`q.ok` says whether a store can be written in this request.

`ToolCalls` has one operator per tool (`Write`, `Move`, `Fetch`, `SignApk`,
`DevServer`, ...) that says which directories, subjects and confirmations a
call of it needs and what it does when let through. `Request` is the whole
handler: decide, store, and act. Files are sets of pieces, so that a directory
copied or removed half way is a state; tasks are a queue with what was decided
about them. Contexts (`WorkspaceContexts`) are a sequence in the order of their
last update, of which the first `expired` ones have expired (each lasts a day
from its last write, and a write makes a context the last); the catalog is
known by its digest, which somebody may change between any two calls
(`CatalogEdited`).

The environment: people answer (`Answers`, and `Submits` for the fallback
tool), forms expire (`Age`), the build scripts change (`Edited`), grants are
revoked by the script of the repository (`Revoke`), the server restarts
(`Restarts`), days pass (`Expire`). A request carries states and tokens of its
own call only; that those of another call, user or process are refused follows
from what is signed and is taken for granted. The version of the build scripts
(`scripts`, `Key`) is what their digest tells apart: `digestProjectScripts`
(`android/gradle.ts` 133-145) reads the scripts of the root and of the module,
the properties and the wrapper's jar, and neither `gradlew`, `buildSrc` nor the
scripts of other modules. `ActsOnDecisions` is about what that digest covers.

Abstracted: the wait of `web_fetch` for the network between two approvals of
redirects is part of the request that asks next; paths are names with their
directory, so that no path lies under another; gates are in `ToolGates`; two
contexts updated in the same millisecond are taken to be ordered.

## 3. The runs

| run | module, cfg | what it asks | instance |
|---|---|---|---|
| `scheduler` | `MCDevTaskScheduler` | counters equal what the active tasks add up to, nobody waits who could run, nobody is admitted beyond a cap or into a held resource, adopted work counted, of two rivals the older goes first | three tasks, two resources, caps 2/1/1, timers on |
| `task_safety` | `MCDevTaskLifecycle`, `MCTaskSafety` | at most one start of a tool, verdicts after tools, only workers that are gone are interrupted, the lease outlives the tool, what ended in the queue never runs | four scenarios: everything on one workflow (two server crashes); a command and a workflow with worker crashes and retention; the same with server crashes; a command and a server |
| `task_liveness` | `MCTaskLiveness` | every record becomes terminal for good, every waiter is served, a cancel stops a tool that would run for ever | three scenarios, with worker crashes, with stalls and endless tools, and two commands without any fault |
| `task_logs` | `MCTaskLogs` | what the redactor lets go is what has arrived redacted as a whole, up to the tail held back, and the log holds it if no pair was cut; a reader has the characters up to its cursor, each once; it reaches the end | outputs of four characters out of four with at most one of four bytes (a pair of units), or of three with two; two secrets that overlap; two pairs of limits; an exit at any time |
| `transfer` | `MCTextTransfer`, `MCTransfer` | the content is a prefix of the text and keeps what was acknowledged, the destination changes as a whole and to what was declared, no text is lost | a text of three bytes in three chunks, one of them empty; a client that keeps the order with three faults, one that does not with two of every kind, two clients with two crashes |
| `artifact` | `MCArtifactStore`, `MCArtifact` | what is reported stored can be read back, an orderly client gets nothing but its artifact stored, downloads leave nothing behind, the destination is whole | an artifact of three bytes in two chunks, two directories, up to three faults |
| `patch` | `MCPatchTransactions`, `MCPatch` | exact slots, paths are exclusive, all or nothing, originals are kept, every call ends | three paths, up to three patches and two commands, global limit 2, class limit 1 |
| `staging` | `MCStagingWorkflow`, `MCStaging` | checkpoints refine the state graph, a completed run was verified, an ended call leaves no ssh (but for one that a reconnect has displaced), a resumed run ends | two profiles that reconnect and one that does not; one run with two faults of every kind, or two runs side by side with one |
| `service` | `MCService` | the broker is given each operation once, in order; what is relied on or reported is installed; a port nobody serves is served again unless a spawn has failed for good | three components, one dependency, two calls; four cases of broker faults, drift, and up to two crashes, hangs or failed spawns |
| `environment_apply` | `MCServiceApply` | expected to be violated, section 5 | one call, no fault |
| `tool_calls` | `MCToolCalls` | calls act on decisions, one task per one-time decision, a call allowed once goes on, no content of a file is lost, sessions stay bounded, no context leads past unread instructions | about forty scenarios of one to three calls, with two to four forms, answers and events chosen for each |
| `session_grant` | `MCToolCallsSession` | expected to be violated, section 5 | one command, three forms |

Why the instances are enough.

- Scheduler: three tasks are needed for a waiter that is passed by another one
  while a third holds what it needs; a fourth adds no new role. Ids are not
  reused in this run (`OnceSpec`), as task ids are fresh UUIDs: with an endless
  stream of newcomers that fit, a waiter that needs more may indeed be passed
  for ever, which `run()` allows by design.
- Tasks meet only at the one resource, so a pair (holder and waiter) shows
  every interaction; each kind of worker occurs with every fault it reacts to.
  Two server crashes cover a crash during the recovery from a crash.
- Logs: a secret of three characters and one of two that overlap it are cut at
  every place, by chunks of every size. What is held back is two units, so that
  a cut can fall within the pair of a wide character and beside it; two wide
  characters meet both in one output. A slice of four bytes holds exactly one,
  and slices of four and five bytes start and end at every place in one; both
  limits cut in both orders.
- Staging of texts and artifacts: chunks of lengths 0, 1 and 2 make repetition,
  truncation at every length and an empty chunk possible, and the repeated byte
  makes a tail that looks like another one possible. Three faults allow a fault
  during the recovery from a fault during a recovery. The limits are 1, so that
  the second session or directory meets them.
- Patches: three patches each two of which share a path (the smallest cycle of
  waits), one path with three patches (a lock that is dropped while somebody
  waits), a move with an update under two faults (a failure of the commit and
  another one of its rollback), commands that hold a gate.
- Android runs: two faults allow a failure during the recovery from another
  (or a failed save of a failed node); the second profile has the states the
  first does not reach, the third never starts a second ssh; two runs share only
  the device and the profile.
- Service: a component that needs another, one an inspection sees and two it
  does not. Two calls suffice for a claim beside a claim. Two broken servers
  are needed for a child that exits while another one is already spawned, and
  two faults for a spawn that fails after a crash or a hang.
- Tool calls: calls of one user meet at grants, at forms and at files, so two
  calls are enough for each of these; a session limit of two needs three
  starts. The forms of a scenario cover a full chain (directories, one or two
  subjects) and one repetition. Tools that ask for the same things in the same
  way have a scenario each, with fewer events.

Deadlock is not checked where the system may stop: when all tasks have ended,
all sessions are closed or all calls are answered, nothing is left to do. It is
checked in `task_logs`, where a client may always read again.

The modules state more than the runs check: the type invariants `TypeOK`, and
the properties section 5 names. Any of them can be added to the configuration
named there.

## 4. What is proved

Proofs hold for every finite set of tasks, any resources, caps, kinds and
scenarios that the modules' `ASSUME`s allow.

`TaskProofs.tla` proves, of the scheduler, `TypeCorrect`, `WaitersFormList`,
`ExactCounters`, `ResourceExclusion`, `Caps` and `NoLostWakeUp`. The inductive
invariant `SchedulerInv` joins the type invariant, the list property, the
exactness of the counters and work conservation: exclusion is a consequence of
exact counters (a resource count above zero means some active task holds it),
and is not inductive alone, and work conservation needs the exact counters to
know that what keeps a waiter from running is an active task. The lemmas on
`Drains` say that the scan is determined and lets in exactly whom it should.
The action properties follow from the same invariant, one call of the scheduler
at a time: `AdmitsAlwaysWithinCaps` because an admission is the answer of
`canRun` on counters that are exact, whoever the drain has let in before;
`RivalsAlwaysInOrder` because the drain lets in a waiter only beside those ahead
of it, so that an earlier one that asks for no more would have fitted too
(`DrainAdmits`, `DrainOrders`). `TypeOK`, `QueueIsList`, `ExclusiveResources` and
`CapsRespected` are proved and no longer part of the run.

It also proves, of the logs, for any characters of one to four bytes, outputs,
cuts of the pipe, secrets and limits,

- `ReadOnWithoutGaps` (`SeenIsLog`): `LogInv` says that the log is the encoding
  of a text of which the client has been given a first part, and that its
  cursor is where that part ends. A slice begins there, so its start is safe;
  the end of a slice is moved back to the last whole character (`CutExists`,
  `SafeIs`), and the text of the slice is the characters in between (`SliceIs`);
- `SplitSecretMatched` (`LogIsOutput`), if there is at most one secret, it is
  no longer than what can be held back, and neither it nor what replaces it has
  the code unit the other begins with (`AtMostOneSecret`). The invariant
  `OutInv` says that the units let go, with what the redactor makes of the rest
  *whatever comes*, is what it makes of the whole, and `PairsInv` that the log
  holds them as long as no piece ended within a pair: then their characters are
  those of the pieces one after the other (`FromUnitsConcat`). That a push keeps this is
  `HoldsEnough`, from a lemma on `Replace` (`KeepsAlways`): where a redacted
  text is cut before the last `Len(secret) - 1` units, nothing that comes
  later changes what is before the cut, and redacting the rest once more does
  no harm. The last needs the condition: of a secret that begins with the last
  character of `[REDACTED]`, an end that was replaced and held back can become
  a new occurrence (section 5).

`FlattenSeq`, `Decode`, `Replace` and `RedactOnce` are recursive functions over
the text. Their values are shown to be the only functions that satisfy their
equation (`JoinOnly`, `RestOnly`), and what holds of them for every text by
the least counterexample.

`DevelopmentProofs.tla` proves, of the life of a task (`DevTaskLifecycle`),

- `TypeCorrect`;
- `ToolAtMostOnce`: a tool starts at most once, under every fault. The
  invariant counts the rights to start: a worker that has yet to start its tool
  exists only if no tool was started, and a coordinator that is about to spawn
  a worker holds the token while no worker exists (`WorkerInv`, `StartInv`);
- `VerdictsFollowTools`, from the same invariant;
- `EndedNeverRuns`: a task that ended before its token was issued never runs,
  whatever crashes and restarts follow. The history variable `unrun` remembers
  these tasks; the proof finds the set of states such a task can never leave
  (`Barred`);
- `InterruptsOnlyTheDead` and `LeaseOutlivesTool`, whose conditions on the
  scenario are part of the properties. Their invariant `LeaseInv` follows the
  lease through the coordinator's program counter: while the coordinator or
  the worker is between two steps of a task, that task is the one active task.

Of the plans, in the service as a whole (`ServiceSpec`, whatever the supervisor
does to the server), it proves

- `PlansTypeCorrect`;
- `GivenInOrderOnce`: of a plan the broker is given each operation at most once,
  in order, and none after one that failed. `PlansInv` says that of the calls at
  most one applies a plan (`AloneInv`: a claim has no await in it), that the broker
  was given as many operations as its step says, and one less before the request
  (`Reached`), that a call waits only for the operation the broker is busy with,
  and that nothing was given of a plan nobody has claimed (`Kept`). A call that
  times out or dies leaves its plan claimed for ever, so that a late end of an
  installation meets nobody who would go on;
- `DependenciesFirst`: all that was given of a plan is installed but for the last
  operation (`Given`), and the operations are sorted. That `TopoSort` sorts any
  request (`TopoSortSorts`) is proved about `visit` as a function of the
  component: as `DEPENDENCIES` has no cycle, each component has a rank, and the
  least rank at which `visit` would not be defined, or would lose the order,
  does not exist (`VisitExists`, `AllVisit`). The least counterexamples of
  `BasicLemmas` again stand for induction.

`PatchTransactionsProofs.tla` first states what the methods of the semaphore do to a gate
that *guards* a set of calls inside and a set of calls that wait (`Guards`):
asking, leaving and giving up keep it, whatever the limit. It also says that a
call that leaves wakes exactly one waiter if there is one, which is why the loop
of `grantNext()` never lets in two at a time.

From these lemmas it proves

- `NoSlotLeaks` and `GatesFull`: every gate guards the calls that the stages
  place inside and before it (`GatesGuarded`), so its counts are exact, nobody
  waits at a gate with a free slot, and no limit is passed;
- `LocksExclude`: two patches never hold the same path. That the lock of a path
  is a semaphore with one slot is not enough, as the map may hold one semaphore
  while another one is still used. The invariant `LocksInv` says that this never
  is so: a semaphore that somebody holds or waits for is the one in the map
  (`LocksGuarded`), because `Unlock` drops it only when it is unused after the
  release, in the same step. It needs to know that a waiting patch has not
  locked the path it waits for, and is not at a gate yet (`WaitsForOne`);
- `OriginalsSafe` and `PatchesAtomic`: what the targets of a patch held before
  is never lost, and a report of success or failure is true of all of them.
  `TransInv` says for each step of a transaction which targets are untouched,
  set aside, replaced or restored (`Phase`): the changes before the current one
  are in place with their backups, those after it are as they were; in a
  rollback, the other way round. It is inductive only beside `LocksInv`: that
  the files of a patch change only by its own steps follows from its holding
  all its paths until it has reported.

`TextTransferProofs.tla` proves, for any text, any way to cut it into chunks, any
sessions, limits and scenarios,

- `TypeCorrect`, `NothingEverLost`, `AlwaysVerifiedAsDeclared` and
  `OnlyDeclaredIsWritten`, from `FilesInv`. A call is several steps with a file
  operation each, so the invariant carries what was checked at one of them to
  the next (`Calls`, `Fresh`, `Fitting`): that an identifier that begins finds
  nothing, that the chunk to be added is the next one and fits, that what is
  about to replace the destination is still the content that was verified
  (`Verified`), and that an original which is away is in the trash (`Kept`);
- `AlwaysStagedAsSent`, for a client that keeps the order (`Sequential`).
  `SentInv` says what a crash between two file operations can leave: receipts of
  chunks that were sent, filled or torn (`Ordered`); content that is what the
  session counts, or that and the whole chunk whose receipt is there, since the
  receipt is written first (`Holds`). Only a session that is verified or out of
  time, and so `GivenUp`, may have lost its receipt or its content.
  Reconciliation removes the receipt or counts the chunk from what it reads, and
  the step after it acts on what was read (`Underway`). An acknowledged
  chunk is counted, because counting is one rename and nothing lowers the count
  (`Acked`).

`ArtifactStoreProofs.tla` proves, for any artifact, uploads, downloads and limits,

- `TypeCorrect`, `StoredReadableAlways` and `TargetAlwaysIntact`, from
  `StagingInv`: content that is moved into the store lies under its own digest
  (`InStore`), and neither a repeated commit nor deduplication touches an object
  that has its metadata;
- `ImportsAlwaysLeaveNothing`, from `Owned`: every staging directory belongs to a
  session, to a download under way or to the call that creates it;
- `StoresOnlyTheArtifact`, from `HonestInv`: a retry after a crash may append a
  chunk again or after a part of itself, but then the content is longer than what is
  counted (`Holds`) and stays so; content of the counted length is
  what was sent. That is why the comparison of sizes at the commit
  suffices when no digest was declared.

`BasicLemmas.tla` derives, from the library's theorem that inclusion is a
well-founded order of finite sets, that a set of numbers has a least member,
and a bounded one a greatest. Least counterexamples replace induction here. From
it follow the facts on texts joined from chunks that the transfers and the
uploads need: there is one join of every prefix of the list of chunks, each begins
the next, and of two joins the longer one is the one of more chunks.

`StagingWorkflowProofs.tla` proves, for any calls, runs, profiles and faults,

- `TypeCorrect` and `TunnelsClosed`. `TunnelInv` says where a call owns no
  tunnel yet, so that a preflight that throws has none to close, and
  `DisplacedInv` that only a reconnect can start an ssh where one stands;
- `ImplementsProgress`: the workflow implements `StagingProgress`, if no two
  calls drive one run at the same time (section 5 shows that this is needed).
  A checkpoint is a read, a write and a rename, so `GraphInv` carries what was
  checked at the read to the rename: the temporary file of the run is the one
  this call has written, the checkpoint is still the one it has read, and a
  call that ends without an error has left a checkpoint at the end of the graph;
- `CompletedByLabelling`: a run is reported completed only after installation,
  launch and an assertion, if every profile in use has a labelling of the states
  by what must have been passed in them (`Labelling`, `Earned`): each node adds
  at most itself, a failure adds nothing. `CompletedRunsVerified` gives the
  labelling of the profile in the repository. That some assumption on the
  profile is needed is what `FailedNotCompleted` of section 5 shows: the
  registry accepts profiles that have none.

`ToolCallsProofs.tla` proves, for any calls, users, directories, paths,
catalogs, limits and events,

- `InstructionsFirst`, from `ContextsInv`: a context past its first phase has
  acknowledged the files of the catalog it was *written* under, and `Answered`
  compares that catalog with the present one;
- `SessionsWithinBound`, from `SessionsInv`: sessions and starts under way are
  bounded together, since the limit is checked when a start begins;
- `ContentsKept`, from `FilesInv`: a directory, in the tree or in the trash,
  holds only what the directories held at first, so that all other content is
  in files, whose copies are complete before the source is removed;
- `DecisionsRespected`, from `DecisionsInv`: each grant in memory and in the
  files of the stores, and each proof and prior subject that a form carries,
  was decided by its user. A call may pass several rounds in one request; that
  every round keeps this (`StateDecided`) has no induction to rest on, so the
  proof takes the least round that does not and refutes it (`LeastNumber`).
  Decisions stay decided when forms are answered or added (`Grows`), and a
  restart, a revocation or a failed write only takes grants away;
- `OneTaskEach`, from `OnceInv`: a tool whose decisions are for one use has
  no more tasks than used forms that allowed it once (`SpentForms`). A form
  never ceases to be spent (`Progress`): it leaves the memory of used forms only
  when it is too old to be sent. That such a tool has one subject is what keeps
  its forms from naming prior subjects, which pass without using the form.

The assumptions on the constants are those the code gives: a call changes paths
of the tree and writes a piece of content of its own (`Changes`), a tool with
single-use decisions has one subject, a git command and a question have none
(`Needs`), the limits are positive (`LimitsAssumption`, `CatalogsAssumption`),
the initial tree is a tree (`FilesAssumption`), `DEPENDENCIES` has no cycle and a
request names components of the catalogue (`EnvAssumption`). TLC evaluates them on the runs.
Every inductive invariant was model-checked on the instance of the component's
run before it was proved, except those of the logs, which speak of all texts: of
them the run checks the properties they were found for.

Only model-checked:

- liveness, which rests on fairness and `ENABLED`; the prover reasons about
  neither;
- `AllowedOnceGoesOn`: it is about how particular tools compose their steps and
  false for arbitrary calls (a git command whose confirmation comes after a
  directory form, a tool that digests its arguments differently for the two
  kinds of decision), so that it says something of the list of tools only;
- `LogIsOutput` for several secrets: it is false in general for secrets that
  overlap (section 5), and the run shows it for two that do not get in each
  other's way on its outputs.

## 5. Where the sources and the code disagree

Two runs are expected to be violated.

- `AppliedToTheEnd` (`environment_apply`): `applyPlan.ts` sends every
  privileged operation to the broker with an empty plan id, "filled by caller
  context", which nobody does. The broker remembers the empty id as applied and
  refuses the second operation of its lifetime.
- `AllowedGoesOn` (`session_grant`): a directory decision for the session or
  for good is remembered, but a call that then needs an operation approval is
  refused, because the state it carries is taken for a foreign one; the design
  says it goes on. (`AllowedOnceGoesOn` shows that single decisions do work.)

Seen with a property of a module; each one is violated when it is added to the
configuration named.

- `TerminalIsFinal` (`PROPERTY`, `MCTaskSafety.cfg`): `store.ts` and
  `coordinator.ts` say a terminal record is never replaced by a stale snapshot.
  `dispatch` writes the worker's pid with a second update after the spawn
  (`coordinator.ts` 229-238); a worker that fails in between is overwritten
  with `running`.
- `LocksSurviveRestart` (`INVARIANT`, `MCTaskSafety.cfg`): `scheduler.ts` says
  a restart does not release locks early. A worker spawned just before a crash
  has no heartbeat yet, is taken for dead by `recover`, and then starts its
  tool without a lock.
- `AppendResumes` (`INVARIANT`, `MCTransfer.cfg`): a receipt that was created
  and not filled before a crash is not recognised and is never removed, so the
  exclusive creation of the same receipt refuses every retry of that chunk.
- `ChunkOnce` (`INVARIANT`, `MCArtifact.cfg`): an upload counts a chunk after
  writing it and has no receipts, so the retry after a crash in between appends
  it again; the commit then finds the wrong size.
- `Storable` (`INVARIANT`, `MCArtifact.cfg`): a crash after the object's
  directory is made and before its metadata leaves an incomplete object, and
  the same content can never be stored again.
- `FailedLeavesTarget` (`PROPERTY`, `MCArtifact.cfg`): when the last rename of
  a materialization fails, the destination has moved to the trash and nothing
  is put back.
- `EvidenceNamesApk` (`INVARIANT`, `MCStaging.cfg` with `Scenarios <-
  MCRebuilt`): a run resumed after the APK was built again verifies the
  application installed before and names the new APK in its evidence, although
  the design keeps the digest with the state of the run.
- `RunsFollowGraph` (`MCStaging.cfg` with `Scenarios <- MCDuplicates`): two
  overlapping calls with one run id. The check of a transition and the rename
  after it are apart, so a slower call puts back an earlier checkpoint.
- `FailedNotCompleted` (`INVARIANT`, `MCStaging.cfg` with `Scenarios <-
  MCBranching`): the design (`2026-08-15-staging-android-verify-design.md` 44)
  calls failure and cancellation terminal branches, and the registry accepts a
  profile whose nodes branch to them. The coordinator records no error for a
  branch and objects only to an end in a state that is not terminal
  (`coordinator.ts` 160-165, 182, 200), so the run is reported completed, with
  evidence that says so, and its checkpoint is removed "on terminal success".
- `NoTunnelLeft` (`INVARIANT`, `MCStaging.cfg`): the end of a run "cleans up the
  SSH it has started" (the design, line 127, in Chinese), and the coordinator
  "cleans up owned resources in `finally`" (`coordinator.ts` 5-7). A
  `reconnect_tunnel` node puts its ssh into the map of the adapter whatever
  stands there (`tunnelAdapter.ts` 75, `topology.ts` 209-211). If no disconnect
  came before it, the first ssh is nobody's from then on and outlives the run:
  in the profile of the repository after an assertion that failed, and in any
  profile after a resumption between its disconnect and its reconnect, as the
  resumed run connects first (`coordinator.ts` 112). `TunnelClosed` says what
  does hold: nothing else is left.
- `HungReplaced` (`PROPERTY`, `MCService.cfg`): two spawns for one exit leave a
  spare child that cannot listen; its exit makes the supervisor forget the
  child that serves, and a server that hangs afterwards is not replaced.
- `NeverGivesUp` (`INVARIANT`, `MCService.cfg`): the supervisor restarts a
  server that stops answering (`prod-supervisor.mjs` 6-8). When a spawn fails
  the `error` handler (95) only forgets the child: no exit event puts a respawn
  on the timer, and both watchdogs return at once when no child is known (148,
  168), so that nothing ever tries again. `PortServedAgain` says that this is
  the only way in which the port stays unserved, and that a failed spawn with
  another restart under way is made good.
- `CharactersWhole` (`INVARIANT`, `MCTaskLogs.cfg`): the redactor cuts what it
  emits from what it holds back with `slice` (`redaction.ts` 69-70), by code
  units. A cut within the pair of a four-byte character writes each half as an
  invalid character, although neither is part of a secret.
- `LogIsComplete` (`INVARIANT`, `MCTaskLogs.cfg`): the log of a task is that of
  its output, "all remaining buffered content" at the end included
  (`redaction.ts` 74). The worker closes it at the child's `exit` (`worker.ts` 377), which Node may
  deliver before the last data of the pipes (it is `close` that waits for them);
  what comes later is written to a closed descriptor (269, 274) and lost.
- `DirectoriesKept` (`INVARIANT`, `MCToolCalls.cfg`): a directory moved by copy
  whose source is removed half way is given up together with its copy
  (`filesystem.ts` 476-489).

Seen while modelling:

- A tool that exits between the coordinator's `cancel_requested` and the
  worker's next cancel tick makes the worker's verdict fail its
  compare-and-set (`worker.ts` 352); the record stays open until the poll loop
  interrupts it. `TasksEnd` shows that it does end.
- A verified transfer never expires (`service.ts` 210) and stays on disk if its
  commit does not finish. Nothing calls `cleanupExpiredUploads`: an expired
  upload keeps its place in the upload limit until somebody removes it.
- A patch whose own staging write fails leaves that one temporary file behind,
  and created directories are removed parents first, which can leave them.
- `redaction.ts` 32-33 says secrets are replaced longest first; they are
  replaced in the order given, so that with one secret inside another the log
  depends on where the chunks end. It also does with a secret that begins with
  the last character of `[REDACTED]`: the tail held back is redacted twice. A character cut by the pipe is garbled
  before the redactor sees it (`worker.ts` 268, 273); that is in `text` already,
  so that `LogIsOutput` does not speak of it. `maxBytes` may be smaller
  than a character, past which a reader then never gets.
- An installation that takes longer than the 30 seconds of the client makes the
  broker's late write fail and ends the service. The broker does not look at
  the signature, digest or expiry of the plan itself. A step without privilege
  always fails in production, where no local launcher is set. Nothing ever
  writes the status "applied".
- The two watchdogs restart independently and can force out a healthy server
  one of them has just started. Shutdown kills the known child only.
- Used nonces are forgotten at a restart while the signing key stays; a
  permanent approval whose file could not be written holds until the restart; a
  grant that `manage-approvals.ps1` removes comes back with the next write of a
  running server.
- A one-time decision for several subjects, the last of which was allowed for
  the session in the meantime, lets the call pass without being used up.
- `python_development` digests its arguments with the resolved directory for
  the operation and without for the directories, and a git confirmation token
  is part of the digest of the directories, so that the directory is asked
  about twice. `web_fetch` goes to each approved origin before it asks for the
  next.
- A build uses the scripts as they are when its task starts, not as they were
  approved. Tasks of one project are serialized by the resources of their own
  tool only.
- A context is bound to the digest of the catalog; editing an instruction file
  leaves it ready. `get`, acknowledgement and a selection without an id do not
  check access to the root again.

## 6. What is not modelled, and what could come next

Not modelled: request limits and authentication, path, file and network guards
(a decision per request from its input, with a window of time stamps at most);
terminal prompts and `preflight.ts`, which no code calls; credentials; project
detection and command builders, which translate a request; two servers at a
time during `restart_service`, and the tunnel process beside the server; the
text of patches (what it parses to is `Operations`), regular expressions, artifact signatures and manifests;
the purge of old trash. `PROJECT.json` says so for each component.

Next: an abstract at-most-once execution that `DevTaskLifecycle` and the plans
both implement; the two server processes of a restart; the redaction of several
secrets, with a condition on them under which the cuts do not matter.
