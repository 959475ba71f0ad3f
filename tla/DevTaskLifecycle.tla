-------------------------- MODULE DevTaskLifecycle --------------------------
(***************************************************************************)
(* The life of development tasks across three kinds of process: the        *)
(* coordinator inside the server, one detached worker per started task,    *)
(* and the tool process the worker spawns.  They share only files:         *)
(* metadata.json (with its compare-and-set `update'), the worker token,    *)
(* the heartbeat and the cancel request.                                   *)
(*                                                                         *)
(* Within a process synchronous code does not interleave with itself, but  *)
(* it does with the other processes: store.update reads the record, checks *)
(* the expected state and later renames a new file over it, so the check   *)
(* and the write are two steps here, for the coordinator (`at') and for    *)
(* each worker (`w').  A record is abstracted to its state.                *)
(*                                                                         *)
(* All tasks ask for one and the same exclusive resource; what the         *)
(* scheduler does in general is the subject of DevTaskScheduler.           *)
(***************************************************************************)
EXTENDS Integers, FiniteSets

CONSTANTS
  Tasks,        \* task identifiers
  Scenarios,    \* what may be asked for and what may happen
  MaxCrashes,   \* bound on coordinator crashes
  NoTask        \* not a task

(* In a scenario the tasks that have a kind are asked for.  What else may  *)
(* happen: clients cancel, processes crash, heartbeats stall, retention    *)
(* removes ended tasks, and a tool is endless if it has no runtime limit.  *)
ASSUME LifecycleAssumption ==
  /\ IsFiniteSet(Tasks)
  /\ \A s \in Scenarios :
       /\ DOMAIN s.kind \subseteq Tasks
       /\ \A t \in DOMAIN s.kind : s.kind[t] \in {"command", "workflow", "server"}
       /\ s.may \subseteq {"cancel", "coordinatorCrash", "workerCrash", "stall", "cleanup", "endless"}
  /\ MaxCrashes \in Nat
  /\ NoTask \notin Tasks

VARIABLES
  scenario,     \* the one of this behaviour
  (* files of a task *)
  meta,         \* state in metadata.json; "absent" before, "removed" after
  spec,         \* a launch spec has been saved
  token,        \* the worker token file exists
  beat,         \* heartbeat file: "none", "fresh" or "stale"
  cancelFile,   \* the cancel request file exists
  (* the coordinator *)
  up,           \* the server process is running
  at,           \* its synchronous code between two accesses to shared files
  todo,         \* what list() read of a record still to be recovered, or "absent"
  born,         \* born[t]: how many records had been created with t's, or 0
  active,       \* tasks the scheduler counts as occupying the resource
  waiters,      \* the scheduler's waiters, in creation order (see Admit)
  handle,       \* tasks whose worker this process spawned itself
  observed,     \* watched tasks whose heartbeat has been seen fresh
  crashes,      \* crashes so far
  (* the workers and their children *)
  w,            \* program counter of the worker
  seen,         \* the worker's `cancelled' flag
  timed,        \* its `timedOut' or `expired' flag
  child,        \* "none", "alive", or how it exited: "ok" or "bad"
  starts,       \* tool processes ever spawned for the task
  (* history *)
  unrun         \* tasks whose record ended before they could start

files == <<meta, spec, token, beat, cancelFile>>
queue == <<active, waiters>>
coord == <<up, at, todo, born, active, waiters, handle, observed, crashes>>
work  == <<w, seen, timed, child, starts>>
progress == <<files, coord, work>>
vars  == <<scenario, progress, unrun>>

Terminal == {"succeeded", "failed", "cancelled", "interrupted"}
Open     == {"queued", "running", "cancel_requested"}
States   == Terminal \cup Open \cup {"absent", "removed"}
Live     == {"boot", "startW", "run", "cancelW", "progressW", "finalW", "failW"}
Beating  == Live \ {"boot", "startW", "failW"}
Ops      == {"idle", "created", "token", "mark", "spawn", "pid", "pidW",
             "cancel", "cancelW", "cancelFile", "expire", "expireW", "recoverW"}

Kind(t)   == scenario.kind[t]
May(x)    == x \in scenario.may

Idle    == [op |-> "idle", task |-> NoTask, snap |-> "absent"]
Do(op, t)         == [op |-> op, task |-> t, snap |-> "absent"]
DoWith(op, t, s)  == [op |-> op, task |-> t, snap |-> s]

(* The event loop takes its next event when no synchronous code is running *)
(* and the constructor has finished recovering.                            *)
Free == up /\ at.op = "idle" /\ \A t \in Tasks : todo[t] = "absent"
At(op, t) == up /\ at.op = op /\ at.task = t

Set(f, t, v) == f' = [f EXCEPT ![t] = v]

Init ==
  /\ scenario \in Scenarios
  /\ meta = [t \in Tasks |-> "absent"]
  /\ spec = [t \in Tasks |-> FALSE]
  /\ token = [t \in Tasks |-> FALSE]
  /\ beat = [t \in Tasks |-> "none"]
  /\ cancelFile = [t \in Tasks |-> FALSE]
  /\ up = TRUE /\ at = Idle
  /\ todo = [t \in Tasks |-> "absent"] /\ born = [t \in Tasks |-> 0]
  /\ active = {} /\ waiters = {} /\ handle = {} /\ observed = {}
  /\ crashes = 0
  /\ w = [t \in Tasks |-> "none"]
  /\ seen = [t \in Tasks |-> FALSE]
  /\ timed = [t \in Tasks |-> FALSE]
  /\ child = [t \in Tasks |-> "none"]
  /\ starts = [t \in Tasks |-> 0]
  /\ unrun = {}

-----------------------------------------------------------------------------
(* The scheduler, as the coordinator uses it: Admit is run(), Finish is    *)
(* the release of an active task and the drain that follows it.  A record  *)
(* meets the scheduler in the call that creates it, or before any such     *)
(* call when it is recovered, and recover() goes by creation time: the     *)
(* list of waiters is in creation order.                                   *)
Oldest(T) == {t \in T : \A u \in T : born[t] <= born[u]}

Admit(t) ==
  IF active = {}
  THEN active' = {t} /\ at' = Do("token", t) /\ UNCHANGED waiters
  ELSE waiters' = waiters \cup {t} /\ at' = Idle /\ UNCHANGED active

(* Mutant of Finish: the slot is released and no waiter is started.        *)
Finish_NoDrain(t) ==
  /\ handle' = handle \ {t} /\ observed' = observed \ {t}
  /\ active' = active \ {t}
  /\ at' = Idle
  /\ UNCHANGED waiters

Finish(t) ==
  /\ handle' = handle \ {t}
  /\ observed' = observed \ {t}
  /\ \/ /\ active = {t}
        /\ \E u \in Oldest(waiters) :
             active' = {u} /\ waiters' = waiters \ {u} /\ at' = Do("token", u)
     \/ /\ active # {t} \/ waiters = {}
        /\ active' = active \ {t} /\ at' = Idle
        /\ UNCHANGED waiters

-----------------------------------------------------------------------------
(* enqueue(): create the record, save the spec, ask the scheduler.         *)
Create(t) ==
  /\ Free /\ meta[t] = "absent" /\ t \in DOMAIN scenario.kind
  /\ Set(meta, t, "queued")
  /\ Set(born, t, 1 + Cardinality({u \in Tasks : born[u] > 0}))
  /\ at' = Do("created", t)
  /\ UNCHANGED <<spec, token, beat, cancelFile, up, todo, queue, handle, observed, crashes, work>>

SaveSpec(t) ==
  /\ At("created", t)
  /\ Set(spec, t, TRUE)
  /\ Admit(t)
  /\ UNCHANGED <<meta, token, beat, cancelFile, up, todo, born, handle, observed, crashes, work>>

(* dispatch(): the token file is created exclusively; when it exists the   *)
(* dispatch fails, its catch interrupts the record and the slot is freed.  *)
IssueToken(t) ==
  /\ At("token", t) /\ ~token[t]
  /\ Set(token, t, TRUE)
  /\ at' = Do("mark", t)
  /\ UNCHANGED <<meta, spec, beat, cancelFile, up, todo, born, queue, handle, observed, crashes, work>>

TokenExists(t) ==
  /\ At("token", t) /\ token[t]
  /\ IF meta[t] = "queued" THEN Set(meta, t, "interrupted") ELSE UNCHANGED meta
  /\ Finish(t)
  /\ UNCHANGED <<spec, token, beat, cancelFile, up, todo, born, crashes, work>>

MarkRunning(t) ==
  /\ At("mark", t)
  /\ IF meta[t] = "queued" THEN Set(meta, t, "running") ELSE UNCHANGED meta
  /\ at' = Do("spawn", t)
  /\ UNCHANGED <<spec, token, beat, cancelFile, up, todo, born, queue, handle, observed, crashes, work>>

SpawnWorker(t) ==
  /\ At("spawn", t)
  /\ Set(w, t, "boot")
  /\ handle' = handle \cup {t}
  /\ at' = Do("pid", t)
  /\ UNCHANGED <<files, up, todo, born, queue, observed, crashes, seen, timed, child, starts>>

(* The worker's pid is added to a record that was read as running.         *)
RecordPid(t) ==
  /\ At("pid", t)
  /\ at' = IF meta[t] = "running" THEN Do("pidW", t) ELSE Idle
  /\ UNCHANGED <<files, up, todo, born, queue, handle, observed, crashes, work>>

RecordPidWrite(t) ==
  /\ At("pidW", t)
  /\ Set(meta, t, "running")
  /\ at' = Idle
  /\ UNCHANGED <<spec, token, beat, cancelFile, up, todo, born, queue, handle, observed, crashes, work>>

(* The queue timer of a waiter fires; dispatch's catch interrupts it.      *)
QueueTimeout(t) ==
  /\ Free /\ t \in waiters
  /\ waiters' = waiters \ {t}
  /\ IF meta[t] = "queued" THEN Set(meta, t, "interrupted") ELSE UNCHANGED meta
  /\ UNCHANGED <<spec, token, beat, cancelFile, up, at, todo, born, active, handle, observed, crashes, work>>

-----------------------------------------------------------------------------
(* Mutant of CancelWaiter: the record is cancelled, the waiter stays.      *)
CancelWaiter_StaysQueued(t) ==
  /\ Free /\ May("cancel") /\ meta[t] = "queued" /\ t \in waiters
  /\ Set(meta, t, "cancelled")
  /\ UNCHANGED <<spec, token, beat, cancelFile, coord, work>>

(* cancel(): a waiter leaves the list and is cancelled on the spot ...     *)
CancelWaiter(t) ==
  /\ Free /\ May("cancel") /\ meta[t] = "queued" /\ t \in waiters
  /\ waiters' = waiters \ {t}
  /\ Set(meta, t, "cancelled")
  /\ UNCHANGED <<spec, token, beat, cancelFile, up, at, todo, born, active, handle, observed, crashes, work>>

(* ... anything else that is not terminal is marked and asked to stop.     *)
CancelRead(t) ==
  /\ Free /\ May("cancel") /\ meta[t] \in Open /\ ~(meta[t] = "queued" /\ t \in waiters)
  /\ at' = DoWith("cancel", t, meta[t])
  /\ UNCHANGED <<files, up, todo, born, queue, handle, observed, crashes, work>>

CancelCheck(t) ==
  /\ At("cancel", t)
  /\ at' = Do(IF meta[t] = at.snap THEN "cancelW" ELSE "cancelFile", t)
  /\ UNCHANGED <<files, up, todo, born, queue, handle, observed, crashes, work>>

CancelWrite(t) ==
  /\ At("cancelW", t)
  /\ Set(meta, t, "cancel_requested")
  /\ at' = Do("cancelFile", t)
  /\ UNCHANGED <<spec, token, beat, cancelFile, up, todo, born, queue, handle, observed, crashes, work>>

RequestCancel(t) ==
  /\ At("cancelFile", t)
  /\ Set(cancelFile, t, TRUE)
  /\ at' = Idle
  /\ UNCHANGED <<meta, spec, token, beat, up, todo, born, queue, handle, observed, crashes, work>>

-----------------------------------------------------------------------------
(* waitForTerminal(): one poll of a watched task.                          *)
Watched(t) == Free /\ t \in active

(* Mutant of PollEnded: a cancel that was asked for counts as one done.    *)
PollEnded_AtRequest(t) ==
  /\ Watched(t) /\ meta[t] \notin Open \ {"cancel_requested"}
  /\ Finish(t)
  /\ UNCHANGED <<files, up, todo, born, crashes, work>>

PollEnded(t) ==
  /\ Watched(t) /\ meta[t] \notin Open
  /\ Finish(t)
  /\ UNCHANGED <<files, up, todo, born, crashes, work>>

PollFresh(t) ==
  /\ Watched(t) /\ meta[t] \in Open /\ beat[t] = "fresh"
  /\ observed' = observed \cup {t}
  /\ UNCHANGED <<files, up, at, todo, born, queue, handle, crashes, work>>

(* Mutant of PollLost: a worker that has yet to start counts as lost.      *)
PollLost_IgnoresHandle(t) ==
  /\ Watched(t) /\ meta[t] \in Open /\ beat[t] # "fresh"
  /\ at' = DoWith("expire", t, meta[t])
  /\ UNCHANGED <<files, up, todo, born, queue, handle, observed, crashes, work>>

(* No valid heartbeat, and either one had been seen or the child handle    *)
(* says the worker has exited; the grace interval is over.                 *)
PollLost(t) ==
  /\ Watched(t) /\ meta[t] \in Open /\ beat[t] # "fresh"
  /\ t \in observed \/ ~(t \in handle /\ w[t] \in Live)
  /\ at' = DoWith("expire", t, meta[t])
  /\ UNCHANGED <<files, up, todo, born, queue, handle, observed, crashes, work>>

(* A record that has moved on is left alone, and the watch ends anyway.    *)
ExpireCheck(t) ==
  /\ At("expire", t)
  /\ IF meta[t] = at.snap
     THEN at' = Do("expireW", t) /\ UNCHANGED <<queue, handle, observed>>
     ELSE Finish(t)
  /\ UNCHANGED <<files, up, todo, born, crashes, work>>

(* Mutant of ExpireWrite: the watch ends and the record is left as it was. *)
ExpireWrite_Forgotten(t) ==
  /\ At("expireW", t)
  /\ Finish(t)
  /\ UNCHANGED <<files, up, todo, born, crashes, work>>

ExpireWrite(t) ==
  /\ At("expireW", t)
  /\ Set(meta, t, "interrupted")
  /\ Finish(t)
  /\ UNCHANGED <<spec, token, beat, cancelFile, up, todo, born, crashes, work>>

-----------------------------------------------------------------------------
(* The server process dies at any point; detached workers live on.         *)
Crash ==
  /\ May("coordinatorCrash") /\ up /\ crashes < MaxCrashes
  /\ up' = FALSE /\ at' = Idle /\ todo' = [t \in Tasks |-> "absent"]
  /\ active' = {} /\ waiters' = {} /\ handle' = {} /\ observed' = {}
  /\ crashes' = crashes + 1
  /\ UNCHANGED <<files, born, work>>

(* recover(): the constructor lists the records in creation order ...      *)
Restart ==
  /\ ~up
  /\ up' = TRUE
  /\ todo' = [t \in Tasks |-> IF meta[t] = "removed" THEN "absent" ELSE meta[t]]
  /\ UNCHANGED <<files, at, born, queue, handle, observed, crashes, work>>

(* ... and deals with them one by one, from the state it read.             *)
ToRecover == {t \in Tasks : todo[t] # "absent"}
Recovering(t) == up /\ at.op = "idle" /\ t \in Oldest(ToRecover)
Recovered(t) == Set(todo, t, "absent")

RecoverEnded(t) ==
  /\ Recovering(t) /\ todo[t] \in Terminal
  /\ Recovered(t)
  /\ UNCHANGED <<files, up, at, born, queue, handle, observed, crashes, work>>

RecoverQueued(t) ==
  /\ Recovering(t) /\ todo[t] = "queued"
  /\ Recovered(t)
  /\ IF spec[t] THEN Admit(t) /\ UNCHANGED meta
     ELSE Set(meta, t, "interrupted") /\ UNCHANGED <<at, queue>>
  /\ UNCHANGED <<spec, token, beat, cancelFile, up, born, handle, observed, crashes, work>>

RecoverAdopt(t) ==
  /\ Recovering(t) /\ todo[t] \in {"running", "cancel_requested"}
  /\ beat[t] = "fresh"
  /\ active' = active \cup {t}
  /\ Recovered(t)
  /\ UNCHANGED <<files, up, at, born, waiters, handle, observed, crashes, work>>

(* Mutant of RecoverStale: work whose worker is not seen is retried.       *)
RecoverStale_Retries(t) ==
  /\ Recovering(t) /\ todo[t] \in {"running", "cancel_requested"}
  /\ beat[t] # "fresh"
  /\ Recovered(t)
  /\ Set(meta, t, "queued") /\ Set(token, t, FALSE)
  /\ Admit(t)
  /\ UNCHANGED <<spec, beat, cancelFile, up, born, handle, observed, crashes, work>>

RecoverStale(t) ==
  /\ Recovering(t) /\ todo[t] \in {"running", "cancel_requested"}
  /\ beat[t] # "fresh"
  /\ Recovered(t)
  /\ at' = IF meta[t] = todo[t] THEN Do("recoverW", t) ELSE Idle
  /\ UNCHANGED <<files, up, born, queue, handle, observed, crashes, work>>

RecoverWrite(t) ==
  /\ At("recoverW", t)
  /\ Set(meta, t, "interrupted")
  /\ at' = Idle
  /\ UNCHANGED <<spec, token, beat, cancelFile, up, todo, born, queue, handle, observed, crashes, work>>

(* The directory of a task is removed, with every file of it.              *)
RemoveTask(t) ==
  /\ Set(meta, t, "removed")
  /\ Set(spec, t, FALSE) /\ Set(token, t, FALSE)
  /\ Set(beat, t, "none") /\ Set(cancelFile, t, FALSE)

(* cleanup(): only terminal tasks are removed, whichever the limits choose.*)
Cleanup(t) ==
  /\ May("cleanup") /\ Free /\ meta[t] \in Terminal
  /\ RemoveTask(t)
  /\ UNCHANGED <<coord, work>>

-----------------------------------------------------------------------------
(* The worker.  A staged worker (workflow or server) looks at the record   *)
(* before it starts; a command worker does not.                            *)
Staged(t) == Kind(t) \in {"workflow", "server"}

StartChild(t) ==
  /\ Set(child, t, "alive")
  /\ Set(starts, t, starts[t] + 1)
  /\ Set(beat, t, "fresh")
  /\ Set(w, t, "run")

WorkerVerified(t) == w[t] = "boot" /\ token[t]

(* The token does not verify (its directory is gone): exit code 2.         *)
WorkerRefused(t) ==
  /\ w[t] = "boot" /\ ~token[t]
  /\ Set(w, t, "gone")
  /\ UNCHANGED <<files, coord, seen, timed, child, starts>>

CommandStart(t) ==
  /\ WorkerVerified(t) /\ ~Staged(t)
  /\ StartChild(t)
  /\ UNCHANGED <<meta, spec, token, cancelFile, coord, seen, timed>>

(* The launch cannot be loaded, a credential, sink or process is missing.  *)
StartFails(t) ==
  /\ WorkerVerified(t)
  /\ Set(w, t, IF meta[t] = "running" THEN "failW" ELSE "gone")
  /\ UNCHANGED <<files, coord, seen, timed, child, starts>>

FailWrite(t) ==
  /\ w[t] = "failW"
  /\ Set(meta, t, "failed")
  /\ Set(w, t, "gone")
  /\ UNCHANGED <<spec, token, beat, cancelFile, coord, seen, timed, child, starts>>

StagedRead(t) ==
  /\ WorkerVerified(t) /\ Staged(t)
  /\ Set(w, t, IF meta[t] \in {"queued", "running"} THEN "startW" ELSE "gone")
  /\ UNCHANGED <<files, coord, seen, timed, child, starts>>

StagedStart(t) ==
  /\ w[t] = "startW"
  /\ Set(meta, t, "running")
  /\ StartChild(t)
  /\ UNCHANGED <<spec, token, cancelFile, coord, seen, timed>>

(* Mutant of CancelTick: a request is noted only in a running record.      *)
CancelTick_RunningOnly(t) ==
  /\ w[t] = "run" /\ cancelFile[t] /\ meta[t] = "running"
  /\ Set(seen, t, TRUE)
  /\ Set(w, t, "cancelW")
  /\ UNCHANGED <<files, coord, timed, child, starts>>

(* The cancel timer: note the request, mark the record, stop the child.    *)
CancelTick(t) ==
  /\ w[t] = "run" /\ cancelFile[t]
  /\ Set(seen, t, TRUE)
  /\ Set(w, t, IF meta[t] = "running" THEN "cancelW" ELSE "run")
  /\ UNCHANGED <<files, coord, timed, child, starts>>

CancelTickWrite(t) ==
  /\ w[t] = "cancelW"
  /\ Set(meta, t, "cancel_requested")
  /\ Set(w, t, "run")
  /\ UNCHANGED <<spec, token, beat, cancelFile, coord, seen, timed, child, starts>>

RuntimeTimer(t) ==
  /\ w[t] = "run" /\ child[t] = "alive" /\ ~timed[t]
  /\ Set(timed, t, TRUE)
  /\ UNCHANGED <<files, coord, w, seen, child, starts>>

(* Step results and server readiness are saved into a running record.      *)
Progress(t) ==
  /\ w[t] = "run" /\ Staged(t) /\ meta[t] = "running"
  /\ Set(w, t, "progressW")
  /\ UNCHANGED <<files, coord, seen, timed, child, starts>>

ProgressWrite(t) ==
  /\ w[t] = "progressW"
  /\ Set(meta, t, "running")
  /\ Set(w, t, "run")
  /\ UNCHANGED <<spec, token, beat, cancelFile, coord, seen, timed, child, starts>>

(* The child has exited: the verdict, and the state it must replace.       *)
Verdict(t) ==
  IF seen[t] THEN "cancelled"
  ELSE IF Kind(t) = "server" THEN (IF timed[t] THEN "succeeded" ELSE "failed")
  ELSE IF child[t] = "ok" /\ ~timed[t] THEN "succeeded" ELSE "failed"

(* Mutant of Finalize: a cancelled task is finalized before its tool ends. *)
Finalize_AtCancel(t) ==
  /\ w[t] = "run" /\ (seen[t] \/ child[t] \in {"ok", "bad"})
  /\ Set(w, t, IF meta[t] = (IF seen[t] THEN "cancel_requested" ELSE "running")
               THEN "finalW" ELSE "gone")
  /\ UNCHANGED <<files, coord, seen, timed, child, starts>>

Finalize(t) ==
  /\ w[t] = "run" /\ child[t] \in {"ok", "bad"}
  /\ Set(w, t, IF meta[t] = (IF seen[t] THEN "cancel_requested" ELSE "running")
               THEN "finalW" ELSE "gone")
  /\ UNCHANGED <<files, coord, seen, timed, child, starts>>

FinalizeWrite(t) ==
  /\ w[t] = "finalW"
  /\ Set(meta, t, Verdict(t))
  /\ Set(w, t, "gone")
  /\ UNCHANGED <<spec, token, beat, cancelFile, coord, seen, timed, child, starts>>

(* The heartbeat timer; in a removed directory the write throws and the    *)
(* worker dies of it.                                                      *)
Heartbeat(t) ==
  /\ w[t] = "run" /\ beat[t] # "fresh"
  /\ IF meta[t] = "removed"
     THEN Set(w, t, "gone") /\ UNCHANGED beat
     ELSE Set(beat, t, "fresh") /\ UNCHANGED w
  /\ UNCHANGED <<meta, spec, token, cancelFile, coord, seen, timed, child, starts>>

-----------------------------------------------------------------------------
(* The environment: the child exits, by itself or killed by its worker; a  *)
(* heartbeat grows old, with its worker alive only in a stall; a worker    *)
(* dies and leaves its detached child behind.                              *)
ChildExit(t) ==
  /\ child[t] = "alive"
  /\ \E how \in {"ok", "bad"} : Set(child, t, how)
  /\ UNCHANGED <<files, coord, w, seen, timed, starts>>

ChildKilled(t) ==
  /\ w[t] \in Live
  /\ seen[t] \/ timed[t]
  /\ ChildExit(t)

BeatAges(t) ==
  /\ beat[t] = "fresh"
  /\ w[t] \notin Beating \/ May("stall")
  /\ Set(beat, t, "stale")
  /\ UNCHANGED <<meta, spec, token, cancelFile, coord, work>>

WorkerCrash(t) ==
  /\ May("workerCrash") /\ w[t] \in Live
  /\ Set(w, t, "gone")
  /\ UNCHANGED <<files, coord, seen, timed, child, starts>>

Enqueue(t)  == Create(t) \/ SaveSpec(t)
Dispatch(t) == IssueToken(t) \/ TokenExists(t) \/ MarkRunning(t) \/ SpawnWorker(t)
                 \/ RecordPid(t) \/ RecordPidWrite(t)
Cancel(t)   == CancelWaiter(t) \/ CancelRead(t) \/ CancelCheck(t) \/ CancelWrite(t)
                 \/ RequestCancel(t)
Poll(t)     == PollEnded(t) \/ PollFresh(t) \/ PollLost(t) \/ ExpireCheck(t) \/ ExpireWrite(t)
Recover(t)  == RecoverEnded(t) \/ RecoverQueued(t) \/ RecoverAdopt(t) \/ RecoverStale(t)
                 \/ RecoverWrite(t)
Worker(t)   == WorkerRefused(t) \/ CommandStart(t) \/ StartFails(t) \/ FailWrite(t)
                 \/ StagedRead(t) \/ StagedStart(t) \/ CancelTick(t) \/ CancelTickWrite(t)
                 \/ RuntimeTimer(t) \/ Progress(t) \/ ProgressWrite(t) \/ Finalize(t)
                 \/ FinalizeWrite(t) \/ Heartbeat(t)
Outside(t)  == ChildExit(t) \/ BeatAges(t) \/ WorkerCrash(t)

(* Ended before its token was issued: cancelled in the queue, timed out    *)
(* there, or not recoverable.                                              *)
EndedUnstarted(t) == meta[t] \in Terminal /\ ~token[t] /\ child[t] = "none"

Record ==
  /\ unrun' = unrun \cup {t \in Tasks : EndedUnstarted(t)'}
  /\ UNCHANGED scenario

Next ==
  \/ Crash /\ Record
  \/ Restart /\ Record
  \/ \E t \in Tasks :
       \/ Enqueue(t) /\ Record
       \/ Dispatch(t) /\ Record
       \/ QueueTimeout(t) /\ Record
       \/ Cancel(t) /\ Record
       \/ Poll(t) /\ Record
       \/ Recover(t) /\ Record
       \/ Cleanup(t) /\ Record
       \/ Worker(t) /\ Record
       \/ Outside(t) /\ Record

Spec == Init /\ [][Next]_vars

(* Synchronous code runs on; the event loop gets round to every due timer, *)
(* whatever else it handles; a child whose worker keeps killing it exits;  *)
(* an unattended heartbeat grows old; the server's supervisor restarts it. *)
Proceed(t) == SaveSpec(t) \/ Dispatch(t) \/ Recover(t)
                \/ CancelCheck(t) \/ CancelWrite(t) \/ RequestCancel(t)
WorkerProceed(t) == WorkerRefused(t) \/ CommandStart(t) \/ StagedRead(t) \/ StagedStart(t)
                      \/ FailWrite(t) \/ CancelTickWrite(t) \/ ProgressWrite(t)
                      \/ FinalizeWrite(t)

Fairness ==
  /\ WF_progress(Restart)
  /\ WF_progress(\E t \in Tasks : Proceed(t))
  /\ \A t \in Tasks :
       /\ SF_progress(Poll(t))
       /\ WF_progress(WorkerProceed(t))
       /\ SF_progress(CancelTick(t) /\ ~seen[t])
       /\ SF_progress(Finalize(t))
       /\ WF_progress(ChildKilled(t))
       /\ WF_progress(BeatAges(t) /\ w[t] \notin Beating)

(* The runtime limit, unless the scenario goes without it.                 *)
Limits == \A t \in Tasks : SF_progress(RuntimeTimer(t) /\ ~May("endless"))

FairSpec == Spec /\ Fairness /\ Limits

-----------------------------------------------------------------------------
(* Every variable keeps its type.                                          *)
TypeOK ==
  /\ scenario \in Scenarios
  /\ meta \in [Tasks -> States]
  /\ spec \in [Tasks -> BOOLEAN] /\ token \in [Tasks -> BOOLEAN]
  /\ beat \in [Tasks -> {"none", "fresh", "stale"}]
  /\ cancelFile \in [Tasks -> BOOLEAN]
  /\ up \in BOOLEAN
  /\ at \in [op : Ops, task : Tasks \cup {NoTask}, snap : States]
  /\ todo \in [Tasks -> States] /\ born \in [Tasks -> Nat]
  /\ waiters \subseteq Tasks /\ active \subseteq Tasks /\ handle \subseteq Tasks /\ observed \subseteq Tasks
  /\ crashes \in Nat
  /\ w \in [Tasks -> Live \cup {"none", "gone"}]
  /\ seen \in [Tasks -> BOOLEAN] /\ timed \in [Tasks -> BOOLEAN]
  /\ child \in [Tasks -> {"none", "alive", "ok", "bad"}]
  /\ starts \in [Tasks -> Nat]
  /\ unrun \subseteq Tasks

(* At-most-once execution: whatever crashes, restarts, re-dispatches and   *)
(* removals happen, the tool of a task is spawned at most once             *)
(* (the exclusive token file, workerProtocol.ts 53-65).                    *)
AtMostOnce == \A t \in Tasks : starts[t] <= 1

(* A worker's verdict is about a process that has ended: a record that     *)
(* reads succeeded, failed or cancelled has no running tool behind it.     *)
VerdictAfterChild ==
  \A t \in Tasks :
    meta[t] \in {"succeeded", "failed", "cancelled"} => child[t] # "alive"

(* While the server stays up and no live worker is taken for dead, the     *)
(* coordinator interrupts a task only when no worker of it is left         *)
(* (waitForTerminal's startup rule, coordinator.ts 280-287).               *)
InterruptedHasNoWorker ==
  ~May("coordinatorCrash") /\ ~May("stall") =>
    \A t \in Tasks : meta[t] = "interrupted" => w[t] \in {"none", "gone"}

(* If no process dies or stalls, the resource is held for as long as the   *)
(* tool runs: the scheduler counts exactly the task whose tool process is  *)
(* alive (scheduler.ts 4-9).                                               *)
ChildHoldsLease ==
  ~May("coordinatorCrash") /\ ~May("workerCrash") /\ ~May("stall") =>
    \A t \in Tasks : child[t] = "alive" => active = {t}

(* Every tool that runs when the server serves holds its locks, also after *)
(* a restart has adopted the workers it found (scheduler.ts 126-131, and   *)
(* the handoff's "same-project writes serialize").                         *)
LocksSurviveRestart == Free => \A t \in Tasks : child[t] = "alive" => t \in active

(* A task that ended before its token was issued never runs, across        *)
(* restarts (cancel, the queue timer and recover, coordinator.ts 325-343). *)
NeverRunsAfterQueue == \A t \in unrun : child[t] = "none"

(* If tools have limits and the server stays up, every task ends for good: *)
(* its record is terminal from some time on.                               *)
TasksEnd ==
  scenario.may \subseteq {"cancel", "workerCrash"} =>
    \A t \in Tasks : <>[](meta[t] \in Terminal \cup {"absent", "removed"})

(* If nothing fails every lease is given back, so that every waiter        *)
(* eventually leaves the queue.                                            *)
WaitersServed ==
  scenario.may \subseteq {"cancel"} =>
    \A t \in Tasks : t \in waiters ~> t \notin waiters

(* A cancel request stops a tool that would otherwise run for ever, also   *)
(* one that was given up because its worker stalled (worker.ts 246).       *)
CancelStopsChild ==
  scenario.may \subseteq {"cancel", "stall", "endless"} =>
    \A t \in Tasks : cancelFile[t] ~> child[t] # "alive"

(* What store.ts says of update (lines 7-8: the expected current state is  *)
(* required "to prevent lost updates"): a terminal record is never         *)
(* replaced by another state.                                              *)
TerminalIsFinal ==
  [][\A t \in Tasks :
       meta[t] \in Terminal /\ meta'[t] # "removed" => meta'[t] = meta[t]]_vars

=============================================================================
