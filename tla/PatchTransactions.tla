-------------------------- MODULE PatchTransactions --------------------------
(***************************************************************************)
(* The tool apply_patch (src/tools/patch.ts) among other tool calls: locks *)
(* on the paths it touches, then the gates of ToolGates, and inside them   *)
(* the patch is planned, staged, committed and, if that fails, rolled      *)
(* back.                                                                   *)
(*                                                                         *)
(* The locks are semaphores in a map that drops those that look unused, so *)
(* a semaphore has an identity here: its path and the patch that made it.  *)
(* A file is the list of patches that have written it.  Temporary files    *)
(* have names nobody else knows; staging them is one step.                 *)
(***************************************************************************)
EXTENDS ToolGates, FiniteSetsExt, Functions

CONSTANTS
  Paths,      \* the keys of the targets, numbered in their sorted order
  Scenarios,  \* patches, other calls, timers and faults
  None        \* no file, no lock

Kinds == {"add", "update", "delete", "move", "unified"}

(* In a scenario the patches in the domain of ops are called with these    *)
(* operations, other calls with these classes; timers may fire; at most    *)
(* that many file operations of the commit fail.                           *)
Targets(op) == IF op.kind = "move" THEN {op.path, op.to} ELSE {op.path}

Operations ==
  [kind : Kinds \ {"move"}, path : Paths] \cup [kind : {"move"}, path : Paths, to : Paths]

ASSUME PatchAssumption ==
  /\ Paths \subseteq Nat /\ None \notin Calls /\ None \notin Seq(Calls)
  /\ \A s \in Scenarios :
       /\ s.timers \in BOOLEAN /\ s.faults \in Nat
       /\ DOMAIN s.ops \subseteq Calls /\ DOMAIN s.others \subseteq Calls \ DOMAIN s.ops
       /\ \A c \in DOMAIN s.others : s.others[c] \in DOMAIN Children \cup {"default"}
       /\ \A p \in DOMAIN s.ops :
            /\ s.ops[p] \in Seq(Operations) \ {<<>>}
            /\ \A i, j \in DOMAIN s.ops[p] :
                 i # j => Targets(s.ops[p][i]) \cap Targets(s.ops[p][j]) = {}

VARIABLES
  scenario,   \* the one of this behaviour
  locks,      \* pathLocks: which patch made the semaphore of a path
  semaphores, \* the semaphore of a path and the patch that made it
  held,       \* the semaphores each patch has acquired: path to maker
  wanted,     \* the semaphore it asks for
  step,       \* how far each patch is
  work,       \* its transaction
  outcome,    \* what it has reported
  files,      \* the files
  faults,     \* how many operations have failed
  before      \* history: what its targets were when it had all its locks

locking == <<locks, semaphores, held, wanted>>
vars == <<scenario, gates, locking, step, work, outcome, files, faults, before>>

Patches == DOMAIN scenario.ops
Others  == DOMAIN scenario.others
Ops(p)  == scenario.ops[p]
Keys(p) == UNION {Targets(Ops(p)[i]) : i \in DOMAIN Ops(p)}

Steps == {"new", "lock", "wait", "plan", "stage", "backup", "rename", "clean",
          "remove", "restore", "undone", "unlock", "end"}
Outcomes == {"none", "applied", "failed", "rollbackFailed", "timedOut"}
NoWork == [changes |-> <<>>, at |-> 1, backups |-> <<>>, touched |-> {}, incomplete |-> FALSE]

Init ==
  /\ scenario \in Scenarios
  /\ kind = [c \in Calls |-> IF c \in Others THEN scenario.others[c] ELSE "default"]
  /\ GatesInit
  /\ locks = [k \in Paths |-> None]
  /\ semaphores = [g \in Paths \X Calls |-> New]
  /\ held = [p \in Calls |-> <<>>] /\ wanted = [p \in Calls |-> None]
  /\ step = [p \in Calls |-> "new"]
  /\ work = [p \in Calls |-> NoWork]
  /\ outcome = [p \in Calls |-> "none"]
  /\ files \in [Paths -> {None, <<>>}]
  /\ faults = 0
  /\ before = [p \in Calls |-> <<>>]

-----------------------------------------------------------------------------
(* The patches of W are granted what they want, patch p comes to s.  One   *)
(* that has its last key goes on to plan.                                  *)
Grant(W, p, s) ==
  LET all(q) == DOMAIN held'[q] = Keys(q) IN
  /\ step' = [q \in Calls |-> IF q \in W THEN (IF all(q) THEN "plan" ELSE "lock")
                              ELSE IF q = p THEN s ELSE step[q]]
  /\ before' = [q \in Calls |-> IF q \in W /\ all(q) THEN Restrict(files, Keys(q)) ELSE before[q]]
  /\ UNCHANGED <<scenario, gates, work, files, faults>>

(* Function f with v for k, which is not in its domain.                    *)
Extend(f, k, v) == [x \in DOMAIN f \cup {k} |-> IF x \in DOMAIN f THEN f[x] ELSE v]

With(q) == Extend(held[q], wanted'[q][1], wanted'[q][2])

(* The path locked next.  Mutant: the keys are not sorted.                 *)
NextKey_Any(p, k) == k \in Keys(p) \ DOMAIN held[p]

NextKey(p, k) ==
  LET rest == Keys(p) \ DOMAIN held[p] IN k \in rest /\ \A j \in rest : k <= j

Lock(p) ==
  /\ step[p] \in {"new", "lock"}
  /\ \E k \in Paths :
       LET g == <<k, IF locks[k] = None THEN p ELSE locks[k]>>
           now == IF Takes(semaphores[g], 1) THEN {p} ELSE {} IN
       /\ NextKey(p, k)
       /\ locks' = [locks EXCEPT ![k] = g[2]]
       /\ semaphores' = [semaphores EXCEPT ![g] = Acquire(@, 1, p)]
       /\ wanted' = [wanted EXCEPT ![p] = g]
       /\ held' = [q \in Calls |-> IF q \in now THEN With(q) ELSE held[q]]
       /\ Grant(now, p, "wait")
  /\ UNCHANGED outcome

(* The timer of a wait: what has been locked is released.                  *)
LockTimeout(p) ==
  /\ step[p] = "wait" /\ scenario.timers
  /\ semaphores' = [semaphores EXCEPT ![wanted[p]] = Withdraw(@, p)]
  /\ outcome' = [outcome EXCEPT ![p] = "timedOut"]
  /\ step' = [step EXCEPT ![p] = "unlock"]
  /\ UNCHANGED <<scenario, gates, locks, held, wanted, work, files, faults, before>>

(* Mutant of Dropped: a lock is dropped whoever else waits for it.         *)
Dropped_Always(p, k) == k \in DOMAIN held[p]

(* The keys whose semaphore is found unused after its release.             *)
Dropped(p, k) ==
  /\ k \in DOMAIN held[p]
  /\ LET s == semaphores'[<<k, held[p][k]>>] IN s.active = 0 /\ s.waiters = <<>>

Unlock(p) ==
  LET mine == {<<k, held[p][k]>> : k \in DOMAIN held[p]}
      woken == UNION {Woken(semaphores[g], 1) : g \in mine} IN
  /\ step[p] = "unlock"
  /\ semaphores' = [g \in DOMAIN semaphores |->
                      IF g \in mine THEN Release(semaphores[g], 1) ELSE semaphores[g]]
  /\ locks' = [k \in Paths |-> IF Dropped(p, k) THEN None ELSE locks[k]]
  /\ UNCHANGED <<wanted, outcome>>
  /\ held' = [q \in Calls |-> IF q \in woken THEN With(q) ELSE IF q = p THEN <<>> ELSE held[q]]
  /\ Grant(woken, p, "end")

-----------------------------------------------------------------------------
(* The transaction, inside the gates.                                      *)
Does(p, s) == stage[p] = "runs" /\ step[p] = s
Goto(p, s) == step' = [step EXCEPT ![p] = s]
Doing(p, w) == work' = [work EXCEPT ![p] = w]
Aside == UNCHANGED <<scenario, locking, before>>
Inside == UNCHANGED <<gates, outcome>> /\ Aside

(* The body ends with o, and the gates are left.                           *)
End(p, o) ==
  /\ Finish(p)
  /\ Goto(p, "unlock")
  /\ outcome' = [outcome EXCEPT ![p] = o]
  /\ Aside

Fault == faults < scenario.faults /\ faults' = faults + 1

(* Whether an operation applies to the files, and the changes it plans.    *)
Fits(op) ==
  CASE op.kind = "add" -> files[op.path] = None
    [] op.kind = "move" -> files[op.path] # None /\ files[op.to] = None
    [] op.kind = "unified" -> TRUE
    [] OTHER -> files[op.path] # None

Changes(op, p) ==
  LET old == IF files[op.path] = None THEN <<>> ELSE files[op.path]
      change(k, content) == [path |-> k, content |-> content] IN
  CASE op.kind = "delete" -> <<change(op.path, None)>>
    [] op.kind = "move" -> <<change(op.to, Append(old, p)), change(op.path, None)>>
    [] OTHER -> <<change(op.path, Append(old, p))>>

Plan(p) ==
  LET w == work[p]  op == Ops(p)[w.at]  last == w.at = Len(Ops(p)) IN
  /\ Does(p, "plan")
  /\ Fits(op)
  /\ Doing(p, [w EXCEPT !.changes = @ \o Changes(op, p), !.at = IF last THEN 1 ELSE @ + 1])
  /\ Goto(p, IF last THEN "stage" ELSE "plan")
  /\ UNCHANGED <<files, faults>> /\ Inside

(* A file cannot be read, is there or is not, or a hunk does not apply;    *)
(* a temporary file cannot be written or would be too long.                *)
PlanFails(p) ==
  /\ Does(p, "plan") \/ Does(p, "stage")
  /\ End(p, "failed")
  /\ UNCHANGED <<work, files, faults>>

Stage(p) ==
  /\ Does(p, "stage")
  /\ Goto(p, "backup")
  /\ UNCHANGED <<work, files, faults>> /\ Inside

(* On to the next change.                                                  *)
NextChange(p, w) ==
  /\ Doing(p, [w EXCEPT !.at = @ + 1])
  /\ Goto(p, IF w.at = Len(w.changes) THEN "clean" ELSE "backup")

(* Mutants: the backup is not noted as touched, or does not outlive the    *)
(* change.                                                                 *)
Kept_Untouched(w, k) == [w EXCEPT !.backups = Extend(@, k, files[k])]
Kept_Here(w, k) == [w EXCEPT !.backups = Extend(<<>>, k, files[k]), !.touched = @ \cup {k}]

(* The original of k becomes a backup, if there is one.                    *)
Kept(w, k) == [w EXCEPT !.backups = Extend(@, k, files[k]), !.touched = @ \cup {k}]

Backup(p) ==
  LET c == work[p].changes[work[p].at]
      w == IF files[c.path] = None THEN work[p] ELSE Kept(work[p], c.path) IN
  /\ Does(p, "backup")
  /\ files' = [files EXCEPT ![c.path] = None]
  /\ IF c.content = None THEN NextChange(p, w) ELSE Doing(p, w) /\ Goto(p, "rename")
  /\ UNCHANGED faults /\ Inside

Rename(p) ==
  LET w == work[p]  c == w.changes[w.at] IN
  /\ Does(p, "rename")
  /\ files' = [files EXCEPT ![c.path] = c.content]
  /\ NextChange(p, [w EXCEPT !.touched = @ \cup {c.path}])
  /\ UNCHANGED faults /\ Inside

(* The backups are removed and the patch is reported as applied.           *)
Clean(p) ==
  /\ Does(p, "clean")
  /\ Doing(p, [work[p] EXCEPT !.backups = <<>>])
  /\ End(p, "applied")
  /\ UNCHANGED <<files, faults>>

(* The rollback goes back to the last touched change at or before i.       *)
Undo(p, w, i) ==
  LET touched == {j \in 1..i : w.changes[j].path \in w.touched} IN
  IF touched = {} THEN Doing(p, w) /\ Goto(p, "undone")
                  ELSE Doing(p, [w EXCEPT !.at = Max(touched)]) /\ Goto(p, "remove")

CommitFails(p) ==
  /\ Does(p, "backup") \/ Does(p, "rename")
  /\ Undo(p, work[p], Len(work[p].changes))
  /\ Fault /\ UNCHANGED files /\ Inside

(* rm of the target, which may fail and is then counted, and goes on.      *)
Remove(p) ==
  LET k == work[p].changes[work[p].at].path IN
  /\ Does(p, "remove")
  /\ \E ok \in BOOLEAN :
       LET w == IF ok THEN work[p] ELSE [work[p] EXCEPT !.incomplete = TRUE] IN
       /\ IF ok THEN files' = [files EXCEPT ![k] = None] /\ UNCHANGED faults
                ELSE UNCHANGED files /\ Fault
       /\ IF k \in DOMAIN w.backups THEN Doing(p, w) /\ Goto(p, "restore")
                                    ELSE Undo(p, w, w.at - 1)
  /\ Inside

(* The backup becomes the target again, or that fails and is counted.      *)
Restore(p) ==
  LET w == work[p]  k == w.changes[w.at].path IN
  /\ Does(p, "restore")
  /\ \/ /\ files' = [files EXCEPT ![k] = w.backups[k]]
        /\ Undo(p, [w EXCEPT !.backups = Restrict(@, DOMAIN @ \ {k})], w.at - 1)
        /\ UNCHANGED faults
     \/ /\ Undo(p, [w EXCEPT !.incomplete = TRUE], w.at - 1)
        /\ UNCHANGED files /\ Fault
  /\ Inside

(* The temporary files are removed, which may fail and is counted.         *)
Undone(p) ==
  /\ Does(p, "undone")
  /\ \/ End(p, IF work[p].incomplete THEN "rollbackFailed" ELSE "failed") /\ UNCHANGED faults
     \/ End(p, "rollbackFailed") /\ Fault
  /\ UNCHANGED <<work, files>>

-----------------------------------------------------------------------------
(* The gates, for patches that have their locks and for other calls.       *)
Untouched == UNCHANGED <<scenario, locking, work, files, faults, before>>

PatchArrives(p) == step[p] = "plan" /\ Arrive(p) /\ UNCHANGED <<step, outcome>> /\ Untouched
PatchAsks(p) == Ask(p) /\ UNCHANGED <<step, outcome>> /\ Untouched
PatchTimeout(p) ==
  /\ scenario.timers /\ ToolsTimeout(p)
  /\ Goto(p, "unlock")
  /\ outcome' = [outcome EXCEPT ![p] = "timedOut"]
  /\ Untouched

OtherGoesOn(c) == (Arrive(c) \/ Ask(c)) /\ UNCHANGED <<step, outcome>> /\ Untouched
OtherEnds(c) == Finish(c) /\ UNCHANGED <<step, outcome>> /\ Untouched
OtherTimeout(c) ==
  /\ scenario.timers /\ (ChildTimeout(c) \/ ToolsTimeout(c))
  /\ UNCHANGED <<step, outcome>> /\ Untouched

Commits(p) ==
  Plan(p) \/ PlanFails(p) \/ Stage(p) \/ Backup(p) \/ Rename(p) \/ Clean(p)
  \/ CommitFails(p) \/ Remove(p) \/ Restore(p) \/ Undone(p)

PatchGoesOn(p) == Lock(p) \/ PatchArrives(p) \/ PatchAsks(p) \/ Commits(p) \/ Unlock(p)

Next ==
  \/ \E p \in Patches : PatchGoesOn(p) \/ LockTimeout(p) \/ PatchTimeout(p)
  \/ \E c \in Others : OtherGoesOn(c) \/ OtherEnds(c) \/ OtherTimeout(c)

(* Promises that are settled continue, file operations and tools end.      *)
Fairness ==
  \A c \in Calls :
    /\ WF_vars(c \in Patches /\ PatchGoesOn(c))
    /\ WF_vars(c \in Others /\ (OtherGoesOn(c) \/ OtherEnds(c)))

Spec == Init /\ [][Next]_vars /\ Fairness

-----------------------------------------------------------------------------
Contents == Seq(Calls) \cup {None}

(* Every variable keeps its type, the limits of the gates included.        *)
TypeOK ==
  /\ GatesTypeOK
  /\ locks \in [Paths -> Calls \cup {None}]
  /\ semaphores \in [Paths \X Calls -> [active : 0..1, waiters : Seq(Calls)]]
  /\ \A p \in Calls :
       /\ DOMAIN held[p] \subseteq Paths /\ \A k \in DOMAIN held[p] : held[p][k] \in Calls
       /\ wanted[p] \in (Paths \X Calls) \cup {None}
       /\ work[p].at \in Nat /\ DOMAIN work[p].backups \subseteq work[p].touched
       /\ \A i \in DOMAIN work[p].changes :
            work[p].changes[i] \in [path : Paths, content : Contents]
  /\ step \in [Calls -> Steps]
  /\ outcome \in [Calls -> Outcomes]
  /\ files \in [Paths -> Contents]
  /\ faults \in 0..scenario.faults

(* Two patches that touch the same path never work at the same time        *)
(* (patch.ts 37-58; patch-tool.test.mjs 99 "serializes concurrent patches  *)
(* that touch the same target"), although locks are dropped and made anew. *)
PathsExclusive ==
  \A p, q \in Patches : p # q => DOMAIN held[p] \cap DOMAIN held[q] = {}

(* What patch p reports is so: it is applied to before, or before is back. *)
Truthful(p) ==
  outcome'[p] # outcome[p] =>
    CASE outcome'[p] = "applied" ->
           \A i \in DOMAIN Ops(p) :
             LET op == Ops(p)[i]
                 was == IF before[p][op.path] = None THEN <<>> ELSE before[p][op.path] IN
             /\ op.kind = "add" => before[p][op.path] = None
             /\ op.kind = "move" => before[p][op.to] = None
             /\ files'[IF op.kind = "move" THEN op.to ELSE op.path] =
                  IF op.kind = "delete" THEN None ELSE Append(was, p)
             /\ op.kind = "move" => files'[op.path] = None
      [] outcome'[p] \in {"failed", "timedOut"} /\ before[p] # <<>> ->
           \A k \in Keys(p) : files'[k] = before[p][k]
      [] OTHER -> TRUE

(* A patch is applied to what its targets were when it got its locks, as a *)
(* whole, or not at all, whatever runs beside it and wherever it fails; a  *)
(* rollback that is not reported as incomplete has restored everything     *)
(* (complete-local-development-tools-design.md 160).                       *)
AllOrNothing == [][\A p \in Patches : Truthful(p)]_vars

(* At any moment, until all its changes are in place, the originals of a   *)
(* patch exist, as the target or as its backup, so that neither a crash    *)
(* nor a rollback that fails loses one ("Existing files are backed up",    *)
(* the same line).                                                         *)
OriginalsKept ==
  \A p \in Patches :
    (before[p] # <<>> /\ step[p] \notin {"clean", "end"} /\ outcome[p] # "applied") =>
      \A k \in Keys(p) : before[p][k] # None =>
        \/ files[k] = before[p][k]
        \/ k \in DOMAIN work[p].backups /\ work[p].backups[k] = before[p][k]

(* Nobody waits for a path that nobody has locked (concurrency.ts 88-97).  *)
NoIdleLock ==
  /\ NoIdleSlot
  /\ \A g \in DOMAIN semaphores :
       semaphores[g].waiters # <<>> => \E p \in Patches : g[1] \in DOMAIN held[p] /\ held[p][g[1]] = g[2]

Started(c) == stage[c] # "new" \/ step[c] # "new"
Ended(c) == IF c \in Patches THEN step[c] = "end" ELSE stage[c] \in {"done", "timedOut"}

(* Every call ends: patches that lock several paths one by one and then    *)
(* wait for a gate do not wait for each other for ever, with no timer set  *)
(* as well as with timers (patch.ts 40-49).                                *)
EveryCallEnds == \A c \in Calls : Started(c) ~> Ended(c)

=============================================================================
