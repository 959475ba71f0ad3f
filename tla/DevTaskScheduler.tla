-------------------------- MODULE DevTaskScheduler --------------------------
(***************************************************************************)
(* The in-process resource scheduler of the development task subsystem     *)
(* (src/development/tasks/scheduler.ts): a global cap, a cap per task      *)
(* class, exclusive named resources and one FIFO list of waiters.          *)
(*                                                                         *)
(* Every method of the class runs to completion on the event loop, so a    *)
(* method, the reservation, release and drain it performs included, is one *)
(* action.  The only interleavings are between methods, the settling of a  *)
(* started function and the queue timers.                                  *)
(*                                                                         *)
(* The list of waiters is kept as the set of waiting tasks and, for each   *)
(* of them, the set of waiters ahead of it: the same information as a list *)
(* without repetitions, and no recursion is needed to speak of the scan.   *)
(***************************************************************************)
EXTENDS Integers, FiniteSets

CONSTANTS
  Tasks,        \* task identifiers
  Resources,    \* names of projects and devices
  Total,        \* options.total
  Builds,       \* options.builds
  Privileged,   \* options.privileged
  Timers        \* TRUE iff options.queueTimeoutMs > 0

Classes == {"default", "build", "privileged"}

ASSUME SchedulerAssumption ==
  /\ IsFiniteSet(Tasks)
  /\ Total \in Nat \ {0} /\ Builds \in Nat \ {0} /\ Privileged \in Nat \ {0}
  /\ Timers \in BOOLEAN

VARIABLES
  occ,        \* [active, held, builds, privileged]: the occupied capacity
  waiters,    \* the tasks in the list of waiters
  ahead,      \* ahead[t]: the waiters that stand before waiter t
  request,    \* request[t]: class and resources of the last accepted call
  adopted,    \* active tasks whose continuation is runAdopted
  outcome     \* outcome[t]: how the promise of the last accepted call stands

vars == <<occ, waiters, ahead, request, adopted, outcome>>

Requests == [class : Classes, resources : SUBSET Resources]
Outcomes == {"none", "pending", "settled", "cancelled", "timedOut"}
Occupancies == [active : SUBSET Tasks, held : [Resources -> Nat],
                builds : Int, privileged : Int]

-----------------------------------------------------------------------------
(* The tasks of T whose request is of class c, and those that want r.      *)
OfClass(T, c, req) == {t \in T : req[t].class = c}
Wanting(T, r, req) == {t \in T : r \in req[t].resources}

(* Whether a request may start on occupancy o.                             *)
CanStart(q, o) ==
  /\ Cardinality(o.active) < Total
  /\ q.class = "build" => o.builds < Builds
  /\ q.class = "privileged" => o.privileged < Privileged
  /\ \A r \in q.resources : o.held[r] = 0

(* Occupancy o after every task of T has been reserved; heldResources maps *)
(* an absent key to 0.                                                     *)
Reserve(o, T, req) ==
  [active     |-> o.active \cup T,
   held       |-> [r \in Resources |-> o.held[r] + Cardinality(Wanting(T, r, req))],
   builds     |-> o.builds + Cardinality(OfClass(T, "build", req)),
   privileged |-> o.privileged + Cardinality(OfClass(T, "privileged", req))]

(* Mutant of Release: the privileged slot is never given back.             *)
Release_KeepsPrivileged(o, t, q) ==
  [o EXCEPT !.active = @ \ {t},
            !.held = [r \in Resources |-> IF r \in q.resources THEN @[r] - 1 ELSE @[r]],
            !.builds = IF q.class = "build" THEN @ - 1 ELSE @]

(* Occupancy o after active task t has settled.  A count that reaches zero *)
(* is deleted, and deleting never goes below zero.                         *)
Release(o, t, q) ==
  [active     |-> o.active \ {t},
   held       |-> [r \in Resources |->
                     IF r \in q.resources /\ o.held[r] > 0
                     THEN o.held[r] - 1 ELSE o.held[r]],
   builds     |-> IF q.class = "build" THEN o.builds - 1 ELSE o.builds,
   privileged |-> IF q.class = "privileged" THEN o.privileged - 1 ELSE o.privileged]

(* Mutant of Drains: the list is scanned from its end.                     *)
Drains_LastFirst(A, o, W) ==
  /\ A \subseteq W
  /\ \A t \in W :
       t \in A <=> CanStart(request[t], Reserve(o, {u \in A : t \in ahead[u]}, request))

(* The set A of waiters a drain of W starts on occupancy o: a waiter starts *)
(* iff it can beside the waiters ahead of it that start.  Starting only    *)
(* takes capacity away, so the rescan after each start finds nothing in    *)
(* front of the point it had reached, and one pass over the list decides.  *)
Drains(A, o, W) ==
  /\ A \subseteq W
  /\ \A t \in W :
       t \in A <=> CanStart(request[t], Reserve(o, A \cap ahead[t], request))

(* The waiters W left by a removal are drained on occupancy o.             *)
Drain(o, W) ==
  \E A \in SUBSET W :
    /\ Drains(A, o, W)
    /\ occ' = Reserve(o, A, request)
    /\ waiters' = W \ A
    /\ ahead' = [t \in Tasks |-> IF t \in W \ A THEN ahead[t] \cap (W \ A) ELSE {}]

-----------------------------------------------------------------------------
Init ==
  /\ occ = [active |-> {}, held |-> [r \in Resources |-> 0],
            builds |-> 0, privileged |-> 0]
  /\ waiters = {}
  /\ ahead = [t \in Tasks |-> {}]
  /\ request = [t \in Tasks |-> [class |-> "default", resources |-> {}]]
  /\ adopted = {}
  /\ outcome = [t \in Tasks |-> "none"]

(* A call is rejected, with no effect, while its task is scheduled.        *)
Unscheduled(t) == t \notin occ.active /\ t \notin waiters

(* run(): start at once when the request fits, whoever may be waiting...   *)
RunStart(t, q) ==
  /\ Unscheduled(t)
  /\ CanStart(q, occ)
  /\ request' = [request EXCEPT ![t] = q]
  /\ occ' = Reserve(occ, {t}, request')
  /\ outcome' = [outcome EXCEPT ![t] = "pending"]
  /\ UNCHANGED <<waiters, ahead, adopted>>

(* ... and join the end of the list otherwise.                             *)
RunQueue(t, q) ==
  /\ Unscheduled(t)
  /\ ~CanStart(q, occ)
  /\ request' = [request EXCEPT ![t] = q]
  /\ waiters' = waiters \cup {t}
  /\ ahead' = [ahead EXCEPT ![t] = waiters]
  /\ outcome' = [outcome EXCEPT ![t] = "pending"]
  /\ UNCHANGED <<occ, adopted>>

(* Mutant of Adopt: the adopted worker is not counted.                     *)
Adopt_Uncounted(t, q) ==
  /\ Unscheduled(t)
  /\ request' = [request EXCEPT ![t] = q]
  /\ occ' = [occ EXCEPT !.active = @ \cup {t}]
  /\ adopted' = adopted \cup {t}
  /\ outcome' = [outcome EXCEPT ![t] = "pending"]
  /\ UNCHANGED <<waiters, ahead>>

(* adopt(): a worker that survived a restart is counted without admission. *)
Adopt(t, q) ==
  /\ Unscheduled(t)
  /\ request' = [request EXCEPT ![t] = q]
  /\ occ' = Reserve(occ, {t}, request')
  /\ adopted' = adopted \cup {t}
  /\ outcome' = [outcome EXCEPT ![t] = "pending"]
  /\ UNCHANGED <<waiters, ahead>>

(* Mutant of Settle: the capacity is released and nobody is woken.         *)
Settle_NoDrain(t) ==
  /\ t \in occ.active
  /\ occ' = Release(occ, t, request[t])
  /\ adopted' = adopted \ {t}
  /\ outcome' = [outcome EXCEPT ![t] = "settled"]
  /\ UNCHANGED <<waiters, ahead, request>>

(* The function or watcher of an active task settles, either way.          *)
Settle(t) ==
  /\ t \in occ.active
  /\ Drain(Release(occ, t, request[t]), waiters)
  /\ adopted' = adopted \ {t}
  /\ outcome' = [outcome EXCEPT ![t] = "settled"]
  /\ UNCHANGED request

(* A waiter leaves the list unstarted: cancel() or its queue timer.        *)
Leave(t, why) ==
  /\ t \in waiters
  /\ Drain(occ, waiters \ {t})
  /\ outcome' = [outcome EXCEPT ![t] = why]
  /\ UNCHANGED <<request, adopted>>

Cancel(t) == Leave(t, "cancelled")
QueueTimeout(t) == Timers /\ Leave(t, "timedOut")

Next ==
  \E t \in Tasks :
    \/ \E q \in Requests : RunStart(t, q) \/ RunQueue(t, q) \/ Adopt(t, q)
    \/ Settle(t)
    \/ Cancel(t)
    \/ QueueTimeout(t)

Spec == Init /\ [][Next]_vars

(* The functions handed to the scheduler settle: dispatch and the watchers *)
(* of adopted workers both end with the worker (see DevTaskLifecycle).     *)
Fairness == \A t \in Tasks : WF_vars(Settle(t))

(* The coordinator gives every record a fresh identifier (store.create),   *)
(* so within one process a task is handed to the scheduler once.           *)
FreshCalls ==
  \A t \in Tasks : outcome[t] # "pending" /\ outcome'[t] = "pending" => outcome[t] = "none"
OnceSpec == Init /\ [][Next /\ FreshCalls]_vars /\ Fairness

-----------------------------------------------------------------------------
(* Every variable keeps its type.                                          *)
TypeOK ==
  /\ occ \in Occupancies
  /\ waiters \subseteq Tasks
  /\ ahead \in [Tasks -> SUBSET Tasks]
  /\ request \in [Tasks -> Requests]
  /\ adopted \subseteq Tasks
  /\ outcome \in [Tasks -> Outcomes]

(* The waiters form a list without repetitions: no waiter is also active,  *)
(* and `ahead' orders them totally (the promise of lines 90-93 and 113).   *)
QueueIsList ==
  /\ waiters \cap occ.active = {}
  /\ \A t \in waiters : ahead[t] \subseteq waiters /\ t \notin ahead[t]
  /\ \A t, u \in waiters :
       /\ t # u => (t \in ahead[u] \/ u \in ahead[t])
       /\ t \in ahead[u] => ahead[t] \subseteq ahead[u]

(* The counters are exact: each held count, the build count and the        *)
(* privileged count equal what the active tasks add up to, so no lock and  *)
(* no slot leaks or is given back twice over any sequence of starts,       *)
(* adoptions, settlements, cancellations and timeouts (lines 179-240).     *)
CountersExact ==
  /\ \A r \in Resources : occ.held[r] = Cardinality(Wanting(occ.active, r, request))
  /\ occ.builds = Cardinality(OfClass(occ.active, "build", request))
  /\ occ.privileged = Cardinality(OfClass(occ.active, "privileged", request))

(* Exclusive, serialized access to named resources (lines 4-8): two active *)
(* tasks share a resource only if one of them was adopted.                 *)
ExclusiveResources ==
  \A t, u \in occ.active :
    t # u /\ request[t].resources \cap request[u].resources # {}
      => t \in adopted \/ u \in adopted

(* The global cap and the caps per class bind everything that was admitted *)
(* rather than adopted (lines 4-5, 157-165).                               *)
CapsRespected ==
  LET admitted == occ.active \ adopted IN
  /\ Cardinality(admitted) <= Total
  /\ Cardinality(OfClass(admitted, "build", request)) <= Builds
  /\ Cardinality(OfClass(admitted, "privileged", request)) <= Privileged

(* No lost wake-up: between two methods no waiter could be started, so     *)
(* free capacity is never left idle in front of a waiter that fits it.     *)
WorkConserving == \A t \in waiters : ~CanStart(request[t], occ)

(* A step that admits a task leaves the scheduler within every cap, the    *)
(* adopted workers counted: adoption alone may exceed a cap, and nothing   *)
(* is admitted on top of it (adopt's comment, lines 126-131).              *)
AdmitsWithinCaps ==
  LET new == occ'.active \ (occ.active \cup adopted') IN
  new # {} =>
    /\ Cardinality(occ'.active) <= Total
    /\ OfClass(new, "build", request') # {} => occ'.builds <= Builds
    /\ OfClass(new, "privileged", request') # {} => occ'.privileged <= Privileged
    /\ \A t \in new : \A u \in occ'.active \ {t} :
         request'[t].resources \cap request'[u].resources = {}
AdmissionWithinCaps == [][AdmitsWithinCaps]_vars

(* Order among rivals: a waiter is never started while an earlier waiter   *)
(* that asks for no more of the same class stays in the list (the FIFO of  *)
(* lines 6-8, as far as skipping blocked waiters leaves it).               *)
KeepsOrder ==
  \A t, u \in waiters :
    /\ t \in ahead[u]
    /\ request[t].class \in {request[u].class, "default"}
    /\ request[t].resources \subseteq request[u].resources
    /\ u \in occ'.active
    => t \notin waiters'
RivalsInOrder == [][KeepsOrder]_vars

(* With finitely many calls and functions that settle, every waiter leaves *)
(* the list: nobody has to cancel it, and its queue timer need not fire.   *)
WaitersLeave == \A t \in Tasks : t \in waiters ~> t \notin waiters

=============================================================================
