-------------------------- MODULE EnvironmentPlans --------------------------
(***************************************************************************)
(* Changes of the development environment: a plan is made from a snapshot  *)
(* of the machine, saved, claimed once and applied step by step through    *)
(* the administrator broker, a service of its own behind a named pipe      *)
(* (src/development/environment/, tools/developmentEnvironment.ts,         *)
(* broker/).                                                               *)
(*                                                                         *)
(* A call of apply_environment_plan begins here when its approval has been *)
(* consumed.  The server runs a call from one await to the next; the claim *)
(* has no await in it.  The machine and the broker know nothing of that.   *)
(***************************************************************************)
EXTENDS Naturals, Sequences, SequencesExt, FiniteSets

CONSTANTS
  Calls,        \* calls of the tools in flight at the same time
  PlanIds, Owners,
  Catalog,      \* the components, in the order of their ids
  Requires,     \* DEPENDENCIES: what a component needs before it
  Privileged,   \* the components that need the broker
  Visible,      \* the components an inspection can find (fixed_candidates)
  Requests,     \* what the clients ask for: sequences of components
  BrokerReady   \* is there a broker client (an owner SID and a key)

Components == ToSet(Catalog)
None == "none"

EnvAssumption ==
  /\ Catalog \in Seq(Components) /\ IsInjective(Catalog)
  /\ Requires \in [Components -> Seq(Components)]
  /\ \E rank \in [Components -> 0 .. Len(Catalog)] :   \* DEPENDENCIES has no cycle
       \A comp \in Components : \A dep \in ToSet(Requires[comp]) : rank[dep] < rank[comp]
  /\ Privileged \subseteq Components /\ Visible \subseteq Components
  /\ \A r \in Requests : r \in Seq(Components) \ {<<>>} /\ IsInjective(r)
  /\ BrokerReady \in BOOLEAN
  /\ None \notin Calls \cup PlanIds \cup Components
ASSUME EnvAssumption

VARIABLES
  ready,        \* the components that are installed
  plan,         \* the files of the plan store
  call,         \* the calls
  broker,       \* the broker service
  executed,     \* history: what the broker has started to install for each plan
  installed,    \* history: what it has installed for each plan
  completed,    \* history: the plans a call has reported completed
  efaults,      \* faults of the broker and of the pipe that may still come
  drifts        \* changes by somebody else and expiries that may still come

evars == <<ready, plan, call, broker, executed, installed, completed, efaults, drifts>>

NoPlan == [status |-> None, owner |-> None, made |-> {}, ops |-> <<>>, expired |-> FALSE]

IdleCall == [at |-> "idle", plan |-> None, owner |-> None, request |-> <<>>, pos |-> 0, seen |-> {},
         ops |-> <<>>, step |-> 0, answer |-> None]

(* The broker serves one connection at a time; "known" holds the plan ids  *)
(* it has been given, in memory only.                                      *)
BrokerUp == [up |-> TRUE, busy |-> None, component |-> None, plan |-> None, known |-> {}]

EInit(maxFaults, maxDrifts) ==
  /\ ready = {}
  /\ plan = [p \in PlanIds |-> NoPlan]
  /\ call = [c \in Calls |-> IdleCall]
  /\ broker = BrokerUp
  /\ executed = [p \in PlanIds |-> <<>>]
  /\ installed = [p \in PlanIds |-> {}]
  /\ completed = {}
  /\ efaults = maxFaults /\ drifts = maxDrifts

Go(c, rec) == call' = [call EXCEPT ![c] = rec]
EFault == efaults > 0 /\ efaults' = efaults - 1

-----------------------------------------------------------------------------
(* The plan.                                                               *)

(* Mutant of TopoSort: the order of the request.                           *)
TopoSort_Requested(request) == request

(* visit, for each of ids in turn, from the order there is so far.         *)
VisitAll(visit, order, ids) ==
  LET after[n \in 0 .. Len(ids)] == IF n = 0 THEN order ELSE visit[ids[n]][after[n - 1]]
  IN after[Len(ids)]

Visit(visit, order, id, request) ==
  IF id \in ToSet(order) \/ id \notin ToSet(request) THEN order
  ELSE Append(VisitAll(visit, order, Requires[id]), id)

(* The requested components as they come, each after the requested ones it *)
(* depends on.                                                             *)
TopoSort(request) ==
  LET visit[id \in Components] == [order \in Seq(Components) |-> Visit(visit, order, id, request)]
  IN VisitAll(visit, <<>>, request)

(* plan_environment_changes and apply_environment_plan both begin with an  *)
(* inspection; the latter has read the plan before it.                     *)
BeginPlan(c, o, r) ==
  /\ call[c].at = "idle"
  /\ Go(c, [IdleCall EXCEPT !.at = "inspect", !.owner = o, !.request = r, !.pos = 1])
  /\ UNCHANGED <<ready, plan, broker, executed, installed, completed, efaults, drifts>>

BeginApply(c, o, p) ==
  /\ call[c].at = "idle" /\ plan[p].status # None
  /\ Go(c, [IdleCall EXCEPT !.at = "inspect", !.owner = o, !.plan = p, !.ops = plan[p].ops, !.pos = 1])
  /\ UNCHANGED <<ready, plan, broker, executed, installed, completed, efaults, drifts>>

(* A candidate of the component is there and trusted.                      *)
Resolved(comp) == {comp} \cap ready \cap Visible

(* One component is resolved; the machine may change before the next.      *)
Inspect(c) ==
  LET rec == call[c] IN
  /\ rec.at = "inspect"
  /\ Go(c, [rec EXCEPT !.seen = @ \cup Resolved(Catalog[rec.pos]), !.pos = @ + 1,
                       !.at = IF rec.pos < Len(Catalog) THEN "inspect"
                              ELSE IF rec.plan = None THEN "save" ELSE "claim"])
  /\ UNCHANGED <<ready, plan, broker, executed, installed, completed, efaults, drifts>>

(* The plan is made and saved under a new id.                              *)
SavePlan(c, p) ==
  /\ call[c].at = "save" /\ plan[p].status = None
  /\ plan' = [plan EXCEPT ![p] =
       [status |-> "planned", owner |-> call[c].owner, made |-> call[c].seen,
        ops |-> TopoSort(call[c].request), expired |-> FALSE]]
  /\ Go(c, IdleCall)
  /\ UNCHANGED <<ready, broker, executed, installed, completed, efaults, drifts>>

(* Mutant of Claimable: the status of the plan is not looked at.           *)
Claimable_Again(c) ==
  LET p == plan[call[c].plan] IN
  p.owner = call[c].owner /\ p.made = call[c].seen /\ ~p.expired

(* PlanStore.claim, which gives a refusal of its own to each of these.     *)
Claimable(c) ==
  LET p == plan[call[c].plan] IN
  p.owner = call[c].owner /\ p.made = call[c].seen /\ ~p.expired /\ p.status = "planned"

Claim(c) ==
  LET p == call[c].plan IN
  /\ call[c].at = "claim"
  /\ IF Claimable(c)
     THEN /\ plan' = [plan EXCEPT ![p].status = "claimed"]
          /\ Go(c, [call[c] EXCEPT !.at = "step", !.step = 1])
     ELSE Go(c, IdleCall) /\ UNCHANGED plan
  /\ UNCHANGED <<ready, broker, executed, installed, completed, efaults, drifts>>

-----------------------------------------------------------------------------
(* PlanApplier.apply and BrokerClient.apply.                               *)

(* The next operation, or the end.  A component without the privilege flag *)
(* would need the local launcher, which no code installs.                  *)
ApplyStep(c) ==
  LET rec == call[c] IN
  /\ rec.at = "step"
  /\ IF rec.step > Len(rec.ops)
     THEN Go(c, IdleCall) /\ completed' = completed \cup {rec.plan}
     ELSE /\ Go(c, IF rec.ops[rec.step] \in Privileged /\ BrokerReady
                   THEN [rec EXCEPT !.at = "connect"] ELSE IdleCall)
          /\ UNCHANGED completed
  /\ UNCHANGED <<ready, plan, broker, executed, installed, efaults, drifts>>

(* Nobody listens at the pipe.                                             *)
ConnectFails(c) ==
  /\ call[c].at = "connect" /\ ~broker.up
  /\ Go(c, IdleCall)
  /\ UNCHANGED <<ready, plan, broker, executed, installed, completed, efaults, drifts>>

(* The 30 seconds of the client are over; an installation may take longer. *)
TimesOut(c) ==
  /\ call[c].at \in {"connect", "asked"}
  /\ EFault
  /\ Go(c, IdleCall)
  /\ UNCHANGED <<ready, plan, broker, executed, installed, completed, drifts>>

(* Mutant of Accepted: "already applied" counts as applied.                *)
Accepted_Known(answer) == answer \in {"accepted", "AlreadyApplied"}

Accepted(answer) == answer = "accepted"

Answered(c) ==
  /\ call[c].at = "answered"
  /\ Go(c, IF Accepted(call[c].answer)
           THEN [call[c] EXCEPT !.at = "step", !.step = @ + 1] ELSE IdleCall)
  /\ UNCHANGED <<ready, plan, broker, executed, installed, completed, efaults, drifts>>

-----------------------------------------------------------------------------
(* BrokerService.                                                          *)

(* The plan id the applier sends: "filled by caller context", by nobody.   *)
SentPlanId(c) == ""

(* A request is taken from the pipe and validated.                         *)
BrokerTakes(c) ==
  LET id == SentPlanId(c) IN
  /\ call[c].at = "connect" /\ broker.up /\ broker.busy = None
  /\ IF id \in broker.known
     THEN /\ Go(c, [call[c] EXCEPT !.at = "answered", !.answer = "AlreadyApplied"])
          /\ UNCHANGED <<broker, executed>>
     ELSE LET p == call[c].plan  comp == call[c].ops[call[c].step] IN
          /\ broker' = [broker EXCEPT !.busy = c, !.component = comp, !.plan = p,
                                      !.known = @ \cup {id}]
          /\ executed' = [executed EXCEPT ![p] = Append(@, comp)]
          /\ Go(c, [call[c] EXCEPT !.at = "asked"])
  /\ UNCHANGED <<ready, plan, installed, completed, efaults, drifts>>

(* The installer has ended.  If the client has gone, the write of the      *)
(* answer throws out of the loop of the service, which ends with it.       *)
BrokerAnswers(answer) ==
  LET c == broker.busy
      waits == call[c].at = "asked" /\ call[c].plan = broker.plan IN
  /\ broker' = [broker EXCEPT !.up = waits, !.busy = None, !.component = None, !.plan = None,
                              !.known = IF waits THEN @ ELSE {}]
  /\ call' = IF waits THEN [call EXCEPT ![c].at = "answered", ![c].answer = answer] ELSE call

Installed ==
  /\ broker.busy # None
  /\ BrokerAnswers("accepted")
  /\ ready' = ready \cup {broker.component}
  /\ installed' = [installed EXCEPT ![broker.plan] = @ \cup {broker.component}]
  /\ UNCHANGED <<plan, executed, completed, efaults, drifts>>

InstallFails ==
  /\ broker.busy # None
  /\ EFault
  /\ BrokerAnswers("failed")
  /\ UNCHANGED <<ready, plan, executed, installed, completed, drifts>>

(* The service is started by its administrator.                            *)
BrokerStarts ==
  /\ ~broker.up
  /\ broker' = BrokerUp
  /\ UNCHANGED <<ready, plan, call, executed, installed, completed, efaults, drifts>>

BrokerStops ==
  /\ broker.up /\ EFault
  /\ broker' = [BrokerUp EXCEPT !.up = FALSE]
  /\ call' = [c \in Calls |-> IF call[c].at = "asked" THEN IdleCall ELSE call[c]]
  /\ UNCHANGED <<ready, plan, executed, installed, completed, drifts>>

-----------------------------------------------------------------------------
(* Everything else.                                                        *)

(* Somebody installs or removes a component.                               *)
Drift(comp) ==
  /\ drifts > 0 /\ drifts' = drifts - 1
  /\ ready' = IF comp \in ready THEN ready \ {comp} ELSE ready \cup {comp}
  /\ UNCHANGED <<plan, call, broker, executed, installed, completed, efaults>>

(* Thirty minutes have passed.                                             *)
Expire(p) ==
  /\ plan[p].status # None /\ ~plan[p].expired
  /\ drifts > 0 /\ drifts' = drifts - 1
  /\ plan' = [plan EXCEPT ![p].expired = TRUE]
  /\ UNCHANGED <<ready, call, broker, executed, installed, completed, efaults>>

ECall(c) ==
  \/ Inspect(c) \/ (\E p \in PlanIds : SavePlan(c, p)) \/ Claim(c)
  \/ ApplyStep(c) \/ ConnectFails(c) \/ TimesOut(c) \/ Answered(c)

EBegin(c) ==
  \E o \in Owners :
    (\E r \in Requests : BeginPlan(c, o, r)) \/ (\E p \in PlanIds : BeginApply(c, o, p))

EOutside ==
  \/ \E c \in Calls : BrokerTakes(c)
  \/ Installed \/ InstallFails \/ BrokerStarts \/ BrokerStops
  \/ (\E comp \in Components : Drift(comp)) \/ (\E p \in PlanIds : Expire(p))

(* The server dies, and its calls with it.                                 *)
ServerDies ==
  /\ call' = [c \in Calls |-> IdleCall]
  /\ UNCHANGED <<ready, plan, broker, executed, installed, completed, efaults, drifts>>

-----------------------------------------------------------------------------
PlanRecord ==
  [status : {None, "planned", "claimed"}, owner : Owners \cup {None}, made : SUBSET Components,
   ops : Seq(Components), expired : BOOLEAN]
CallRecord ==
  [at : {"idle", "inspect", "save", "claim", "step", "connect", "asked", "answered"},
   plan : PlanIds \cup {None}, owner : Owners \cup {None}, request : Requests \cup {<<>>},
   pos : Nat, seen : SUBSET Components, ops : Seq(Components), step : Nat,
   answer : {None, "accepted", "failed", "AlreadyApplied"}]
BrokerRecord ==
  [up : BOOLEAN, busy : Calls \cup {None}, component : Components \cup {None},
   plan : PlanIds \cup {None}, known : {{}, {""}}]

(* Every variable keeps its type.                                          *)
ETypeOK ==
  /\ ready \subseteq Components /\ completed \subseteq PlanIds
  /\ plan \in [PlanIds -> PlanRecord] /\ call \in [Calls -> CallRecord] /\ broker \in BrokerRecord
  /\ executed \in [PlanIds -> Seq(Components)] /\ installed \in [PlanIds -> SUBSET Components]
  /\ efaults \in Nat /\ drifts \in Nat

(* Whatever times out, dies or is tried again: of a plan the broker is     *)
(* given each operation at most once, in the order of the plan, and none   *)
(* after one that has failed (planStore.ts 91, applyPlan.ts 63).           *)
ExecutedOnce == \A p \in PlanIds : IsPrefix(executed[p], plan[p].ops)

(* A component is given to the broker only when those of the plan it needs *)
(* have been installed (planner.ts 164, applyPlan.ts 65-105).              *)
DependenciesInstalled ==
  \A p \in PlanIds : \A comp \in ToSet(executed[p]) :
    ToSet(Requires[comp]) \cap ToSet(plan[p].ops) \subseteq installed[p]

(* A plan that is reported completed has been installed as a whole         *)
(* (applyPlan.ts 80-105, developmentEnvironment.ts 256-276).               *)
CompletedInstalled == \A p \in completed : ToSet(plan[p].ops) \subseteq installed[p]

(* Both: whatever the broker or the user is led to rely on is installed,   *)
(* in spite of refusals and of answers that never come.                    *)
InstalledAsPlanned == DependenciesInstalled /\ CompletedInstalled

(* A call is applying the plan.                                             *)
Applying(p) ==
  \E c \in Calls : call[c].plan = p /\ call[c].at \in {"step", "connect", "asked", "answered"}

(* Where nothing fails, a claimed plan that needs the broker alone is      *)
(* applied to its end (applyPlan.ts 4-8 and 122).                          *)
AppliedToTheEnd ==
  \A p \in PlanIds :
    /\ plan[p].status = "claimed" /\ ~Applying(p)
    /\ BrokerReady /\ ToSet(plan[p].ops) \subseteq Privileged
    => p \in completed
=============================================================================
