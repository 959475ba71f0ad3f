------------------------- MODULE MCDevTaskLifecycle -------------------------
(* DevTaskLifecycle on one or two tasks: which kinds meet which events.    *)
EXTENDS DevTaskLifecycle, TLC
CONSTANTS t1, t2

OneWorkflow        == t1 :> "workflow"
TwoCommands        == t1 :> "command" @@ t2 :> "command"
CommandAndWorkflow == t1 :> "command" @@ t2 :> "workflow"
CommandAndServer   == t1 :> "command" @@ t2 :> "server"

Case(tasks, may) == [kind |-> tasks, may |-> may]

(* Everything on one task; on two, what keeps the state space small.       *)
SafetyCases ==
  { Case(OneWorkflow, {"cancel", "coordinatorCrash", "workerCrash", "stall", "cleanup"}),
    Case(CommandAndWorkflow, {"cancel", "workerCrash", "cleanup"}),
    Case(CommandAndWorkflow, {"cancel", "coordinatorCrash"}),
    Case(CommandAndServer, {"cancel", "cleanup"}) }

LivenessCases ==
  { Case(OneWorkflow, {"cancel", "workerCrash"}),
    Case(OneWorkflow, {"cancel", "stall", "endless"}),
    Case(TwoCommands, {}) }

=============================================================================
