------------------------------- MODULE Service -------------------------------
(***************************************************************************)
(* The production service: the server process under its supervisor, and    *)
(* the environment plans its calls make and apply.  A call makes progress  *)
(* while the process that holds the port serves; it dies with the process. *)
(* The plan files, the machine and the broker survive it.                  *)
(***************************************************************************)
EXTENDS EnvironmentPlans, ServerSupervisor

CONSTANT
  Cases   \* how many calls there are and how much may go wrong

CasesAssumption ==
  \A k \in Cases : k.clients \subseteq Calls /\ {k.broker, k.drifts, k.server} \subseteq Nat
ASSUME CasesAssumption

VARIABLE clients   \* the calls there are

serviceVars == <<evars, svars, clients>>

ServiceInit ==
  \E k \in Cases :
    /\ clients = k.clients
    /\ EInit(k.broker, k.drifts) /\ SInit(k.server)

Calling ==
  /\ Serving # {}
  /\ \E c \in clients : EBegin(c) \/ ECall(c)
  /\ UNCHANGED <<svars, clients>>

Elsewhere == EOutside /\ UNCHANGED <<svars, clients>>

Supervising ==
  /\ SNext
  /\ IF \E p \in PortHolders : proc'[p] = "exited" THEN ServerDies ELSE UNCHANGED evars
  /\ UNCHANGED clients

ServiceNext == Calling \/ Elsewhere \/ Supervising

ServiceSpec == ServiceInit /\ [][ServiceNext]_serviceVars

FairServiceSpec == ServiceSpec /\ SFair
=============================================================================
