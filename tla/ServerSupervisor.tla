-------------------------- MODULE ServerSupervisor --------------------------
(***************************************************************************)
(* The production supervisor (scripts/prod-supervisor.mjs): it spawns the  *)
(* server, spawns it again when it exits, and has two watchdogs that kill  *)
(* and replace a server that does not answer.  It is one Node process: a   *)
(* callback runs to its next await, and the exit of a child is an event    *)
(* that comes later than the kill.  The operating system gives the port to *)
(* one process only; a server that does not get it dies (index.ts 540).    *)
(***************************************************************************)
EXTENDS Naturals, FiniteSets

CONSTANT
  Pids        \* process ids; one is used again when its exit has been seen

Dogs == {"health", "queue"}
NoChild == "none"

VARIABLES
  proc,       \* each process: free, starting, serving, hung or exited
  nodeChild,  \* the child the supervisor knows of, or NoChild
  restarting, \* is the timer of a respawn running
  dog,        \* what each watchdog is doing
  fails,      \* its failures in a row
  ticked,     \* has a watchdog ticked since the last spawn
  sfaults,    \* hangs, crashes, slow answers and failed spawns still to come
  spawnFailed \* history: has the last spawn failed

svars == <<proc, nodeChild, restarting, dog, fails, ticked, sfaults, spawnFailed>>

Limit(d) == IF d = "health" THEN 3 ELSE 2

Serving == {p \in Pids : proc[p] = "serving"}
PortHolders == {p \in Pids : proc[p] \in {"serving", "hung"}}
Running == {p \in Pids : proc[p] \in {"starting", "serving", "hung"}}

AnyOf(S) == CHOOSE p \in S : TRUE

SInit(maxFaults) ==
  /\ nodeChild \in {AnyOf(Pids), NoChild}
  /\ spawnFailed = (nodeChild = NoChild)
  /\ sfaults = maxFaults - (IF spawnFailed THEN 1 ELSE 0)
  /\ sfaults >= 0
  /\ proc = [p \in Pids |-> IF p = nodeChild THEN "starting" ELSE "free"]
  /\ restarting = FALSE
  /\ dog = [d \in Dogs |-> "idle"]
  /\ fails = [d \in Dogs |-> 0]
  /\ ticked = FALSE

(* spawnNode: a new child, which becomes the one the supervisor knows of.  *)
(* When the operating system gives none (it is out of handles, say), the   *)
(* "error" handler forgets the child and nothing else: no exit event comes *)
(* of it and no respawn is put on a timer.                                 *)
SpawnNode(procs) ==
  \/ LET p == AnyOf({q \in Pids : procs[q] = "free"}) IN
     /\ proc' = [procs EXCEPT ![p] = "starting"]
     /\ nodeChild' = p
     /\ ticked' = FALSE
     /\ spawnFailed' = FALSE
     /\ UNCHANGED sfaults
  \/ /\ sfaults > 0
     /\ sfaults' = sfaults - 1
     /\ nodeChild' = NoChild
     /\ spawnFailed' = TRUE
     /\ proc' = procs
     /\ UNCHANGED ticked

Killed(procs, S) == [p \in Pids |-> IF p \in S THEN "exited" ELSE procs[p]]

-----------------------------------------------------------------------------
(* The server processes.                                                   *)

(* app.listen: the process gets the port, or dies of EADDRINUSE.           *)
Listen(p) ==
  /\ proc[p] = "starting"
  /\ proc' = [proc EXCEPT ![p] = IF PortHolders = {} THEN "serving" ELSE "exited"]
  /\ UNCHANGED <<nodeChild, restarting, dog, fails, ticked, sfaults, spawnFailed>>

(* The server stops answering, or dies.                                    *)
Breaks(p) ==
  /\ proc[p] = "serving" /\ sfaults > 0
  /\ \E how \in {"hung", "exited"} : proc' = [proc EXCEPT ![p] = how]
  /\ sfaults' = sfaults - 1
  /\ UNCHANGED <<nodeChild, restarting, dog, fails, ticked, spawnFailed>>

-----------------------------------------------------------------------------
(* The exit event of a child and the delayed respawn.                      *)

(* Mutant of ExitEvent: an exit that a watchdog has caused is not followed *)
(* by a respawn.                                                           *)
ExitEvent_Ignored(p) ==
  /\ proc[p] = "exited"
  /\ proc' = [proc EXCEPT ![p] = "free"]
  /\ nodeChild' = IF nodeChild = p THEN NoChild ELSE nodeChild
  /\ UNCHANGED <<restarting, dog, fails, ticked, sfaults, spawnFailed>>

(* The handler of any child forgets whatever child is known by now.        *)
ExitEvent(p) ==
  /\ proc[p] = "exited"
  /\ proc' = [proc EXCEPT ![p] = "free"]
  /\ nodeChild' = NoChild
  /\ restarting' = TRUE
  /\ UNCHANGED <<dog, fails, ticked, sfaults, spawnFailed>>

Respawn ==
  /\ restarting
  /\ restarting' = FALSE
  /\ SpawnNode(proc)
  /\ UNCHANGED <<dog, fails>>

-----------------------------------------------------------------------------
(* The watchdogs: healthTick and queueProbe.                               *)

(* An interval is long against the delivery of an exit event and longer    *)
(* than the start of a server.                                             *)
Tick(d) ==
  /\ dog[d] = "idle" /\ ~restarting /\ nodeChild # NoChild
  /\ \A p \in Pids : proc[p] # "exited" /\ (proc[p] = "starting" => p = nodeChild /\ ~ticked)
  /\ dog' = [dog EXCEPT ![d] = "probe"]
  /\ ticked' = TRUE
  /\ UNCHANGED <<proc, nodeChild, restarting, fails, sfaults, spawnFailed>>

ProbeSucceeds(d) ==
  /\ dog[d] = "probe" /\ Serving # {}
  /\ dog' = [dog EXCEPT ![d] = "idle"]
  /\ fails' = [fails EXCEPT ![d] = 0]
  /\ UNCHANGED <<proc, nodeChild, restarting, ticked, sfaults, spawnFailed>>

(* The last failure in a row starts restartNode, which kills the child the *)
(* supervisor knows of and then waits for the port.                        *)
ProbeFailed(d) ==
  IF fails[d] + 1 < Limit(d)
  THEN /\ fails' = [fails EXCEPT ![d] = @ + 1]
       /\ dog' = [dog EXCEPT ![d] = "idle"]
       /\ UNCHANGED <<proc, nodeChild>>
  ELSE /\ fails' = [fails EXCEPT ![d] = 0]
       /\ dog' = [dog EXCEPT ![d] = "wait"]
       /\ proc' = Killed(proc, {nodeChild} \cap Running)
       /\ nodeChild' = NoChild

(* Nothing answers at the port.                                            *)
ProbeFails(d) ==
  /\ dog[d] = "probe" /\ Serving = {}
  /\ ProbeFailed(d)
  /\ UNCHANGED <<restarting, ticked, sfaults, spawnFailed>>

(* The server answers too late: its tool queue is full, say.               *)
ProbeTimesOut(d) ==
  /\ dog[d] = "probe" /\ Serving # {} /\ sfaults > 0
  /\ ProbeFailed(d)
  /\ sfaults' = sfaults - 1
  /\ UNCHANGED <<restarting, ticked, spawnFailed>>

(* The port is free: restartNode spawns the server.                        *)
RestartSpawns(d) ==
  /\ dog[d] = "wait" /\ PortHolders = {}
  /\ dog' = [dog EXCEPT ![d] = "idle"]
  /\ SpawnNode(proc)
  /\ UNCHANGED <<restarting, fails>>

(* It is not free after 15 seconds: whoever holds it is killed.  (Should   *)
(* it stay taken even so, the server is spawned all the same.)             *)
RestartForces(d) ==
  /\ dog[d] = "wait" /\ PortHolders # {}
  /\ proc' = Killed(proc, PortHolders)
  /\ UNCHANGED <<nodeChild, restarting, dog, fails, ticked, sfaults, spawnFailed>>

-----------------------------------------------------------------------------
SNext ==
  \/ \E p \in Pids : Listen(p) \/ Breaks(p) \/ ExitEvent(p)
  \/ Respawn
  \/ \E d \in Dogs :
       \/ Tick(d) \/ ProbeSucceeds(d) \/ ProbeFails(d) \/ ProbeTimesOut(d)
       \/ RestartSpawns(d) \/ RestartForces(d)

(* Processes and timers go on.  A tick is dropped, not put off, when its   *)
(* guards do not hold, so it is promised only if they hold from then on.   *)
SFair ==
  /\ \A p \in Pids : WF_svars(Listen(p)) /\ WF_svars(ExitEvent(p))
  /\ WF_svars(Respawn)
  /\ \A d \in Dogs :
       /\ WF_svars(Tick(d))
       /\ WF_svars(ProbeSucceeds(d) \/ ProbeFails(d))
       /\ WF_svars(RestartSpawns(d) \/ RestartForces(d))

-----------------------------------------------------------------------------
(* The supervisor has given up: its last spawn failed, and no timer, exit  *)
(* event or watchdog under way will try another.  It stays so for good,    *)
(* the watchdogs return at once when no child is known.                    *)
GivenUp ==
  /\ spawnFailed /\ nodeChild = NoChild /\ ~restarting
  /\ \A d \in Dogs : dog[d] = "idle"
  /\ \A p \in Pids : proc[p] = "free"

(* Once nothing holds the port, a server will serve it, unless a spawn has *)
(* failed with no other on the way: the exits of children that were        *)
(* replaced, forgotten or never got the port always lead to another spawn  *)
(* (prod-supervisor.mjs 97-127), as does a watchdog that was restarting    *)
(* the server when the spawn failed.                                       *)
PortServedAgain == PortHolders = {} ~> (Serving # {} \/ GivenUp)

(* The supervisor keeps the server up (prod-supervisor.mjs 4 to 8): it     *)
(* never gives up.  The code does not keep this.                           *)
NeverGivesUp == ~GivenUp

(* The watchdogs replace a server that has stopped answering (the header   *)
(* of prod-supervisor.mjs, lines 3 to 8).                                  *)
HungReplaced == \A p \in Pids : proc[p] = "hung" ~> proc[p] # "hung"
=============================================================================
