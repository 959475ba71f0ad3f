----------------------- MODULE StagingWorkflowProofs -----------------------
(***************************************************************************)
(* Proofs about the Android staging workflow, for any calls, runs, APKs,   *)
(* profiles and faults.                                                    *)
(***************************************************************************)
EXTENDS StagingWorkflow, BasicLemmas

Saving == {"read", "write", "rename"}

Places ==
  {"idle", "preflight", "connect", "loop", "node", "cleanup", "evidence", "unlink"} \cup Saving

(* The five calls of checkpoint().                                         *)
Checkpoints == {"preflight", "tunnel", "node", "branch", "final"}

CallRecords ==
  [at : Places, run : Runs \cup {None}, apk : Apks \cup {None}, nodes : Seq(Nodes),
   state : P!States, passed : Nat, save : Checkpoints \cup {None},
   error : {None, "cancelled", "failed", "thrown"}, aborted : BOOLEAN, tried : BOOLEAN]

(* The call is at a node, or at the checkpoint after it.                   *)
AtNode(rec) == rec.at = "node" \/ (rec.at \in Saving /\ rec.save = "node")

(* What a call that is under way has in its variables.                     *)
Driving(rec) ==
  rec.at # "idle" =>
    /\ rec.run \in Runs /\ rec.apk \in Apks
    /\ rec.nodes \in scenario.profiles
    /\ AtNode(rec) => rec.passed \in DOMAIN rec.nodes

TypeOK ==
  /\ scenario \in Scenarios
  /\ profile \in scenario.profiles
  /\ call \in [Calls -> CallRecords]
  /\ \A c \in Calls : Driving(call[c])
  /\ file \in [Runs -> P!States \cup {None}]
  /\ temp \in [Runs -> P!States \cup {None}]
  /\ live \in [Calls -> [own : BOOLEAN, displaced : BOOLEAN]]
  /\ installed \in Apks \cup {None}
  /\ evidence \in [Runs -> [status : {None, "completed", "failed", "cancelled"},
                            apk : Apks \cup {None}]]
  /\ done \in [Runs -> SUBSET Kinds]
  /\ checked \in [Runs -> SUBSET (Apks \cup {None})]
  /\ faults \in Nat

(* Before its first tunnel and after the finally clause a call has none.   *)
NoTunnelYet(rec) ==
  \/ rec.at \in {"idle", "preflight", "connect", "evidence", "unlink"}
  \/ (rec.at \in Saving /\ rec.save = "preflight")

TunnelInv == \A c \in Calls : NoTunnelYet(call[c]) => ~live[c].own

(* An ssh is displaced where the profile reconnects, and nowhere else.     *)
DisplacedInv == \A c \in Calls : live[c].displaced => Reconnects

(* Calls that do not overlap on a run.                                     *)
Apart ==
  /\ ~scenario.duplicates
  /\ \A c, d \in Calls :
       Active(c) /\ Active(d) /\ call[c].run = call[d].run => c = d

(* The run of the call has come to its end.                                *)
Ending(rec) ==
  rec.at = "unlink" \/ (rec.at \in {"cleanup", "evidence"} /\ rec.error = None)

Ends == {"evidence_written", "completed", "failed", "cancelled", "cleanup_failed"}

(* What a call knows of the checkpoint f of its run and of the temporary   *)
(* file t.                                                                 *)
OnGraph(rec, f, t) ==
  /\ rec.at = "preflight" => f \in {None, "created"}
  /\ rec.at \in {"connect", "loop", "node"} => f = rec.state
  /\ rec.at \in Saving =>
       /\ rec.save = "preflight" => rec.state = "preflight_passed"
       /\ rec.save = "final" => rec.state = "evidence_written"
       /\ rec.save # "preflight" => f # None
  /\ rec.at \in {"write", "rename"} => Allowed(f, rec.state)
  /\ rec.at = "rename" => t = rec.state
  /\ Ending(rec) => f \in Ends

GraphInv ==
  /\ Apart
  /\ \A c \in Calls : Active(c) => OnGraph(call[c], file[call[c].run], temp[call[c].run])

(* A labelling says which kinds of nodes a run has passed at least when it *)
(* is in a state.  A profile that has one lets a run end only after it has *)
(* installed, started and asserted.                                        *)
Tested == {"install", "launch", "assert"}

Labelling(N) ==
  /\ N \in [P!States -> SUBSET Kinds]
  /\ \A s \in {"created", "preflight_passed", "tunnel_connected"} : N[s] = {}
  /\ \A s \in Ends \cup {"scenario_passed", "recovery_passed"} : N[s] = Tested

Earned(N, nodes) ==
  \A i \in DOMAIN nodes :
    LET node == nodes[i] IN
    /\ N[node.success] \subseteq N[node.from] \cup {node.kind}
    /\ node.failure # None => N[node.failure] \subseteq N[node.from]

(* What the run of a call has passed, of the kinds d it has passed in all. *)
HasPassed(N, rec, d) ==
  /\ rec.at \in {"connect", "loop", "node"} \cup Saving => N[rec.state] \subseteq d
  /\ AtNode(rec) => N[rec.nodes[rec.passed].from] \subseteq d
  /\ rec.at = "node" => rec.nodes[rec.passed].from = rec.state
  /\ Ending(rec) => Tested \subseteq d

VerifiedInv(N) ==
  /\ \A nodes \in scenario.profiles : Earned(N, nodes)
  /\ \A c \in Calls : Active(c) => HasPassed(N, call[c], done[call[c].run])
  /\ \A r \in Runs : file[r] # None => N[file[r]] \subseteq done[r]

-----------------------------------------------------------------------------
(* What the operators on the variables of a call return.                   *)

(* The edges of the state graph lead to states.                            *)
LEMMA EdgesAreStates ==
  ASSUME NEW s \in P!States PROVE P!Edges(s) \subseteq P!States
BY DEF P!Edges, P!States

(* A call that gives up the loop.                                          *)
Quit(rec, error) == [rec EXCEPT !.at = "cleanup", !.error = error]

(* A failure is the end of the loop or leads along an edge of the graph.   *)
LEMMA CaughtCases ==
  ASSUME NEW rec \in CallRecords, rec.passed \in DOMAIN rec.nodes
  PROVE  \/ \E e \in {"cancelled", "failed", "thrown"} : Caught(rec) = Quit(rec, e)
         \/ /\ rec.nodes[rec.passed].failure \in P!Edges(rec.state)
            /\ rec.nodes[rec.passed].failure # None
            /\ Caught(rec) = Save(rec, rec.nodes[rec.passed].failure, "branch")
BY DEF Caught, Quit

(* The fields that matter after each of the two.                           *)
LEMMA QuitFields ==
  ASSUME NEW rec \in CallRecords, NEW e \in {"cancelled", "failed", "thrown"}
  PROVE  /\ Quit(rec, e) \in CallRecords
         /\ Quit(rec, e).at = "cleanup" /\ Quit(rec, e).error = e
         /\ Quit(rec, e).run = rec.run /\ Quit(rec, e).apk = rec.apk
         /\ Quit(rec, e).nodes = rec.nodes
BY DEF CallRecords, Quit, Places

LEMMA SaveFields ==
  ASSUME NEW rec \in CallRecords, NEW s \in P!States,
         NEW k \in Checkpoints
  PROVE  /\ Save(rec, s, k) \in CallRecords
         /\ Save(rec, s, k).at = "read" /\ Save(rec, s, k).state = s
         /\ Save(rec, s, k).save = k
         /\ Save(rec, s, k).run = rec.run /\ Save(rec, s, k).apk = rec.apk
         /\ Save(rec, s, k).nodes = rec.nodes /\ Save(rec, s, k).passed = rec.passed
         /\ Save(rec, s, k).error = rec.error
BY DEF CallRecords, Save, Places, Saving

(* What an error comes to: the end of the loop with an error, or the       *)
(* checkpoint of the failure branch.                                       *)
Quits(rec, next) == next.at = "cleanup" /\ next.error # None /\ next.run = rec.run

Branches(rec, next) ==
  /\ next.at = "read" /\ next.save = "branch" /\ next.run = rec.run
  /\ next.state = rec.nodes[rec.passed].failure /\ next.state # None

LEMMA CaughtResult ==
  ASSUME NEW rec \in CallRecords, rec.passed \in DOMAIN rec.nodes
  PROVE  Caught(rec) \in CallRecords /\ (Quits(rec, Caught(rec)) \/ Branches(rec, Caught(rec)))
<1>1. CASE \E e \in {"cancelled", "failed", "thrown"} : Caught(rec) = Quit(rec, e)
  BY <1>1, QuitFields DEF Quits, None
<1>2. CASE /\ rec.nodes[rec.passed].failure \in P!Edges(rec.state)
           /\ rec.nodes[rec.passed].failure # None
           /\ Caught(rec) = Save(rec, rec.nodes[rec.passed].failure, "branch")
  <2>1. rec.state \in P!States
    BY DEF CallRecords
  <2>2. rec.nodes[rec.passed].failure \in P!States /\ "branch" \in Checkpoints
    BY <1>2, <2>1, EdgesAreStates DEF Checkpoints
  <2> DEFINE next == Save(rec, rec.nodes[rec.passed].failure, "branch")
  <2>3. /\ next \in CallRecords /\ next.at = "read" /\ next.save = "branch"
        /\ next.run = rec.run /\ next.state = rec.nodes[rec.passed].failure
    BY <2>2, SaveFields, ZenonT(60)
  <2> QED BY <1>2, <2>3 DEF Branches
<1> QED BY <1>1, <1>2, CaughtCases

LEMMA SaveThrowsResult ==
  ASSUME NEW rec \in CallRecords, rec.save = "node" => rec.passed \in DOMAIN rec.nodes
  PROVE  /\ SaveThrows(rec) \in CallRecords
         /\ \/ Quits(rec, SaveThrows(rec))
            \/ rec.save = "node" /\ Branches(rec, SaveThrows(rec))
<1>1. CASE rec.save = "node"
  BY <1>1, CaughtResult DEF SaveThrows
<1>2. CASE rec.save # "node"
  <2>1. SaveThrows(rec) = Quit(rec, "thrown")
    BY <1>2 DEF SaveThrows, Quit
  <2> QED BY <2>1, QuitFields DEF Quits, None
<1> QED BY <1>1, <1>2

(* The first eligible node is one.                                         *)
LEMMA FirstEligible ==
  ASSUME NEW rec \in CallRecords, Eligible(rec) # {}
  PROVE  LET i == CHOOSE i \in Eligible(rec) : \A j \in Eligible(rec) : i <= j IN
           i \in DOMAIN rec.nodes /\ rec.nodes[i].from = rec.state /\ i \in Nat
<1>1. Eligible(rec) \in SUBSET Nat
  BY DEF Eligible, CallRecords
<1>2. \E i \in Eligible(rec) : \A j \in Eligible(rec) : i <= j
  BY <1>1, LeastNumber
<1> DEFINE i == CHOOSE i \in Eligible(rec) : \A j \in Eligible(rec) : i <= j
<1>3. i \in Eligible(rec)
  BY <1>2
<1> QED BY <1>1, <1>3 DEF Eligible

-----------------------------------------------------------------------------
(* Type correctness.                                                       *)

LEMMA TypeInit == Init => TypeOK
<1> SUFFICES ASSUME Init PROVE TypeOK
  OBVIOUS
<1> USE DEF Init
<1>1. scenario \in Scenarios /\ profile \in scenario.profiles
  OBVIOUS
<1>2. Idle \in CallRecords
  BY DEF Idle, CallRecords, Places, P!States
<1>3. call \in [Calls -> CallRecords] /\ \A c \in Calls : Driving(call[c])
  BY <1>2 DEF Driving, Idle
<1> QED BY <1>1, <1>3 DEF TypeOK

(* A step in which one call goes on.                                       *)
LEMMA TypedGo ==
  ASSUME TypeOK, NEW c \in Calls, NEW rec \in CallRecords, Driving(rec),
         Go(c, rec), scenario' = scenario
  PROVE  call' \in [Calls -> CallRecords] /\ \A d \in Calls : Driving(call'[d])
BY DEF TypeOK, Go

(* A call goes on from a record that is typed to one that is.              *)
LEMMA TypedCaught ==
  ASSUME TypeOK, NEW rec \in CallRecords, Driving(rec), AtNode(rec)
  PROVE  /\ Caught(rec) \in CallRecords /\ Driving(Caught(rec))
<1>1. rec.at # "idle" /\ rec.passed \in DOMAIN rec.nodes
  BY DEF Driving, AtNode, Saving
<1>2. CASE \E e \in {"cancelled", "failed", "thrown"} : Caught(rec) = Quit(rec, e)
  BY <1>1, <1>2, QuitFields DEF Driving, AtNode, Saving
<1>3. CASE /\ rec.nodes[rec.passed].failure \in P!Edges(rec.state)
           /\ Caught(rec) = Save(rec, rec.nodes[rec.passed].failure, "branch")
  <2> DEFINE next == Save(rec, rec.nodes[rec.passed].failure, "branch")
  <2>1. rec.nodes[rec.passed].failure \in P!States
    BY <1>3, EdgesAreStates DEF CallRecords
  <2>2. /\ next \in CallRecords /\ next.at = "read" /\ next.save = "branch"
        /\ next.run = rec.run /\ next.apk = rec.apk /\ next.nodes = rec.nodes
    <3>1. "branch" \in Checkpoints
      BY DEF Checkpoints
    <3> QED BY ONLY rec \in CallRecords, <2>1, <3>1, SaveFields, ZenonT(60)
  <2> QED BY <1>1, <1>3, <2>2 DEF Driving, AtNode
<1> QED BY <1>1, <1>2, <1>3, CaughtCases

LEMMA TypedSaveThrows ==
  ASSUME TypeOK, NEW rec \in CallRecords, Driving(rec), rec.at \in Saving
  PROVE  /\ SaveThrows(rec) \in CallRecords /\ Driving(SaveThrows(rec))
<1>1. CASE rec.save = "node"
  BY <1>1, TypedCaught DEF SaveThrows, AtNode
<1>2. CASE rec.save # "node"
  <2>1. SaveThrows(rec) = Quit(rec, "thrown")
    BY <1>2 DEF SaveThrows, Quit
  <2> QED BY <2>1, QuitFields DEF Driving, AtNode, Saving
<1> QED BY <1>1, <1>2

LEMMA TypeStep == TypeOK /\ [Next]_vars => TypeOK'
<1> SUFFICES ASSUME TypeOK, [Next]_vars PROVE TypeOK'
  OBVIOUS
<1>1. ASSUME NEW c \in Calls, NEW r \in Runs, NEW a \in Apks, Begin(c, r, a) PROVE TypeOK'
  <2> DEFINE state == IF file[r] = None THEN "created" ELSE file[r]
             rec == [Idle EXCEPT !.at = IF state = "created" THEN "preflight" ELSE "connect",
                                 !.run = r, !.apk = a, !.nodes = profile, !.state = state]
  <2>1. state \in P!States
    BY DEF TypeOK, P!States
  <2>2. profile \in scenario.profiles /\ profile \in Seq(Nodes)
    BY ScenariosAssumption DEF TypeOK, Valid
  <2>3. rec \in CallRecords /\ Driving(rec)
    BY <2>1, <2>2 DEF Idle, CallRecords, Places, Driving, AtNode, Saving
  <2>4. Go(c, rec)
    BY <1>1 DEF Begin
  <2>5. call' \in [Calls -> CallRecords] /\ \A d \in Calls : Driving(call'[d])
    <3> HIDE DEF rec
    <3> QED BY <1>1, <2>3, <2>4, TypedGo DEF Begin
  <2> QED BY <1>1, <2>5 DEF Begin, TypeOK, Driving
<1>2. ASSUME NEW c \in Calls, Step(c) PROVE TypeOK'
  <2> DEFINE rec == call[c]
  <2>1. rec \in CallRecords /\ Driving(rec)
    BY DEF TypeOK
  <2>2. ASSUME NEW next \in CallRecords, Driving(next), Go(c, next),
               UNCHANGED <<scenario, profile>>
        PROVE  /\ scenario' \in Scenarios /\ profile' \in scenario'.profiles
               /\ call' \in [Calls -> CallRecords]
               /\ \A d \in Calls : Driving(call[d])'
    <3>1. call' \in [Calls -> CallRecords] /\ \A d \in Calls : Driving(call'[d])
      BY <2>2, TypedGo
    <3> QED BY <2>2, <3>1 DEF TypeOK, Driving
  <2>3. Idle \in CallRecords /\ Driving(Idle)
    BY DEF Idle, CallRecords, Places, P!States, Driving
  <2>4. ASSUME rec.at # "idle"
        PROVE  /\ rec.run \in Runs /\ rec.apk \in Apks /\ rec.nodes \in scenario.profiles
               /\ AtNode(rec) => rec.passed \in DOMAIN rec.nodes
    BY <2>1, <2>4 DEF Driving
  <2>5. ASSUME NEW s \in P!States, NEW k \in Checkpoints,
               rec.at # "idle", k = "node" => AtNode(rec)
        PROVE  Save(rec, s, k) \in CallRecords /\ Driving(Save(rec, s, k))
    <3> DEFINE next == Save(rec, s, k)
    <3>1. /\ next \in CallRecords /\ next.at = "read" /\ next.save = k
          /\ next.run = rec.run /\ next.apk = rec.apk /\ next.nodes = rec.nodes
          /\ next.passed = rec.passed
      <4>1. rec \in CallRecords
        BY <2>1
      <4> QED BY ONLY <4>1, s \in P!States, k \in Checkpoints, SaveFields, ZenonT(60)
    <3> HIDE DEF next
    <3>2. Driving(next)
      BY <2>4, <2>5, <3>1 DEF Driving, AtNode, Saving
    <3> QED BY <3>1, <3>2 DEF next
  <2>6. ASSUME NEW at \in Places \ {"node"}, rec.at # "idle", at \in Saving => rec.at \in Saving
        PROVE  /\ [rec EXCEPT !.at = at] \in CallRecords
               /\ Driving([rec EXCEPT !.at = at])
    BY <2>1, <2>6 DEF CallRecords, Driving, AtNode, Saving
  <2>7. CASE Preflight(c)
    BY <2>7, <2>2, <2>5 DEF Preflight, TypeOK, P!States, Checkpoints
  <2>8. CASE PreflightFails(c)
    BY <2>8, <2>2, <2>3 DEF PreflightFails, Fault, TypeOK
  <2>9. CASE Connect(c)
    <3>1. live' \in [Calls -> [own : BOOLEAN, displaced : BOOLEAN]]
      BY <2>9 DEF Connect, Spawn, TypeOK
    <3> QED BY <2>9, <2>2, <2>5, <2>6, <3>1 DEF Connect, TypeOK, P!States, Places, Saving, Checkpoints
  <2>10. CASE NextNode(c)
    <3> DEFINE i == CHOOSE i \in Eligible(rec) : \A j \in Eligible(rec) : i <= j
    <3>1. i \in DOMAIN rec.nodes /\ i \in Nat
      BY <2>10, <2>1, FirstEligible DEF NextNode
    <3>2. Quit(rec, "cancelled") \in CallRecords /\ Driving(Quit(rec, "cancelled"))
      BY <2>10, <2>1, <2>4, QuitFields DEF NextNode, Driving, AtNode, Saving
    <3> DEFINE next == [rec EXCEPT !.at = "node", !.passed = i, !.tried = FALSE]
    <3>3. next \in CallRecords /\ Driving(next)
      <4> HIDE DEF i
      <4> QED BY <2>10, <2>1, <3>1 DEF NextNode, CallRecords, Places, Driving
    <3>4. Go(c, Quit(rec, "cancelled")) \/ Go(c, next)
      BY <2>10 DEF NextNode, Quit
    <3> HIDE DEF next
    <3> QED BY <2>10, <2>2, <3>2, <3>3, <3>4 DEF NextNode, TypeOK
  <2>11. CASE Conclude(c)
    <3>1. ASSUME NEW e \in {"cancelled", "failed"}
          PROVE  Quit(rec, e) \in CallRecords /\ Driving(Quit(rec, e))
      BY <2>11, <2>1, <2>4, QuitFields DEF Conclude, Driving, AtNode, Saving
    <3>2. \/ \E e \in {"cancelled", "failed"} : Go(c, Quit(rec, e))
          \/ Go(c, Save(rec, "evidence_written", "final"))
          \/ Go(c, [rec EXCEPT !.at = "cleanup"])
      BY <2>11 DEF Conclude, Quit
    <3> QED
      BY <2>11, <2>2, <2>5, <2>6, <3>1, <3>2 DEF Conclude, TypeOK, P!States, Places, Saving, Checkpoints
  <2>12. CASE NodeDone(c)
    <3> DEFINE node == rec.nodes[rec.passed]
    <3>1. AtNode(rec) /\ rec.at # "idle" /\ rec.passed \in DOMAIN rec.nodes
      BY <2>12, <2>4 DEF NodeDone, AtNode
    <3>2. node \in Nodes
      BY <2>1, <3>1 DEF CallRecords
    <3>3. Go(c, Save(rec, node.success, "node")) \/ Go(c, Caught(rec))
      BY <2>12 DEF NodeDone
    <3>4. installed' \in Apks \cup {None}
      BY <2>12, <2>4, <3>1 DEF NodeDone, TypeOK
    <3>5. live' \in [Calls -> [own : BOOLEAN, displaced : BOOLEAN]]
      BY <2>12 DEF NodeDone, Spawn, Kill, TypeOK
    <3>6. done' \in [Runs -> SUBSET Kinds]
      BY <2>12, <3>2 DEF NodeDone, TypeOK, Nodes
    <3>7. checked' \in [Runs -> SUBSET (Apks \cup {None})]
      BY <2>12 DEF NodeDone, TypeOK
    <3>8. /\ scenario' \in Scenarios /\ profile' \in scenario'.profiles
          /\ call' \in [Calls -> CallRecords]
          /\ \A d \in Calls : Driving(call[d])'
      BY <2>12, <2>1, <2>2, <2>5, <3>1, <3>2, <3>3, TypedCaught DEF NodeDone, Nodes, Checkpoints
    <3> QED BY <2>12, <3>4, <3>5, <3>6, <3>7, <3>8 DEF NodeDone, TypeOK
  <2>13. CASE NodeFails(c)
    <3>1. AtNode(rec) /\ rec.at = "node"
      BY <2>13 DEF NodeFails, AtNode
    <3>2. [rec EXCEPT !.tried = TRUE] \in CallRecords /\ Driving([rec EXCEPT !.tried = TRUE])
      BY <2>1, <3>1 DEF CallRecords, Driving, AtNode
    <3> QED BY <2>13, <2>1, <2>2, <3>1, <3>2, TypedCaught DEF NodeFails, Fault, TypeOK
  <2>14. CASE SaveRead(c)
    <3>1. rec.at \in Saving
      BY <2>14 DEF SaveRead, Saving
    <3> QED
      BY <2>14, <2>1, <2>2, <2>6, <3>1, TypedSaveThrows DEF SaveRead, TypeOK, Places, Saving
  <2>15. CASE SaveWrite(c)
    BY <2>15, <2>1, <2>2, <2>4, <2>6 DEF SaveWrite, TypeOK, Places, Saving, CallRecords
  <2>16. CASE SaveRename(c)
    <3>1. rec.at \in Saving /\ rec.run \in Runs
      BY <2>16, <2>4 DEF SaveRename, Saving
    <3>2. After(rec) \in CallRecords /\ Driving(After(rec))
      BY <2>6, <3>1 DEF After, Places, Saving
    <3> QED BY <2>16, <2>1, <2>2, <3>1, <3>2, TypedSaveThrows DEF SaveRename, TypeOK
  <2>17. CASE SaveFails(c)
    <3>1. rec.at \in Saving
      BY <2>17 DEF SaveFails, Saving
    <3> QED BY <2>17, <2>1, <2>2, <3>1, TypedSaveThrows DEF SaveFails, Fault, TypeOK
  <2>18. CASE Cleanup(c)
    <3>1. live' \in [Calls -> [own : BOOLEAN, displaced : BOOLEAN]]
      BY <2>18 DEF Cleanup, Kill, TypeOK
    <3> QED BY <2>18, <2>2, <2>3, <2>6, <3>1 DEF Cleanup, TypeOK, Places, Saving
  <2>19. CASE WriteEvidence(c)
    <3>1. Status(rec) \in {"completed", "failed", "cancelled"}
      BY <2>1 DEF Status, CallRecords
    <3>2. rec.run \in Runs /\ rec.apk \in Apks
      BY <2>19, <2>4 DEF WriteEvidence
    <3> QED BY <2>19, <2>2, <2>3, <2>6, <3>1, <3>2 DEF WriteEvidence, TypeOK, Places, Saving
  <2>20. CASE Finish(c)
    BY <2>20, <2>2, <2>3 DEF Finish, TypeOK
  <2>21. CASE EndFails(c)
    BY <2>21, <2>2, <2>3 DEF EndFails, Fault, TypeOK
  <2> QED
    BY <1>2, <2>7, <2>8, <2>9, <2>10, <2>11, <2>12, <2>13, <2>14, <2>15, <2>16, <2>17, <2>18,
       <2>19, <2>20, <2>21 DEF Step
<1>3. ASSUME NEW c \in Calls, Abort(c) PROVE TypeOK'
  <2> DEFINE rec == [call[c] EXCEPT !.aborted = TRUE]
  <2>1. call[c] \in CallRecords /\ Driving(call[c])
    BY DEF TypeOK
  <2>2. rec \in CallRecords /\ Driving(rec)
    BY <2>1 DEF CallRecords, Driving, AtNode
  <2>3. call' \in [Calls -> CallRecords] /\ \A d \in Calls : Driving(call'[d])
    <3> HIDE DEF rec
    <3> QED BY <1>3, <2>2, TypedGo DEF Abort, rec
  <2> QED BY <1>3, <2>3 DEF Abort, Fault, TypeOK, Driving
<1>4. CASE Crash
  <2>1. Idle \in CallRecords
    BY DEF Idle, CallRecords, Places, P!States
  <2>2. live' \in [Calls -> [own : BOOLEAN, displaced : BOOLEAN]]
    BY <1>4 DEF Crash, TypeOK
  <2>3. call' \in [Calls -> CallRecords] /\ \A c \in Calls : Driving(call[c])'
    BY <1>4, <2>1 DEF Crash, Driving, Idle
  <2> QED BY <1>4, <2>2, <2>3 DEF Crash, Fault, TypeOK
<1>5. CASE EditProfile
  BY <1>5 DEF EditProfile, TypeOK, Driving
<1>6. CASE UNCHANGED vars
  BY <1>6 DEF vars, TypeOK, Driving
<1> QED BY <1>1, <1>2, <1>3, <1>4, <1>5, <1>6 DEF Next

(* The variables and the records of the calls always have their types, and *)
(* a call under way drives a run through a registered profile.             *)
THEOREM TypeCorrect == Spec => []TypeOK
<1>1. Init => TypeOK
  BY TypeInit
<1>2. TypeOK /\ [Next]_vars => TypeOK'
  BY TypeStep
<1> QED BY <1>1, <1>2, PTL DEF Spec

-----------------------------------------------------------------------------
(* The tunnel.                                                             *)

LEMMA TunnelStep == TypeOK /\ TunnelInv /\ [Next]_vars => TunnelInv'
<1> SUFFICES ASSUME TypeOK, TunnelInv, [Next]_vars PROVE TunnelInv'
  OBVIOUS
<1>1. ASSUME NEW c \in Calls, NEW next, Go(c, next),
             \A d \in Calls \ {c} : live'[d] = live[d],
             NoTunnelYet(next) => ~live'[c].own
      PROVE  TunnelInv'
  BY <1>1 DEF TunnelInv, Go, TypeOK, NoTunnelYet
<1>2. ASSUME NEW c \in Calls, NEW next, Go(c, next), UNCHANGED live,
             NoTunnelYet(next) => NoTunnelYet(call[c])
      PROVE  TunnelInv'
  BY <1>1, <1>2 DEF TunnelInv
<1>3. ASSUME NEW c \in Calls, NEW r \in Runs, NEW a \in Apks, Begin(c, r, a) PROVE TunnelInv'
  BY <1>3 DEF Begin, Go, TunnelInv, NoTunnelYet, TypeOK, Active, Idle, Saving
<1>4. ASSUME NEW c \in Calls, Step(c) PROVE TunnelInv'
  <2> DEFINE rec == call[c]
  <2>1. rec \in CallRecords /\ Driving(rec)
    BY DEF TypeOK
  <2>2. AtNode(rec) => rec.passed \in DOMAIN rec.nodes
    BY <2>1 DEF AtNode, Driving, Saving
  <2>3. live[c] \in [own : BOOLEAN, displaced : BOOLEAN]
    BY DEF TypeOK
  <2>4. ASSUME NEW next, Quits(rec, next) \/ Branches(rec, next) PROVE ~NoTunnelYet(next)
    BY <2>4 DEF Quits, Branches, NoTunnelYet, Saving
  <2>5. ASSUME rec.at \in Saving PROVE ~NoTunnelYet(SaveThrows(rec))
    BY <2>1, <2>2, <2>4, <2>5, SaveThrowsResult DEF AtNode
  <2>6. CASE Preflight(c) \/ PreflightFails(c)
    BY <2>6, <1>2 DEF Preflight, PreflightFails, NoTunnelYet
  <2>7. CASE Connect(c)
    <3>1. \A d \in Calls \ {c} : live'[d] = live[d]
      BY <2>7 DEF Connect, TypeOK
    <3>2. PICK next \in {Save(rec, "tunnel_connected", "tunnel"), [rec EXCEPT !.at = "loop"]} :
            Go(c, next)
      BY <2>7 DEF Connect
    <3>3. ~NoTunnelYet(next)
      BY <2>1, <3>2 DEF NoTunnelYet, Saving, Save, CallRecords
    <3> QED BY <1>1, <3>1, <3>2, <3>3
  <2>8. CASE NextNode(c)
    <3> DEFINE i == CHOOSE i \in Eligible(rec) : \A j \in Eligible(rec) : i <= j
               quits == [rec EXCEPT !.at = "cleanup", !.error = "cancelled"]
               goes == [rec EXCEPT !.at = "node", !.passed = i, !.tried = FALSE]
    <3>1. PICK next \in {quits, goes} : Go(c, next)
      BY <2>8 DEF NextNode
    <3>2. ~NoTunnelYet(next)
      <4> HIDE DEF i
      <4> QED BY <2>1, <3>1 DEF NoTunnelYet, Saving, CallRecords
    <3> QED BY <2>8, <1>2, <3>1, <3>2 DEF NextNode
  <2>9. CASE Conclude(c)
    <3>1. PICK next \in {[rec EXCEPT !.at = "cleanup"], Save(rec, "evidence_written", "final"),
                         [rec EXCEPT !.at = "cleanup", !.error = "cancelled"],
                         [rec EXCEPT !.at = "cleanup", !.error = "failed"]} :
            Go(c, next)
      BY <2>9 DEF Conclude
    <3>2. ~NoTunnelYet(next)
      BY <2>1, <3>1 DEF NoTunnelYet, Saving, Save, CallRecords
    <3> QED BY <2>9, <1>2, <3>1, <3>2 DEF Conclude
  <2>10. CASE NodeDone(c)
    <3>1. \A d \in Calls \ {c} : live'[d] = live[d]
      BY <2>10 DEF NodeDone, TypeOK
    <3>2. rec.passed \in DOMAIN rec.nodes
      BY <2>10, <2>2 DEF NodeDone, AtNode
    <3>3. PICK next \in {Save(rec, rec.nodes[rec.passed].success, "node"), Caught(rec)} :
            Go(c, next)
      BY <2>10 DEF NodeDone
    <3>4. CASE next = Save(rec, rec.nodes[rec.passed].success, "node")
      <4>1. ~NoTunnelYet(next)
        BY <2>1, <3>4 DEF NoTunnelYet, Saving, Save, CallRecords
      <4> QED BY <1>1, <3>1, <3>3, <4>1
    <3>5. CASE next = Caught(rec)
      BY <1>1, <2>1, <2>4, <3>1, <3>2, <3>3, <3>5, CaughtResult
    <3> QED BY <3>3, <3>4, <3>5
  <2>11. CASE NodeFails(c)
    <3>1. rec.at = "node" /\ rec.passed \in DOMAIN rec.nodes
      BY <2>11, <2>2 DEF NodeFails, AtNode
    <3>2. ~NoTunnelYet([rec EXCEPT !.tried = TRUE])
      BY <2>1, <3>1 DEF NoTunnelYet, Saving, CallRecords
    <3> QED BY <1>2, <2>1, <2>4, <2>11, <3>1, <3>2, CaughtResult DEF NodeFails
  <2>12. CASE SaveRead(c)
    <3>1. rec.at \in Saving
      BY <2>12 DEF SaveRead, Saving
    <3>2. NoTunnelYet([rec EXCEPT !.at = "write"]) => NoTunnelYet(rec)
      BY <2>1, <3>1 DEF NoTunnelYet, Saving, CallRecords
    <3> QED BY <1>2, <2>5, <2>12, <3>1, <3>2 DEF SaveRead
  <2>13. CASE SaveWrite(c)
    <3>1. NoTunnelYet([rec EXCEPT !.at = "rename"]) => NoTunnelYet(rec)
      BY <2>1, <2>13 DEF SaveWrite, NoTunnelYet, Saving, CallRecords
    <3> QED BY <1>2, <2>13, <3>1 DEF SaveWrite
  <2>14. CASE SaveRename(c)
    <3>1. rec.at \in Saving
      BY <2>14 DEF SaveRename, Saving
    <3>2. NoTunnelYet(After(rec)) => NoTunnelYet(rec)
      BY <2>1, <3>1 DEF NoTunnelYet, Saving, CallRecords, After
    <3>3. Go(c, SaveThrows(rec)) \/ Go(c, After(rec))
      BY <2>14 DEF SaveRename
    <3> QED BY <1>2, <2>5, <2>14, <3>1, <3>2, <3>3 DEF SaveRename
  <2>15. CASE SaveFails(c)
    <3>1. rec.at \in Saving
      BY <2>15 DEF SaveFails, Saving
    <3> QED BY <1>2, <2>5, <2>15, <3>1 DEF SaveFails
  <2>16. CASE Cleanup(c)
    <3>1. /\ \A d \in Calls \ {c} : live'[d] = live[d]
          /\ ~live'[c].own
      BY <2>16, <2>3 DEF Cleanup, Kill, TypeOK
    <3> QED BY <1>1, <2>16, <3>1 DEF Cleanup
  <2>17. CASE WriteEvidence(c) \/ Finish(c) \/ EndFails(c)
    <3>1. NoTunnelYet(rec)
      BY <2>17 DEF WriteEvidence, Finish, EndFails, NoTunnelYet
    <3>2. UNCHANGED live /\ \E next : Go(c, next)
      BY <2>17 DEF WriteEvidence, Finish, EndFails
    <3> QED BY <1>2, <3>1, <3>2
  <2> QED
    BY <1>4, <2>6, <2>7, <2>8, <2>9, <2>10, <2>11, <2>12, <2>13, <2>14, <2>15, <2>16, <2>17
    DEF Step
<1>5. ASSUME NEW c \in Calls, Abort(c) PROVE TunnelInv'
  <2>1. call[c] \in CallRecords
    BY DEF TypeOK
  <2>2. NoTunnelYet([call[c] EXCEPT !.aborted = TRUE]) => NoTunnelYet(call[c])
    BY <2>1 DEF NoTunnelYet, CallRecords
  <2> QED BY <1>2, <1>5, <2>2 DEF Abort
<1>6. CASE Crash
  BY <1>6 DEF Crash, TunnelInv, TypeOK
<1>7. CASE EditProfile \/ UNCHANGED vars
  BY <1>7 DEF EditProfile, vars, TunnelInv, NoTunnelYet
<1> QED BY <1>3, <1>4, <1>5, <1>6, <1>7 DEF Next

LEMMA DisplacedStep == TypeOK /\ TunnelInv /\ DisplacedInv /\ [Next]_vars => DisplacedInv'
<1> SUFFICES ASSUME TypeOK, TunnelInv, DisplacedInv, [Next]_vars PROVE DisplacedInv'
  OBVIOUS
<1>1. scenario' = scenario
  <2>1. ASSUME NEW c \in Calls, Step(c) PROVE scenario' = scenario
    BY <2>1 DEF Step, Preflight, PreflightFails, Connect, NextNode, Conclude, NodeDone, NodeFails,
                SaveRead, SaveWrite, SaveRename, SaveFails, Cleanup, WriteEvidence, Finish, EndFails
  <2>2. ASSUME NEW c \in Calls, Abort(c) \/ \E r \in Runs, a \in Apks : Begin(c, r, a)
        PROVE  scenario' = scenario
    BY <2>2 DEF Abort, Begin
  <2> QED BY <2>1, <2>2 DEF Next, vars, Crash, EditProfile
<1>2. Reconnects' = Reconnects
  BY <1>1 DEF Reconnects
<1>3. ASSUME NEW c \in Calls, \A d \in Calls \ {c} : live'[d] = live[d],
             live'[c].displaced => live[c].displaced \/ Reconnects
      PROVE  DisplacedInv'
  BY <1>2, <1>3 DEF DisplacedInv
<1>4. CASE UNCHANGED live
  BY <1>2, <1>4 DEF DisplacedInv
<1>5. ASSUME NEW c \in Calls, Connect(c) PROVE DisplacedInv'
  <2>1. ~live[c].own
    BY <1>5 DEF Connect, TunnelInv, NoTunnelYet
  <2> QED BY <1>3, <1>5, <2>1 DEF Connect, Spawn, TypeOK
<1>6. ASSUME NEW c \in Calls, NodeDone(c) PROVE DisplacedInv'
  <2> DEFINE rec == call[c]  kind == rec.nodes[rec.passed].kind
  <2>1. rec.nodes \in scenario.profiles /\ rec.passed \in DOMAIN rec.nodes
    BY <1>6 DEF NodeDone, TypeOK, Driving, AtNode
  <2>2. kind = "reconnect" => Reconnects
    BY <2>1 DEF Reconnects
  <2>3. live' = [live EXCEPT ![c] = IF kind = "reconnect" THEN Spawn(@)
                                    ELSE IF kind = "disconnect" THEN Kill(@) ELSE @]
    BY <1>6 DEF NodeDone
  <2> HIDE DEF kind
  <2> QED BY <1>3, <2>2, <2>3 DEF Spawn, Kill, TypeOK
<1>7. ASSUME NEW c \in Calls, Cleanup(c) PROVE DisplacedInv'
  BY <1>3, <1>7 DEF Cleanup, Kill, TypeOK
<1>8. CASE Crash
  BY <1>2, <1>8 DEF Crash, DisplacedInv, TypeOK
<1>9. CASE EditProfile \/ UNCHANGED vars
  BY <1>4, <1>9 DEF EditProfile, vars
<1>10. ASSUME NEW c \in Calls, Step(c) \/ Abort(c) \/ \E r \in Runs, a \in Apks : Begin(c, r, a)
       PROVE  DisplacedInv'
  <2>1. CASE Step(c)
    <3>1. Connect(c) \/ NodeDone(c) \/ Cleanup(c) \/ UNCHANGED live
      BY <2>1 DEF Step, Preflight, PreflightFails, NextNode, Conclude, NodeFails, SaveRead,
                  SaveWrite, SaveRename, SaveFails, WriteEvidence, Finish, EndFails
    <3> QED BY <1>4, <1>5, <1>6, <1>7, <3>1
  <2>2. CASE Abort(c) \/ \E r \in Runs, a \in Apks : Begin(c, r, a)
    BY <1>4, <2>2 DEF Abort, Begin
  <2> QED BY <1>10, <2>1, <2>2
<1> QED BY <1>8, <1>9, <1>10 DEF Next

(* However a call ends, by success, failure, cancellation or an exception  *)
(* of the store, its ssh is gone, and no other is left by a call of        *)
(* profiles without a reconnect node, in every scenario.                   *)
THEOREM TunnelsClosed == Spec => []TunnelClosed
<1>1. Init => TunnelInv /\ DisplacedInv
  BY DEF Init, TunnelInv, DisplacedInv
<1>2. TypeOK /\ TunnelInv /\ DisplacedInv /\ [Next]_vars => TunnelInv' /\ DisplacedInv'
  BY TunnelStep, DisplacedStep
<1>3. TunnelInv /\ DisplacedInv => TunnelClosed
  BY DEF TunnelInv, DisplacedInv, TunnelClosed, NoTunnelYet, Active
<1> QED BY <1>1, <1>2, <1>3, TypeCorrect, PTL DEF Spec

-----------------------------------------------------------------------------
(* The checkpoints, when calls do not overlap on a run.                    *)

(* What a call knows after an error, and before it saves a state.          *)
LEMMA QuitsOnGraph ==
  ASSUME NEW rec, NEW next, NEW f, NEW t, Quits(rec, next)
  PROVE  OnGraph(next, f, t)
BY DEF OnGraph, Quits, Saving, Ending

LEMMA BranchesOnGraph ==
  ASSUME NEW rec, NEW next, NEW f, NEW t, Branches(rec, next), f # None
  PROVE  OnGraph(next, f, t)
BY DEF OnGraph, Branches, Saving, Ending

LEMMA SaveOnGraph ==
  ASSUME NEW rec \in CallRecords, NEW s \in P!States, NEW k \in Checkpoints, NEW f, NEW t,
         k = "preflight" => s = "preflight_passed", k = "final" => s = "evidence_written",
         k # "preflight" => f # None
  PROVE  OnGraph(Save(rec, s, k), f, t)
<1> DEFINE next == Save(rec, s, k)
<1>1. next.at = "read" /\ next.save = k /\ next.state = s
  BY SaveFields, Zenon
<1> HIDE DEF next
<1>2. OnGraph(next, f, t)
  BY <1>1 DEF OnGraph, Saving, Ending
<1> QED BY <1>2 DEF next

(* A call that goes on disturbs only what is known of its own run.         *)
LEMMA GraphGo ==
  ASSUME TypeOK, GraphInv, NEW c \in Calls, Active(c), NEW next, Go(c, next),
         \A q \in Runs \ {call[c].run} : file'[q] = file[q] /\ temp'[q] = temp[q],
         UNCHANGED scenario,
         \/ next.at = "idle"
         \/ next.run = call[c].run /\ OnGraph(next, file'[next.run], temp'[next.run])
  PROVE  GraphInv'
<1>1. call'[c] = next /\ \A d \in Calls \ {c} : call'[d] = call[d]
  BY DEF Go, TypeOK
<1>2. \A d \in Calls \ {c} : Active(d) => call[d].run \in Runs \ {call[c].run}
  BY DEF GraphInv, Apart, TypeOK, Driving, Active
<1>3. Apart'
  BY <1>1 DEF GraphInv, Apart, Active
<1>4. ASSUME NEW d \in Calls, Active(d)'
      PROVE  OnGraph(call[d], file[call[d].run], temp[call[d].run])'
  <2>1. CASE d = c
    BY <1>1, <1>4, <2>1 DEF Active, OnGraph, Ending, Allowed
  <2>2. CASE d # c
    BY <1>1, <1>2, <1>4, <2>2 DEF GraphInv, Active, OnGraph, Ending, Allowed
  <2> QED BY <2>1, <2>2
<1> QED BY <1>3, <1>4 DEF GraphInv

LEMMA GraphStep == TypeOK /\ GraphInv /\ [Next]_vars => GraphInv'
<1> SUFFICES ASSUME TypeOK, GraphInv, [Next]_vars PROVE GraphInv'
  OBVIOUS
<1>1. ASSUME NEW c \in Calls, NEW r \in Runs, NEW a \in Apks, Begin(c, r, a) PROVE GraphInv'
  <2> DEFINE state == IF file[r] = None THEN "created" ELSE file[r]
             next == [Idle EXCEPT !.at = IF state = "created" THEN "preflight" ELSE "connect",
                                  !.run = r, !.apk = a, !.nodes = profile, !.state = state]
  <2>1. /\ next.at = (IF state = "created" THEN "preflight" ELSE "connect")
        /\ next.run = r /\ next.state = state /\ next.save = None
    BY DEF Idle
  <2>2. call'[c] = next /\ \A d \in Calls \ {c} : call'[d] = call[d]
    BY <1>1 DEF Begin, Go, TypeOK
  <2> HIDE DEF next
  <2>3. UNCHANGED <<scenario, file, temp>> /\ \A d \in Calls : call[d].run # r
    BY <1>1 DEF Begin, GraphInv, Apart
  <2>4. Apart'
    BY <2>1, <2>2, <2>3 DEF GraphInv, Apart, Active
  <2>5. OnGraph(next, file[r], temp[r])
    BY <2>1 DEF OnGraph, Saving, Ending, None
  <2>6. ASSUME NEW d \in Calls, Active(d)'
        PROVE  OnGraph(call[d], file[call[d].run], temp[call[d].run])'
    <3>1. CASE d = c
      BY <2>1, <2>2, <2>3, <2>5, <3>1 DEF OnGraph, Ending, Allowed
    <3>2. CASE d # c
      BY <2>2, <2>3, <2>6, <3>2 DEF GraphInv, Active, OnGraph, Ending, Allowed
    <3> QED BY <3>1, <3>2
  <2> QED BY <2>4, <2>6 DEF GraphInv
<1>2. ASSUME NEW c \in Calls, Step(c) PROVE GraphInv'
  <2> DEFINE rec == call[c]
             r == rec.run
             f == file[r]
             t == temp[r]
  <2>1. Active(c) /\ rec.at # "idle"
    BY <1>2 DEF Step, Preflight, PreflightFails, Connect, NextNode, Conclude, NodeDone, NodeFails,
      SaveRead, SaveWrite, SaveRename, SaveFails, Cleanup, WriteEvidence, Finish, EndFails, Active
  <2>2. /\ rec \in CallRecords /\ r \in Runs
        /\ AtNode(rec) => rec.passed \in DOMAIN rec.nodes
        /\ f \in P!States \cup {None} /\ t \in P!States \cup {None}
    BY <2>1 DEF TypeOK, Driving
  <2>3. OnGraph(rec, f, t)
    BY <2>1 DEF GraphInv
  <2>4. None \notin P!States
    BY DEF None, P!States
  <2>5. ASSUME NEW next, Go(c, next), UNCHANGED <<scenario, file, temp>>,
               next.at = "idle" \/ (next.run = r /\ OnGraph(next, f, t))
        PROVE  GraphInv'
    BY <2>1, <2>5, GraphGo
  <2>6. ASSUME NEW next, Go(c, next), UNCHANGED <<scenario, file, temp>>, f # None,
               Quits(rec, next) \/ Branches(rec, next)
        PROVE  GraphInv'
    <3>1. next.run = r
      BY <2>6 DEF Quits, Branches
    <3> QED BY <2>5, <2>6, <3>1, QuitsOnGraph, BranchesOnGraph
  <2>7. ASSUME rec.at \in Saving, Go(c, SaveThrows(rec)), UNCHANGED <<scenario, file, temp>>
        PROVE  GraphInv'
    <3>1. Quits(rec, SaveThrows(rec)) \/ (rec.save = "node" /\ Branches(rec, SaveThrows(rec)))
      BY <2>2, <2>7, SaveThrowsResult DEF AtNode
    <3>2. rec.save = "node" => f # None
      BY <2>3, <2>7 DEF OnGraph
    <3>3. CASE Quits(rec, SaveThrows(rec))
      BY <2>5, <2>7, <3>3, QuitsOnGraph DEF Quits
    <3> QED BY <2>6, <2>7, <3>1, <3>2, <3>3
  <2>8. ASSUME NEW s \in P!States, NEW k \in Checkpoints,
               k = "preflight" => s = "preflight_passed", k = "final" => s = "evidence_written",
               k # "preflight" => f # None, Go(c, Save(rec, s, k)),
               UNCHANGED <<scenario, file, temp>>
        PROVE  GraphInv'
    <3>1. OnGraph(Save(rec, s, k), f, t)
      BY <2>2, <2>8, SaveOnGraph
    <3>2. Save(rec, s, k).run = r
      BY <2>2, SaveFields, Zenon
    <3> QED BY <2>5, <2>8, <3>1, <3>2
  <2>9. ASSUME NEW at \in {"write", "rename", "loop", "connect", "cleanup", "evidence", "unlink"}
        PROVE  LET next == [rec EXCEPT !.at = at] IN
               /\ next.at = at /\ next.run = r /\ next.state = rec.state
               /\ next.save = rec.save /\ next.error = rec.error
    BY <2>2 DEF CallRecords
  <2>10. CASE Preflight(c)
    <3>1. Go(c, Save(rec, "preflight_passed", "preflight"))
      BY <2>10 DEF Preflight
    <3> QED BY <2>8, <2>10, <3>1 DEF Preflight, Checkpoints, P!States
  <2>11. CASE PreflightFails(c) \/ Finish(c) \/ EndFails(c)
    <3>1. Go(c, Idle) /\ Idle.at = "idle" /\ UNCHANGED <<scenario, temp>>
      BY <2>11 DEF PreflightFails, Finish, EndFails, Idle
    <3>2. \A q \in Runs \ {r} : file'[q] = file[q]
      BY <2>11 DEF PreflightFails, Finish, EndFails, TypeOK
    <3> QED BY <2>1, <3>1, <3>2, GraphGo
  <2>12. CASE Connect(c)
    <3>1. f = rec.state /\ f # None
      BY <2>2, <2>3, <2>4, <2>12 DEF Connect, OnGraph, CallRecords
    <3>2. UNCHANGED <<scenario, file, temp>>
      BY <2>12 DEF Connect
    <3>3. CASE Go(c, Save(rec, "tunnel_connected", "tunnel"))
      BY <2>8, <3>1, <3>2, <3>3 DEF Checkpoints, P!States
    <3>4. CASE Go(c, [rec EXCEPT !.at = "loop"])
      <4> DEFINE next == [rec EXCEPT !.at = "loop"]
      <4>1. next.at = "loop" /\ next.run = r /\ next.state = rec.state
        BY <2>9
      <4> HIDE DEF next
      <4>2. OnGraph(next, f, t)
        BY <3>1, <4>1 DEF OnGraph, Saving, Ending
      <4> QED BY <2>5, <3>2, <3>4, <4>1, <4>2 DEF next
    <3> QED BY <2>12, <3>3, <3>4 DEF Connect
  <2>13. CASE NextNode(c)
    <3> DEFINE i == CHOOSE i \in Eligible(rec) : \A j \in Eligible(rec) : i <= j
               next == [rec EXCEPT !.at = "node", !.passed = i, !.tried = FALSE]
    <3>1. f = rec.state
      BY <2>3, <2>13 DEF NextNode, OnGraph
    <3>2. UNCHANGED <<scenario, file, temp>> /\ (Go(c, Quit(rec, "cancelled")) \/ Go(c, next))
      BY <2>13 DEF NextNode, Quit
    <3>3. Quits(rec, Quit(rec, "cancelled"))
      BY <2>2, QuitFields DEF Quits, None
    <3>4. next.at = "node" /\ next.run = r /\ next.state = rec.state
      <4> HIDE DEF i
      <4> QED BY <2>2 DEF CallRecords
    <3> HIDE DEF next
    <3>5. OnGraph(next, f, t)
      BY <3>1, <3>4 DEF OnGraph, Saving, Ending
    <3> QED BY <2>5, <3>2, <3>3, <3>4, <3>5, QuitsOnGraph DEF Quits
  <2>14. CASE Conclude(c)
    <3>1. f = rec.state /\ f # None
      BY <2>2, <2>3, <2>4, <2>14 DEF Conclude, OnGraph, CallRecords
    <3>2. UNCHANGED <<scenario, file, temp>>
      BY <2>14 DEF Conclude
    <3>3. ASSUME NEW e \in {"cancelled", "failed"}, Go(c, Quit(rec, e)) PROVE GraphInv'
      <4>1. Quits(rec, Quit(rec, e))
        BY <2>2, QuitFields DEF Quits, None
      <4> QED BY <2>6, <3>1, <3>2, <3>3, <4>1
    <3>4. CASE Go(c, Save(rec, "evidence_written", "final"))
      BY <2>8, <3>1, <3>2, <3>4 DEF Checkpoints, P!States
    <3>5. CASE P!IsTerminal(rec.state) /\ Go(c, [rec EXCEPT !.at = "cleanup"])
      <4> DEFINE next == [rec EXCEPT !.at = "cleanup"]
      <4>1. next.at = "cleanup" /\ next.run = r
        BY <2>9
      <4>2. rec.state \in Ends
        BY <2>2, <3>5 DEF P!IsTerminal, P!Edges, P!States, Ends, CallRecords
      <4> HIDE DEF next
      <4>3. OnGraph(next, f, t)
        BY <3>1, <4>1, <4>2 DEF OnGraph, Saving, Ending
      <4> QED BY <2>5, <3>2, <3>5, <4>1, <4>3 DEF next
    <3> QED BY <2>14, <3>3, <3>4, <3>5 DEF Conclude, Quit
  <2>15. CASE NodeDone(c)
    <3>1. f = rec.state /\ f # None /\ rec.passed \in DOMAIN rec.nodes
      BY <2>2, <2>3, <2>4, <2>15 DEF NodeDone, OnGraph, CallRecords, AtNode
    <3>2. UNCHANGED <<scenario, file, temp>>
      BY <2>15 DEF NodeDone
    <3>3. rec.nodes[rec.passed].success \in P!States
      <4>1. rec.nodes[rec.passed] \in Nodes
        BY <2>2, <3>1 DEF CallRecords
      <4> QED BY <4>1 DEF Nodes
    <3>4. CASE Go(c, Save(rec, rec.nodes[rec.passed].success, "node"))
      BY <2>8, <3>1, <3>2, <3>3, <3>4 DEF Checkpoints
    <3>5. CASE Go(c, Caught(rec))
      BY <2>2, <2>6, <3>1, <3>2, <3>5, CaughtResult
    <3> QED BY <2>15, <3>4, <3>5 DEF NodeDone
  <2>16. CASE NodeFails(c)
    <3>1. f = rec.state /\ f # None /\ rec.passed \in DOMAIN rec.nodes
      BY <2>2, <2>3, <2>4, <2>16 DEF NodeFails, OnGraph, CallRecords, AtNode
    <3>2. UNCHANGED <<scenario, file, temp>>
      BY <2>16 DEF NodeFails
    <3>3. CASE Go(c, [rec EXCEPT !.tried = TRUE])
      <4> DEFINE next == [rec EXCEPT !.tried = TRUE]
      <4>1. next.at = "node" /\ next.run = r /\ next.state = rec.state
        BY <2>2, <2>16 DEF CallRecords, NodeFails
      <4> HIDE DEF next
      <4>2. OnGraph(next, f, t)
        BY <3>1, <4>1 DEF OnGraph, Saving, Ending
      <4> QED BY <2>5, <3>2, <3>3, <4>1, <4>2 DEF next
    <3>4. CASE Go(c, Caught(rec))
      BY <2>2, <2>6, <3>1, <3>2, <3>4, CaughtResult
    <3> QED BY <2>16, <3>3, <3>4 DEF NodeFails
  <2>17. CASE SaveRead(c)
    <3>1. rec.at = "read" /\ rec.at \in Saving /\ UNCHANGED <<scenario, file, temp>>
      BY <2>17 DEF SaveRead, Saving
    <3>2. CASE Allowed(f, rec.state) /\ Go(c, [rec EXCEPT !.at = "write"])
      <4> DEFINE next == [rec EXCEPT !.at = "write"]
      <4>1. next.at = "write" /\ next.run = r /\ next.state = rec.state /\ next.save = rec.save
        BY <2>9
      <4> HIDE DEF next
      <4>2. OnGraph(next, f, t)
        BY <2>3, <3>1, <3>2, <4>1 DEF OnGraph, Saving, Ending
      <4> QED BY <2>5, <3>1, <3>2, <4>1, <4>2 DEF next
    <3> QED BY <2>7, <2>17, <3>1, <3>2 DEF SaveRead
  <2>18. CASE SaveWrite(c)
    <3> DEFINE next == [rec EXCEPT !.at = "rename"]
    <3>1. next.at = "rename" /\ next.run = r /\ next.state = rec.state /\ next.save = rec.save
      BY <2>9
    <3>2. Go(c, next) /\ UNCHANGED <<scenario, file>>
      BY <2>18 DEF SaveWrite
    <3>3. temp'[r] = rec.state /\ \A q \in Runs \ {r} : temp'[q] = temp[q]
      BY <2>2, <2>18 DEF SaveWrite, TypeOK
    <3> HIDE DEF next
    <3>4. OnGraph(next, f, temp'[r])
      BY <2>3, <2>18, <3>1, <3>3 DEF SaveWrite, OnGraph, Saving, Ending
    <3> QED BY <2>1, <3>1, <3>2, <3>3, <3>4, GraphGo
  <2>19. CASE SaveRename(c)
    <3>1. rec.at = "rename" /\ rec.at \in Saving /\ UNCHANGED scenario
      BY <2>19 DEF SaveRename, Saving
    <3>2. t = rec.state /\ t # None
      BY <2>2, <2>3, <2>4, <3>1 DEF OnGraph, CallRecords
    <3> DEFINE next == After(rec)
    <3>3. Go(c, next)
      BY <2>19, <3>2 DEF SaveRename
    <3>4. file'[r] = rec.state /\ \A q \in Runs \ {r} : file'[q] = file[q] /\ temp'[q] = temp[q]
      BY <2>2, <2>19, <3>2 DEF SaveRename, TypeOK
    <3>5. /\ next.run = r /\ next.state = rec.state
          /\ \/ next.at \in {"connect", "loop"}
             \/ next.at = "cleanup" /\ rec.save = "final"
      BY <2>9 DEF After
    <3>6. rec.save = "final" => rec.state \in Ends
      BY <2>3, <3>1 DEF OnGraph, Ends
    <3> HIDE DEF next
    <3>7. OnGraph(next, file'[r], temp'[r])
      BY <3>4, <3>5, <3>6 DEF OnGraph, Saving, Ending
    <3> QED BY <2>1, <3>1, <3>3, <3>4, <3>5, <3>7, GraphGo
  <2>20. CASE SaveFails(c)
    BY <2>7, <2>20 DEF SaveFails, Saving
  <2>21. CASE Cleanup(c)
    <3>1. UNCHANGED <<scenario, file, temp>>
      BY <2>21 DEF Cleanup
    <3>2. CASE Go(c, Idle)
      BY <2>5, <3>1, <3>2 DEF Idle
    <3>3. CASE Go(c, [rec EXCEPT !.at = "evidence"])
      <4> DEFINE next == [rec EXCEPT !.at = "evidence"]
      <4>1. next.at = "evidence" /\ next.run = r /\ next.error = rec.error
        BY <2>9
      <4> HIDE DEF next
      <4>2. OnGraph(next, f, t)
        BY <2>3, <2>21, <4>1 DEF Cleanup, OnGraph, Saving, Ending
      <4> QED BY <2>5, <3>1, <3>3, <4>1, <4>2 DEF next
    <3> QED BY <2>21, <3>2, <3>3 DEF Cleanup
  <2>22. CASE WriteEvidence(c)
    <3>1. UNCHANGED <<scenario, file, temp>>
      BY <2>22 DEF WriteEvidence
    <3>2. CASE Go(c, Idle)
      BY <2>5, <3>1, <3>2 DEF Idle
    <3>3. CASE Status(rec) = "completed" /\ Go(c, [rec EXCEPT !.at = "unlink"])
      <4> DEFINE next == [rec EXCEPT !.at = "unlink"]
      <4>1. next.at = "unlink" /\ next.run = r
        BY <2>9
      <4> HIDE DEF next
      <4>2. rec.error = None
        BY <2>2, <3>3 DEF Status, CallRecords
      <4>3. OnGraph(next, f, t)
        BY <2>3, <2>22, <4>1, <4>2 DEF WriteEvidence, OnGraph, Saving, Ending
      <4> QED BY <2>5, <3>1, <3>3, <4>1, <4>3 DEF next
    <3> QED BY <2>22, <3>2, <3>3 DEF WriteEvidence
  <2> QED
    BY <1>2, <2>10, <2>11, <2>12, <2>13, <2>14, <2>15, <2>16, <2>17, <2>18, <2>19, <2>20, <2>21,
       <2>22 DEF Step
<1>3. ASSUME NEW c \in Calls, Abort(c) PROVE GraphInv'
  <2> DEFINE rec == call[c]
             next == [rec EXCEPT !.aborted = TRUE]
  <2>1. rec \in CallRecords /\ Active(c)
    BY <1>3 DEF TypeOK, Abort
  <2>2. /\ next.at = rec.at /\ next.run = rec.run /\ next.state = rec.state
        /\ next.save = rec.save /\ next.error = rec.error
    BY <2>1 DEF CallRecords
  <2>3. Go(c, next) /\ UNCHANGED <<scenario, file, temp>>
    BY <1>3 DEF Abort
  <2> HIDE DEF next
  <2>4. OnGraph(next, file[rec.run], temp[rec.run])
    BY <2>1, <2>2 DEF GraphInv, OnGraph, Ending
  <2> QED BY <2>1, <2>2, <2>3, <2>4, GraphGo
<1>4. CASE Crash
  BY <1>4 DEF Crash, GraphInv, Apart, Active, Idle
<1>5. CASE EditProfile \/ UNCHANGED vars
  BY <1>5, ZenonT(60) DEF EditProfile, vars, GraphInv, Apart, Active, OnGraph, Ending, Allowed
<1> QED BY <1>1, <1>2, <1>3, <1>4, <1>5 DEF Next

(* Every step is an edge of the graph for one run, or forgets a run at its *)
(* end, or leaves the last safe points alone.                              *)
LEMMA ProgressStep == TypeOK /\ GraphInv /\ [Next]_vars => [P!Next]_Progress
<1> SUFFICES ASSUME TypeOK, GraphInv, [Next]_vars PROVE [P!Next]_Progress
  OBVIOUS
<1>1. CASE UNCHANGED file
  BY <1>1 DEF Progress
<1>2. ASSUME NEW c \in Calls, SaveRename(c) \/ Finish(c) PROVE [P!Next]_Progress
  <2> DEFINE rec == call[c]
             r == rec.run
             f == file[r]
  <2>1. /\ rec.at \in {"rename", "unlink"} /\ rec \in CallRecords /\ r \in Runs
        /\ f \in P!States \cup {None} /\ OnGraph(rec, f, temp[r])
    BY <1>2 DEF SaveRename, Finish, TypeOK, Driving, GraphInv, Active
  <2>2. /\ None \notin P!States /\ "created" \in P!States
        /\ "preflight_passed" \in P!Edges("created")
    BY DEF None, P!States, P!Edges
  <2>3. ASSUME NEW s, Progress' = [Progress EXCEPT ![r] = s],
               \/ s = Progress[r] \/ s \in P!Edges(Progress[r])
               \/ /\ s = "created"
                  /\ Progress[r] = "evidence_written" \/ P!IsTerminal(Progress[r])
        PROVE  [P!Next]_Progress
    <3>1. CASE s = Progress[r]
      BY <2>1, <2>3, <3>1 DEF Progress
    <3>2. CASE s \in P!Edges(Progress[r])
      BY <2>1, <2>3, <3>2 DEF P!Next, P!Advance
    <3>3. CASE /\ s = "created"
               /\ Progress[r] = "evidence_written" \/ P!IsTerminal(Progress[r])
      BY <2>1, <2>3, <3>3 DEF P!Next, P!Forget
    <3> QED BY <2>3, <3>1, <3>2, <3>3
  <2>4. CASE SaveRename(c) /\ file' = [file EXCEPT ![r] = temp[r]]
    <3>1. rec.at = "rename" /\ temp[r] = rec.state /\ Allowed(f, rec.state)
      BY <2>1, <2>4 DEF SaveRename, OnGraph
    <3>2. rec.state \in P!States
      BY <2>1 DEF CallRecords
    <3>3. Progress' = [Progress EXCEPT ![r] = rec.state]
      BY <2>1, <2>2, <2>4, <3>1, <3>2 DEF Progress, TypeOK
    <3>4. f = None => rec.state = "preflight_passed"
      BY <2>1, <3>1 DEF OnGraph, Saving
    <3>5. Progress[r] = IF f = None THEN "created" ELSE f
      BY <2>1 DEF Progress
    <3>6. rec.state = Progress[r] \/ rec.state \in P!Edges(Progress[r])
      BY <2>2, <3>1, <3>4, <3>5 DEF Allowed
    <3> QED BY <2>3, <3>3, <3>6
  <2>5. CASE Finish(c)
    <3>1. file' = [file EXCEPT ![r] = None]
      BY <2>5 DEF Finish
    <3>2. f \in Ends
      BY <2>1, <2>5 DEF Finish, OnGraph, Ending
    <3>3. Progress' = [Progress EXCEPT ![r] = "created"]
      BY <2>1, <3>1 DEF Progress, TypeOK
    <3>4. Progress[r] = f
      BY <2>1, <3>2 DEF Progress, Ends, None
    <3>5. Progress[r] = "evidence_written" \/ P!IsTerminal(Progress[r])
      BY <3>2, <3>4 DEF Ends, P!IsTerminal, P!Edges
    <3> QED BY <2>3, <3>3, <3>5
  <2> QED BY <1>1, <1>2, <2>4, <2>5 DEF SaveRename
<1> QED
  BY <1>1, <1>2, ZenonT(60) DEF Next, vars, Begin, Step, Preflight, PreflightFails, Connect, NextNode, Conclude,
    NodeDone, NodeFails, SaveRead, SaveWrite, SaveFails, Cleanup, WriteEvidence, EndFails, Abort,
    Crash, EditProfile

LEMMA GraphInit == Init /\ ~scenario.duplicates => GraphInv
BY DEF Init, GraphInv, Apart, Active, Idle

LEMMA GraphInvariant == Spec /\ ~scenario.duplicates => []GraphInv
BY GraphInit, GraphStep, TypeCorrect, PTL DEF Spec

(* The refinement: whatever crashes, fails, is cancelled, resumed or       *)
(* edited, the checkpoints of a run are a path through the state graph, as *)
(* long as calls do not overlap on a run.                                  *)
THEOREM ImplementsProgress == Spec /\ ~scenario.duplicates => RunsFollowGraph
<1>1. Init => P!Init
  BY DEF Init, Progress, P!Init
<1>2. TypeOK /\ GraphInv /\ [Next]_vars => [P!Next]_Progress
  BY ProgressStep
<1> QED BY <1>1, <1>2, TypeCorrect, GraphInvariant, PTL DEF Spec, P!Spec, RunsFollowGraph

-----------------------------------------------------------------------------
(* What a completed run has done, when calls do not overlap on a run and   *)
(* the profiles have a labelling.                                          *)

(* A call that goes on disturbs only what its own run has passed.          *)
LEMMA VerifiedGo ==
  ASSUME NEW N, TypeOK, GraphInv, VerifiedInv(N), NEW c \in Calls, Active(c), NEW next,
         Go(c, next), UNCHANGED scenario,
         \A q \in Runs \ {call[c].run} : file'[q] = file[q] /\ done'[q] = done[q],
         \/ next.at = "idle"
         \/ next.run = call[c].run /\ HasPassed(N, next, done'[next.run]),
         file'[call[c].run] # None => N[file'[call[c].run]] \subseteq done'[call[c].run]
  PROVE  VerifiedInv(N)'
<1>1. call'[c] = next /\ \A d \in Calls \ {c} : call'[d] = call[d]
  BY DEF Go, TypeOK
<1>2. \A d \in Calls \ {c} : Active(d) => call[d].run \in Runs \ {call[c].run}
  BY DEF GraphInv, Apart, TypeOK, Driving, Active
<1>3. ASSUME NEW d \in Calls, Active(d)' PROVE HasPassed(N, call[d], done[call[d].run])'
  <2>1. CASE d = c
    BY <1>1, <1>3, <2>1 DEF Active, HasPassed, AtNode, Ending
  <2>2. CASE d # c
    BY <1>1, <1>2, <1>3, <2>2 DEF VerifiedInv, Active, HasPassed, AtNode, Ending
  <2> QED BY <2>1, <2>2
<1>4. \A r \in Runs : file'[r] # None => N[file'[r]] \subseteq done'[r]
  BY DEF VerifiedInv
<1> QED BY <1>3, <1>4 DEF VerifiedInv, Earned

LEMMA QuitsPassed ==
  ASSUME NEW N, NEW rec, NEW next, NEW d, Quits(rec, next)
  PROVE  HasPassed(N, next, d)
BY DEF HasPassed, Quits, AtNode, Saving, Ending

LEMMA BranchesPassed ==
  ASSUME NEW N, NEW rec \in CallRecords, rec.passed \in DOMAIN rec.nodes, Earned(N, rec.nodes),
         NEW next, NEW d, Branches(rec, next), N[rec.nodes[rec.passed].from] \subseteq d
  PROVE  HasPassed(N, next, d)
BY DEF HasPassed, Branches, AtNode, Saving, Ending, Earned

LEMMA SavePassed ==
  ASSUME NEW N, NEW rec \in CallRecords, NEW s \in P!States, NEW k \in Checkpoints, NEW d,
         N[s] \subseteq d, k = "node" => N[rec.nodes[rec.passed].from] \subseteq d
  PROVE  HasPassed(N, Save(rec, s, k), d)
<1> DEFINE next == Save(rec, s, k)
<1>1. /\ next.at = "read" /\ next.save = k /\ next.state = s
      /\ next.nodes = rec.nodes /\ next.passed = rec.passed
  BY SaveFields, Zenon
<1> HIDE DEF next
<1>2. HasPassed(N, next, d)
  BY <1>1 DEF HasPassed, AtNode, Saving, Ending
<1> QED BY <1>2 DEF next

LEMMA VerifiedStep ==
  ASSUME NEW N, Labelling(N)
  PROVE  TypeOK /\ GraphInv /\ VerifiedInv(N) /\ [Next]_vars => VerifiedInv(N)'
<1> SUFFICES ASSUME TypeOK, GraphInv, VerifiedInv(N), [Next]_vars PROVE VerifiedInv(N)'
  OBVIOUS
<1>1. ASSUME NEW c \in Calls, NEW r \in Runs, NEW a \in Apks, Begin(c, r, a)
      PROVE  VerifiedInv(N)'
  <2> DEFINE state == IF file[r] = None THEN "created" ELSE file[r]
             next == [Idle EXCEPT !.at = IF state = "created" THEN "preflight" ELSE "connect",
                                  !.run = r, !.apk = a, !.nodes = profile, !.state = state]
  <2>1. /\ next.at = (IF state = "created" THEN "preflight" ELSE "connect")
        /\ next.run = r /\ next.state = state /\ next.save = None
    BY DEF Idle
  <2>2. call'[c] = next /\ \A d \in Calls \ {c} : call'[d] = call[d]
    BY <1>1 DEF Begin, Go, TypeOK
  <2> HIDE DEF next
  <2>3. UNCHANGED <<scenario, file>> /\ \A d \in Calls : call[d].run # r
    BY <1>1 DEF Begin, GraphInv, Apart
  <2>4. /\ \A q \in Runs \ {r} : done'[q] = done[q]
        /\ done'[r] = IF state = "created" THEN {} ELSE done[r]
    BY <1>1 DEF Begin, TypeOK
  <2>5. HasPassed(N, next, done'[r])
    BY <2>1, <2>4 DEF HasPassed, AtNode, Saving, Ending, VerifiedInv
  <2>6. ASSUME NEW d \in Calls, Active(d)' PROVE HasPassed(N, call[d], done[call[d].run])'
    <3>1. CASE d = c
      BY <2>1, <2>2, <2>5, <3>1 DEF HasPassed, AtNode, Ending
    <3>2. CASE d # c
      <4>1. call[d].run \in Runs \ {r}
        BY <2>2, <2>3, <2>6, <3>2 DEF Active, TypeOK, Driving
      <4> QED BY <2>2, <2>4, <2>6, <3>2, <4>1 DEF VerifiedInv, Active, HasPassed, AtNode, Ending
    <3> QED BY <3>1, <3>2
  <2>7. \A q \in Runs : file'[q] # None => N[file'[q]] \subseteq done'[q]
    <3>1. file[r] = "created" => N[file[r]] = {}
      BY DEF Labelling
    <3> QED BY <2>3, <2>4, <3>1 DEF VerifiedInv
  <2> QED BY <2>3, <2>6, <2>7 DEF VerifiedInv, Earned
<1>2. ASSUME NEW c \in Calls, Step(c) PROVE VerifiedInv(N)'
  <2> DEFINE rec == call[c]
             r == rec.run
             f == file[r]
             d == done[r]
             node == rec.nodes[rec.passed]
  <2>1. Active(c) /\ rec.at # "idle"
    BY <1>2 DEF Step, Preflight, PreflightFails, Connect, NextNode, Conclude, NodeDone, NodeFails,
      SaveRead, SaveWrite, SaveRename, SaveFails, Cleanup, WriteEvidence, Finish, EndFails, Active
  <2>2. /\ rec \in CallRecords /\ r \in Runs /\ Earned(N, rec.nodes)
        /\ AtNode(rec) => rec.passed \in DOMAIN rec.nodes
    BY <2>1 DEF TypeOK, Driving, VerifiedInv
  <2>3. OnGraph(rec, f, temp[r]) /\ HasPassed(N, rec, d) /\ (f # None => N[f] \subseteq d)
    BY <2>1, <2>2 DEF GraphInv, VerifiedInv
  <2>4. ASSUME NEW next, Go(c, next), UNCHANGED <<scenario, file, done>>,
               next.at = "idle" \/ (next.run = r /\ HasPassed(N, next, d))
        PROVE  VerifiedInv(N)'
    BY <2>1, <2>3, <2>4, VerifiedGo
  <2>5. ASSUME NEW next, Go(c, next), UNCHANGED <<scenario, file, done>>,
               Quits(rec, next) \/ (AtNode(rec) /\ Branches(rec, next))
        PROVE  VerifiedInv(N)'
    <3>1. next.run = r
      BY <2>5 DEF Quits, Branches
    <3>2. AtNode(rec) => N[node.from] \subseteq d
      BY <2>3 DEF HasPassed
    <3> QED BY <2>2, <2>4, <2>5, <3>1, <3>2, QuitsPassed, BranchesPassed
  <2>6. ASSUME rec.at \in Saving, Go(c, SaveThrows(rec)), UNCHANGED <<scenario, file, done>>
        PROVE  VerifiedInv(N)'
    <3>1. Quits(rec, SaveThrows(rec)) \/ (rec.save = "node" /\ Branches(rec, SaveThrows(rec)))
      BY <2>2, <2>6, SaveThrowsResult DEF AtNode
    <3> QED BY <2>5, <2>6, <3>1 DEF AtNode
  <2>7. ASSUME NEW s \in P!States, NEW k \in Checkpoints, k # "node", N[s] \subseteq d,
               Go(c, Save(rec, s, k)), UNCHANGED <<scenario, file, done>>
        PROVE  VerifiedInv(N)'
    <3>1. HasPassed(N, Save(rec, s, k), d)
      BY <2>2, <2>7, SavePassed
    <3>2. Save(rec, s, k).run = r
      BY <2>2, SaveFields, Zenon
    <3> QED BY <2>4, <2>7, <3>1, <3>2
  <2>8. ASSUME NEW at \in {"write", "rename", "loop", "connect", "cleanup", "evidence", "unlink"}
        PROVE  LET next == [rec EXCEPT !.at = at] IN
               /\ next.at = at /\ next.run = r /\ next.state = rec.state
               /\ next.save = rec.save /\ next.error = rec.error
               /\ next.nodes = rec.nodes /\ next.passed = rec.passed
    BY <2>2 DEF CallRecords
  <2>9. CASE Preflight(c)
    <3>1. N["preflight_passed"] = {}
      BY DEF Labelling
    <3> QED BY <2>7, <2>9, <3>1 DEF Preflight, Checkpoints, P!States
  <2>10. CASE PreflightFails(c) \/ EndFails(c)
    BY <2>4, <2>10 DEF PreflightFails, EndFails, Idle
  <2>11. CASE Connect(c)
    <3>1. N[rec.state] \subseteq d /\ N["tunnel_connected"] = {}
      BY <2>3, <2>11 DEF Connect, HasPassed, Labelling
    <3>2. UNCHANGED <<scenario, file, done>>
      BY <2>11 DEF Connect
    <3>3. CASE Go(c, Save(rec, "tunnel_connected", "tunnel"))
      BY <2>7, <3>1, <3>2, <3>3 DEF Checkpoints, P!States
    <3>4. CASE Go(c, [rec EXCEPT !.at = "loop"])
      <4> DEFINE next == [rec EXCEPT !.at = "loop"]
      <4>1. next.at = "loop" /\ next.run = r /\ next.state = rec.state
        BY <2>8
      <4> HIDE DEF next
      <4>2. HasPassed(N, next, d)
        BY <3>1, <4>1 DEF HasPassed, AtNode, Saving, Ending
      <4> QED BY <2>4, <3>2, <3>4, <4>1, <4>2 DEF next
    <3> QED BY <2>11, <3>3, <3>4 DEF Connect
  <2>12. CASE NextNode(c)
    <3> DEFINE i == CHOOSE i \in Eligible(rec) : \A j \in Eligible(rec) : i <= j
               next == [rec EXCEPT !.at = "node", !.passed = i, !.tried = FALSE]
    <3>1. N[rec.state] \subseteq d
      BY <2>3, <2>12 DEF NextNode, HasPassed
    <3>2. UNCHANGED <<scenario, file, done>> /\ (Go(c, Quit(rec, "cancelled")) \/ Go(c, next))
      BY <2>12 DEF NextNode, Quit
    <3>3. Quits(rec, Quit(rec, "cancelled"))
      BY <2>2, QuitFields DEF Quits, None
    <3>4. rec.nodes[i].from = rec.state
      BY <2>2, <2>12, FirstEligible DEF NextNode
    <3>5. /\ next.at = "node" /\ next.run = r /\ next.state = rec.state
          /\ next.nodes = rec.nodes /\ next.passed = i
      <4> HIDE DEF i
      <4> QED BY <2>2 DEF CallRecords
    <3> HIDE DEF next, i
    <3>6. HasPassed(N, next, d)
      BY <3>1, <3>4, <3>5 DEF HasPassed, AtNode, Saving, Ending
    <3> QED BY <2>4, <2>5, <3>2, <3>3, <3>5, <3>6
  <2>13. CASE Conclude(c)
    <3>1. N[rec.state] \subseteq d
      BY <2>3, <2>13 DEF Conclude, HasPassed
    <3>2. UNCHANGED <<scenario, file, done>>
      BY <2>13 DEF Conclude
    <3>3. ASSUME NEW e \in {"cancelled", "failed"}, Go(c, Quit(rec, e)) PROVE VerifiedInv(N)'
      <4>1. Quits(rec, Quit(rec, e))
        BY <2>2, QuitFields DEF Quits, None
      <4> QED BY <2>5, <3>2, <3>3, <4>1
    <3>4. CASE /\ rec.state \in {"scenario_passed", "recovery_passed"}
               /\ Go(c, Save(rec, "evidence_written", "final"))
      <4>1. N["evidence_written"] \subseteq d
        BY <3>1, <3>4 DEF Labelling, Ends
      <4> QED BY <2>7, <3>2, <3>4, <4>1 DEF Checkpoints, P!States
    <3>5. CASE P!IsTerminal(rec.state) /\ Go(c, [rec EXCEPT !.at = "cleanup"])
      <4> DEFINE next == [rec EXCEPT !.at = "cleanup"]
      <4>1. next.at = "cleanup" /\ next.run = r
        BY <2>8
      <4>2. rec.state \in Ends
        BY <2>2, <3>5 DEF P!IsTerminal, P!Edges, P!States, Ends, CallRecords
      <4> HIDE DEF next
      <4>3. HasPassed(N, next, d)
        BY <3>1, <4>1, <4>2 DEF HasPassed, AtNode, Saving, Ending, Labelling
      <4> QED BY <2>4, <3>2, <3>5, <4>1, <4>3 DEF next
    <3> QED BY <2>13, <3>3, <3>4, <3>5 DEF Conclude, Quit
  <2>14. CASE NodeDone(c)
    <3>1. AtNode(rec) /\ rec.passed \in DOMAIN rec.nodes /\ rec.at = "node"
      BY <2>2, <2>14 DEF NodeDone, AtNode
    <3>2. N[node.from] \subseteq d
      BY <2>3, <3>1 DEF HasPassed
    <3>3. /\ UNCHANGED <<scenario, file>> /\ d \subseteq done'[r] /\ node.kind \in done'[r]
          /\ \A q \in Runs \ {r} : done'[q] = done[q]
      BY <2>2, <2>14 DEF NodeDone, TypeOK
    <3>4. node.success \in P!States
      <4>1. node \in Nodes
        BY <2>2, <3>1 DEF CallRecords
      <4> QED BY <4>1 DEF Nodes
    <3>5. ASSUME NEW next, Go(c, next), next.run = r, HasPassed(N, next, done'[r])
          PROVE  VerifiedInv(N)'
      <4>1. f # None => N[f] \subseteq done'[r]
        BY <2>3, <3>3
      <4> QED BY <2>1, <3>3, <3>5, <4>1, VerifiedGo
    <3>6. CASE Go(c, Save(rec, node.success, "node"))
      <4>1. N[node.success] \subseteq done'[r]
        BY <2>2, <3>1, <3>2, <3>3 DEF Earned
      <4>2. HasPassed(N, Save(rec, node.success, "node"), done'[r])
        BY <2>2, <3>2, <3>3, <3>4, <4>1, SavePassed DEF Checkpoints
      <4>3. "node" \in Checkpoints
        BY DEF Checkpoints
      <4>4. Save(rec, node.success, "node").run = r
        BY ONLY <2>2, <3>4, <4>3, SaveFields, ZenonT(60)
      <4> QED BY <3>5, <3>6, <4>2, <4>4
    <3>7. CASE Go(c, Caught(rec))
      <4>1. Quits(rec, Caught(rec)) \/ Branches(rec, Caught(rec))
        BY <2>2, <3>1, CaughtResult
      <4>2. HasPassed(N, Caught(rec), done'[r])
        BY <2>2, <3>1, <3>2, <3>3, <4>1, QuitsPassed, BranchesPassed
      <4>3. Caught(rec).run = r
        BY <4>1 DEF Quits, Branches
      <4> QED BY <3>5, <3>7, <4>2, <4>3
    <3> QED BY <2>14, <3>6, <3>7 DEF NodeDone
  <2>15. CASE NodeFails(c)
    <3>1. AtNode(rec) /\ rec.at = "node" /\ rec.passed \in DOMAIN rec.nodes
      BY <2>2, <2>15 DEF NodeFails, AtNode
    <3>2. UNCHANGED <<scenario, file, done>>
      BY <2>15 DEF NodeFails
    <3>3. CASE Go(c, [rec EXCEPT !.tried = TRUE])
      <4> DEFINE next == [rec EXCEPT !.tried = TRUE]
      <4>1. /\ next.at = "node" /\ next.run = r /\ next.state = rec.state
            /\ next.nodes = rec.nodes /\ next.passed = rec.passed
        BY <2>2, <3>1 DEF CallRecords
      <4> HIDE DEF next
      <4>2. HasPassed(N, next, d)
        BY <2>3, <3>1, <4>1 DEF HasPassed, AtNode, Saving, Ending
      <4> QED BY <2>4, <3>2, <3>3, <4>1, <4>2 DEF next
    <3>4. CASE Go(c, Caught(rec))
      BY <2>2, <2>5, <3>1, <3>2, <3>4, CaughtResult
    <3> QED BY <2>15, <3>3, <3>4 DEF NodeFails
  <2>16. CASE SaveRead(c) \/ SaveWrite(c)
    <3>1. rec.at \in Saving /\ UNCHANGED <<scenario, file, done>>
      BY <2>16 DEF SaveRead, SaveWrite, Saving
    <3>2. ASSUME NEW at \in {"write", "rename"}, Go(c, [rec EXCEPT !.at = at])
          PROVE  VerifiedInv(N)'
      <4> DEFINE next == [rec EXCEPT !.at = at]
      <4>1. /\ next.at = at /\ next.run = r /\ next.state = rec.state /\ next.save = rec.save
            /\ next.nodes = rec.nodes /\ next.passed = rec.passed
        BY <2>8
      <4> HIDE DEF next
      <4>2. HasPassed(N, next, d)
        BY <2>3, <3>1, <4>1 DEF HasPassed, AtNode, Saving, Ending
      <4> QED BY <2>4, <3>1, <3>2, <4>1, <4>2 DEF next
    <3> QED BY <2>6, <2>16, <3>1, <3>2 DEF SaveRead, SaveWrite
  <2>17. CASE SaveRename(c)
    <3>1. /\ rec.at = "rename" /\ rec.at \in Saving /\ UNCHANGED <<scenario, done>>
      BY <2>17 DEF SaveRename, Saving
    <3>2. temp[r] = rec.state /\ temp[r] # None
      BY <2>2, <2>3, <3>1 DEF OnGraph, CallRecords, None, P!States
    <3> DEFINE next == After(rec)
    <3>3. Go(c, next)
      BY <2>17, <3>2 DEF SaveRename
    <3>4. file'[r] = rec.state /\ \A q \in Runs \ {r} : file'[q] = file[q]
      BY <2>2, <2>17, <3>2 DEF SaveRename, TypeOK
    <3>5. /\ next.run = r /\ next.state = rec.state
          /\ \/ next.at \in {"connect", "loop"}
             \/ next.at = "cleanup" /\ rec.save = "final"
      BY <2>8 DEF After
    <3>6. N[rec.state] \subseteq d
      BY <2>3, <3>1 DEF HasPassed
    <3>7. rec.save = "final" => Tested \subseteq d
      <4>1. rec.save = "final" => rec.state = "evidence_written"
        BY <2>3, <3>1 DEF OnGraph
      <4> QED BY <3>6, <4>1 DEF Labelling, Ends
    <3> HIDE DEF next
    <3>8. HasPassed(N, next, d)
      BY <3>5, <3>6, <3>7 DEF HasPassed, AtNode, Saving, Ending
    <3> QED BY <2>1, <3>1, <3>3, <3>4, <3>5, <3>6, <3>8, VerifiedGo
  <2>18. CASE SaveFails(c)
    BY <2>6, <2>18 DEF SaveFails, Saving
  <2>19. CASE Cleanup(c) \/ WriteEvidence(c)
    <3>1. UNCHANGED <<scenario, file, done>> /\ rec.at \in {"cleanup", "evidence"}
      BY <2>19 DEF Cleanup, WriteEvidence
    <3>2. CASE Go(c, Idle)
      BY <2>4, <3>1, <3>2 DEF Idle
    <3>3. ASSUME NEW at \in {"evidence", "unlink"}, Go(c, [rec EXCEPT !.at = at]),
                 at = "unlink" => Status(rec) = "completed"
          PROVE  VerifiedInv(N)'
      <4> DEFINE next == [rec EXCEPT !.at = at]
      <4>1. next.at = at /\ next.run = r /\ next.error = rec.error
        BY <2>8
      <4> HIDE DEF next
      <4>2. at = "unlink" => rec.error = None
        BY <2>2, <3>3 DEF Status, CallRecords
      <4>3. HasPassed(N, next, d)
        BY <2>3, <3>1, <4>1, <4>2 DEF HasPassed, AtNode, Saving, Ending
      <4> QED BY <2>4, <3>1, <3>3, <4>1, <4>3 DEF next
    <3> QED BY <2>19, <3>2, <3>3 DEF Cleanup, WriteEvidence
  <2>20. CASE Finish(c)
    <3>1. Go(c, Idle) /\ Idle.at = "idle" /\ UNCHANGED <<scenario, done>>
      BY <2>20 DEF Finish, Idle
    <3>2. file'[r] = None /\ \A q \in Runs \ {r} : file'[q] = file[q]
      BY <2>2, <2>20 DEF Finish, TypeOK
    <3> QED BY <2>1, <3>1, <3>2, VerifiedGo
  <2> QED
    BY <1>2, <2>9, <2>10, <2>11, <2>12, <2>13, <2>14, <2>15, <2>16, <2>17, <2>18, <2>19, <2>20
    DEF Step
<1>3. ASSUME NEW c \in Calls, Abort(c) PROVE VerifiedInv(N)'
  <2> DEFINE rec == call[c]
             next == [rec EXCEPT !.aborted = TRUE]
  <2>1. rec \in CallRecords /\ Active(c) /\ rec.run \in Runs
    BY <1>3 DEF TypeOK, Abort, Driving, Active
  <2>2. /\ next.at = rec.at /\ next.run = rec.run /\ next.state = rec.state
        /\ next.save = rec.save /\ next.error = rec.error
        /\ next.nodes = rec.nodes /\ next.passed = rec.passed
    BY <2>1 DEF CallRecords
  <2>3. Go(c, next) /\ UNCHANGED <<scenario, file, done>>
    BY <1>3 DEF Abort
  <2> HIDE DEF next
  <2>4. HasPassed(N, next, done[rec.run])
    BY <2>1, <2>2 DEF VerifiedInv, HasPassed, AtNode, Ending
  <2>5. file[rec.run] # None => N[file[rec.run]] \subseteq done[rec.run]
    BY <2>1 DEF VerifiedInv
  <2> QED BY <2>1, <2>2, <2>3, <2>4, <2>5, VerifiedGo
<1>4. CASE Crash
  BY <1>4 DEF Crash, VerifiedInv, Active, Idle, Earned
<1>5. CASE EditProfile \/ UNCHANGED vars
  BY <1>5 DEF EditProfile, vars, VerifiedInv, Active, HasPassed, AtNode, Ending, Earned
<1> QED BY <1>1, <1>2, <1>3, <1>4, <1>5 DEF Next

(* A run that is reported completed has installed, started and seen an     *)
(* assertion hold, over all its calls, crashes, failed saves and edits of  *)
(* the profile, if the profiles have a common labelling and calls do not   *)
(* overlap on a run.                                                       *)
THEOREM CompletedByLabelling ==
  ASSUME NEW CONSTANT N, Labelling(N)
  PROVE  Spec /\ ~scenario.duplicates /\ (\A nodes \in scenario.profiles : Earned(N, nodes))
           => []CompletedVerified
<1>1. Init /\ (\A nodes \in scenario.profiles : Earned(N, nodes)) => VerifiedInv(N)
  BY DEF Init, VerifiedInv, Active, Idle
<1>2. TypeOK /\ GraphInv /\ VerifiedInv(N) /\ [Next]_vars => VerifiedInv(N)'
  BY VerifiedStep
<1>3. VerifiedInv(N) => CompletedVerified
  BY DEF VerifiedInv, HasPassed, Ending, Active, CompletedVerified, Tested
<1> QED BY <1>1, <1>2, <1>3, TypeCorrect, GraphInvariant, PTL DEF Spec

(* The labelling of the one profile that is registered.                    *)
ZeroXCorePassed ==
  [s \in P!States |->
     IF s \in {"created", "preflight_passed", "tunnel_connected"} THEN {}
     ELSE IF s = "app_ready" THEN {"install"}
     ELSE IF s \in Ends \cup {"scenario_passed", "recovery_passed"} THEN Tested
     ELSE {"install", "launch"}]

LEMMA ZeroXCoreEarned ==
  Labelling(ZeroXCorePassed) /\ Earned(ZeroXCorePassed, ZeroXCore)
<1>1. ASSUME NEW s \in P!States
      PROVE  ZeroXCorePassed[s] =
               IF s \in {"created", "preflight_passed", "tunnel_connected"} THEN {}
               ELSE IF s = "app_ready" THEN {"install"}
               ELSE IF s \in Ends \cup {"scenario_passed", "recovery_passed"} THEN Tested
               ELSE {"install", "launch"}
  BY DEF ZeroXCorePassed
<1>2. Ends \cup {"created", "preflight_passed", "tunnel_connected", "app_ready",
                 "scenario_started", "scenario_passed", "tunnel_interrupted",
                 "tunnel_reconnected", "recovery_passed"} \subseteq P!States
  BY DEF P!States, Ends
<1>3. Labelling(ZeroXCorePassed)
  <2>1. ZeroXCorePassed \in [P!States -> SUBSET Kinds]
    BY DEF ZeroXCorePassed, Kinds, Tested
  <2> QED BY <1>1, <1>2, <2>1 DEF Labelling, Ends
<1>4. ZeroXCorePassed["scenario_started"] = {"install", "launch"}
  BY <1>1, <1>2 DEF Ends
<1>5. /\ ZeroXCorePassed["tunnel_interrupted"] = {"install", "launch"}
      /\ ZeroXCorePassed["tunnel_reconnected"] = {"install", "launch"}
  BY <1>1, <1>2 DEF Ends
<1>6. /\ ZeroXCorePassed["tunnel_connected"] = {} /\ ZeroXCorePassed["app_ready"] = {"install"}
      /\ ZeroXCorePassed["scenario_passed"] = Tested /\ ZeroXCorePassed["recovery_passed"] = Tested
  BY <1>1, <1>2 DEF Ends
<1>7. DOMAIN ZeroXCore = 1..5
  BY DEF ZeroXCore
<1>8. Earned(ZeroXCorePassed, ZeroXCore)
  <2>1. ASSUME NEW i \in 1..5
        PROVE  LET node == ZeroXCore[i] IN
               /\ ZeroXCorePassed[node.success] \subseteq ZeroXCorePassed[node.from] \cup {node.kind}
               /\ node.failure # None => ZeroXCorePassed[node.failure] \subseteq ZeroXCorePassed[node.from]
    <3>1. CASE i = 1
      BY <1>6, <3>1 DEF ZeroXCore, Node
    <3>2. CASE i = 2
      BY <1>4, <1>6, <3>2 DEF ZeroXCore, Node
    <3>3. CASE i = 3
      BY <1>4, <1>5, <1>6, <3>3 DEF ZeroXCore, Node, Tested
    <3>4. CASE i = 4
      BY <1>5, <3>4 DEF ZeroXCore, Node
    <3>5. CASE i = 5
      BY <1>5, <1>6, <3>5 DEF ZeroXCore, Node, Tested
    <3> QED BY <3>1, <3>2, <3>3, <3>4, <3>5
  <2> QED BY <1>7, <2>1 DEF Earned
<1> QED BY <1>3, <1>8

(* A run of the registered profile that is reported completed has          *)
(* installed, started and asserted.                                        *)
THEOREM CompletedRunsVerified ==
  Spec /\ ~scenario.duplicates /\ scenario.profiles = {ZeroXCore} => []CompletedVerified
<1>1. scenario.profiles = {ZeroXCore} =>
        \A nodes \in scenario.profiles : Earned(ZeroXCorePassed, nodes)
  BY ZeroXCoreEarned
<1>2. Spec /\ ~scenario.duplicates
        /\ (\A nodes \in scenario.profiles : Earned(ZeroXCorePassed, nodes))
      => []CompletedVerified
  BY ZeroXCoreEarned, CompletedByLabelling
<1> QED BY <1>1, <1>2, PTL

=============================================================================
