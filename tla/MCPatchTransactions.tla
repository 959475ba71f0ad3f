------------------------- MODULE MCPatchTransactions -------------------------
(* PatchTransactions on up to three patches, two commands and three paths. *)
EXTENDS PatchTransactions, TLC
CONSTANTS k1, k2, k3, k4

CommandLimit == [command |-> 1]

Add(k)     == [kind |-> "add", path |-> k]
Update(k)  == [kind |-> "update", path |-> k]
Delete(k)  == [kind |-> "delete", path |-> k]
Unified(k) == [kind |-> "unified", path |-> k]
Move(k, m) == [kind |-> "move", path |-> k, to |-> m]

Case(ops, others, timers, n) ==
  [ops |-> ops, others |-> others, timers |-> timers, faults |-> n]

(* Three patches each two of which meet at a path; one path that is locked *)
(* and dropped again and again; one patch that fails anywhere; the gates.  *)
Cases ==
  { Case(k1 :> <<Update(1), Update(2)>> @@ k2 :> <<Delete(3), Update(2)>> @@ k3 :> <<Move(3, 1)>>,
         <<>>, FALSE, 0),
    Case(k1 :> <<Unified(1)>> @@ k2 :> <<Update(1)>> @@ k3 :> <<Delete(1)>>,
         k4 :> "command", TRUE, 0),
    Case(k1 :> <<Move(1, 2), Update(3)>> @@ k2 :> <<Add(2)>>, <<>>, TRUE, 2),
    Case(k1 :> <<Update(1)>> @@ k2 :> <<Update(2)>>, k3 :> "command" @@ k4 :> "command", TRUE, 0) }

=============================================================================
