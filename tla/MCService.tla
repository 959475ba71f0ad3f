------------------------------ MODULE MCService ------------------------------
(* Instances of Service for TLC: Build Tools and a workload, which the     *)
(* broker installs and no inspection sees, and an SDK the inspection sees. *)
EXTENDS Service

CONSTANTS c1, c2, x1, x2, o1, o2, p1, p2, p3, p4, p5, p6

MCCatalog == <<"buildtools", "sdk", "workload">>
MCRequires == [buildtools |-> <<>>, sdk |-> <<>>, workload |-> <<"buildtools">>]
Case(S, b, d, s) ==
  [clients |-> S, broker |-> b, drifts |-> d, server |-> s]

MCCases == {Case({c1, c2}, 1, 0, 0), Case({c1}, 1, 1, 0), Case({c1}, 0, 0, 1), Case({}, 0, 0, 2)}

(* Nothing fails. *)
NoFaults == {Case({c1}, 0, 0, 0)}

MCRequests == {<<"workload", "buildtools">>}
=============================================================================
