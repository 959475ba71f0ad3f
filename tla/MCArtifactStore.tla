--------------------------- MODULE MCArtifactStore ---------------------------
(* ArtifactStore with an artifact of three bytes in two chunks.            *)
EXTENDS ArtifactStore
CONSTANTS u1, u2

TwoPieces   == <<<<1>>, <<2, 1>>>>
OldFile     == <<7>>
BothClaims  == {[size |-> 3, digest |-> None], [size |-> 3, digest |-> Artifact]}
SmallClaims == {[size |-> 1, digest |-> <<1>>], [size |-> 2, digest |-> None]}
Anything    == SmallClaims \cup {[size |-> None, digest |-> None]}

Case(ids, strays, declared, imports, kinds, max) ==
  [ids |-> ids, strays |-> strays, declared |-> declared, imports |-> imports,
   faults |-> kinds, max |-> max]

(* A client that keeps the order; clients and sources that do not; two     *)
(* downloads at a time.                                                    *)
Cases ==
  { Case({u1, u2}, {}, BothClaims, {}, {"crash", "error", "torn"}, 3),
    Case({u1, u2}, {<<2>>}, SmallClaims, Anything, {"crash", "error", "torn", "short"}, 2),
    Case({u1, u2}, {<<2>>}, {}, Anything, {"torn", "short"}, 1) }

=============================================================================
