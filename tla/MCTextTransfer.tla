--------------------------- MODULE MCTextTransfer ---------------------------
(* TextTransfer with a text of three bytes in three chunks, one empty.     *)
EXTENDS TextTransfer
CONSTANTS s1, s2

WithEmpty == <<<<1>>, <<>>, <<2, 1>>>>
OldText   == <<7>>
Honest    == {[bytes |-> 3, digest |-> Text]}
AnyClaim  == {[bytes |-> n, digest |-> d] : n \in {0, 3}, d \in {Text, <<>>}}

Case(sessions, strays, declarations, kinds, max) ==
  [sessions |-> sessions, strays |-> strays, declarations |-> declarations,
   faults |-> kinds, max |-> max]

(* A client that keeps the order, one that does not, and two clients.      *)
Cases ==
  { Case({s1}, {}, Honest, {"crash", "error"}, 3),
    Case({s1}, {<<2>>}, AnyClaim, {"crash", "error", "unread", "torn", "short"}, 2),
    Case({s1, s2}, {}, Honest, {"crash"}, 2) }

=============================================================================
