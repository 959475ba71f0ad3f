------------------------------ MODULE MCTaskLogs ------------------------------
(* Outputs of four characters, one of them of four bytes and two code      *)
(* units, or of three with two of these; two secrets.                      *)
EXTENDS TaskLogs

MCWidth ==
  [c \in {"a", "b", "wide", "newline", "[", "]", "?"} |->
     CASE c = "wide" -> 4 [] c = "?" -> 3 [] OTHER -> 1]
WithWide(length, wide) ==
  {t \in [1..length -> {"a", "b", "wide", "newline"}] :
     Cardinality({i \in 1..length : t[i] = "wide"}) <= wide}
MCOutputs == WithWide(4, 1) \cup WithWide(3, 2)
MCSecrets == <<Units(<<"a", "b", "a">>), Units(<<"b", "b">>)>>
MCLimits == {<<4, 2>>, <<5, 1>>}
MCReplacement == Units(<<"[", "]">>)
=============================================================================
