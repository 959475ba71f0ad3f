----------------------- MODULE PatchTransactionsProofs -----------------------
(***************************************************************************)
(* Proofs about PatchTransactions and the gates it uses, for every number  *)
(* of calls, all limits and all scenarios.                                 *)
(***************************************************************************)
EXTENDS PatchTransactions, BasicLemmas

-----------------------------------------------------------------------------
(* The gates: what the methods of FifoSemaphore do to the calls inside a   *)
(* gate and those that wait for it, for every limit and any number of      *)
(* calls.                                                                  *)

(* Gate g with this limit has let in the calls of In, and those of Out     *)
(* wait for it, each once and only if all slots are taken.                 *)
Guards(g, limit, In, Out) ==
  /\ g = [active |-> g.active, waiters |-> g.waiters]
  /\ IsFiniteSet(In) /\ g.active = Cardinality(In) /\ g.active <= limit
  /\ g.waiters \in Seq(Out)
  /\ \A c \in Out : \E i \in 1..Len(g.waiters) : g.waiters[i] = c
  /\ \A i, j \in 1..Len(g.waiters) : g.waiters[i] = g.waiters[j] => i = j
  /\ g.waiters # <<>> => g.active = limit

-----------------------------------------------------------------------------
(* A new gate guards nothing.                                              *)
LEMMA NewGuards ==
  ASSUME NEW limit \in Nat
  PROVE  Guards(New, limit, {}, {})
<1>1. IsFiniteSet({}) /\ Cardinality({}) = 0
  BY FS_EmptySet
<1>2. New.waiters \in Seq({}) /\ Len(New.waiters) = 0
  BY EmptySeq DEF New
<1> QED BY <1>1, <1>2 DEF Guards, New

(* The list is as long as there are calls that wait.                       *)
LEMMA WaitersCounted ==
  ASSUME NEW g, NEW limit, NEW In, NEW Out, Guards(g, limit, In, Out)
  PROVE  /\ Len(g.waiters) = Cardinality(Out)
         /\ \A c \in Out : Waits(g, c)
<1>1. Len(g.waiters) \in Nat /\ g.waiters \in [1..Len(g.waiters) -> Out]
  BY LenProperties DEF Guards
<1>2. g.waiters \in Bijection(1..Len(g.waiters), Out)
  BY <1>1 DEF Guards, Bijection, Injection, Surjection, IsInjective
<1>3. ExistsBijection(1..Len(g.waiters), Out)
  BY <1>2 DEF ExistsBijection
<1>4. Cardinality(Out) = Len(g.waiters)
  BY <1>1, <1>3, FS_CountingElements
<1> QED BY <1>4 DEF Guards, Waits

(* A call that asks is let in, or waits as the last one.                   *)
LEMMA AcquireGuards ==
  ASSUME NEW g, NEW limit \in Nat, NEW In, NEW Out, Guards(g, limit, In, Out),
         NEW c, c \notin In, c \notin Out
  PROVE  /\ Takes(g, limit) => Guards(Acquire(g, limit, c), limit, In \cup {c}, Out)
         /\ ~Takes(g, limit) => Guards(Acquire(g, limit, c), limit, In, Out \cup {c})
<1> DEFINE n == Acquire(g, limit, c)
<1>1. Cardinality(In) \in Nat /\ g.active \in Nat
  BY FS_CardinalityType DEF Guards
<1>2. CASE Takes(g, limit)
  <2>1. n = [active |-> g.active + 1, waiters |-> g.waiters]
    BY <1>2 DEF Acquire, Guards
  <2>2. IsFiniteSet(In \cup {c}) /\ Cardinality(In \cup {c}) = Cardinality(In) + 1
    BY FS_AddElement DEF Guards
  <2>3. g.waiters = <<>> /\ g.active < limit
    BY <1>2 DEF Takes
  <2>4. n.active <= limit
    BY <1>1, <2>1, <2>3
  <2> HIDE DEF n
  <2>5. n.waiters = g.waiters /\ n.active = Cardinality(In \cup {c})
    BY <2>1, <2>2 DEF Guards
  <2>6. Guards(n, limit, In \cup {c}, Out)
    BY <2>1, <2>2, <2>3, <2>4, <2>5 DEF Guards
  <2> QED BY <1>2, <2>6 DEF n
<1>3. CASE ~Takes(g, limit)
  <2> DEFINE l == Len(g.waiters)
  <2>1. n = [active |-> g.active, waiters |-> Append(g.waiters, c)]
    BY <1>3 DEF Acquire, Guards
  <2>2. l \in Nat /\ g.waiters \in Seq(Out \cup {c}) /\ \A i \in 1..l : g.waiters[i] \in Out
    BY SeqMonotonic, LenProperties, ElementOfSeq DEF Guards
  <2>3. /\ n.waiters \in Seq(Out \cup {c}) /\ Len(n.waiters) = l + 1
        /\ \A i \in 1..l : n.waiters[i] = g.waiters[i]
        /\ n.waiters[l + 1] = c
    BY <2>1, <2>2
  <2>4. g.active = limit
    BY <1>1, <1>3 DEF Takes, Guards
  <2> HIDE DEF n, l
  <2>5. \A d \in Out \cup {c} : \E i \in 1..Len(n.waiters) : n.waiters[i] = d
    <3>1. \A d \in Out : \E i \in 1..l : g.waiters[i] = d
      BY DEF Guards, l
    <3> QED BY <2>2, <2>3, <3>1
  <2>6. \A i, j \in 1..Len(n.waiters) : n.waiters[i] = n.waiters[j] => i = j
    <3>1. \A i, j \in 1..l : g.waiters[i] = g.waiters[j] => i = j
      BY DEF Guards, l
    <3> QED BY <2>2, <2>3, <3>1, SMTT(30)
  <2>7. Guards(n, limit, In, Out \cup {c})
    BY <2>1, <2>3, <2>4, <2>5, <2>6 DEF Guards
  <2> QED BY <1>3, <2>7 DEF n
<1> QED BY <1>2, <1>3

(* A call that leaves wakes the first one that waits, if any does.         *)
LEMMA ReleaseWakes ==
  ASSUME NEW g, NEW limit \in Nat, NEW In, NEW Out, Guards(g, limit, In, Out), In # {}
  PROVE  IF g.waiters = <<>> THEN Grants(g, limit) = 0 ELSE Grants(g, limit) = 1
<1>1. Cardinality(In) \in Nat /\ g.active \in Nat /\ g.active > 0
  <2>1. Cardinality(In) \in Nat /\ Cardinality(In) # 0
    BY FS_CardinalityType, FS_EmptySet DEF Guards
  <2> QED BY <2>1 DEF Guards
<1>2. CASE g.waiters = <<>>
  <2>1. Len(g.waiters) = 0 /\ g.active <= limit
    BY <1>2 DEF Guards
  <2> QED BY <1>1, <1>2, <2>1 DEF Grants
<1>3. CASE g.waiters # <<>>
  <2>1. Len(g.waiters) \in Nat \ {0} /\ g.active = limit
    BY <1>3, EmptySeq DEF Guards
  <2> QED BY <1>1, <1>3, <2>1 DEF Grants
<1> QED BY <1>2, <1>3

LEMMA ReleaseGuards ==
  ASSUME NEW g, NEW limit \in Nat, NEW In, NEW Out, Guards(g, limit, In, Out),
         In \cap Out = {}, NEW c \in In
  PROVE  /\ Woken(g, limit) \subseteq Out
         /\ Guards(Release(g, limit), limit,
                   (In \ {c}) \cup Woken(g, limit), Out \ Woken(g, limit))
<1> DEFINE n == Release(g, limit)
           l == Len(g.waiters)
<1>1. /\ Cardinality(In) \in Nat /\ g.active \in Nat
      /\ IsFiniteSet(In \ {c}) /\ Cardinality(In \ {c}) = g.active - 1
  BY FS_CardinalityType, FS_RemoveElement DEF Guards
<1>2. l \in Nat /\ \A i \in 1..l : g.waiters[i] \in Out
  BY LenProperties, ElementOfSeq DEF Guards
<1>3. CASE g.waiters = <<>>
  <2>1. Grants(g, limit) = 0 /\ Woken(g, limit) = {}
    BY <1>3, ReleaseWakes DEF Woken
  <2>2. l = 0 /\ SubSeq(g.waiters, 1, l) = <<>>
    BY <1>3, SubSeqEmpty
  <2>3. n = [active |-> g.active - 1, waiters |-> <<>>]
    BY <1>1, <2>1, <2>2 DEF Release
  <2>4. g.active - 1 <= limit
    BY <1>1 DEF Guards
  <2>5. Out = {}
    BY <2>2 DEF Guards
  <2>6. <<>> \in Seq(Out)
    BY EmptySeq
  <2> HIDE DEF n
  <2>7. Guards(n, limit, In \ {c}, Out)
    BY <1>1, <2>3, <2>4, <2>5, <2>6 DEF Guards
  <2>8. (In \ {c}) \cup Woken(g, limit) = In \ {c} /\ Out \ Woken(g, limit) = Out
    BY <2>1
  <2> QED BY <2>1, <2>7, <2>8 DEF n
<1>4. CASE g.waiters # <<>>
  <2> DEFINE w == g.waiters[1]
  <2>1. Grants(g, limit) = 1 /\ Woken(g, limit) = {w}
    BY <1>4, ReleaseWakes DEF Woken
  <2>2. l \in Nat \ {0} /\ w \in Out
    BY <1>2, <1>4, EmptySeq DEF Guards
  <2>3. n = [active |-> g.active, waiters |-> SubSeq(g.waiters, 2, l)]
    <3>1. g.active - 1 + Grants(g, limit) = g.active /\ Grants(g, limit) + 1 = 2
      BY <1>1, <2>1
    <3> QED BY <3>1, Zenon DEF Release
  <2>4. \A i \in 2..l : g.waiters[i] \in Out \ {w}
    <3>1. \A i, j \in 1..l : g.waiters[i] = g.waiters[j] => i = j
      BY DEF Guards
    <3> HIDE DEF l
    <3> QED BY <1>2, <2>2, <3>1
  <2> HIDE DEF w, l, n
  <2>5. /\ SubSeq(g.waiters, 2, l) \in Seq(Out \ {w})
        /\ Len(SubSeq(g.waiters, 2, l)) = IF 2 <= l THEN l - 2 + 1 ELSE 0
        /\ \A i \in 1..l-2+1 : SubSeq(g.waiters, 2, l)[i] = g.waiters[2 + i - 1]
    BY <2>2, <2>4, SubSeqProperties
  <2>6. /\ n.waiters \in Seq(Out \ {w}) /\ Len(n.waiters) = l - 1
        /\ \A i \in 1..l-1 : n.waiters[i] = g.waiters[i + 1]
    BY <2>2, <2>3, <2>5
  <2>7. IsFiniteSet((In \ {c}) \cup {w}) /\ Cardinality((In \ {c}) \cup {w}) = g.active
    <3>1. w \notin In \ {c}
      BY <2>2
    <3> QED BY <1>1, <3>1, FS_AddElement
  <2>8. \A d \in Out \ {w} : \E i \in 1..Len(n.waiters) : n.waiters[i] = d
    <3> SUFFICES ASSUME NEW d \in Out \ {w} PROVE \E i \in 1..l-1 : n.waiters[i] = d
      BY <2>6
    <3>1. PICK j \in 1..l : g.waiters[j] = d
      BY DEF Guards, l
    <3>2. j # 1
      BY <3>1 DEF w
    <3>3. j - 1 \in 1..l-1 /\ n.waiters[j - 1] = d
      BY <2>2, <2>6, <3>1, <3>2
    <3> QED BY <3>3
  <2>9. \A i, j \in 1..Len(n.waiters) : n.waiters[i] = n.waiters[j] => i = j
    <3>1. \A i, j \in 1..l : g.waiters[i] = g.waiters[j] => i = j
      BY DEF Guards, l
    <3> QED BY <2>2, <2>6, <3>1
  <2>10. n.active = limit /\ n.active <= limit
    BY <1>4, <2>3 DEF Guards
  <2>11. Guards(n, limit, (In \ {c}) \cup {w}, Out \ {w})
    BY <2>3, <2>6, <2>7, <2>8, <2>9, <2>10 DEF Guards
  <2> QED BY <2>1, <2>2, <2>11 DEF n
<1> QED BY <1>3, <1>4

(* A call that gives up no longer waits.                                   *)
LEMMA WithdrawGuards ==
  ASSUME NEW g, NEW limit \in Nat, NEW In, NEW Out, Guards(g, limit, In, Out), NEW c \in Out
  PROVE  Guards(Withdraw(g, c), limit, In, Out \ {c})
<1> DEFINE n == Withdraw(g, c)
           s == g.waiters
           l == Len(s)
           k == CHOOSE i \in 1..l : s[i] = c
           a == SubSeq(s, 1, k - 1)
           b == SubSeq(s, k + 1, l)
<1>1. l \in Nat /\ k \in 1..l /\ s[k] = c /\ k \in Int
  BY LenProperties DEF Guards
<1>2. /\ \A i \in 1..l : s[i] \in Out
      /\ \A d \in Out : \E i \in 1..l : s[i] = d
      /\ \A i, j \in 1..l : s[i] = s[j] => i = j
      /\ s # <<>>
  <2>1. \A i \in 1..l : s[i] \in Out
    BY ElementOfSeq DEF Guards
  <2>2. s # <<>>
    BY <1>1
  <2> QED BY <2>1, <2>2 DEF Guards
<1>3. n = [active |-> g.active, waiters |-> a \o b]
  <2>1. g = [active |-> g.active, waiters |-> s]
    BY DEF Guards
  <2>2. n = [g EXCEPT !.waiters = a \o b]
    BY Zenon DEF Withdraw
  <2> HIDE DEF a, b, n, s
  <2> QED BY <2>1, <2>2
<1>4. g.active = limit /\ IsFiniteSet(In) /\ g.active = Cardinality(In) /\ g.active <= limit
  BY <1>2 DEF Guards
<1> HIDE DEF n, s, k, l
<1>5. /\ a \in Seq(Out \ {c}) /\ Len(a) = k - 1 /\ \A i \in 1..k-1 : a[i] = s[i]
  <2>1. \A i \in 1..k-1 : s[i] \in Out \ {c}
    BY <1>1, <1>2
  <2>2. /\ a \in Seq(Out \ {c})
        /\ Len(a) = IF 1 <= k - 1 THEN k - 1 - 1 + 1 ELSE 0
        /\ \A i \in 1..k-1-1+1 : a[i] = s[1 + i - 1]
    BY <1>1, <2>1, SubSeqProperties
  <2> QED BY <1>1, <2>2
<1>6. /\ b \in Seq(Out \ {c}) /\ Len(b) = l - k /\ \A i \in 1..l-k : b[i] = s[i + k]
  <2>1. \A i \in k+1..l : s[i] \in Out \ {c}
    BY <1>1, <1>2
  <2>2. /\ b \in Seq(Out \ {c})
        /\ Len(b) = IF k + 1 <= l THEN l - (k + 1) + 1 ELSE 0
        /\ \A i \in 1..l-(k+1)+1 : b[i] = s[(k + 1) + i - 1]
    BY <1>1, <2>1, SubSeqProperties
  <2> QED BY <1>1, <2>2
<1> DEFINE t == a \o b
<1> HIDE DEF a, b
<1>7. /\ t \in Seq(Out \ {c}) /\ Len(t) = l - 1
      /\ \A i \in 1..l-1 : t[i] = IF i < k THEN s[i] ELSE s[i + 1]
  <2>1. /\ t \in Seq(Out \ {c}) /\ Len(t) = (k - 1) + (l - k)
        /\ \A i \in 1..((k-1)+(l-k)) : t[i] = IF i <= k - 1 THEN a[i] ELSE b[i - (k - 1)]
    BY <1>5, <1>6, ConcatProperties
  <2> HIDE DEF t
  <2>2. (k - 1) + (l - k) = l - 1
    BY <1>1
  <2>3. ASSUME NEW i \in 1..l-1 PROVE t[i] = IF i < k THEN s[i] ELSE s[i + 1]
    <3>1. t[i] = IF i <= k - 1 THEN a[i] ELSE b[i - (k - 1)]
      BY <2>1, <2>2
    <3>2. CASE i < k
      BY <1>1, <1>5, <3>1, <3>2
    <3>3. CASE ~(i < k)
      <4>1. i - (k - 1) \in 1..l-k /\ i - (k - 1) + k = i + 1 /\ ~(i <= k - 1)
        BY <1>1, <3>3
      <4> QED BY <1>6, <3>1, <3>3, <4>1
    <3> QED BY <3>2, <3>3
  <2> QED BY <2>1, <2>2, <2>3
<1> HIDE DEF t
<1>8. \A d \in Out \ {c} : \E i \in 1..Len(t) : t[i] = d
  <2> SUFFICES ASSUME NEW d \in Out \ {c} PROVE \E i \in 1..l-1 : t[i] = d
    BY <1>7
  <2>1. PICK j \in 1..l : s[j] = d
    BY <1>2
  <2>2. j # k
    BY <1>1, <2>1
  <2>3. CASE j < k
    <3>1. j \in 1..l-1 /\ t[j] = d
      BY <1>1, <1>7, <2>1, <2>3
    <3> QED BY <3>1
  <2>4. CASE j > k
    <3>1. j - 1 \in 1..l-1 /\ t[j - 1] = d
      BY <1>1, <1>7, <2>1, <2>4
    <3> QED BY <3>1
  <2> QED BY <1>1, <2>2, <2>3, <2>4
<1>9. \A i, j \in 1..Len(t) : t[i] = t[j] => i = j
  BY <1>1, <1>2, <1>7
<1>10. n.active = g.active /\ n.waiters = t /\ n = [active |-> n.active, waiters |-> n.waiters]
  BY <1>3 DEF t
<1>11. Guards(n, limit, In, Out \ {c})
  BY <1>4, <1>7, <1>8, <1>9, <1>10 DEF Guards
<1> QED BY <1>11 DEF n

-----------------------------------------------------------------------------

(* The calls at these stages, and those of class k.                        *)
At(S) == {c \in Calls : stage[c] \in S}
AtOf(S, k) == {c \in Calls : stage[c] \in S /\ kind[c] = k}

Inner == {"asks", "tools", "runs"}

(* Every gate guards the calls the stages say are inside or waiting.       *)
GatesGuarded ==
  /\ stage \in [Calls -> Stages]
  /\ Guards(tools, Tools, At({"runs"}), At({"tools"}))
  /\ children = [k \in DOMAIN Children |-> children[k]]
  /\ \A k \in DOMAIN Children :
       Guards(children[k], Children[k], AtOf(Inner, k), AtOf({"child"}, k))

GatesInv ==
  /\ scenario \in Scenarios
  /\ kind \in [Calls -> DOMAIN Children \cup {"default"}]
  /\ GatesGuarded

-----------------------------------------------------------------------------
(* At first nobody has called.                                             *)
LEMMA GatesInvInit == Init => GatesInv
<1> SUFFICES ASSUME Init PROVE GatesInv
  OBVIOUS
<1>1. scenario \in Scenarios
  BY DEF Init
<1>2. kind \in [Calls -> DOMAIN Children \cup {"default"}]
  BY <1>1, PatchAssumption DEF Init, Others
<1>3. stage = [c \in Calls |-> "new"] /\ tools = New /\ children = [k \in DOMAIN Children |-> New]
  BY DEF Init, GatesInit
<1>4. stage \in [Calls -> Stages]
  BY <1>3 DEF Stages
<1>5. At({"runs"}) = {} /\ At({"tools"}) = {}
  BY <1>3 DEF At
<1>6. \A k : AtOf(Inner, k) = {} /\ AtOf({"child"}, k) = {}
  BY <1>3 DEF AtOf, Inner
<1>7. Guards(tools, Tools, At({"runs"}), At({"tools"}))
  BY <1>3, <1>5, NewGuards, GatesAssumption
<1>8. \A k \in DOMAIN Children :
        Guards(children[k], Children[k], AtOf(Inner, k), AtOf({"child"}, k))
  BY <1>3, <1>6, NewGuards, GatesAssumption
<1> QED BY <1>1, <1>2, <1>3, <1>4, <1>7, <1>8 DEF GatesInv, GatesGuarded

(* A call that arrives waits for its class or is let in.                   *)
LEMMA ArriveGuarded ==
  ASSUME GatesInv, NEW c \in Calls, Arrive(c)
  PROVE  GatesGuarded'
<1>1. /\ stage \in [Calls -> Stages] /\ stage[c] = "new"
      /\ children = [k \in DOMAIN Children |-> children[k]]
      /\ UNCHANGED <<kind, tools>>
  BY DEF GatesInv, GatesGuarded, Arrive
<1>2. CASE HasChild(c)
  <2> DEFINE K == kind[c]
             s == IF Takes(children[K], Children[K]) THEN "asks" ELSE "child"
  <2>1. K \in DOMAIN Children
    BY <1>2 DEF HasChild
  <2>2. children' = [children EXCEPT ![K] = Acquire(children[K], Children[K], c)]
    BY <1>2 DEF Arrive, Limit
  <2>3. stage' = [stage EXCEPT ![c] = s]
    BY <1>1, <1>2 DEF Arrive, Advance, Limit
  <2>4. s \in {"asks", "child"} /\ stage' \in [Calls -> Stages]
    BY <1>1, <2>3 DEF Stages
  <2>5. At({"runs"})' = At({"runs"}) /\ At({"tools"})' = At({"tools"})
    BY <1>1, <2>3, <2>4 DEF At
  <2>6. Guards(tools, Tools, At({"runs"}), At({"tools"}))'
    BY <1>1, <2>5 DEF GatesInv, GatesGuarded
  <2>7. ASSUME NEW k \in DOMAIN Children
        PROVE  Guards(children[k], Children[k], AtOf(Inner, k), AtOf({"child"}, k))'
    <3>1. Guards(children[k], Children[k], AtOf(Inner, k), AtOf({"child"}, k)) /\ Children[k] \in Nat
      BY GatesAssumption DEF GatesInv, GatesGuarded
    <3>2. CASE k # K
      <4>1. AtOf(Inner, k)' = AtOf(Inner, k) /\ AtOf({"child"}, k)' = AtOf({"child"}, k)
        BY <1>1, <2>3, <3>2 DEF AtOf
      <4>2. children'[k] = children[k]
        BY <1>1, <2>2, <3>2
      <4> QED BY <3>1, <4>1, <4>2
    <3>3. CASE k = K
      <4>1. c \notin AtOf(Inner, k) /\ c \notin AtOf({"child"}, k)
        BY <1>1 DEF AtOf, Inner
      <4>2. children'[k] = Acquire(children[k], Children[k], c)
        BY <1>1, <2>1, <2>2, <3>3
      <4>3. CASE Takes(children[k], Children[k])
        <5>1. Guards(children'[k], Children[k], AtOf(Inner, k) \cup {c}, AtOf({"child"}, k))
          BY <3>1, <4>1, <4>2, <4>3, AcquireGuards
        <5>2. s = "asks"
          BY <3>3, <4>3
        <5>3. AtOf(Inner, k)' = AtOf(Inner, k) \cup {c} /\ AtOf({"child"}, k)' = AtOf({"child"}, k)
          BY <1>1, <2>3, <3>3, <5>2 DEF AtOf, Inner
        <5> QED BY <5>1, <5>3
      <4>4. CASE ~Takes(children[k], Children[k])
        <5>1. Guards(children'[k], Children[k], AtOf(Inner, k), AtOf({"child"}, k) \cup {c})
          <6>1. Guards(Acquire(children[k], Children[k], c), Children[k],
                       AtOf(Inner, k), AtOf({"child"}, k) \cup {c})
            <7> HIDE DEF K, s
            <7> QED BY <3>1, <4>1, <4>4, AcquireGuards
          <6> QED BY <4>2, <6>1
        <5>2. s = "child"
          BY <3>3, <4>4
        <5>3. AtOf(Inner, k)' = AtOf(Inner, k) /\ AtOf({"child"}, k)' = AtOf({"child"}, k) \cup {c}
          BY <1>1, <2>3, <3>3, <5>2 DEF AtOf, Inner
        <5> QED BY <5>1, <5>3
      <4> QED BY <4>3, <4>4
    <3> QED BY <3>2, <3>3
  <2>8. children' = [k \in DOMAIN Children |-> children'[k]]
    BY <1>1, <2>2
  <2> QED BY <2>4, <2>6, <2>7, <2>8 DEF GatesGuarded
<1>3. CASE ~HasChild(c)
  <2>1. children' = children /\ stage' = [stage EXCEPT ![c] = "asks"]
    BY <1>1, <1>3 DEF Arrive, Advance
  <2>2. stage' \in [Calls -> Stages]
    BY <1>1, <2>1 DEF Stages
  <2>3. At({"runs"})' = At({"runs"}) /\ At({"tools"})' = At({"tools"})
    BY <1>1, <2>1 DEF At
  <2>4. \A k \in DOMAIN Children :
          AtOf(Inner, k)' = AtOf(Inner, k) /\ AtOf({"child"}, k)' = AtOf({"child"}, k)
    BY <1>1, <1>3, <2>1 DEF AtOf, HasChild
  <2>5. /\ Guards(tools, Tools, At({"runs"}), At({"tools"}))
        /\ \A k \in DOMAIN Children :
             Guards(children[k], Children[k], AtOf(Inner, k), AtOf({"child"}, k))
    BY DEF GatesInv, GatesGuarded
  <2> QED BY <1>1, <2>1, <2>2, <2>3, <2>4, <2>5 DEF GatesGuarded
<1> QED BY <1>2, <1>3

(* A call that has passed its class waits for the global gate or runs.     *)
LEMMA AskGuarded ==
  ASSUME GatesInv, NEW c \in Calls, Ask(c)
  PROVE  GatesGuarded'
<1> DEFINE s == IF Takes(tools, Tools) THEN "runs" ELSE "tools"
<1>1. /\ stage \in [Calls -> Stages] /\ stage[c] = "asks"
      /\ children = [k \in DOMAIN Children |-> children[k]]
      /\ UNCHANGED <<kind, children>>
      /\ tools' = Acquire(tools, Tools, c)
  BY DEF GatesInv, GatesGuarded, Ask
<1>2. stage' = [stage EXCEPT ![c] = s]
  BY <1>1 DEF Ask, Advance
<1>3. s \in {"runs", "tools"} /\ stage' \in [Calls -> Stages]
  BY <1>1, <1>2 DEF Stages
<1>4. \A k : AtOf(Inner, k)' = AtOf(Inner, k) /\ AtOf({"child"}, k)' = AtOf({"child"}, k)
  BY <1>1, <1>2, <1>3 DEF AtOf, Inner
<1>5. \A k \in DOMAIN Children :
        Guards(children[k], Children[k], AtOf(Inner, k), AtOf({"child"}, k))'
  BY <1>1, <1>4 DEF GatesInv, GatesGuarded
<1>6. c \notin At({"runs"}) /\ c \notin At({"tools"})
  BY <1>1 DEF At
<1>7. Guards(tools, Tools, At({"runs"}), At({"tools"})) /\ Tools \in Nat
  BY GatesAssumption DEF GatesInv, GatesGuarded
<1>8. Guards(tools, Tools, At({"runs"}), At({"tools"}))'
  <2>1. CASE Takes(tools, Tools)
    <3>1. At({"runs"})' = At({"runs"}) \cup {c} /\ At({"tools"})' = At({"tools"})
      BY <1>1, <1>2, <2>1 DEF At
    <3>2. Guards(tools', Tools, At({"runs"}) \cup {c}, At({"tools"}))
      BY <1>1, <1>6, <1>7, <2>1, AcquireGuards
    <3> QED BY <3>1, <3>2
  <2>2. CASE ~Takes(tools, Tools)
    <3>1. At({"runs"})' = At({"runs"}) /\ At({"tools"})' = At({"tools"}) \cup {c}
      BY <1>1, <1>2, <2>2 DEF At
    <3>2. Guards(tools', Tools, At({"runs"}), At({"tools"}) \cup {c})
      BY <1>1, <1>6, <1>7, <2>2, AcquireGuards
    <3> QED BY <3>1, <3>2
  <2> QED BY <2>1, <2>2
<1> QED BY <1>1, <1>3, <1>5, <1>8 DEF GatesGuarded

(* A call that leaves wakes one that waits for its class, while those of T *)
(* are let into the global gate.                                           *)
LEMMA LeaveChildGuarded ==
  ASSUME GatesInv, NEW c \in Calls, stage[c] \in {"tools", "runs"}, UNCHANGED kind,
         NEW T \in SUBSET At({"tools"}), c \notin T,
         NEW s \in {"done", "timedOut"}, LeaveChild(c, s, T)
  PROVE  /\ stage' \in [Calls -> Stages]
         /\ children' = [k \in DOMAIN Children |-> children'[k]]
         /\ \A k \in DOMAIN Children :
              Guards(children[k], Children[k], AtOf(Inner, k), AtOf({"child"}, k))'
         /\ At({"runs"})' = (At({"runs"}) \ {c}) \cup T
         /\ At({"tools"})' = (At({"tools"}) \ {c}) \ T
<1> DEFINE K == kind[c]
           A == IF HasChild(c) THEN Woken(children[K], Children[K]) ELSE {}
<1>1. /\ stage \in [Calls -> Stages]
      /\ children = [k \in DOMAIN Children |-> children[k]]
      /\ \A k \in DOMAIN Children : /\ Children[k] \in Nat
           /\ Guards(children[k], Children[k], AtOf(Inner, k), AtOf({"child"}, k))
  BY GatesAssumption DEF GatesInv, GatesGuarded
<1>2. HasChild(c) => /\ K \in DOMAIN Children
                     /\ A \subseteq AtOf({"child"}, K)
                     /\ Guards(Release(children[K], Children[K]), Children[K],
                               (AtOf(Inner, K) \ {c}) \cup A, AtOf({"child"}, K) \ A)
  <2> SUFFICES ASSUME HasChild(c)
               PROVE  /\ K \in DOMAIN Children
                      /\ A \subseteq AtOf({"child"}, K)
                      /\ Guards(Release(children[K], Children[K]), Children[K],
                                (AtOf(Inner, K) \ {c}) \cup A, AtOf({"child"}, K) \ A)
    OBVIOUS
  <2>1. K \in DOMAIN Children
    BY DEF HasChild
  <2>2. c \in AtOf(Inner, K)
    BY DEF AtOf, Inner
  <2>3. AtOf(Inner, K) \cap AtOf({"child"}, K) = {}
    BY DEF AtOf, Inner
  <2>4. /\ Woken(children[K], Children[K]) \subseteq AtOf({"child"}, K)
        /\ Guards(Release(children[K], Children[K]), Children[K],
                  (AtOf(Inner, K) \ {c}) \cup Woken(children[K], Children[K]),
                  AtOf({"child"}, K) \ Woken(children[K], Children[K]))
    BY <1>1, <2>1, <2>2, <2>3, ReleaseGuards
  <2> QED BY <2>1, <2>4
<1>3. stage' = [d \in Calls |-> IF d = c THEN s
                                ELSE IF d \in T THEN "runs"
                                ELSE IF d \in A THEN "asks" ELSE stage[d]]
  BY DEF LeaveChild, Advance, Limit
<1>4. children' = IF HasChild(c)
                  THEN [children EXCEPT ![K] = Release(children[K], Children[K])] ELSE children
  BY DEF LeaveChild, Limit
<1>5. /\ A \subseteq Calls
      /\ \A d \in A : stage[d] = "child" /\ kind[d] = K /\ HasChild(c)
  BY <1>2 DEF AtOf
<1>6. T \subseteq Calls /\ \A d \in T : stage[d] = "tools"
  BY DEF At
<1> HIDE DEF A
<1>7. stage' \in [Calls -> Stages]
  BY <1>1, <1>3 DEF Stages
<1>8. At({"runs"})' = (At({"runs"}) \ {c}) \cup T
  BY <1>1, <1>3, <1>5, <1>6 DEF At
<1>9. At({"tools"})' = (At({"tools"}) \ {c}) \ T
  BY <1>1, <1>3, <1>5, <1>6 DEF At
<1>10. children' = [k \in DOMAIN Children |-> children'[k]]
  BY <1>1, <1>4
<1>11. ASSUME NEW k \in DOMAIN Children
       PROVE  Guards(children[k], Children[k], AtOf(Inner, k), AtOf({"child"}, k))'
  <2>1. CASE k # K
    <3>1. children'[k] = children[k]
      BY <1>1, <1>4, <2>1
    <3>2. AtOf(Inner, k)' = AtOf(Inner, k) /\ AtOf({"child"}, k)' = AtOf({"child"}, k)
      BY <1>3, <1>5, <1>6, <2>1 DEF AtOf, Inner
    <3> QED BY <1>1, <3>1, <3>2
  <2>2. CASE k = K
    <3>1. HasChild(c)
      BY <2>2 DEF HasChild
    <3>2. children'[k] = Release(children[k], Children[k])
      BY <1>1, <1>4, <2>2, <3>1
    <3>3. AtOf(Inner, k)' = (AtOf(Inner, k) \ {c}) \cup A
      BY <1>3, <1>5, <1>6, <2>2 DEF AtOf, Inner
    <3>4. AtOf({"child"}, k)' = AtOf({"child"}, k) \ A
      BY <1>3, <1>5, <1>6, <2>2 DEF AtOf, Inner
    <3> QED BY <1>2, <2>2, <3>1, <3>2, <3>3, <3>4
  <2> QED BY <2>1, <2>2
<1> QED BY <1>7, <1>8, <1>9, <1>10, <1>11

(* The body ends.                                                          *)
LEMMA FinishGuarded ==
  ASSUME GatesInv, NEW c \in Calls, Finish(c)
  PROVE  GatesGuarded'
<1> DEFINE T == Woken(tools, Tools)
<1>1. /\ Guards(tools, Tools, At({"runs"}), At({"tools"})) /\ Tools \in Nat
      /\ stage[c] = "runs" /\ tools' = Release(tools, Tools) /\ UNCHANGED kind
      /\ LeaveChild(c, "done", T)
  BY GatesAssumption DEF GatesInv, GatesGuarded, Finish
<1>2. c \in At({"runs"}) /\ At({"runs"}) \cap At({"tools"}) = {}
  BY <1>1 DEF At
<1>3. /\ T \subseteq At({"tools"})
      /\ Guards(tools', Tools, (At({"runs"}) \ {c}) \cup T, At({"tools"}) \ T)
  BY <1>1, <1>2, ReleaseGuards
<1>4. c \notin T /\ c \notin At({"tools"})
  BY <1>2, <1>3
<1> HIDE DEF T
<1>5. /\ stage' \in [Calls -> Stages]
      /\ children' = [k \in DOMAIN Children |-> children'[k]]
      /\ \A k \in DOMAIN Children :
           Guards(children[k], Children[k], AtOf(Inner, k), AtOf({"child"}, k))'
      /\ At({"runs"})' = (At({"runs"}) \ {c}) \cup T
      /\ At({"tools"})' = (At({"tools"}) \ {c}) \ T
  BY <1>1, <1>3, <1>4, LeaveChildGuarded
<1>6. At({"tools"})' = At({"tools"}) \ T
  BY <1>4, <1>5
<1>7. Guards(tools, Tools, At({"runs"}), At({"tools"}))'
  BY <1>3, <1>5, <1>6
<1> QED BY <1>5, <1>7 DEF GatesGuarded

(* A wait for the global gate times out.                                   *)
LEMMA ToolsTimeoutGuarded ==
  ASSUME GatesInv, NEW c \in Calls, ToolsTimeout(c)
  PROVE  GatesGuarded'
<1>1. /\ Guards(tools, Tools, At({"runs"}), At({"tools"})) /\ Tools \in Nat
      /\ stage[c] = "tools" /\ tools' = Withdraw(tools, c) /\ UNCHANGED kind
      /\ LeaveChild(c, "timedOut", {})
  BY GatesAssumption DEF GatesInv, GatesGuarded, ToolsTimeout
<1>2. c \in At({"tools"}) /\ c \notin At({"runs"})
  BY <1>1 DEF At
<1>3. Guards(tools', Tools, At({"runs"}), At({"tools"}) \ {c})
  BY <1>1, <1>2, WithdrawGuards
<1>4. /\ stage' \in [Calls -> Stages]
      /\ children' = [k \in DOMAIN Children |-> children'[k]]
      /\ \A k \in DOMAIN Children :
           Guards(children[k], Children[k], AtOf(Inner, k), AtOf({"child"}, k))'
      /\ At({"runs"})' = (At({"runs"}) \ {c}) \cup {}
      /\ At({"tools"})' = (At({"tools"}) \ {c}) \ {}
  BY <1>1, LeaveChildGuarded
<1>5. At({"runs"})' = At({"runs"}) /\ At({"tools"})' = At({"tools"}) \ {c}
  BY <1>2, <1>4
<1>6. Guards(tools, Tools, At({"runs"}), At({"tools"}))'
  BY <1>3, <1>5
<1> QED BY <1>4, <1>6 DEF GatesGuarded

(* A wait for a class times out.                                           *)
LEMMA ChildTimeoutGuarded ==
  ASSUME GatesInv, NEW c \in Calls, ChildTimeout(c)
  PROVE  GatesGuarded'
<1> DEFINE K == kind[c]
<1>1. /\ stage \in [Calls -> Stages] /\ stage[c] = "child"
      /\ children = [k \in DOMAIN Children |-> children[k]]
      /\ children' = [children EXCEPT ![K] = Withdraw(children[K], c)]
      /\ UNCHANGED <<kind, tools>>
  BY DEF GatesInv, GatesGuarded, ChildTimeout
<1>2. stage' = [stage EXCEPT ![c] = "timedOut"]
  BY <1>1 DEF ChildTimeout, Advance
<1>3. stage' \in [Calls -> Stages]
  BY <1>1, <1>2 DEF Stages
<1>4. At({"runs"})' = At({"runs"}) /\ At({"tools"})' = At({"tools"})
  BY <1>1, <1>2 DEF At
<1>5. Guards(tools, Tools, At({"runs"}), At({"tools"}))'
  BY <1>1, <1>4 DEF GatesInv, GatesGuarded
<1>6. ASSUME NEW k \in DOMAIN Children
      PROVE  Guards(children[k], Children[k], AtOf(Inner, k), AtOf({"child"}, k))'
  <2>1. Guards(children[k], Children[k], AtOf(Inner, k), AtOf({"child"}, k)) /\ Children[k] \in Nat
    BY GatesAssumption DEF GatesInv, GatesGuarded
  <2>2. CASE k # K
    <3>1. AtOf(Inner, k)' = AtOf(Inner, k) /\ AtOf({"child"}, k)' = AtOf({"child"}, k)
      BY <1>1, <1>2, <2>2 DEF AtOf
    <3>2. children'[k] = children[k]
      BY <1>1, <2>2
    <3> QED BY <2>1, <3>1, <3>2
  <2>3. CASE k = K
    <3>1. c \in AtOf({"child"}, k)
      BY <1>1, <2>3 DEF AtOf
    <3>2. children'[k] = Withdraw(children[k], c)
      BY <1>1, <2>3
    <3>3. Guards(children'[k], Children[k], AtOf(Inner, k), AtOf({"child"}, k) \ {c})
      BY <2>1, <3>1, <3>2, WithdrawGuards
    <3>4. AtOf(Inner, k)' = AtOf(Inner, k) /\ AtOf({"child"}, k)' = AtOf({"child"}, k) \ {c}
      BY <1>1, <1>2 DEF AtOf, Inner
    <3> QED BY <3>3, <3>4
  <2> QED BY <2>2, <2>3
<1>7. children' = [k \in DOMAIN Children |-> children'[k]]
  BY <1>1
<1> QED BY <1>3, <1>5, <1>6, <1>7 DEF GatesGuarded

-----------------------------------------------------------------------------
(* Only these steps change the gates.                                      *)
LEMMA GatesSteps ==
  ASSUME GatesInv, Next
  PROVE  /\ UNCHANGED <<scenario, kind>>
         /\ \/ UNCHANGED gates
            \/ \E c \in Calls : Arrive(c) \/ Ask(c) \/ Finish(c) \/ ChildTimeout(c) \/ ToolsTimeout(c)
<1>1. Patches \subseteq Calls /\ Others \subseteq Calls
  BY PatchAssumption DEF GatesInv, Patches, Others
<1>2. ASSUME NEW p \in Patches, PatchGoesOn(p) \/ LockTimeout(p) \/ PatchTimeout(p)
      PROVE  UNCHANGED scenario /\ (UNCHANGED gates \/ Arrive(p) \/ Ask(p) \/ Finish(p) \/ ToolsTimeout(p))
  <2>1. CASE Lock(p) \/ Unlock(p)
    BY <2>1, Zenon DEF Lock, Unlock, Grant
  <2>2. CASE PatchArrives(p) \/ PatchAsks(p)
    BY <2>2 DEF PatchArrives, PatchAsks, Untouched
  <2>3. CASE PlanFails(p) \/ Clean(p) \/ Undone(p)
    BY <2>3 DEF PlanFails, Clean, Undone, End, Aside
  <2>4. CASE Plan(p) \/ Stage(p) \/ Backup(p) \/ Rename(p) \/ CommitFails(p) \/ Remove(p) \/ Restore(p)
    BY <2>4, Zenon DEF Plan, Stage, Backup, Rename, CommitFails, Remove, Restore, Inside, Aside
  <2>5. CASE LockTimeout(p)
    BY <2>5 DEF LockTimeout
  <2>6. CASE PatchTimeout(p)
    BY <2>6 DEF PatchTimeout, Untouched
  <2> QED BY <1>2, <2>1, <2>2, <2>3, <2>4, <2>5, <2>6 DEF PatchGoesOn, Commits
<1>3. ASSUME NEW c \in Others, OtherGoesOn(c) \/ OtherEnds(c) \/ OtherTimeout(c)
      PROVE  /\ UNCHANGED scenario
             /\ Arrive(c) \/ Ask(c) \/ Finish(c) \/ ChildTimeout(c) \/ ToolsTimeout(c)
  BY <1>3 DEF OtherGoesOn, OtherEnds, OtherTimeout, Untouched
<1>4. UNCHANGED scenario /\ ( \/ UNCHANGED gates
        \/ \E c \in Calls : Arrive(c) \/ Ask(c) \/ Finish(c) \/ ChildTimeout(c) \/ ToolsTimeout(c))
  BY <1>1, <1>2, <1>3 DEF Next
<1>5. ASSUME NEW c, Arrive(c) \/ Ask(c) \/ Finish(c) \/ ChildTimeout(c) \/ ToolsTimeout(c)
      PROVE  UNCHANGED kind
  BY <1>5 DEF Arrive, Ask, Finish, ChildTimeout, ToolsTimeout
<1>6. UNCHANGED gates => UNCHANGED kind
  BY DEF gates
<1> QED BY <1>4, <1>5, <1>6

LEMMA GatesInvStep == GatesInv /\ [Next]_vars => GatesInv'
<1> SUFFICES ASSUME GatesInv, [Next]_vars PROVE GatesInv'
  OBVIOUS
<1>1. ASSUME UNCHANGED <<scenario, gates>> PROVE GatesInv'
  BY <1>1 DEF GatesInv, GatesGuarded, gates, At, AtOf
<1>2. CASE Next
  <2>1. UNCHANGED <<scenario, kind>>
    BY <1>2, GatesSteps
  <2>2. CASE UNCHANGED gates
    BY <1>1, <2>1, <2>2
  <2>3. ASSUME NEW c \in Calls,
               Arrive(c) \/ Ask(c) \/ Finish(c) \/ ChildTimeout(c) \/ ToolsTimeout(c)
        PROVE  GatesGuarded'
    BY <2>3, ArriveGuarded, AskGuarded, FinishGuarded, ChildTimeoutGuarded, ToolsTimeoutGuarded
  <2>4. CASE GatesGuarded'
    BY <2>1, <2>4 DEF GatesInv
  <2> QED BY <1>2, <2>2, <2>3, <2>4, GatesSteps
<1>3. CASE UNCHANGED vars
  BY <1>1, <1>3 DEF vars
<1> QED BY <1>2, <1>3

LEMMA GatesInvariant == Spec => []GatesInv
BY GatesInvInit, GatesInvStep, PTL DEF Spec

-----------------------------------------------------------------------------
(* For any calls, limits, patches and faults, the counts of the gates are  *)
(* the calls inside and their lists hold those that wait, each once: no    *)
(* slot leaks or is returned twice (concurrency.ts 74-97).                 *)
THEOREM NoSlotLeaks == Spec => []SlotsExact
<1>1. GatesInv => SlotsExact
  <2> SUFFICES ASSUME GatesInv PROVE SlotsExact
    OBVIOUS
  <2>1. /\ Guards(tools, Tools, At({"runs"}), At({"tools"}))
        /\ \A k \in DOMAIN Children :
             Guards(children[k], Children[k], AtOf(Inner, k), AtOf({"child"}, k))
    BY DEF GatesInv, GatesGuarded
  <2>2. /\ Len(tools.waiters) = Cardinality(At({"tools"})) /\ \A c \in At({"tools"}) : Waits(tools, c)
        /\ tools.active = Cardinality(At({"runs"}))
    BY <2>1, WaitersCounted DEF Guards
  <2>3. ASSUME NEW k \in DOMAIN Children
        PROVE  /\ Len(children[k].waiters) = Cardinality(AtOf({"child"}, k))
               /\ \A c \in AtOf({"child"}, k) : Waits(children[k], c)
               /\ children[k].active = Cardinality(AtOf(Inner, k))
    <3>1. Guards(children[k], Children[k], AtOf(Inner, k), AtOf({"child"}, k))
      BY <2>1
    <3>2. children[k].active = Cardinality(AtOf(Inner, k))
      BY <3>1 DEF Guards
    <3> QED BY <3>1, <3>2, WaitersCounted
  <2>4. /\ At({"runs"}) = {c \in Calls : stage[c] = "runs"}
        /\ At({"tools"}) = {c \in Calls : stage[c] = "tools"}
    BY DEF At
  <2> QED BY <2>2, <2>3, <2>4 DEF SlotsExact, AtOf, Inner
<1> QED BY <1>1, GatesInvariant, PTL

(* Nobody waits at a gate with a free slot, and no gate lets in more calls *)
(* than its limit (concurrency.ts 63-97).                                  *)
THEOREM GatesFull == Spec => [](NoIdleSlot /\ GatesTypeOK)
<1>1. GatesInv => NoIdleSlot
  BY DEF GatesInv, GatesGuarded, Guards, NoIdleSlot
<1>2. GatesInv => GatesTypeOK
  <2> SUFFICES ASSUME GatesInv PROVE GatesTypeOK
    OBVIOUS
  <2>1. ASSUME NEW g, NEW limit \in Nat, NEW In, NEW Out \in SUBSET Calls, Guards(g, limit, In, Out)
        PROVE  g \in [active : 0..limit, waiters : Seq(Calls)]
    <3>1. Cardinality(In) \in Nat /\ g.waiters \in Seq(Calls)
      BY <2>1, FS_CardinalityType, SeqMonotonic DEF Guards
    <3>2. g.active \in 0..limit /\ g = [active |-> g.active, waiters |-> g.waiters]
      BY <2>1, <3>1 DEF Guards
    <3> QED BY <3>1, <3>2
  <2>2. tools \in [active : 0..Tools, waiters : Seq(Calls)]
    <3>1. Guards(tools, Tools, At({"runs"}), At({"tools"})) /\ Tools \in Nat
      BY GatesAssumption DEF GatesInv, GatesGuarded
    <3>2. At({"tools"}) \in SUBSET Calls
      BY DEF At
    <3> QED BY <2>1, <3>1, <3>2
  <2>3. ASSUME NEW k \in DOMAIN Children
        PROVE  children[k] \in [active : 0..Children[k], waiters : Seq(Calls)]
    <3>1. /\ Guards(children[k], Children[k], AtOf(Inner, k), AtOf({"child"}, k))
          /\ Children[k] \in Nat
      BY GatesAssumption DEF GatesInv, GatesGuarded
    <3>2. AtOf({"child"}, k) \in SUBSET Calls
      BY DEF AtOf
    <3> QED BY <2>1, <3>1, <3>2
  <2> QED BY <2>2, <2>3 DEF GatesTypeOK, GatesInv, GatesGuarded
<1> QED BY <1>1, <1>2, GatesInvariant, PTL

-----------------------------------------------------------------------------
(* The patches that hold semaphore g, and those that wait for it.          *)
Holders(g) == {q \in Calls : g[1] \in DOMAIN held[q] /\ held[q][g[1]] = g[2]}
Waiting(g) == {q \in Calls : step[q] = "wait" /\ wanted[q] = g}

Semaphores == Paths \X Calls
Early == {"new", "lock", "wait"}

LocksTyped ==
  /\ locks \in [Paths -> Calls \cup {None}]
  /\ semaphores = [g \in Semaphores |-> semaphores[g]]
  /\ held = [q \in Calls |-> held[q]]
  /\ wanted = [q \in Calls |-> wanted[q]]
  /\ step = [q \in Calls |-> step[q]]
  /\ \A q \in Calls : /\ DOMAIN held[q] \subseteq Paths
                      /\ \A k \in DOMAIN held[q] : held[q][k] \in Calls

(* A patch waits for a path it has not locked, and for no gate.            *)
WaitsForOne ==
  /\ \A q \in Calls : step[q] = "wait" =>
       wanted[q] \in Semaphores /\ wanted[q][1] \notin DOMAIN held[q]
  /\ \A q \in Patches : step[q] \in Early => stage[q] = "new"

(* A semaphore somebody holds or waits for is the one in the map: it is    *)
(* never dropped while it is used.                                         *)
LocksGuarded ==
  /\ \A g \in Semaphores : Guards(semaphores[g], 1, Holders(g), Waiting(g))
  /\ \A g \in Semaphores : Holders(g) \cup Waiting(g) # {} => locks[g[1]] = g[2]

LocksInv == GatesInv /\ LocksTyped /\ WaitsForOne /\ LocksGuarded

-----------------------------------------------------------------------------
LEMMA LocksInvInit == Init => LocksInv
<1> SUFFICES ASSUME Init PROVE LocksInv
  OBVIOUS
<1>1. GatesInv
  BY GatesInvInit
<1>2. /\ locks = [k \in Paths |-> None]
      /\ semaphores = [g \in Semaphores |-> New]
      /\ held = [p \in Calls |-> <<>>] /\ wanted = [p \in Calls |-> None]
      /\ step = [p \in Calls |-> "new"] /\ stage = [c \in Calls |-> "new"]
  BY DEF Init, GatesInit, Semaphores
<1>3. DOMAIN <<>> = {}
  <2>1. <<>> \in Seq({}) /\ Len(<<>>) = 0
    BY EmptySeq
  <2> QED BY <2>1, LenProperties
<1>4. LocksTyped
  BY <1>2, <1>3 DEF LocksTyped
<1>5. WaitsForOne
  <2>1. Patches \subseteq Calls
    BY <1>1, PatchAssumption DEF GatesInv, Patches
  <2> QED BY <1>2, <2>1 DEF WaitsForOne
<1>6. \A g : Holders(g) = {} /\ Waiting(g) = {}
  BY <1>2, <1>3 DEF Holders, Waiting
<1>7. LocksGuarded
  BY <1>2, <1>6, NewGuards DEF LocksGuarded
<1> QED BY <1>1, <1>4, <1>5, <1>7 DEF LocksInv

(* A step at the gates moves another call only if it waits there.          *)
LEMMA OthersStay ==
  ASSUME GatesInv, NEW c \in Calls,
         Arrive(c) \/ Ask(c) \/ Finish(c) \/ ChildTimeout(c) \/ ToolsTimeout(c),
         NEW d \in Calls, d # c
  PROVE  stage'[d] = stage[d] \/ stage[d] \in {"child", "tools"}
<1>1. CASE Arrive(c) \/ Ask(c) \/ ChildTimeout(c)
  BY <1>1 DEF Arrive, Ask, ChildTimeout, Advance
<1>2. ASSUME NEW T \in SUBSET At({"tools"}), NEW s, LeaveChild(c, s, T), stage[c] \in {"tools", "runs"}
      PROVE  stage'[d] = stage[d] \/ stage[d] \in {"child", "tools"}
  <2>1. d \in T => stage[d] = "tools"
    BY DEF At
  <2>2. HasChild(c) /\ d \in Woken(children[kind[c]], Limit(c)) => stage[d] = "child"
    <3> SUFFICES ASSUME HasChild(c), d \in Woken(children[kind[c]], Limit(c)) PROVE stage[d] = "child"
      OBVIOUS
    <3> DEFINE k == kind[c]
    <3>1. /\ k \in DOMAIN Children /\ Limit(c) = Children[k] /\ Children[k] \in Nat
          /\ Guards(children[k], Children[k], AtOf(Inner, k), AtOf({"child"}, k))
      <4>1. k \in DOMAIN Children /\ Limit(c) = Children[k]
        BY DEF HasChild, Limit
      <4> QED BY <4>1, GatesAssumption DEF GatesInv, GatesGuarded
    <3>2. c \in AtOf(Inner, k) /\ AtOf(Inner, k) \cap AtOf({"child"}, k) = {}
      BY <1>2 DEF AtOf, Inner
    <3>3. Woken(children[k], Children[k]) \subseteq AtOf({"child"}, k)
      <4> HIDE DEF k
      <4> QED BY <3>1, <3>2, ReleaseGuards
    <3> QED BY <3>1, <3>3 DEF AtOf
  <2> QED BY <1>2, <2>1, <2>2 DEF LeaveChild, Advance
<1>3. CASE ToolsTimeout(c)
  <2>1. LeaveChild(c, "timedOut", {}) /\ stage[c] = "tools"
    BY <1>3 DEF ToolsTimeout
  <2> QED BY <1>2, <2>1
<1>4. CASE Finish(c)
  <2>1. /\ LeaveChild(c, "done", Woken(tools, Tools)) /\ stage[c] = "runs"
        /\ Guards(tools, Tools, At({"runs"}), At({"tools"})) /\ Tools \in Nat
    BY <1>4, GatesAssumption DEF Finish, GatesInv, GatesGuarded
  <2>2. c \in At({"runs"}) /\ At({"runs"}) \cap At({"tools"}) = {}
    BY <2>1 DEF At
  <2>3. Woken(tools, Tools) \subseteq At({"tools"})
    BY <2>1, <2>2, ReleaseGuards
  <2> QED BY <1>2, <2>1, <2>3
<1> QED BY <1>1, <1>3, <1>4

(* One that has not arrived yet does not move.                             *)
LEMMA NewStays ==
  ASSUME GatesInv, NEW c \in Calls,
         Arrive(c) \/ Ask(c) \/ Finish(c) \/ ChildTimeout(c) \/ ToolsTimeout(c),
         NEW d \in Calls, d # c, stage[d] = "new"
  PROVE  stage'[d] = "new"
BY OthersStay

(* A patch past its locks, or another call, changes no lock.               *)
LEMMA QuietStep ==
  ASSUME LocksInv, GatesInv', UNCHANGED <<scenario, locking>>,
         NEW p \in Calls,
         \/ UNCHANGED step
         \/ /\ step[p] \notin Early
            /\ \E s : s \notin Early /\ step' = [step EXCEPT ![p] = s],
         \A q \in Patches : step[q] \in Early => stage'[q] = "new"
  PROVE  LocksInv'
<1>1. UNCHANGED <<locks, semaphores, held, wanted, scenario, Patches>>
  BY DEF locking, Patches
<1>2. /\ step' = [q \in Calls |-> step'[q]]
      /\ \A q \in Calls : step'[q] # step[q] => step[q] \notin Early /\ step'[q] \notin Early
  BY DEF LocksInv, LocksTyped
<1>3. \A q \in Calls : (step'[q] = "wait") = (step[q] = "wait")
  BY <1>2 DEF Early
<1>4. LocksTyped'
  BY <1>1, <1>2 DEF LocksInv, LocksTyped
<1>5. WaitsForOne'
  <2>1. Patches \subseteq Calls
    BY PatchAssumption DEF LocksInv, GatesInv, Patches
  <2>2. \A q \in Patches : step'[q] \in Early => stage'[q] = "new"
    BY <1>2, <2>1
  <2>3. \A q \in Calls : step'[q] = "wait" => wanted[q] \in Semaphores /\ wanted[q][1] \notin DOMAIN held[q]
    BY <1>3 DEF LocksInv, WaitsForOne
  <2> QED BY <1>1, <2>2, <2>3 DEF WaitsForOne
<1>6. \A g : Holders(g)' = Holders(g) /\ Waiting(g)' = Waiting(g)
  BY <1>1, <1>3 DEF Holders, Waiting
<1>7. LocksGuarded'
  BY <1>1, <1>6 DEF LocksInv, LocksGuarded
<1> QED BY <1>4, <1>5, <1>7 DEF LocksInv

(* What Grant does to the others: those granted no longer wait.            *)
LEMMA GrantStep ==
  ASSUME NEW W, NEW p, NEW s, Grant(W, p, s)
  PROVE  /\ UNCHANGED <<scenario, gates>>
         /\ step' = [q \in Calls |-> step'[q]]
         /\ \A q \in Calls :
              /\ q \in W => step'[q] \in {"plan", "lock"}
              /\ q \notin W /\ q = p => step'[q] = s
              /\ q \notin W /\ q # p => step'[q] = step[q]
BY DEF Grant

(* A patch asks for its next lock.                                         *)
LEMMA LockStep ==
  ASSUME LocksInv, GatesInv', NEW p \in Patches, Lock(p)
  PROVE  LocksInv'
<1>1. Patches \subseteq Calls /\ p \in Calls /\ None \notin Calls
  BY PatchAssumption DEF LocksInv, GatesInv, Patches
<1>2. PICK k \in Paths :
        LET g == <<k, IF locks[k] = None THEN p ELSE locks[k]>>
            now == IF Takes(semaphores[g], 1) THEN {p} ELSE {} IN
        /\ NextKey(p, k)
        /\ locks' = [locks EXCEPT ![k] = g[2]]
        /\ semaphores' = [semaphores EXCEPT ![g] = Acquire(@, 1, p)]
        /\ wanted' = [wanted EXCEPT ![p] = g]
        /\ held' = [q \in Calls |-> IF q \in now THEN With(q) ELSE held[q]]
        /\ Grant(now, p, "wait")
  BY Zenon DEF Lock
<1>0. PICK m : m = IF locks[k] = None THEN p ELSE locks[k]
  OBVIOUS
<1> DEFINE g == <<k, m>>
           now == IF Takes(semaphores[g], 1) THEN {p} ELSE {}
<1>3. /\ k \notin DOMAIN held[p]
      /\ locks' = [locks EXCEPT ![k] = m]
      /\ semaphores' = [semaphores EXCEPT ![g] = Acquire(semaphores[g], 1, p)]
      /\ wanted' = [wanted EXCEPT ![p] = g]
      /\ held' = [q \in Calls |-> IF q \in now THEN With(q) ELSE held[q]]
      /\ Grant(now, p, "wait")
  BY <1>0, <1>2 DEF NextKey
<1>4. step[p] \in {"new", "lock"} /\ stage[p] = "new"
  BY DEF Lock, LocksInv, WaitsForOne, Early
<1>5. m \in Calls /\ g \in Semaphores /\ g[1] = k /\ g[2] = m /\ (locks[k] = None \/ locks[k] = m)
  BY <1>0, <1>1 DEF LocksInv, LocksTyped, Semaphores
<1>6. LocksTyped /\ WaitsForOne /\ LocksGuarded /\ now \subseteq {p}
  BY DEF LocksInv
<1>7. /\ UNCHANGED <<scenario, gates>> /\ step' = [q \in Calls |-> step'[q]]
      /\ \A q \in Calls \ {p} : step'[q] = step[q]
      /\ p \in now => step'[p] \in {"plan", "lock"}
      /\ p \notin now => step'[p] = "wait"
  BY <1>1, <1>3, <1>6, GrantStep
<1>8. wanted' = [q \in Calls |-> wanted'[q]] /\ wanted'[p] = g
      /\ \A q \in Calls \ {p} : wanted'[q] = wanted[q]
  BY <1>1, <1>3, <1>6 DEF LocksTyped
<1>9. /\ held' = [q \in Calls |-> held'[q]]
      /\ \A q \in Calls : q \notin now => held'[q] = held[q]
      /\ p \in now => /\ DOMAIN held'[p] = DOMAIN held[p] \cup {k} /\ held'[p][k] = m
                      /\ \A j \in DOMAIN held[p] : held'[p][j] = held[p][j]
  <2>1. p \in now => held'[p] = With(p)
    BY <1>1, <1>3
  <2>2. /\ DOMAIN With(p) = DOMAIN held[p] \cup {k} /\ With(p)[k] = m
        /\ \A j \in DOMAIN held[p] : With(p)[j] = held[p][j]
    BY <1>3, <1>5, <1>8 DEF With, Extend
  <2> HIDE DEF now
  <2> QED BY <1>3, <2>1, <2>2
<1>10. \A h \in Semaphores : semaphores'[h] = IF h = g THEN Acquire(semaphores[g], 1, p) ELSE semaphores[h]
  BY <1>3, <1>6 DEF LocksTyped
<1>11. LocksTyped'
  <2>1. locks' \in [Paths -> Calls \cup {None}]
    BY <1>3, <1>5, <1>6 DEF LocksTyped
  <2>2. semaphores' = [h \in Semaphores |-> semaphores'[h]]
    BY <1>3, <1>6 DEF LocksTyped
  <2>3. \A q \in Calls : /\ DOMAIN held'[q] \subseteq Paths
                         /\ \A j \in DOMAIN held'[q] : held'[q][j] \in Calls
    <3> SUFFICES ASSUME NEW q \in Calls
                 PROVE  DOMAIN held'[q] \subseteq Paths /\ \A j \in DOMAIN held'[q] : held'[q][j] \in Calls
      OBVIOUS
    <3>1. DOMAIN held[q] \subseteq Paths /\ \A j \in DOMAIN held[q] : held[q][j] \in Calls
      BY <1>6 DEF LocksTyped
    <3>2. CASE q \in now
      <4>1. q = p
        BY <1>6, <3>2
      <4> HIDE DEF now, g
      <4> QED BY <1>5, <1>9, <3>1, <3>2, <4>1
    <3>3. CASE q \notin now
      <4>1. held'[q] = held[q]
        BY <1>9, <3>3
      <4> QED BY <3>1, <4>1
    <3> QED BY <3>2, <3>3
  <2> QED BY <1>7, <1>8, <1>9, <2>1, <2>2, <2>3 DEF LocksTyped, Semaphores
<1>12. WaitsForOne'
  <2>1. Patches' = Patches /\ stage' = stage
    BY <1>7 DEF Patches, gates
  <2>2. ASSUME NEW q \in Calls, step'[q] = "wait"
        PROVE  wanted'[q] \in Semaphores /\ wanted'[q][1] \notin DOMAIN held'[q]
    <3>1. CASE q = p
      <4>1. p \notin now
        BY <1>7, <2>2, <3>1
      <4>2. held'[p] = held[p]
        BY <1>1, <1>9, <4>1
      <4> HIDE DEF now
      <4> QED BY <1>3, <1>5, <1>8, <3>1, <4>2
    <3>2. CASE q # p
      <4>1. held'[q] = held[q] /\ wanted'[q] = wanted[q] /\ step[q] = "wait"
        BY <1>6, <1>7, <1>8, <1>9, <2>2, <3>2
      <4> QED BY <1>6, <4>1 DEF WaitsForOne
    <3> QED BY <3>1, <3>2
  <2>3. ASSUME NEW q \in Patches, step'[q] \in Early PROVE stage'[q] = "new"
    <3>1. q \in Calls
      BY <1>1
    <3> QED BY <1>4, <1>6, <1>7, <2>1, <2>3, <3>1 DEF WaitsForOne
  <2> QED BY <2>1, <2>2, <2>3 DEF WaitsForOne, Semaphores
<1>13. /\ p \notin Holders(g) /\ p \notin Waiting(g)
       /\ Guards(semaphores[g], 1, Holders(g), Waiting(g))
  BY <1>3, <1>4, <1>5, <1>6 DEF Holders, Waiting, LocksGuarded
<1>14. ASSUME NEW h \in Semaphores, h # g
       PROVE  Holders(h)' = Holders(h) /\ Waiting(h)' = Waiting(h)
  <2>1. Waiting(h)' = Waiting(h)
    BY <1>4, <1>7, <1>8, <1>14 DEF Waiting
  <2>2. ASSUME NEW q \in Calls
        PROVE  (h[1] \in DOMAIN held'[q] /\ held'[q][h[1]] = h[2])
                 <=> (h[1] \in DOMAIN held[q] /\ held[q][h[1]] = h[2])
    <3>1. CASE q \in now
      <4>1. q = p
        BY <1>6, <3>1
      <4>2. h[1] = k => h[2] # m
        BY <1>14 DEF Semaphores
      <4> HIDE DEF now, g
      <4> QED BY <1>3, <1>9, <3>1, <4>1, <4>2
    <3>2. CASE q \notin now
      <4>1. held'[q] = held[q]
        BY <1>9, <3>2
      <4> QED BY <4>1
    <3> QED BY <3>1, <3>2
  <2>3. Holders(h)' = Holders(h)
    BY <2>2 DEF Holders
  <2> QED BY <2>1, <2>3
<1>15. p \in now => Holders(g)' = Holders(g) \cup {p} /\ Waiting(g)' = Waiting(g)
  <2> SUFFICES ASSUME p \in now
               PROVE  Holders(g)' = Holders(g) \cup {p} /\ Waiting(g)' = Waiting(g)
    OBVIOUS
  <2>1. \A q \in Calls \ {p} : held'[q] = held[q]
    BY <1>6, <1>9
  <2> HIDE DEF now
  <2>2. Holders(g)' = Holders(g) \cup {p}
    BY <1>1, <1>5, <1>9, <2>1 DEF Holders
  <2>3. Waiting(g)' = Waiting(g)
    BY <1>4, <1>7, <1>8 DEF Waiting
  <2> QED BY <2>2, <2>3
<1>16. p \notin now => Holders(g)' = Holders(g) /\ Waiting(g)' = Waiting(g) \cup {p}
  <2> SUFFICES ASSUME p \notin now
               PROVE  Holders(g)' = Holders(g) /\ Waiting(g)' = Waiting(g) \cup {p}
    OBVIOUS
  <2>1. \A q \in Calls : held'[q] = held[q]
    BY <1>6, <1>9
  <2> HIDE DEF now
  <2>2. Holders(g)' = Holders(g)
    BY <2>1 DEF Holders
  <2>3. Waiting(g)' = Waiting(g) \cup {p}
    BY <1>1, <1>4, <1>7, <1>8 DEF Waiting
  <2> QED BY <2>2, <2>3
<1>17. (p \in now) <=> Takes(semaphores[g], 1)
  OBVIOUS
<1>18. Guards(semaphores'[g], 1, Holders(g)', Waiting(g)')
  <2>1. semaphores'[g] = Acquire(semaphores[g], 1, p)
    BY <1>5, <1>10
  <2>2. /\ Takes(semaphores[g], 1) =>
             Guards(Acquire(semaphores[g], 1, p), 1, Holders(g) \cup {p}, Waiting(g))
        /\ ~Takes(semaphores[g], 1) =>
             Guards(Acquire(semaphores[g], 1, p), 1, Holders(g), Waiting(g) \cup {p})
    <3> HIDE DEF g, now
    <3> QED BY <1>13, AcquireGuards
  <2> HIDE DEF g, now
  <2> QED BY <1>15, <1>16, <1>17, <2>1, <2>2
<1>19. LocksGuarded'
  <2>1. ASSUME NEW h \in Semaphores PROVE Guards(semaphores'[h], 1, Holders(h)', Waiting(h)')
    <3>1. CASE h = g
      BY <1>18, <3>1
    <3>2. CASE h # g
      <4>1. semaphores'[h] = semaphores[h]
        BY <1>10, <3>2
      <4> QED BY <1>6, <1>14, <3>2, <4>1 DEF LocksGuarded
    <3> QED BY <3>1, <3>2
  <2>2. ASSUME NEW h \in Semaphores, Holders(h)' \cup Waiting(h)' # {}
        PROVE  locks'[h[1]] = h[2]
    <3>1. CASE h = g
      BY <1>3, <1>5, <1>6, <3>1 DEF LocksTyped
    <3>2. CASE h # g
      <4>1. locks[h[1]] = h[2] /\ h[2] \in Calls /\ h[1] \in Paths
        BY <1>6, <1>14, <2>2, <3>2 DEF LocksGuarded, Semaphores
      <4>2. h[1] # k
        <5>1. h[1] = k => h[2] = m
          BY <1>1, <1>5, <4>1
        <5> QED BY <3>2, <5>1 DEF Semaphores
      <4> QED BY <1>3, <1>6, <4>1, <4>2 DEF LocksTyped
    <3> QED BY <3>1, <3>2
  <2> QED BY <2>1, <2>2 DEF LocksGuarded, Semaphores
<1> QED BY <1>11, <1>12, <1>19 DEF LocksInv

(* A patch gives up waiting for a lock.                                    *)
LEMMA LockTimeoutStep ==
  ASSUME LocksInv, GatesInv', NEW p \in Patches, LockTimeout(p)
  PROVE  LocksInv'
<1>1. p \in Calls /\ Patches \subseteq Calls
  BY PatchAssumption DEF LocksInv, GatesInv, Patches
<1>2. LocksTyped /\ WaitsForOne /\ LocksGuarded
  BY DEF LocksInv
<1>3. PICK g : g = wanted[p]
  OBVIOUS
<1>4. /\ step[p] = "wait" /\ step' = [step EXCEPT ![p] = "unlock"]
      /\ semaphores' = [semaphores EXCEPT ![g] = Withdraw(semaphores[g], p)]
      /\ UNCHANGED <<scenario, gates, locks, held, wanted>>
  BY <1>3 DEF LockTimeout
<1>5. g \in Semaphores
  BY <1>1, <1>2, <1>3, <1>4 DEF WaitsForOne
<1>6. /\ step' = [q \in Calls |-> step'[q]] /\ step'[p] = "unlock"
      /\ \A q \in Calls \ {p} : step'[q] = step[q]
  BY <1>1, <1>2, <1>4 DEF LocksTyped
<1>7. LocksTyped'
  BY <1>2, <1>4, <1>6 DEF LocksTyped
<1>8. WaitsForOne'
  <2>1. Patches' = Patches /\ stage' = stage
    BY <1>4 DEF Patches, gates
  <2>2. \A q \in Calls : step'[q] = "wait" => wanted[q] \in Semaphores /\ wanted[q][1] \notin DOMAIN held[q]
    BY <1>2, <1>6 DEF WaitsForOne
  <2>3. \A q \in Patches : step'[q] \in Early => stage[q] = "new"
    BY <1>1, <1>2, <1>6 DEF WaitsForOne, Early
  <2> QED BY <1>4, <2>1, <2>2, <2>3 DEF WaitsForOne, Semaphores
<1>9. ASSUME NEW h \in Semaphores
      PROVE  /\ Holders(h)' = Holders(h)
             /\ Waiting(h)' = IF h = g THEN Waiting(h) \ {p} ELSE Waiting(h)
  <2>1. Holders(h)' = Holders(h)
    BY <1>4 DEF Holders
  <2>2. Waiting(h)' = IF h = g THEN Waiting(h) \ {p} ELSE Waiting(h)
    BY <1>1, <1>3, <1>4, <1>6 DEF Waiting
  <2> QED BY <2>1, <2>2
<1>10. ASSUME NEW h \in Semaphores
       PROVE  Guards(semaphores'[h], 1, Holders(h)', Waiting(h)')
  <2>1. Guards(semaphores[h], 1, Holders(h), Waiting(h))
    BY <1>2 DEF LocksGuarded
  <2>2. CASE h = g
    <3>1. p \in Waiting(h)
      BY <1>1, <1>3, <1>4, <2>2 DEF Waiting
    <3>2. Guards(Withdraw(semaphores[h], p), 1, Holders(h), Waiting(h) \ {p})
      BY <2>1, <3>1, WithdrawGuards
    <3>3. semaphores'[h] = Withdraw(semaphores[h], p)
      BY <1>2, <1>4, <2>2 DEF LocksTyped
    <3> QED BY <1>9, <2>2, <3>2, <3>3
  <2>3. CASE h # g
    <3>1. semaphores'[h] = semaphores[h]
      BY <1>2, <1>4, <2>3 DEF LocksTyped
    <3> QED BY <1>9, <2>1, <2>3, <3>1
  <2> QED BY <2>2, <2>3
<1>11. ASSUME NEW h \in Semaphores, Holders(h)' \cup Waiting(h)' # {}
       PROVE  locks'[h[1]] = h[2]
  <2>1. Holders(h) \cup Waiting(h) # {}
    BY <1>9, <1>11
  <2> QED BY <1>2, <1>4, <2>1 DEF LocksGuarded
<1>12. LocksGuarded'
  BY <1>10, <1>11 DEF LocksGuarded, Semaphores
<1> QED BY <1>7, <1>8, <1>12 DEF LocksInv

(* A patch releases its locks, and those nobody waits for are dropped.     *)
LEMMA UnlockStep ==
  ASSUME LocksInv, GatesInv', NEW p \in Patches, Unlock(p)
  PROVE  LocksInv'
<1> DEFINE mine == {<<k, held[p][k]>> : k \in DOMAIN held[p]}
           woken == UNION {Woken(semaphores[g], 1) : g \in mine}
<1>1. p \in Calls /\ Patches \subseteq Calls /\ None \notin Calls
  BY PatchAssumption DEF LocksInv, GatesInv, Patches
<1>2. LocksTyped /\ WaitsForOne /\ LocksGuarded
  BY DEF LocksInv
<1>3. /\ step[p] = "unlock"
      /\ semaphores' = [g \in DOMAIN semaphores |->
                          IF g \in mine THEN Release(semaphores[g], 1) ELSE semaphores[g]]
      /\ locks' = [k \in Paths |-> IF Dropped(p, k) THEN None ELSE locks[k]]
      /\ UNCHANGED wanted
      /\ held' = [q \in Calls |-> IF q \in woken THEN With(q) ELSE IF q = p THEN <<>> ELSE held[q]]
      /\ Grant(woken, p, "end")
  BY DEF Unlock
<1>4. DOMAIN semaphores = Semaphores
  BY <1>2 DEF LocksTyped
<1>5. ASSUME NEW h \in Semaphores
      PROVE  /\ Guards(semaphores[h], 1, Holders(h), Waiting(h))
             /\ Holders(h) \cap Waiting(h) = {}
             /\ h \in mine <=> p \in Holders(h)
  <2>1. Guards(semaphores[h], 1, Holders(h), Waiting(h))
    BY <1>2 DEF LocksGuarded
  <2>2. Holders(h) \cap Waiting(h) = {}
    BY <1>2 DEF WaitsForOne, Holders, Waiting
  <2>3. h = <<h[1], h[2]>>
    BY DEF Semaphores
  <2>4. h \in mine <=> p \in Holders(h)
    BY <1>1, <2>3 DEF Holders
  <2> QED BY <2>1, <2>2, <2>4
<1>6. mine \subseteq Semaphores
  BY <1>1, <1>2 DEF LocksTyped, Semaphores
<1>7. ASSUME NEW g \in mine
      PROVE  /\ Woken(semaphores[g], 1) \subseteq Waiting(g)
             /\ Guards(Release(semaphores[g], 1), 1,
                       (Holders(g) \ {p}) \cup Woken(semaphores[g], 1),
                       Waiting(g) \ Woken(semaphores[g], 1))
  <2>1. /\ Guards(semaphores[g], 1, Holders(g), Waiting(g))
        /\ Holders(g) \cap Waiting(g) = {} /\ p \in Holders(g)
    BY <1>5, <1>6
  <2> HIDE DEF mine
  <2> QED BY <2>1, ReleaseGuards
<1>8. ASSUME NEW q \in woken
      PROVE  /\ q \in Calls /\ q # p /\ step[q] = "wait" /\ wanted[q] \in mine
             /\ q \in Woken(semaphores[wanted[q]], 1)
             /\ wanted[q] \in Semaphores /\ wanted[q][1] \notin DOMAIN held[q]
  <2>1. PICK g \in mine : q \in Woken(semaphores[g], 1)
    OBVIOUS
  <2>2. q \in Waiting(g)
    BY <1>7, <2>1
  <2>3. q \in Calls /\ step[q] = "wait" /\ wanted[q] = g
    BY <2>2 DEF Waiting
  <2>4. q # p
    BY <1>3, <2>3
  <2>5. wanted[q] \in Semaphores /\ wanted[q][1] \notin DOMAIN held[q]
    BY <1>2, <2>3 DEF WaitsForOne
  <2> HIDE DEF mine, woken
  <2> QED BY <2>1, <2>3, <2>4, <2>5
<1>9. ASSUME NEW g \in mine PROVE woken \cap Waiting(g) = Woken(semaphores[g], 1)
  <2>1. Woken(semaphores[g], 1) \subseteq woken \cap Waiting(g)
    BY <1>7
  <2>2. ASSUME NEW q \in woken \cap Waiting(g) PROVE q \in Woken(semaphores[g], 1)
    <3>1. q \in Woken(semaphores[wanted[q]], 1)
      BY <1>8
    <3>2. wanted[q] = g
      BY DEF Waiting
    <3> QED BY <3>1, <3>2
  <2> QED BY <2>1, <2>2
<1>10. ASSUME NEW h \in Semaphores, h \notin mine PROVE woken \cap Waiting(h) = {}
  <2> SUFFICES ASSUME NEW q \in woken, q \in Waiting(h) PROVE FALSE
    OBVIOUS
  <2>1. wanted[q] \in mine
    BY <1>8
  <2>2. wanted[q] = h
    BY DEF Waiting
  <2> QED BY <1>10, <2>1, <2>2
<1> HIDE DEF mine, woken
<1>11. /\ UNCHANGED <<scenario, gates>> /\ step' = [q \in Calls |-> step'[q]]
       /\ step'[p] = "end"
       /\ \A q \in woken : step'[q] \in {"plan", "lock"}
       /\ \A q \in Calls : q \notin woken /\ q # p => step'[q] = step[q]
  <2>1. p \notin woken
    BY <1>8
  <2> QED BY <1>1, <1>3, <1>8, <2>1, GrantStep
<1>12. DOMAIN <<>> = {}
  <2>1. <<>> \in Seq({}) /\ Len(<<>>) = 0
    BY EmptySeq
  <2> QED BY <2>1, LenProperties
<1>13. ASSUME NEW q \in woken
       PROVE  /\ DOMAIN held'[q] = DOMAIN held[q] \cup {wanted[q][1]}
              /\ held'[q][wanted[q][1]] = wanted[q][2]
              /\ \A k \in DOMAIN held[q] : held'[q][k] = held[q][k]
  <2>1. q \in Calls /\ held'[q] = With(q) /\ wanted' = wanted /\ wanted[q][1] \notin DOMAIN held[q]
    BY <1>3, <1>8
  <2> QED BY <2>1 DEF With, Extend
<1>14. /\ held' = [q \in Calls |-> held'[q]] /\ DOMAIN held'[p] = {}
       /\ \A q \in Calls : q \notin woken /\ q # p => held'[q] = held[q]
  <2>1. p \notin woken
    BY <1>8
  <2> QED BY <1>1, <1>3, <1>12, <2>1
<1>15. LocksTyped'
  <2>1. locks' \in [Paths -> Calls \cup {None}]
    BY <1>2, <1>3 DEF LocksTyped
  <2>2. semaphores' = [g \in Semaphores |-> semaphores'[g]]
    BY <1>3, <1>4
  <2>3. ASSUME NEW q \in Calls
        PROVE  DOMAIN held'[q] \subseteq Paths /\ \A k \in DOMAIN held'[q] : held'[q][k] \in Calls
    <3>1. DOMAIN held[q] \subseteq Paths /\ \A k \in DOMAIN held[q] : held[q][k] \in Calls
      BY <1>2 DEF LocksTyped
    <3>2. CASE q \in woken
      <4>1. wanted[q][1] \in Paths /\ wanted[q][2] \in Calls
        BY <1>8, <3>2 DEF Semaphores
      <4> QED BY <1>13, <3>1, <3>2, <4>1
    <3>3. CASE q \notin woken
      BY <1>14, <3>1, <3>3
    <3> QED BY <3>2, <3>3
  <2>4. wanted' = [q \in Calls |-> wanted'[q]]
    BY <1>2, <1>3 DEF LocksTyped
  <2> QED BY <1>11, <1>14, <2>1, <2>2, <2>3, <2>4 DEF LocksTyped, Semaphores
<1>16. WaitsForOne'
  <2>1. Patches' = Patches /\ stage' = stage
    BY <1>11 DEF Patches, gates
  <2>2. ASSUME NEW q \in Calls, step'[q] = "wait"
        PROVE  wanted'[q] \in Semaphores /\ wanted'[q][1] \notin DOMAIN held'[q]
    <3>1. q \notin woken /\ q # p
      BY <1>11, <2>2
    <3>2. step[q] = "wait" /\ held'[q] = held[q]
      BY <1>11, <1>14, <2>2, <3>1
    <3> QED BY <1>2, <1>3, <3>2 DEF WaitsForOne
  <2>3. ASSUME NEW q \in Patches, step'[q] \in Early PROVE stage'[q] = "new"
    <3>1. q \in Calls /\ q # p
      BY <1>1, <1>11, <2>3 DEF Early
    <3>2. step[q] \in Early
      BY <1>8, <1>11, <2>3, <3>1 DEF Early
    <3> QED BY <1>2, <2>1, <3>2 DEF WaitsForOne
  <2> QED BY <2>1, <2>2, <2>3 DEF WaitsForOne, Semaphores
<1>17. ASSUME NEW h \in Semaphores
       PROVE  /\ Holders(h)' = (Holders(h) \ {p}) \cup (woken \cap Waiting(h))
              /\ Waiting(h)' = Waiting(h) \ (woken \cap Waiting(h))
  <2>1. Waiting(h)' = Waiting(h) \ (woken \cap Waiting(h))
    BY <1>3, <1>8, <1>11 DEF Waiting
  <2>2. ASSUME NEW q \in Calls
        PROVE  (h[1] \in DOMAIN held'[q] /\ held'[q][h[1]] = h[2])
                 <=> q \in (Holders(h) \ {p}) \cup (woken \cap Waiting(h))
    <3>1. CASE q \in woken
      <4>1. q \in Waiting(h) <=> wanted[q] = h
        BY <1>8, <3>1 DEF Waiting
      <4>2. wanted[q] = <<wanted[q][1], wanted[q][2]>> /\ h = <<h[1], h[2]>>
        BY <1>8, <3>1 DEF Semaphores
      <4>3. q # p /\ wanted[q][1] \notin DOMAIN held[q]
        BY <1>8, <3>1
      <4>4. q \in Holders(h) <=> (h[1] \in DOMAIN held[q] /\ held[q][h[1]] = h[2])
        BY DEF Holders
      <4>5. CASE h[1] = wanted[q][1]
        <5>1. h[1] \in DOMAIN held'[q] /\ held'[q][h[1]] = wanted[q][2] /\ q \notin Holders(h)
          BY <1>13, <3>1, <4>3, <4>4, <4>5
        <5> QED BY <3>1, <4>1, <4>2, <4>5, <5>1
      <4>6. CASE h[1] # wanted[q][1]
        <5>1. q \notin Waiting(h)
          BY <4>1, <4>6
        <5> QED BY <1>13, <3>1, <4>3, <4>4, <4>6, <5>1
      <4> QED BY <4>5, <4>6
    <3>2. CASE q = p
      BY <1>8, <1>14, <3>2
    <3>3. CASE q \notin woken /\ q # p
      <4>1. held'[q] = held[q]
        BY <1>14, <3>3
      <4> QED BY <3>3, <4>1 DEF Holders
    <3> QED BY <3>1, <3>2, <3>3
  <2>3. Holders(h)' = (Holders(h) \ {p}) \cup (woken \cap Waiting(h))
    <3>1. Holders(h) \subseteq Calls /\ Waiting(h) \subseteq Calls
      BY DEF Holders, Waiting
    <3>2. Holders(h)' = {q \in Calls : h[1] \in DOMAIN held'[q] /\ held'[q][h[1]] = h[2]}
      BY DEF Holders
    <3> QED BY <2>2, <3>1, <3>2
  <2> QED BY <2>1, <2>3
<1>18. ASSUME NEW h \in Semaphores
       PROVE  Guards(semaphores'[h], 1, Holders(h)', Waiting(h)')
  <2>1. CASE h \in mine
    <3>1. semaphores'[h] = Release(semaphores[h], 1)
      BY <1>3, <1>4, <2>1
    <3> QED BY <1>7, <1>9, <1>17, <2>1, <3>1
  <2>2. CASE h \notin mine
    <3>1. semaphores'[h] = semaphores[h]
      BY <1>3, <1>4, <2>2
    <3>2. Holders(h)' = Holders(h) /\ Waiting(h)' = Waiting(h)
      <4>1. woken \cap Waiting(h) = {} /\ p \notin Holders(h)
        BY <1>5, <1>10, <2>2
      <4>2. /\ Holders(h)' = (Holders(h) \ {p}) \cup (woken \cap Waiting(h))
            /\ Waiting(h)' = Waiting(h) \ (woken \cap Waiting(h))
        BY <1>17
      <4> QED BY <4>1, <4>2
    <3> QED BY <1>5, <3>1, <3>2
  <2> QED BY <2>1, <2>2
<1>19. ASSUME NEW h \in Semaphores, Holders(h)' \cup Waiting(h)' # {}
       PROVE  locks'[h[1]] = h[2]
  <2>1. locks[h[1]] = h[2] /\ h[1] \in Paths /\ h = <<h[1], h[2]>>
    BY <1>2, <1>17, <1>19 DEF LocksGuarded, Semaphores
  <2>2. ~Dropped(p, h[1])
    <3> SUFFICES ASSUME Dropped(p, h[1]) PROVE FALSE
      OBVIOUS
    <3>1. PICK g : g = <<h[1], held[p][h[1]]>>
      OBVIOUS
    <3>2. /\ h[1] \in DOMAIN held[p] /\ semaphores'[g].active = 0 /\ semaphores'[g].waiters = <<>>
      BY <3>1 DEF Dropped
    <3>3. g \in mine /\ g \in Semaphores
      BY <1>6, <3>1, <3>2 DEF mine
    <3>4. locks[g[1]] = g[2]
      BY <1>2, <1>5, <3>3 DEF LocksGuarded
    <3>5. g = h
      BY <2>1, <3>1, <3>4
    <3>6. Guards(semaphores'[h], 1, Holders(h)', Waiting(h)')
      BY <1>18
    <3>7. Holders(h)' = {}
      BY <3>2, <3>5, <3>6, FS_EmptySet DEF Guards
    <3>8. Waiting(h)' = {}
      <4>1. Len(semaphores'[h].waiters) = 0
        BY <3>2, <3>5, EmptySeq
      <4> QED BY <3>6, <4>1 DEF Guards
    <3> QED BY <1>19, <3>7, <3>8
  <2> QED BY <1>3, <2>1, <2>2
<1>20. LocksGuarded'
  BY <1>18, <1>19 DEF LocksGuarded, Semaphores
<1> QED BY <1>15, <1>16, <1>20 DEF LocksInv

-----------------------------------------------------------------------------
(* The steps of a patch that has its locks, and of other calls.            *)
LEMMA GateStepQuiet ==
  ASSUME LocksInv, GatesInv', NEW c \in Calls, UNCHANGED <<scenario, locking>>,
         Arrive(c) \/ Ask(c) \/ Finish(c) \/ ChildTimeout(c) \/ ToolsTimeout(c),
         \/ UNCHANGED step /\ (c \in Patches => step[c] \notin Early)
         \/ /\ step[c] \notin Early
            /\ \E s : s \notin Early /\ step' = [step EXCEPT ![c] = s]
  PROVE  LocksInv'
<1>1. Patches \subseteq Calls
  BY PatchAssumption DEF LocksInv, GatesInv, Patches
<1>2. ASSUME NEW q \in Patches, step[q] \in Early PROVE stage'[q] = "new"
  <2>1. q \in Calls /\ q # c /\ stage[q] = "new"
    BY <1>1, <1>2 DEF LocksInv, WaitsForOne
  <2> QED BY <2>1, NewStays DEF LocksInv
<1> QED BY <1>2, QuietStep

LEMMA OtherSteps ==
  ASSUME LocksInv, GatesInv', NEW c \in Others,
         OtherGoesOn(c) \/ OtherEnds(c) \/ OtherTimeout(c)
  PROVE  LocksInv'
<1>1. c \in Calls /\ c \notin Patches
  BY PatchAssumption DEF LocksInv, GatesInv, Patches, Others
<1>2. /\ UNCHANGED <<scenario, locking, step>>
      /\ Arrive(c) \/ Ask(c) \/ Finish(c) \/ ChildTimeout(c) \/ ToolsTimeout(c)
  BY DEF OtherGoesOn, OtherEnds, OtherTimeout, Untouched
<1> QED BY <1>1, <1>2, GateStepQuiet

LEMMA PatchSteps ==
  ASSUME LocksInv, GatesInv', NEW p \in Patches,
         PatchArrives(p) \/ PatchAsks(p) \/ PatchTimeout(p) \/ Commits(p)
  PROVE  LocksInv'
<1>1. p \in Calls
  BY PatchAssumption DEF LocksInv, GatesInv, Patches
<1>2. stage[p] # "new" => step[p] \notin Early
  BY DEF LocksInv, WaitsForOne
<1>3. CASE PatchArrives(p)
  <2>1. UNCHANGED <<scenario, locking, step>> /\ Arrive(p) /\ step[p] \notin Early
    BY <1>3 DEF PatchArrives, Untouched, Early
  <2> QED BY <1>1, <2>1, GateStepQuiet
<1>4. CASE PatchAsks(p)
  <2>1. UNCHANGED <<scenario, locking, step>> /\ Ask(p) /\ step[p] \notin Early
    BY <1>2, <1>4 DEF PatchAsks, Untouched, Ask
  <2> QED BY <1>1, <2>1, GateStepQuiet
<1>5. CASE PatchTimeout(p)
  <2>1. /\ UNCHANGED <<scenario, locking>> /\ ToolsTimeout(p) /\ step[p] \notin Early
        /\ step' = [step EXCEPT ![p] = "unlock"]
    BY <1>2, <1>5 DEF PatchTimeout, Untouched, ToolsTimeout, Goto
  <2>2. "unlock" \notin Early
    BY DEF Early
  <2> QED BY <1>1, <2>1, <2>2, GateStepQuiet
<1>6. CASE PlanFails(p) \/ Clean(p) \/ Undone(p)
  <2>1. /\ UNCHANGED <<scenario, locking>> /\ Finish(p) /\ step[p] \notin Early
        /\ step' = [step EXCEPT ![p] = "unlock"]
    BY <1>2, <1>6 DEF PlanFails, Clean, Undone, End, Aside, Goto, Finish
  <2>2. "unlock" \notin Early
    BY DEF Early
  <2> QED BY <1>1, <2>1, <2>2, GateStepQuiet
<1>7. CASE Plan(p) \/ Stage(p) \/ Backup(p) \/ Rename(p) \/ CommitFails(p) \/ Remove(p) \/ Restore(p)
  <2>1. UNCHANGED <<scenario, locking, gates>> /\ stage[p] = "runs"
    BY <1>7, Zenon DEF Plan, Stage, Backup, Rename, CommitFails, Remove, Restore, Inside, Aside, Does
  <2>2. \E s : s \notin Early /\ step' = [step EXCEPT ![p] = s]
    <3>1. CASE Plan(p) \/ Stage(p)
      BY <3>1, Zenon DEF Plan, Stage, Goto, Early
    <3>2. CASE Backup(p) \/ Rename(p)
      BY <3>2, Zenon DEF Backup, Rename, NextChange, Goto, Early
    <3>3. CASE CommitFails(p) \/ Remove(p) \/ Restore(p)
      BY <3>3, Zenon DEF CommitFails, Remove, Restore, Undo, Goto, Early
    <3> QED BY <1>7, <3>1, <3>2, <3>3
  <2>3. \A q \in Patches : step[q] \in Early => stage'[q] = "new"
    BY <2>1 DEF LocksInv, WaitsForOne, gates
  <2> QED BY <1>1, <1>2, <2>1, <2>2, <2>3, QuietStep, Zenon
<1> QED BY <1>3, <1>4, <1>5, <1>6, <1>7 DEF Commits

LEMMA LocksInvStep == LocksInv /\ [Next]_vars => LocksInv'
<1> SUFFICES ASSUME LocksInv, [Next]_vars PROVE LocksInv'
  OBVIOUS
<1>1. GatesInv'
  BY GatesInvStep DEF LocksInv
<1>2. ASSUME NEW p \in Patches, PatchGoesOn(p) \/ LockTimeout(p) \/ PatchTimeout(p)
      PROVE  LocksInv'
  BY <1>1, <1>2, LockStep, LockTimeoutStep, UnlockStep, PatchSteps DEF PatchGoesOn
<1>3. ASSUME NEW c \in Others, OtherGoesOn(c) \/ OtherEnds(c) \/ OtherTimeout(c)
      PROVE  LocksInv'
  BY <1>1, <1>3, OtherSteps
<1>4. CASE UNCHANGED vars
  BY <1>1, <1>4 DEF vars, gates, locking, LocksInv, LocksTyped, WaitsForOne, LocksGuarded,
                    Holders, Waiting, Patches
<1> QED BY <1>2, <1>3, <1>4 DEF Next

LEMMA LocksInvariant == Spec => []LocksInv
BY LocksInvInit, LocksInvStep, PTL DEF Spec

(* A semaphore has one holder, and a path one semaphore.                   *)
LEMMA Exclusive ==
  ASSUME LocksInv PROVE PathsExclusive
<1> SUFFICES ASSUME NEW p \in Patches, NEW q \in Patches, p # q,
                    NEW k \in DOMAIN held[p], k \in DOMAIN held[q]
             PROVE  FALSE
  BY DEF PathsExclusive
<1>1. p \in Calls /\ q \in Calls
  BY PatchAssumption DEF LocksInv, GatesInv, Patches
<1> DEFINE g == <<k, held[p][k]>>
           h == <<k, held[q][k]>>
<1>2. g \in Semaphores /\ h \in Semaphores
  BY <1>1 DEF LocksInv, LocksTyped, Semaphores
<1>3. p \in Holders(g) /\ q \in Holders(h)
  BY <1>1 DEF Holders
<1>4. locks[k] = held[p][k] /\ locks[k] = held[q][k]
  BY <1>2, <1>3 DEF LocksInv, LocksGuarded
<1>5. q \in Holders(g)
  <2>1. h = g
    BY <1>4
  <2> QED BY <1>3, <2>1
<1>6. IsFiniteSet(Holders(g)) /\ Cardinality(Holders(g)) <= 1
  <2>1. Guards(semaphores[g], 1, Holders(g), Waiting(g))
    BY <1>2 DEF LocksInv, LocksGuarded
  <2> QED BY <2>1 DEF Guards
<1>7. IsFiniteSet({p, q}) /\ Cardinality({p, q}) = 2
  <2>1. IsFiniteSet({p}) /\ Cardinality({p}) = 1
    BY FS_Singleton
  <2>2. {p, q} = {p} \cup {q} /\ q \notin {p}
    OBVIOUS
  <2>3. IsFiniteSet({p} \cup {q}) /\ Cardinality({p} \cup {q}) = 1 + 1
    BY <2>1, <2>2, FS_AddElement
  <2> QED BY <2>2, <2>3
<1>8. Cardinality({p, q}) <= Cardinality(Holders(g)) /\ Cardinality(Holders(g)) \in Nat
  <2>1. {p, q} \in SUBSET Holders(g)
    BY <1>3, <1>5
  <2> QED BY <1>6, <2>1, FS_Subset, FS_CardinalityType
<1> HIDE DEF g
<1> QED BY <1>6, <1>7, <1>8

(* For any patches, paths, timeouts and faults, two patches never hold the *)
(* same path at the same time, although locks are dropped from the map and *)
(* made anew (patch.ts 37-58).                                             *)
THEOREM LocksExclude == Spec => []PathsExclusive
BY Exclusive, LocksInvariant, PTL

-----------------------------------------------------------------------------
(* The transactions.                                                       *)

Change == [path : Paths, content : Contents]

Shape(w) ==
  /\ w = [changes |-> w.changes, at |-> w.at, backups |-> w.backups, touched |-> w.touched,
          incomplete |-> w.incomplete]
  /\ w.changes \in Seq(Change) /\ w.at \in Nat /\ w.incomplete \in BOOLEAN

(* What an operation makes of its target, from what its targets were.      *)
Goal(op) == IF op.kind = "move" THEN op.to ELSE op.path
Result(p, op, B) ==
  IF op.kind = "delete" THEN None
  ELSE Append(IF B[op.path] = None THEN <<>> ELSE B[op.path], p)

(* Operation op of patch p applies to B, and the changes say what it does. *)
Planned(p, op, w, B) ==
  /\ op.kind = "add" => B[op.path] = None
  /\ op.kind = "move" => B[op.to] = None
  /\ \E j \in DOMAIN w.changes :
       w.changes[j] = [path |-> Goal(op), content |-> Result(p, op, B)]
  /\ op.kind = "move" =>
       \E j \in DOMAIN w.changes : w.changes[j] = [path |-> op.path, content |-> None]

(* The changes are those of the first n operations, each path once.        *)
Plans(p, w, B, n) ==
  /\ \A i \in 1..n : Planned(p, Ops(p)[i], w, B)
  /\ \A j \in DOMAIN w.changes : \E i \in 1..n : w.changes[j].path \in Targets(Ops(p)[i])
  /\ \A i, j \in DOMAIN w.changes : w.changes[i].path = w.changes[j].path => i = j

(* Nothing has been touched.                                               *)
Fresh(p, w, B, F) ==
  /\ w.backups = <<>> /\ w.touched = {} /\ ~w.incomplete
  /\ \A k \in Keys(p) : F[k] = B[k]

(* What is not touched is as it was, and a backup is what was there.       *)
Backed(p, w, B, F) ==
  /\ DOMAIN w.backups \subseteq w.touched
  /\ \A k \in DOMAIN w.backups : w.backups[k] = B[k]
  /\ \A k \in w.touched : \E j \in DOMAIN w.changes : w.changes[j].path = k
  /\ \A k \in Keys(p) \ w.touched : F[k] = B[k]

(* The changes before w.at are in place, those after it are untouched.     *)
Committing(p, w, B, F) ==
  /\ Backed(p, w, B, F) /\ ~w.incomplete
  /\ \A k \in w.touched : B[k] # None => k \in DOMAIN w.backups
  /\ \A j \in DOMAIN w.changes : LET c == w.changes[j] IN
       /\ j < w.at => F[c.path] = c.content
       /\ j > w.at => c.path \notin w.touched

(* The original of every target exists.                                    *)
OriginalsThere(p, w, B, F) ==
  \A k \in Keys(p) :
    B[k] # None => F[k] = B[k] \/ (k \in DOMAIN w.backups /\ w.backups[k] = B[k])

(* The changes after i are undone, or the rollback is incomplete; those up *)
(* to i have their backups.                                                *)
Rolling(p, w, B, F, i) ==
  /\ Backed(p, w, B, F) /\ OriginalsThere(p, w, B, F)
  /\ \A j \in DOMAIN w.changes : LET k == w.changes[j].path IN
       k \in w.touched =>
         /\ j <= i /\ B[k] # None => k \in DOMAIN w.backups
         /\ j > i /\ ~w.incomplete => F[k] = B[k]

(* How far a transaction is.                                               *)
Phase(p, s, w, B, o, F) ==
  LET n == Len(Ops(p))
      c == w.changes[w.at] IN
  /\ s = "plan" => w.at \in 1..n /\ Fresh(p, w, B, F) /\ Plans(p, w, B, w.at - 1)
  /\ s = "stage" => w.at = 1 /\ Fresh(p, w, B, F) 
  /\ s \in {"stage", "backup", "rename", "clean", "remove", "restore", "undone"} => Plans(p, w, B, n)
  /\ s \in {"backup", "rename", "clean"} => Committing(p, w, B, F)
  /\ s \in {"backup", "rename", "remove", "restore"} => w.at \in DOMAIN w.changes
  /\ s = "clean" => w.at > Len(w.changes)
  /\ s = "backup" => c.path \notin w.touched
  /\ s = "rename" => c.content # None /\ F[c.path] = None
  /\ s \in {"remove", "restore"} => Rolling(p, w, B, F, w.at) /\ c.path \in w.touched
  /\ s = "restore" => c.path \in DOMAIN w.backups
  /\ s = "undone" => Rolling(p, w, B, F, 0)
  /\ s = "unlock" /\ o # "applied" => OriginalsThere(p, w, B, F)

Working == {"plan", "stage", "backup", "rename", "clean", "remove", "restore", "undone"}
Owns(p) == step[p] \in Working \/ (step[p] = "unlock" /\ before[p] # <<>>)

Transaction(p) ==
  /\ step[p] \in Early \cup Working \cup {"unlock", "end"}
  /\ stage[p] \in {"child", "asks", "tools"} => step[p] = "plan"
  /\ step[p] \in Early => before[p] = <<>> /\ work[p] = NoWork
  /\ Owns(p) =>
       /\ DOMAIN held[p] = Keys(p)
       /\ before[p] \in [Keys(p) -> Contents]
       /\ Shape(work[p])
       /\ Phase(p, step[p], work[p], before[p], outcome[p], files)

TransInv ==
  /\ work = [q \in Calls |-> work[q]] /\ before = [q \in Calls |-> before[q]]
  /\ outcome = [q \in Calls |-> outcome[q]]
  /\ files \in [Paths -> Contents]
  /\ \A p \in Patches : Transaction(p)

-----------------------------------------------------------------------------
LEMMA OpsTyped ==
  ASSUME GatesInv, NEW p \in Patches
  PROVE  /\ p \in Calls /\ Ops(p) \in Seq(Operations) /\ Len(Ops(p)) \in Nat \ {0}
         /\ \A i \in DOMAIN Ops(p) : Ops(p)[i] \in Operations /\ Targets(Ops(p)[i]) \subseteq Keys(p)
         /\ \A i, j \in DOMAIN Ops(p) : i # j => Targets(Ops(p)[i]) \cap Targets(Ops(p)[j]) = {}
         /\ Keys(p) \subseteq Paths /\ Keys(p) # {}
<1>1. scenario \in Scenarios /\ p \in DOMAIN scenario.ops
  BY DEF GatesInv, Patches
<1>2. /\ p \in Calls /\ Ops(p) \in Seq(Operations) \ {<<>>}
      /\ \A i, j \in DOMAIN Ops(p) : i # j => Targets(Ops(p)[i]) \cap Targets(Ops(p)[j]) = {}
  BY <1>1, PatchAssumption DEF Ops
<1>3. Len(Ops(p)) \in Nat \ {0} /\ DOMAIN Ops(p) = 1..Len(Ops(p))
  BY <1>2, EmptySeq, LenProperties
<1>4. ASSUME NEW i \in DOMAIN Ops(p)
      PROVE  /\ Ops(p)[i] \in Operations /\ Targets(Ops(p)[i]) \subseteq Keys(p)
             /\ Targets(Ops(p)[i]) \subseteq Paths /\ Targets(Ops(p)[i]) # {}
  <2>1. Ops(p)[i] \in Operations
    BY <1>2, <1>3
  <2>2. Targets(Ops(p)[i]) \subseteq Paths /\ Targets(Ops(p)[i]) # {}
    BY <2>1 DEF Operations, Targets, Kinds
  <2> QED BY <2>1, <2>2 DEF Keys
<1>5. Keys(p) \subseteq Paths
  BY <1>4 DEF Keys
<1>6. Keys(p) # {}
  <2>1. 1 \in DOMAIN Ops(p)
    BY <1>3
  <2>2. PICK k : k \in Targets(Ops(p)[1])
    BY <1>4, <2>1
  <2>3. k \in Keys(p)
    BY <1>4, <2>1, <2>2
  <2> QED BY <2>3
<1>7. Ops(p) \in Seq(Operations)
  BY <1>2
<1> QED BY <1>2, <1>3, <1>4, <1>5, <1>6, <1>7, Zenon

(* The paths of the changes are targets of the patch.                      *)
LEMMA ChangesInKeys ==
  ASSUME GatesInv, NEW p \in Patches, NEW w, NEW B, NEW n \in 0..Len(Ops(p)), Plans(p, w, B, n),
         NEW j \in DOMAIN w.changes
  PROVE  w.changes[j].path \in Keys(p)
<1>1. PICK i \in 1..n : w.changes[j].path \in Targets(Ops(p)[i])
  BY DEF Plans
<1>2. i \in DOMAIN Ops(p)
  <2>1. DOMAIN Ops(p) = 1..Len(Ops(p)) /\ Len(Ops(p)) \in Nat
    BY OpsTyped, LenProperties
  <2> QED BY <2>1
<1> QED BY <1>1, <1>2, OpsTyped

(* How far a transaction is depends on its own targets only.               *)
LEMMA OwnTargets ==
  ASSUME GatesInv, NEW p \in Patches, NEW s, NEW w, NEW B, NEW o, NEW F, NEW G,
         \A k \in Keys(p) : F[k] = G[k], Phase(p, s, w, B, o, F)
  PROVE  Phase(p, s, w, B, o, G)
<1> DEFINE n == Len(Ops(p))
           committed == {"backup", "rename", "clean", "remove", "restore", "undone"}
<1>1. n \in 0..n
  BY OpsTyped
<1>2. s \in committed => \A j \in DOMAIN w.changes : w.changes[j].path \in Keys(p)
  <2> HIDE DEF n
  <2>1. s \in committed => Plans(p, w, B, n)
    BY DEF Phase, n
  <2> QED BY <1>1, <2>1, ChangesInKeys DEF n
<1>3. Fresh(p, w, B, F) => Fresh(p, w, B, G)
  BY DEF Fresh
<1>4. Backed(p, w, B, F) => Backed(p, w, B, G)
  BY DEF Backed
<1>5. s \in committed /\ Committing(p, w, B, F) => Committing(p, w, B, G)
  BY <1>2, <1>4 DEF Committing
<1>6. OriginalsThere(p, w, B, F) => OriginalsThere(p, w, B, G)
  BY DEF OriginalsThere
<1>7. ASSUME NEW i, s \in committed, Rolling(p, w, B, F, i) PROVE Rolling(p, w, B, G, i)
  BY <1>2, <1>4, <1>6, <1>7 DEF Rolling
<1>8. s = "rename" => F[w.changes[w.at].path] = G[w.changes[w.at].path]
  BY <1>2 DEF Phase
<1> QED BY <1>3, <1>5, <1>6, <1>7, <1>8 DEF Phase

LEMMA PhaseNext ==
  ASSUME UNCHANGED scenario, NEW p,
         Phase(p, step'[p], work'[p], before'[p], outcome'[p], files')
  PROVE  Phase(p, step[p], work[p], before[p], outcome[p], files)'
<1>1. Ops(p)' = Ops(p) /\ Keys(p)' = Keys(p)
  BY DEF Ops, Keys
<1> DEFINE w == work'[p]
           B == before'[p]
<1>2. Fresh(p, work[p], before[p], files)' <=> Fresh(p, w, B, files')
  BY <1>1 DEF Fresh
<1>3. /\ Plans(p, work[p], before[p], work[p].at - 1)' <=> Plans(p, w, B, w.at - 1)
      /\ Plans(p, work[p], before[p], Len(Ops(p)))' <=> Plans(p, w, B, Len(Ops(p)))
  BY <1>1 DEF Plans, Planned
<1>4. Backed(p, work[p], before[p], files)' <=> Backed(p, w, B, files')
  BY <1>1 DEF Backed
<1>5. Committing(p, work[p], before[p], files)' <=> Committing(p, w, B, files')
  BY <1>4 DEF Committing
<1>6. OriginalsThere(p, work[p], before[p], files)' <=> OriginalsThere(p, w, B, files')
  BY <1>1 DEF OriginalsThere
<1>7. /\ Rolling(p, work[p], before[p], files, work[p].at)' <=> Rolling(p, w, B, files', w.at)
      /\ Rolling(p, work[p], before[p], files, 0)' <=> Rolling(p, w, B, files', 0)
  BY <1>4, <1>6 DEF Rolling
<1> QED BY <1>1, <1>2, <1>3, <1>5, <1>6, <1>7 DEF Phase

(* A patch that has its locks changes its own files only: the transactions *)
(* of the others stay what they are.                                       *)
LEMMA OwnStep ==
  ASSUME LocksInv, TransInv, UNCHANGED <<scenario, locking, before>>,
         NEW p \in Patches, Owns(p),
         NEW s \in Working \cup {"unlock"}, NEW w, NEW o, NEW F \in [Paths -> Contents],
         step' = [step EXCEPT ![p] = s], work' = [work EXCEPT ![p] = w],
         outcome' = [outcome EXCEPT ![p] = o], files' = F,
         \A k \in Paths \ Keys(p) : F[k] = files[k],
         \A q \in Calls \ {p} : stage'[q] = stage[q] \/ stage[q] \in {"child", "tools"},
         stage'[p] \in {"child", "asks", "tools"} => s = "plan",
         Shape(w), Phase(p, s, w, before[p], o, F)
  PROVE  TransInv'
<1>1. p \in Calls /\ Patches \subseteq Calls
  BY PatchAssumption DEF LocksInv, GatesInv, Patches
<1>2. Patches' = Patches /\ (\A q : Keys(q)' = Keys(q)) /\ held' = held /\ before' = before
  BY DEF Patches, Keys, Ops, locking
<1>3. /\ work' = [q \in Calls |-> work'[q]] /\ before' = [q \in Calls |-> before'[q]]
      /\ outcome' = [q \in Calls |-> outcome'[q]] /\ files' \in [Paths -> Contents]
      /\ work'[p] = w /\ outcome'[p] = o /\ step'[p] = s
      /\ \A q \in Calls \ {p} :
           work'[q] = work[q] /\ outcome'[q] = outcome[q] /\ step'[q] = step[q]
  BY <1>1, <1>2 DEF TransInv, LocksInv, LocksTyped
<1>4. Transaction(p)'
  <2>1. /\ step'[p] \in Early \cup Working \cup {"unlock", "end"} /\ step'[p] \notin Early
        /\ stage'[p] \in {"child", "asks", "tools"} => step'[p] = "plan"
    BY <1>3 DEF Working, Early
  <2>2. /\ DOMAIN held[p] = Keys(p) /\ before[p] \in [Keys(p) -> Contents]
    BY DEF TransInv, Transaction
  <2>3. Shape(work[p])'
    BY <1>3 DEF Shape
  <2>4. Phase(p, step[p], work[p], before[p], outcome[p], files)'
    BY <1>2, <1>3, PhaseNext
  <2> QED BY <1>2, <2>1, <2>2, <2>3, <2>4 DEF Transaction
<1>5. ASSUME NEW q \in Patches, q # p PROVE Transaction(q)'
  <2>1. /\ q \in Calls /\ Transaction(q)
        /\ work'[q] = work[q] /\ outcome'[q] = outcome[q] /\ step'[q] = step[q]
    BY <1>1, <1>3, <1>5 DEF TransInv
  <2>2. stage'[q] \in {"child", "asks", "tools"} => step[q] = "plan"
    BY <1>5, <2>1 DEF Transaction
  <2>3. Owns(q)' = Owns(q)
    BY <1>2, <2>1 DEF Owns
  <2>4. ASSUME Owns(q) PROVE Shape(work[q])' /\ Phase(q, step[q], work[q], before[q], outcome[q], files)'
    <3>1. \A k \in Keys(q) : files[k] = F[k]
      <4>1. DOMAIN held[p] = Keys(p) /\ DOMAIN held[q] = Keys(q)
        BY <2>1, <2>4 DEF TransInv, Transaction
      <4>2. Keys(p) \cap Keys(q) = {}
        BY <1>5, <4>1, Exclusive DEF PathsExclusive
      <4>3. Keys(q) \subseteq Paths
        BY OpsTyped DEF LocksInv
      <4> QED BY <4>2, <4>3
    <3>2. Phase(q, step[q], work[q], before[q], outcome[q], F)
      <4>1. Phase(q, step[q], work[q], before[q], outcome[q], files)
        BY <2>1, <2>4 DEF Transaction
      <4> QED BY <3>1, <4>1, OwnTargets DEF LocksInv
    <3>3. Phase(q, step[q], work[q], before[q], outcome[q], files)'
      BY <1>2, <2>1, <3>2, PhaseNext
    <3> QED BY <2>1, <2>4, <3>3 DEF Transaction, Shape
  <2> QED BY <1>2, <2>1, <2>2, <2>3, <2>4 DEF Transaction
<1> QED BY <1>2, <1>3, <1>4, <1>5 DEF TransInv

(* Patches that wait for a lock are granted it, and p comes to s.          *)
LEMMA GrantTransaction ==
  ASSUME LocksInv, TransInv, NEW p \in Patches, NEW W, NEW s, Grant(W, p, s), UNCHANGED outcome,
         \A q \in W : step[q] \in Early,
         \/ s = "wait" /\ step[p] \in Early
         \/ s = "end",
         step[p] \in Early \/ step[p] = "unlock",
         \A q \in Calls : q \notin W /\ q # p => held'[q] = held[q]
  PROVE  TransInv'
<1>1. p \in Calls /\ Patches \subseteq Calls
  BY PatchAssumption DEF LocksInv, GatesInv, Patches
<1>2. /\ UNCHANGED <<scenario, gates, work, files, outcome, stage>>
      /\ step' = [q \in Calls |-> IF q \in W THEN (IF DOMAIN held'[q] = Keys(q) THEN "plan" ELSE "lock")
                                  ELSE IF q = p THEN s ELSE step[q]]
      /\ before' = [q \in Calls |-> IF q \in W /\ DOMAIN held'[q] = Keys(q)
                                    THEN Restrict(files, Keys(q)) ELSE before[q]]
  BY DEF Grant, gates
<1>3. Patches' = Patches /\ (\A q : Keys(q)' = Keys(q))
  BY <1>2 DEF Patches, Keys, Ops
<1>4. /\ work' = [q \in Calls |-> work'[q]] /\ before' = [q \in Calls |-> before'[q]]
      /\ outcome' = [q \in Calls |-> outcome'[q]] /\ files' \in [Paths -> Contents]
  BY <1>2 DEF TransInv
<1>5. ASSUME NEW q \in Patches PROVE Transaction(q)'
  <2>1. q \in Calls /\ Transaction(q)
    BY <1>1 DEF TransInv
  <2>2. CASE q \in W /\ DOMAIN held'[q] = Keys(q)
    <3> DEFINE B == [k \in Keys(q) |-> files[k]]
    <3>1. step'[q] = "plan" /\ before'[q] = B /\ work'[q] = NoWork /\ step[q] \in Early
      BY <1>2, <2>1, <2>2 DEF Restrict, Transaction
    <3>2. Keys(q) \subseteq Paths /\ Len(Ops(q)) \in Nat \ {0}
      BY OpsTyped DEF LocksInv
    <3>3. B \in [Keys(q) -> Contents]
      BY <3>2 DEF TransInv
    <3>4. Shape(NoWork)
      <4>1. <<>> \in Seq(Change)
        BY EmptySeq
      <4> QED BY <4>1 DEF Shape, NoWork
    <3>5. Phase(q, "plan", NoWork, B, outcome'[q], files')
      <4>1. DOMAIN <<>> = {}
        BY EmptySeq, LenProperties
      <4>2. Plans(q, NoWork, B, 0)
        BY <4>1 DEF Plans, NoWork
      <4>3. Fresh(q, NoWork, B, files)
        BY DEF Fresh, NoWork
      <4>4. NoWork.at = 1 /\ 1 - 1 = 0 /\ 1 \in 1..Len(Ops(q))
        BY <3>2 DEF NoWork
      <4> QED BY <1>2, <4>2, <4>3, <4>4 DEF Phase
    <3>6. Phase(q, step[q], work[q], before[q], outcome[q], files)'
      BY <1>2, <3>1, <3>5, PhaseNext
    <3>7. "plan" \in Working /\ "plan" \notin Early
      BY DEF Working, Early
    <3>8. Shape(work[q])'
      BY <3>1, <3>4 DEF Shape
    <3> HIDE DEF B
    <3> QED BY <1>3, <2>2, <3>1, <3>3, <3>6, <3>7, <3>8 DEF Transaction
  <2>3. ASSUME q \in W \/ q = p, ~(q \in W /\ DOMAIN held'[q] = Keys(q)) PROVE Transaction(q)'
    <3>1. /\ step'[q] \in {"lock", "wait", "end"} /\ before'[q] = before[q] /\ work'[q] = work[q]
          /\ step[q] \in Early \cup {"unlock"}
          /\ step'[q] # "end" => step[q] \in Early
      BY <1>1, <1>2, <2>3
    <3>2. stage'[q] \notin {"child", "asks", "tools"}
      BY <1>2, <2>1, <3>1 DEF Transaction, Early
    <3>3. step'[q] \in Early => before'[q] = <<>> /\ work'[q] = NoWork
      <4>1. step'[q] \in Early => step[q] \in Early
        BY <3>1 DEF Early
      <4>2. step[q] \in Early => before[q] = <<>> /\ work[q] = NoWork
        BY <2>1 DEF Transaction
      <4> QED BY <3>1, <4>1, <4>2, Zenon
    <3>4. ~Owns(q)' /\ step'[q] \in Early \cup Working \cup {"unlock", "end"}
      BY <3>1 DEF Owns, Working, Early
    <3> QED BY <3>2, <3>3, <3>4 DEF Transaction
  <2>4. CASE q \notin W /\ q # p
    <3>1. step'[q] = step[q] /\ before'[q] = before[q] /\ held'[q] = held[q]
      BY <1>2, <2>1, <2>4
    <3>2. Owns(q)' = Owns(q)
      BY <3>1 DEF Owns
    <3>3. Owns(q) => Phase(q, step[q], work[q], before[q], outcome[q], files)'
      BY <1>2, <2>1, <3>1, PhaseNext DEF Transaction
    <3> QED BY <1>2, <1>3, <2>1, <3>1, <3>2, <3>3 DEF Transaction, Shape
  <2> QED BY <2>2, <2>3, <2>4
<1> QED BY <1>3, <1>4, <1>5 DEF TransInv

LEMMA LocksTransaction ==
  ASSUME LocksInv, TransInv, NEW p \in Patches, Lock(p)
  PROVE  TransInv'
<1>1. PICK k \in Paths :
        LET g == <<k, IF locks[k] = None THEN p ELSE locks[k]>>
            now == IF Takes(semaphores[g], 1) THEN {p} ELSE {} IN
        /\ NextKey(p, k)
        /\ locks' = [locks EXCEPT ![k] = g[2]]
        /\ semaphores' = [semaphores EXCEPT ![g] = Acquire(@, 1, p)]
        /\ wanted' = [wanted EXCEPT ![p] = g]
        /\ held' = [q \in Calls |-> IF q \in now THEN With(q) ELSE held[q]]
        /\ Grant(now, p, "wait")
  BY Zenon DEF Lock
<1>2. PICK W \in SUBSET {p} :
        /\ held' = [q \in Calls |-> IF q \in W THEN With(q) ELSE held[q]]
        /\ Grant(W, p, "wait")
  BY <1>1
<1>3. step[p] \in Early /\ UNCHANGED outcome
  BY DEF Lock, Early
<1>4. \A q \in Calls : q \notin W /\ q # p => held'[q] = held[q]
  BY <1>2
<1>5. \A q \in W : step[q] \in Early
  BY <1>3
<1>6. Grant(W, p, "wait")
  BY <1>2
<1> QED BY <1>3, <1>4, <1>5, <1>6, GrantTransaction

LEMMA UnlockTransaction ==
  ASSUME LocksInv, TransInv, NEW p \in Patches, Unlock(p)
  PROVE  TransInv'
<1> DEFINE mine == {<<k, held[p][k]>> : k \in DOMAIN held[p]}
           woken == UNION {Woken(semaphores[g], 1) : g \in mine}
<1>1. /\ step[p] = "unlock" /\ UNCHANGED outcome
      /\ held' = [q \in Calls |-> IF q \in woken THEN With(q) ELSE IF q = p THEN <<>> ELSE held[q]]
      /\ Grant(woken, p, "end")
  BY DEF Unlock
<1>2. ASSUME NEW q \in woken PROVE step[q] \in Early
  <2>1. PICK k \in DOMAIN held[p] : q \in Woken(semaphores[<<k, held[p][k]>>], 1)
    OBVIOUS
  <2>2. PICK g : g = <<k, held[p][k]>>
    OBVIOUS
  <2>3. p \in Calls /\ g \in Semaphores /\ p \in Holders(g)
    <3>1. p \in Calls
      BY PatchAssumption DEF LocksInv, GatesInv, Patches
    <3> QED BY <2>2, <3>1 DEF LocksInv, LocksTyped, Semaphores, Holders
  <2>4. Guards(semaphores[g], 1, Holders(g), Waiting(g)) /\ Holders(g) \cap Waiting(g) = {}
    BY <2>3 DEF LocksInv, LocksGuarded, WaitsForOne, Holders, Waiting
  <2>5. Woken(semaphores[g], 1) \subseteq Waiting(g)
    BY <2>3, <2>4, ReleaseGuards
  <2> QED BY <2>1, <2>2, <2>5 DEF Waiting, Early
<1> HIDE DEF woken
<1>3. \A q \in Calls : q \notin woken /\ q # p => held'[q] = held[q]
  BY <1>1
<1> QED BY <1>1, <1>2, <1>3, GrantTransaction

LEMMA LockTimeoutTransaction ==
  ASSUME LocksInv, TransInv, NEW p \in Patches, LockTimeout(p)
  PROVE  TransInv'
<1>1. p \in Calls /\ Patches \subseteq Calls
  BY PatchAssumption DEF LocksInv, GatesInv, Patches
<1>2. /\ step[p] = "wait" /\ step' = [step EXCEPT ![p] = "unlock"]
      /\ outcome' = [outcome EXCEPT ![p] = "timedOut"]
      /\ UNCHANGED <<scenario, stage, held, work, files, before>>
  BY DEF LockTimeout, gates
<1>3. Patches' = Patches /\ (\A q : Keys(q)' = Keys(q))
  BY <1>2 DEF Patches, Keys, Ops
<1>4. /\ step'[p] = "unlock"
      /\ \A q \in Calls \ {p} : step'[q] = step[q] /\ outcome'[q] = outcome[q]
      /\ outcome' = [q \in Calls |-> outcome'[q]]
  BY <1>1, <1>2 DEF LocksInv, LocksTyped, TransInv
<1>5. ASSUME NEW q \in Patches PROVE Transaction(q)'
  <2>1. q \in Calls /\ Transaction(q)
    BY <1>1 DEF TransInv
  <2>2. CASE q = p
    <3>1. before[q] = <<>> /\ stage[q] \notin {"child", "asks", "tools"}
      BY <1>2, <2>1, <2>2 DEF Transaction, Early
    <3>2. ~Owns(q)'
      BY <1>2, <1>4, <2>2, <3>1 DEF Owns, Working
    <3> QED BY <1>2, <1>4, <2>2, <3>1, <3>2 DEF Transaction, Early
  <2>3. CASE q # p
    <3>1. step'[q] = step[q] /\ outcome'[q] = outcome[q]
      BY <1>4, <2>1, <2>3
    <3>2. Owns(q)' = Owns(q)
      BY <1>2, <3>1 DEF Owns
    <3>3. Owns(q) => Phase(q, step[q], work[q], before[q], outcome[q], files)'
      BY <1>2, <2>1, <3>1, PhaseNext DEF Transaction
    <3> QED BY <1>2, <1>3, <2>1, <3>1, <3>2, <3>3 DEF Transaction, Shape
  <2> QED BY <2>2, <2>3
<1> QED BY <1>2, <1>3, <1>4, <1>5 DEF TransInv

(* Steps of other calls at the gates.                                      *)
LEMMA OthersTransaction ==
  ASSUME LocksInv, TransInv, NEW c \in Others, OtherGoesOn(c) \/ OtherEnds(c) \/ OtherTimeout(c)
  PROVE  TransInv'
<1>1. c \in Calls /\ Patches \subseteq Calls /\ c \notin Patches
  BY PatchAssumption DEF LocksInv, GatesInv, Patches, Others
<1>2. /\ UNCHANGED <<scenario, held, step, work, outcome, files, before>>
      /\ Arrive(c) \/ Ask(c) \/ Finish(c) \/ ChildTimeout(c) \/ ToolsTimeout(c)
  BY DEF OtherGoesOn, OtherEnds, OtherTimeout, Untouched, locking
<1>3. Patches' = Patches /\ (\A q : Keys(q)' = Keys(q))
  BY <1>2 DEF Patches, Keys, Ops
<1>4. ASSUME NEW q \in Patches PROVE Transaction(q)'
  <2>1. q \in Calls /\ q # c /\ Transaction(q)
    BY <1>1 DEF TransInv
  <2>2. stage'[q] \in {"child", "asks", "tools"} => step[q] = "plan"
    <3>1. stage'[q] = stage[q] \/ stage[q] \in {"child", "tools"}
      BY <1>1, <1>2, <2>1, OthersStay DEF LocksInv
    <3> QED BY <2>1, <3>1 DEF Transaction
  <2>3. Owns(q) => Phase(q, step[q], work[q], before[q], outcome[q], files)'
    BY <1>2, <2>1, PhaseNext DEF Transaction
  <2>4. Owns(q)' = Owns(q)
    BY <1>2 DEF Owns
  <2> QED BY <1>2, <1>3, <2>1, <2>2, <2>3, <2>4 DEF Transaction, Shape
<1> QED BY <1>2, <1>3, <1>4 DEF TransInv

LEMMA SamePlans ==
  ASSUME NEW p, NEW w, NEW v, NEW B, NEW n, Plans(p, w, B, n), v.changes = w.changes
  PROVE  Plans(p, v, B, n)
BY DEF Plans, Planned

(* What is known of a patch that works.                                    *)
LEMMA AtWork ==
  ASSUME LocksInv, TransInv, NEW p \in Patches, step[p] \in Working
  PROVE  /\ p \in Calls /\ Owns(p) /\ before[p] \in [Keys(p) -> Contents] /\ Shape(work[p])
         /\ Phase(p, step[p], work[p], before[p], outcome[p], files)
         /\ files \in [Paths -> Contents] /\ Keys(p) \subseteq Paths
         /\ DOMAIN work[p].changes = 1..Len(work[p].changes) /\ Len(work[p].changes) \in Nat
<1>1. Owns(p) /\ Transaction(p)
  BY DEF Owns, TransInv
<1>2. p \in Calls /\ Keys(p) \subseteq Paths
  BY OpsTyped DEF LocksInv
<1>3. work[p].changes \in Seq(Change)
  BY <1>1 DEF Transaction, Shape
<1>4. DOMAIN work[p].changes = 1..Len(work[p].changes) /\ Len(work[p].changes) \in Nat
  BY <1>3, LenProperties
<1> QED BY <1>1, <1>2, <1>4 DEF Transaction, TransInv

(* Steps inside the gates.                                                 *)
LEMMA InsideStep ==
  ASSUME LocksInv, TransInv, NEW p \in Patches, step[p] \in Working, stage[p] = "runs", Inside,
         NEW s \in Working, NEW w, NEW F \in [Paths -> Contents],
         Goto(p, s), Doing(p, w), files' = F, \A k \in Paths \ Keys(p) : F[k] = files[k],
         Shape(w), Phase(p, s, w, before[p], outcome[p], F)
  PROVE  TransInv'
<1>1. UNCHANGED <<scenario, locking, before, outcome, stage>>
  BY DEF Inside, Aside, gates
<1>2. p \in Calls /\ Owns(p)
  BY AtWork
<1>3. outcome' = [outcome EXCEPT ![p] = outcome[p]]
  BY <1>1, <1>2 DEF TransInv
<1>4. step' = [step EXCEPT ![p] = s] /\ work' = [work EXCEPT ![p] = w]
  BY DEF Goto, Doing
<1>5. stage'[p] \notin {"child", "asks", "tools"}
  BY <1>1
<1> QED BY <1>1, <1>2, <1>3, <1>4, <1>5, OwnStep

(* The steps that leave the gates, and those at them.                      *)
LEMMA EndStep ==
  ASSUME LocksInv, TransInv, NEW p \in Patches, step[p] \in Working, NEW o, End(p, o),
         NEW w, Doing(p, w), UNCHANGED files, Shape(w),
         o # "applied" => OriginalsThere(p, w, before[p], files)
  PROVE  TransInv'
<1>1. UNCHANGED <<scenario, locking, before>>
  BY DEF End, Aside
<1>2. p \in Calls /\ Owns(p) /\ files \in [Paths -> Contents]
  BY AtWork
<1>3. /\ step' = [step EXCEPT ![p] = "unlock"] /\ outcome' = [outcome EXCEPT ![p] = o]
      /\ work' = [work EXCEPT ![p] = w] /\ Finish(p)
  BY DEF End, Goto, Doing
<1>4. \A q \in Calls \ {p} : stage'[q] = stage[q] \/ stage[q] \in {"child", "tools"}
  BY <1>2, <1>3, OthersStay DEF LocksInv
<1>5. stage'[p] \notin {"child", "asks", "tools"}
  BY <1>2, <1>3 DEF Finish, LeaveChild, Advance
<1>6. Phase(p, "unlock", w, before[p], o, files)
  BY DEF Phase
<1> QED BY <1>1, <1>2, <1>3, <1>4, <1>5, <1>6, OwnStep

LEMMA GateTransaction ==
  ASSUME LocksInv, TransInv, NEW p \in Patches, PatchArrives(p) \/ PatchAsks(p) \/ PatchTimeout(p)
  PROVE  TransInv'
<1>1. p \in Calls
  BY OpsTyped DEF LocksInv
<1>2. step[p] = "plan"
  <2>1. Transaction(p)
    BY DEF TransInv
  <2> QED BY <2>1 DEF PatchArrives, PatchAsks, PatchTimeout, Transaction, Ask, ToolsTimeout
<1>3. /\ Owns(p) /\ before[p] \in [Keys(p) -> Contents] /\ Shape(work[p])
      /\ Phase(p, "plan", work[p], before[p], outcome[p], files)
      /\ files \in [Paths -> Contents]
  BY <1>2, AtWork DEF Working
<1>4. /\ UNCHANGED <<scenario, locking, before, work, files>>
      /\ Arrive(p) \/ Ask(p) \/ ToolsTimeout(p)
  BY DEF PatchArrives, PatchAsks, PatchTimeout, Untouched
<1>5. \A q \in Calls \ {p} : stage'[q] = stage[q] \/ stage[q] \in {"child", "tools"}
  BY <1>1, <1>4, OthersStay DEF LocksInv
<1>6. work' = [work EXCEPT ![p] = work[p]]
  BY <1>1, <1>4 DEF TransInv
<1>7. CASE PatchArrives(p) \/ PatchAsks(p)
  <2>1. step' = [step EXCEPT ![p] = "plan"] /\ outcome' = [outcome EXCEPT ![p] = outcome[p]]
    BY <1>1, <1>2, <1>7 DEF PatchArrives, PatchAsks, TransInv, LocksInv, LocksTyped
  <2>2. "plan" \in Working
    BY DEF Working
  <2> QED BY <1>3, <1>4, <1>5, <1>6, <2>1, <2>2, OwnStep
<1>8. CASE PatchTimeout(p)
  <2>1. step' = [step EXCEPT ![p] = "unlock"] /\ outcome' = [outcome EXCEPT ![p] = "timedOut"]
    BY <1>8 DEF PatchTimeout, Goto
  <2>2. OriginalsThere(p, work[p], before[p], files)
    BY <1>3 DEF Phase, Fresh, OriginalsThere
  <2>3. Phase(p, "unlock", work[p], before[p], "timedOut", files)
    BY <2>2 DEF Phase
  <2>4. stage'[p] \notin {"child", "asks", "tools"}
    BY <1>1, <1>8 DEF PatchTimeout, ToolsTimeout, LeaveChild, Advance
  <2> QED BY <1>3, <1>4, <1>5, <1>6, <2>1, <2>3, <2>4, OwnStep
<1> QED BY <1>7, <1>8

(* Going back to the last touched change at or before i.                   *)
LEMMA UndoStep ==
  ASSUME LocksInv, TransInv, NEW p \in Patches, step[p] \in Working, stage[p] = "runs", Inside,
         NEW w, Shape(w), NEW F \in [Paths -> Contents], files' = F,
         \A k \in Paths \ Keys(p) : F[k] = files[k],
         Plans(p, w, before[p], Len(Ops(p))),
         NEW i \in 0..Len(w.changes), Rolling(p, w, before[p], F, i), Undo(p, w, i)
  PROVE  TransInv'
<1> DEFINE T == {j \in 1..i : w.changes[j].path \in w.touched}
           B == before[p]
<1>1. Len(w.changes) \in Nat /\ DOMAIN w.changes = 1..Len(w.changes)
  BY LenProperties DEF Shape
<1>2. CASE T = {}
  <2>1. Doing(p, w) /\ Goto(p, "undone")
    BY <1>2 DEF Undo
  <2>2. Rolling(p, w, B, F, 0)
    BY <1>1, <1>2 DEF Rolling
  <2>3. Phase(p, "undone", w, B, outcome[p], F)
    BY <2>2 DEF Phase
  <2>4. "undone" \in Working
    BY DEF Working
  <2> QED BY <2>1, <2>3, <2>4, InsideStep
<1>3. CASE T # {}
  <2>1. Doing(p, [w EXCEPT !.at = Max(T)]) /\ Goto(p, "remove")
    BY <1>3 DEF Undo
  <2>2. \E m \in T : \A j \in T : j <= m
    <3>1. T \in SUBSET Nat /\ i \in Nat /\ \A j \in T : j <= i
      BY <1>1
    <3> HIDE DEF T
    <3> QED BY <1>3, <3>1, GreatestNumber
  <2>3. Max(T) \in T /\ \A j \in T : j <= Max(T)
    <3>1. T \subseteq Int
      BY <1>1
    <3>2. \E m \in T : \A j \in T : m >= j
      BY <2>2, <3>1
    <3> HIDE DEF T
    <3> QED BY <3>2, <3>1 DEF Max
  <2>4. PICK m : m = Max(T)
    OBVIOUS
  <2>5. /\ m \in DOMAIN w.changes /\ m <= i /\ w.changes[m].path \in w.touched
        /\ \A j \in DOMAIN w.changes : w.changes[j].path \in w.touched /\ j > m => j > i
    <3>1. m \in T /\ \A j \in T : j <= m
      BY <2>3, <2>4
    <3>2. m \in 1..i /\ i \in Nat /\ i <= Len(w.changes) /\ w.changes[m].path \in w.touched
      BY <1>1, <3>1
    <3>3. ASSUME NEW j \in DOMAIN w.changes, w.changes[j].path \in w.touched, j > m PROVE j > i
      <4>1. j \in 1..i => j \in T
        BY <3>3
      <4>2. j \in Nat \ {0}
        BY <1>1
      <4> HIDE DEF T
      <4> QED BY <3>1, <3>2, <3>3, <4>1, <4>2
    <3> QED BY <1>1, <3>2, <3>3
  <2> DEFINE v == [w EXCEPT !.at = m]
  <2>6. /\ v.changes = w.changes /\ v.at = m /\ v.backups = w.backups /\ v.touched = w.touched
        /\ v.incomplete = w.incomplete /\ Shape(v)
    BY <1>1, <2>5 DEF Shape
  <2>7. Doing(p, v)
    BY <2>1, <2>4
  <2> HIDE DEF v
  <2>8. Backed(p, v, B, F) /\ OriginalsThere(p, v, B, F)
    BY <2>6 DEF Rolling, Backed, OriginalsThere
  <2>9. Rolling(p, v, B, F, m)
    BY <1>1, <2>5, <2>6, <2>8 DEF Rolling
  <2>10. Plans(p, v, B, Len(Ops(p)))
    BY <2>6, SamePlans
  <2>11. Phase(p, "remove", v, B, outcome[p], F)
    BY <2>5, <2>6, <2>9, <2>10 DEF Phase
  <2>12. "remove" \in Working
    BY DEF Working
  <2>13. Goto(p, "remove")
    BY <2>1
  <2> HIDE DEF T, B
  <2> QED BY <2>6, <2>7, <2>11, <2>12, <2>13, InsideStep DEF B
<1> QED BY <1>2, <1>3

(* The operation planned next applies to what the files were.              *)
LEMMA PlanTransaction ==
  ASSUME LocksInv, TransInv, NEW p \in Patches, Plan(p)
  PROVE  TransInv'
<1> DEFINE w == work[p]
           B == before[p]
           n == Len(Ops(p))
           op == Ops(p)[w.at]
           old == IF B[op.path] = None THEN <<>> ELSE B[op.path]
           more == Changes(op, p)
           v == [w EXCEPT !.changes = w.changes \o more, !.at = IF w.at = n THEN 1 ELSE w.at + 1]
           s == IF w.at = n THEN "stage" ELSE "plan"
<1>1. /\ step[p] = "plan" /\ stage[p] = "runs" /\ Inside /\ Fits(op) /\ UNCHANGED files
      /\ Doing(p, v) /\ Goto(p, s)
  BY DEF Plan, Does
<1>2. step[p] \in Working
  BY <1>1 DEF Working
<1>3. /\ p \in Calls /\ B \in [Keys(p) -> Contents] /\ Shape(w)
      /\ w.at \in 1..n /\ Fresh(p, w, B, files) /\ Plans(p, w, B, w.at - 1)
      /\ files \in [Paths -> Contents] /\ n \in Nat
  BY <1>1, <1>2, AtWork, OpsTyped DEF Phase, LocksInv
<1>4. /\ op \in Operations /\ Targets(op) \subseteq Keys(p) /\ Keys(p) \subseteq Paths
      /\ \A i \in 1..n : i # w.at => Targets(Ops(p)[i]) \cap Targets(op) = {}
  <2>1. DOMAIN Ops(p) = 1..n
    BY OpsTyped, LenProperties DEF LocksInv
  <2> QED BY <1>3, <2>1, OpsTyped DEF LocksInv
<1>5. /\ op.path \in Keys(p) /\ files[op.path] = B[op.path] /\ op.path \in Targets(op)
      /\ op.kind = "move" => op.to \in Keys(p) /\ files[op.to] = B[op.to] /\ op.to \in Targets(op)
      /\ op.kind \in Kinds
  <2>1. op.path \in Targets(op) /\ (op.kind = "move" => op.to \in Targets(op)) /\ op.kind \in Kinds
    BY <1>4 DEF Operations, Targets, Kinds
  <2> QED BY <1>3, <1>4, <2>1 DEF Fresh
<1>6. old \in Seq(Calls) /\ Append(old, p) \in Seq(Calls) /\ None \in Contents
      /\ Append(old, p) \in Contents
  <2>1. B[op.path] \in Contents
    BY <1>3, <1>5
  <2>2. <<>> \in Seq(Calls)
    BY EmptySeq
  <2>3. old \in Seq(Calls)
    BY <2>1, <2>2 DEF Contents
  <2> HIDE DEF old
  <2>4. Append(old, p) \in Seq(Calls)
    BY <1>3, <2>3, AppendProperties
  <2> QED BY <2>3, <2>4 DEF Contents
<1> DEFINE new == Result(p, op, B)
           m == Len(w.changes)
<1>7. /\ more \in Seq(Change) /\ Len(more) \in {1, 2}
      /\ more[1] = [path |-> Goal(op), content |-> new]
      /\ Len(more) = 2 => /\ op.kind = "move" /\ op.to # op.path
                          /\ more[2] = [path |-> op.path, content |-> None]
      /\ op.kind = "move" => Len(more) = 2
  <2>1. CASE op.kind = "delete"
    <3>1. more = <<[path |-> op.path, content |-> None]>>
      BY <1>5, <2>1 DEF Changes
    <3>2. new = None /\ Goal(op) = op.path
      BY <2>1 DEF Result, Goal
    <3>3. [path |-> op.path, content |-> None] \in Change
      BY <1>4, <1>5, <1>6 DEF Change
    <3> HIDE DEF more, new
    <3> QED BY <2>1, <3>1, <3>2, <3>3
  <2>2. CASE op.kind = "move"
    <3>1. more = <<[path |-> op.to, content |-> Append(old, p)], [path |-> op.path, content |-> None]>>
      BY <1>5, <2>2, Zenon DEF Changes
    <3>2. new = Append(old, p) /\ Goal(op) = op.to
      BY <2>2 DEF Result, Goal
    <3>3. /\ [path |-> op.path, content |-> None] \in Change
          /\ [path |-> op.to, content |-> Append(old, p)] \in Change
      BY <1>4, <1>5, <1>6, <2>2 DEF Change
    <3>4. op.to # op.path
      BY <1>1, <2>2 DEF Fits
    <3> HIDE DEF more, new, old, op
    <3> QED BY <2>2, <3>1, <3>2, <3>3, <3>4, SMTT(30)
  <2>3. CASE op.kind \notin {"delete", "move"}
    <3>1. more = <<[path |-> op.path, content |-> Append(old, p)]>>
      BY <1>5, <2>3, Zenon DEF Changes
    <3>2. new = Append(old, p) /\ Goal(op) = op.path
      BY <2>3 DEF Result, Goal
    <3>3. [path |-> op.path, content |-> Append(old, p)] \in Change
      BY <1>4, <1>5, <1>6 DEF Change
    <3> HIDE DEF more, new, old, op
    <3> QED BY <2>3, <3>1, <3>2, <3>3, SMTT(30)
  <2> QED BY <2>1, <2>2, <2>3
<1>8. /\ op.kind = "add" => B[op.path] = None
      /\ op.kind = "move" => B[op.to] = None
  BY <1>1, <1>5 DEF Fits
<1>9. /\ v.changes = w.changes \o more /\ v.at = (IF w.at = n THEN 1 ELSE w.at + 1)
      /\ v.backups = w.backups /\ v.touched = w.touched /\ v.incomplete = w.incomplete
      /\ v = [changes |-> v.changes, at |-> v.at, backups |-> v.backups, touched |-> v.touched,
              incomplete |-> v.incomplete]
  <2>1. PICK a : a = IF w.at = n THEN 1 ELSE w.at + 1
    OBVIOUS
  <2>2. PICK c : c = w.changes \o more
    OBVIOUS
  <2>3. v = [w EXCEPT !.changes = c, !.at = a]
    BY <2>1, <2>2
  <2>4. w = [changes |-> w.changes, at |-> w.at, backups |-> w.backups, touched |-> w.touched,
             incomplete |-> w.incomplete]
    BY <1>3 DEF Shape
  <2> HIDE DEF more, op, n, w, v
  <2>5. v.changes = c /\ v.at = a
    BY <2>3, <2>4
  <2>6. v.backups = w.backups /\ v.touched = w.touched /\ v.incomplete = w.incomplete
    BY <2>3, <2>4
  <2>7. v = [changes |-> v.changes, at |-> v.at, backups |-> v.backups, touched |-> v.touched,
             incomplete |-> v.incomplete]
    BY <2>3, <2>4
  <2> QED BY <2>1, <2>2, <2>5, <2>6, <2>7
<1>10. w.changes \in Seq(Change) /\ m \in Nat
  BY <1>3, LenProperties DEF Shape
<1> HIDE DEF more, op, new, old, v
<1>11. /\ v.changes \in Seq(Change)
       /\ DOMAIN w.changes = 1..m /\ DOMAIN v.changes = 1..(m + Len(more))
       /\ \A j \in 1..m : v.changes[j] = w.changes[j]
       /\ v.changes[m + 1] = more[1]
       /\ Len(more) = 2 => v.changes[m + 2] = more[2]
  <2>1. /\ w.changes \o more \in Seq(Change) /\ Len(w.changes \o more) = m + Len(more)
        /\ \A j \in 1..(m + Len(more)) :
             (w.changes \o more)[j] = IF j <= m THEN w.changes[j] ELSE more[j - m]
    BY <1>7, <1>10, ConcatProperties
  <2>2. DOMAIN w.changes = 1..m /\ DOMAIN (w.changes \o more) = 1..(m + Len(more))
    BY <1>10, <2>1, LenProperties
  <2> HIDE DEF m, w
  <2> QED BY <1>7, <1>9, <1>10, <2>1, <2>2, SMTT(30)
<1>12. Shape(v)
  BY <1>3, <1>9, <1>11, SMTT(30) DEF Shape
<1>13. Fresh(p, v, B, files)
  BY <1>3, <1>9 DEF Fresh
<1>14. Plans(p, v, B, w.at)
  <2>1. ASSUME NEW i \in 1..w.at PROVE Planned(p, Ops(p)[i], v, B)
    <3>1. CASE i = w.at
      <4>1. v.changes[m + 1] = [path |-> Goal(op), content |-> new] /\ m + 1 \in DOMAIN v.changes
        BY <1>7, <1>10, <1>11
      <4>2. op.kind = "move" =>
              m + 2 \in DOMAIN v.changes /\ v.changes[m + 2] = [path |-> op.path, content |-> None]
        <5> SUFFICES ASSUME op.kind = "move"
                     PROVE  /\ m + 2 \in DOMAIN v.changes
                            /\ v.changes[m + 2] = [path |-> op.path, content |-> None]
          OBVIOUS
        <5> HIDE DEF m, w
        <5>1. Len(more) = 2
          BY <1>7
        <5>2. DOMAIN v.changes = 1..(m + 2)
          BY <1>11, <5>1
        <5> QED BY <1>7, <1>10, <1>11, <5>1, <5>2
      <4>3. Planned(p, op, v, B)
        BY <1>8, <4>1, <4>2 DEF Planned, new
      <4> QED BY <3>1, <4>3 DEF op
    <3>2. CASE i # w.at
      <4>1. i \in 1..(w.at - 1)
        BY <1>3, <3>2
      <4>2. Planned(p, Ops(p)[i], w, B)
        BY <1>3, <4>1 DEF Plans
      <4>3. \A j \in DOMAIN w.changes : j \in DOMAIN v.changes /\ v.changes[j] = w.changes[j]
        BY <1>7, <1>10, <1>11
      <4> QED BY <4>2, <4>3 DEF Planned
    <3> QED BY <3>1, <3>2
  <2>2. ASSUME NEW j \in DOMAIN v.changes
        PROVE  \/ /\ j \in 1..m /\ v.changes[j] = w.changes[j]
                  /\ \E i \in 1..(w.at - 1) : w.changes[j].path \in Targets(Ops(p)[i])
               \/ /\ j = m + 1 /\ v.changes[j].path = Goal(op)
               \/ /\ j = m + 2 /\ v.changes[j].path = op.path /\ op.kind = "move" /\ op.to # op.path
    <3>1. j \in 1..m \/ j = m + 1 \/ (j = m + 2 /\ Len(more) = 2)
      <4> HIDE DEF m, w
      <4>1. PICK l : l = Len(more)
        OBVIOUS
      <4>2. l = 1 \/ l = 2
        BY <1>7, <4>1
      <4>3. j \in 1..(m + l)
        BY <1>11, <4>1
      <4> QED BY <1>10, <4>1, <4>2, <4>3
    <3>2. j \in 1..m => /\ v.changes[j] = w.changes[j]
                        /\ \E i \in 1..(w.at - 1) : w.changes[j].path \in Targets(Ops(p)[i])
      BY <1>3, <1>11 DEF Plans
    <3> QED BY <1>7, <1>11, <3>1, <3>2
  <2>3. Goal(op) \in Targets(op)
    BY <1>5 DEF Goal
  <2>4. ASSUME NEW j \in DOMAIN v.changes
        PROVE  \E i \in 1..w.at : /\ v.changes[j].path \in Targets(Ops(p)[i])
                                  /\ j \in 1..m => i # w.at
                                  /\ j \notin 1..m => i = w.at
    <3>1. CASE j \in 1..m
      <4>1. PICK i \in 1..(w.at - 1) : v.changes[j].path \in Targets(Ops(p)[i])
        BY <1>10, <2>2, <3>1
      <4>2. i \in 1..w.at /\ i # w.at
        BY <1>3
      <4> QED BY <3>1, <4>1, <4>2
    <3>2. CASE j \notin 1..m
      <4>1. v.changes[j].path \in Targets(op)
        BY <1>5, <2>2, <2>3, <3>2
      <4>2. w.at \in 1..w.at
        BY <1>3
      <4> QED BY <3>2, <4>1, <4>2 DEF op
    <3> QED BY <3>1, <3>2
  <2>5. ASSUME NEW i \in DOMAIN v.changes, NEW j \in DOMAIN v.changes,
               v.changes[i].path = v.changes[j].path, i # j
        PROVE  FALSE
    <3>1. CASE i \in 1..m /\ j \in 1..m
      <4>1. i \in DOMAIN w.changes /\ j \in DOMAIN w.changes /\ w.changes[i].path = w.changes[j].path
        BY <1>11, <2>5, <3>1
      <4> QED BY <1>3, <2>5, <4>1 DEF Plans
    <3>2. CASE i \notin 1..m /\ j \notin 1..m
      BY <1>10, <2>2, <2>5, <3>2 DEF Goal
    <3>3. ASSUME NEW a \in DOMAIN v.changes, NEW b \in DOMAIN v.changes, a \in 1..m, b \notin 1..m,
                 v.changes[a].path = v.changes[b].path
          PROVE  FALSE
      <4>1. PICK x \in 1..w.at : v.changes[a].path \in Targets(Ops(p)[x]) /\ x # w.at
        BY <2>4, <3>3
      <4>2. v.changes[b].path \in Targets(op)
        BY <2>4, <3>3 DEF op
      <4>3. x \in 1..n
        BY <1>3
      <4> QED BY <1>4, <3>3, <4>1, <4>2, <4>3
    <3> QED BY <2>5, <3>1, <3>2, <3>3
  <2> HIDE DEF w, m
  <2> QED BY <2>1, <2>4, <2>5 DEF Plans
<1>15. Phase(p, s, v, B, outcome[p], files)
  <2>1. CASE w.at = n
    <3>1. s = "stage" /\ v.at = 1 /\ Plans(p, v, B, n)
      BY <1>9, <1>14, <2>1
    <3> HIDE DEF s, w, n
    <3> QED BY <1>13, <3>1 DEF Phase, n
  <2>2. CASE w.at # n
    <3>1. s = "plan" /\ v.at \in 1..n /\ v.at - 1 = w.at
      BY <1>3, <1>9, <2>2
    <3> HIDE DEF s, n
    <3> QED BY <1>13, <1>14, <3>1 DEF Phase, n
  <2> QED BY <2>1, <2>2
<1>16. s \in Working
  BY DEF Working
<1> HIDE DEF s, w, n
<1> QED BY <1>1, <1>2, <1>3, <1>12, <1>15, <1>16, InsideStep DEF B

LEMMA PlanFailsTransaction ==
  ASSUME LocksInv, TransInv, NEW p \in Patches, PlanFails(p)
  PROVE  TransInv'
<1>1. /\ step[p] \in {"plan", "stage"} /\ End(p, "failed") /\ UNCHANGED <<work, files>>
  BY DEF PlanFails, Does
<1>2. step[p] \in Working
  BY <1>1 DEF Working
<1>3. Shape(work[p]) /\ Fresh(p, work[p], before[p], files) /\ p \in Calls
  BY <1>1, <1>2, AtWork DEF Phase
<1>4. OriginalsThere(p, work[p], before[p], files)
  BY <1>3 DEF Fresh, OriginalsThere
<1>5. Doing(p, work[p])
  BY <1>1, <1>3 DEF Doing, TransInv
<1> QED BY <1>1, <1>2, <1>3, <1>4, <1>5, EndStep

(* The patch is planned, so there is a change to begin with.               *)
LEMMA StageTransaction ==
  ASSUME LocksInv, TransInv, NEW p \in Patches, Stage(p)
  PROVE  TransInv'
<1> DEFINE w == work[p]
           B == before[p]
<1>1. /\ step[p] = "stage" /\ stage[p] = "runs" /\ Inside /\ UNCHANGED <<work, files>>
      /\ Goto(p, "backup")
  BY DEF Stage, Does
<1>2. step[p] \in Working /\ "backup" \in Working
  BY <1>1 DEF Working
<1>3. /\ p \in Calls /\ Shape(w) /\ files \in [Paths -> Contents]
      /\ w.at = 1 /\ Fresh(p, w, B, files) /\ Plans(p, w, B, Len(Ops(p)))
      /\ DOMAIN w.changes = 1..Len(w.changes) /\ Len(w.changes) \in Nat
  BY <1>1, <1>2, AtWork DEF Phase
<1>4. 1 \in DOMAIN w.changes
  <2>1. 1 \in 1..Len(Ops(p))
    BY OpsTyped DEF LocksInv
  <2>2. PICK j : j \in DOMAIN w.changes
    BY <1>3, <2>1 DEF Plans, Planned
  <2> HIDE DEF w
  <2> QED BY <1>3, <2>2
<1>5. \A j \in DOMAIN w.changes : w.changes[j].path \in Keys(p)
  <2>1. Len(Ops(p)) \in 0..Len(Ops(p)) /\ GatesInv
    BY OpsTyped DEF LocksInv
  <2> HIDE DEF w
  <2> QED BY <1>3, <2>1, ChangesInKeys
<1>6. Committing(p, w, B, files)
  <2>1. DOMAIN w.backups = {} /\ w.touched = {} /\ ~w.incomplete
    <3>1. DOMAIN <<>> = {}
      BY EmptySeq, LenProperties
    <3> QED BY <1>3, <3>1 DEF Fresh
  <2>2. \A j \in DOMAIN w.changes : ~(j < w.at)
    <3> HIDE DEF w
    <3> QED BY <1>3
  <2>3. Backed(p, w, B, files)
    BY <1>3, <2>1 DEF Backed, Fresh
  <2> QED BY <2>1, <2>2, <2>3 DEF Committing
<1>7. w.changes[w.at].path \notin w.touched
  BY <1>3 DEF Fresh
<1>8. Phase(p, "backup", w, B, outcome[p], files)
  BY <1>3, <1>4, <1>6, <1>7 DEF Phase
<1>9. Doing(p, w)
  BY <1>1, <1>3 DEF Doing, TransInv
<1> QED BY <1>1, <1>2, <1>3, <1>8, <1>9, InsideStep

(* The change at w.at is in place: on to the next one.                     *)
LEMMA NextStep ==
  ASSUME LocksInv, TransInv, NEW p \in Patches, step[p] \in Working, stage[p] = "runs", Inside,
         NEW w, Shape(w), NEW F \in [Paths -> Contents], files' = F,
         \A k \in Paths \ Keys(p) : F[k] = files[k],
         Plans(p, w, before[p], Len(Ops(p))), w.at \in DOMAIN w.changes,
         Committing(p, w, before[p], F), F[w.changes[w.at].path] = w.changes[w.at].content,
         NextChange(p, w)
  PROVE  TransInv'
<1> DEFINE B == before[p]
           v == [w EXCEPT !.at = w.at + 1]
           s == IF w.at = Len(w.changes) THEN "clean" ELSE "backup"
<1>1. Doing(p, v) /\ Goto(p, s)
  BY DEF NextChange
<1>2. Len(w.changes) \in Nat /\ DOMAIN w.changes = 1..Len(w.changes) /\ w.at \in Nat
  BY LenProperties DEF Shape
<1>3. /\ v.changes = w.changes /\ v.at = w.at + 1 /\ v.backups = w.backups
      /\ v.touched = w.touched /\ v.incomplete = w.incomplete /\ Shape(v)
  BY <1>2 DEF Shape
<1> HIDE DEF v
<1>4. Plans(p, v, B, Len(Ops(p)))
  BY <1>3, SamePlans
<1>5. Backed(p, v, B, F) /\ ~v.incomplete
  BY <1>3 DEF Committing, Backed
<1>6. Committing(p, v, B, F)
  <2>1. ASSUME NEW j \in DOMAIN w.changes
        PROVE  /\ j < w.at + 1 => F[w.changes[j].path] = w.changes[j].content
               /\ j > w.at + 1 => w.changes[j].path \notin w.touched
    <3>1. j < w.at + 1 => j < w.at \/ j = w.at
      BY <1>2
    <3>2. j > w.at + 1 => j > w.at
      BY <1>2
    <3> QED BY <3>1, <3>2 DEF Committing
  <2> QED BY <1>3, <1>5, <2>1 DEF Committing
<1>7. s = "clean" => v.at > Len(v.changes)
  BY <1>2, <1>3
<1>8. s = "backup" => v.at \in DOMAIN v.changes /\ v.changes[v.at].path \notin v.touched
  <2> SUFFICES ASSUME s = "backup" PROVE v.at \in DOMAIN v.changes /\ v.changes[v.at].path \notin v.touched
    OBVIOUS
  <2>1. w.at + 1 \in DOMAIN w.changes /\ w.at + 1 > w.at
    BY <1>2
  <2> QED BY <1>3, <2>1 DEF Committing
<1>9. s \in {"clean", "backup"} /\ s \in Working
  BY DEF Working
<1> HIDE DEF s
<1>10. Phase(p, s, v, B, outcome[p], F)
  BY <1>4, <1>6, <1>7, <1>8, <1>9 DEF Phase
<1> QED BY <1>1, <1>3, <1>9, <1>10, InsideStep DEF B

(* A patch that commits.                                                   *)
LEMMA AtCommit ==
  ASSUME LocksInv, TransInv, NEW p \in Patches, step[p] \in {"backup", "rename", "remove", "restore"}
  PROVE  /\ step[p] \in Working /\ p \in Calls /\ Shape(work[p])
         /\ Plans(p, work[p], before[p], Len(Ops(p)))
         /\ work[p].at \in DOMAIN work[p].changes
         /\ \A j \in DOMAIN work[p].changes :
              /\ work[p].changes[j].path \in Keys(p) /\ work[p].changes[j] \in Change
              /\ work[p].changes[j].path = work[p].changes[work[p].at].path => j = work[p].at
         /\ Keys(p) \subseteq Paths /\ files \in [Paths -> Contents]
         /\ before[p] \in [Keys(p) -> Contents]
         /\ DOMAIN work[p].changes = 1..Len(work[p].changes) /\ Len(work[p].changes) \in Nat
<1>1. step[p] \in Working
  BY DEF Working
<1>2. Phase(p, step[p], work[p], before[p], outcome[p], files) /\ Shape(work[p])
  BY <1>1, AtWork
<1>3. Plans(p, work[p], before[p], Len(Ops(p))) /\ work[p].at \in DOMAIN work[p].changes
  BY <1>2 DEF Phase
<1>4. \A j \in DOMAIN work[p].changes : work[p].changes[j].path \in Keys(p)
  <2>1. Len(Ops(p)) \in 0..Len(Ops(p)) /\ GatesInv
    BY OpsTyped DEF LocksInv
  <2> QED BY <1>3, <2>1, ChangesInKeys
<1>5. \A j \in DOMAIN work[p].changes : work[p].changes[j] \in Change
  <2>1. work[p].changes \in Seq(Change)
    BY <1>2 DEF Shape
  <2> QED BY <2>1, LenProperties
<1>6. \A j \in DOMAIN work[p].changes :
        work[p].changes[j].path = work[p].changes[work[p].at].path => j = work[p].at
  BY <1>3 DEF Plans
<1> QED BY <1>1, <1>2, <1>3, <1>4, <1>5, <1>6, AtWork

(* The original is moved aside.                                            *)
LEMMA BackupTransaction ==
  ASSUME LocksInv, TransInv, NEW p \in Patches, Backup(p)
  PROVE  TransInv'
<1> DEFINE w == work[p]
           B == before[p]
           c == w.changes[w.at]
           k == c.path
           F == [files EXCEPT ![k] = None]
           v == IF files[k] = None THEN w ELSE Kept(w, k)
<1>1. /\ step[p] = "backup" /\ stage[p] = "runs" /\ Inside /\ files' = F
      /\ IF c.content = None THEN NextChange(p, v) ELSE Doing(p, v) /\ Goto(p, "rename")
  BY DEF Backup, Does
<1>2. /\ step[p] \in Working /\ p \in Calls /\ Shape(w) /\ Plans(p, w, B, Len(Ops(p)))
      /\ w.at \in DOMAIN w.changes /\ k \in Keys(p) /\ c \in Change
      /\ \A j \in DOMAIN w.changes : w.changes[j].path = k => j = w.at
      /\ Keys(p) \subseteq Paths /\ files \in [Paths -> Contents]
  BY <1>1, AtCommit
<1>3. Committing(p, w, B, files) /\ k \notin w.touched
  BY <1>1, <1>2, AtWork DEF Phase
<1>4. /\ F \in [Paths -> Contents] /\ F[k] = None
      /\ \A x \in Paths : x # k => F[x] = files[x]
  BY <1>2 DEF Contents
<1>5. files[k] = B[k]
  BY <1>2, <1>3, SMTT(30) DEF Committing, Backed
<1>6. /\ v.changes = w.changes /\ v.at = w.at /\ v.incomplete = w.incomplete /\ Shape(v)
      /\ v.touched = (IF B[k] = None THEN w.touched ELSE w.touched \cup {k})
      /\ B[k] = None => v.backups = w.backups
      /\ B[k] # None => /\ DOMAIN v.backups = DOMAIN w.backups \cup {k} /\ v.backups[k] = B[k]
                        /\ \A x \in DOMAIN w.backups : v.backups[x] = w.backups[x]
  <2>1. CASE B[k] = None
    BY <1>2, <1>5, <2>1
  <2>2. CASE B[k] # None
    <3>1. PICK b : b = Extend(w.backups, k, files[k])
      OBVIOUS
    <3>2. k \notin DOMAIN w.backups
      BY <1>3 DEF Committing, Backed
    <3>3. /\ DOMAIN b = DOMAIN w.backups \cup {k} /\ b[k] = B[k]
          /\ \A x \in DOMAIN w.backups : b[x] = w.backups[x]
      <4> HIDE DEF w, k, B
      <4> QED BY <1>5, <3>1, <3>2, SMTT(30) DEF Extend
    <3>4. v = [w EXCEPT !.backups = b, !.touched = w.touched \cup {k}]
      BY <1>5, <2>2, <3>1 DEF Kept
    <3>5. PICK t : t = w.touched \cup {k}
      OBVIOUS
    <3>6. v = [w EXCEPT !.backups = b, !.touched = t]
      BY <3>4, <3>5
    <3> HIDE DEF v, w, k, B
    <3>7. /\ v.changes = w.changes /\ v.at = w.at /\ v.incomplete = w.incomplete
          /\ v.backups = b /\ v.touched = t /\ Shape(v)
      BY <1>2, <3>6 DEF Shape
    <3> QED BY <2>2, <3>3, <3>5, <3>7
  <2> QED BY <2>1, <2>2, Zenon
<1> HIDE DEF v, F, w
<1>7. Plans(p, v, B, Len(Ops(p)))
  BY <1>2, <1>6, SamePlans
<1>8. Committing(p, v, B, F)
  <2>1. Backed(p, v, B, F)
    <3>1. /\ DOMAIN w.backups \subseteq w.touched
          /\ \A x \in DOMAIN w.backups : w.backups[x] = B[x]
          /\ \A x \in w.touched : \E j \in DOMAIN w.changes : w.changes[j].path = x
          /\ \A x \in Keys(p) \ w.touched : files[x] = B[x]
      BY <1>3 DEF Committing, Backed
    <3>2. DOMAIN v.backups \subseteq v.touched /\ \A x \in DOMAIN v.backups : v.backups[x] = B[x]
      BY <1>6, <3>1
    <3>3. \A x \in v.touched : \E j \in DOMAIN v.changes : v.changes[j].path = x
      BY <1>2, <1>6, <3>1
    <3>4. \A x \in Keys(p) \ v.touched : F[x] = B[x]
      BY <1>2, <1>4, <1>6, <3>1
    <3> QED BY <3>2, <3>3, <3>4 DEF Backed
  <2>2. \A x \in v.touched : B[x] # None => x \in DOMAIN v.backups
    BY <1>3, <1>6 DEF Committing
  <2>3. ASSUME NEW j \in DOMAIN w.changes
        PROVE  /\ j < w.at => F[w.changes[j].path] = w.changes[j].content
               /\ j > w.at => w.changes[j].path \notin v.touched
    <3>1. w.at \in Nat /\ j \in Nat
      BY <1>2, LenProperties DEF Shape
    <3>2. w.changes[j].path \in Paths
      BY <1>1, <1>2, AtCommit DEF w
    <3>3. j # w.at => w.changes[j].path # k
      BY <1>2
    <3>4. /\ j < w.at => files[w.changes[j].path] = w.changes[j].content
          /\ j > w.at => w.changes[j].path \notin w.touched
      BY <1>3 DEF Committing
    <3>5. j < w.at => F[w.changes[j].path] = w.changes[j].content
      BY <1>4, <3>1, <3>2, <3>3, <3>4
    <3>6. j > w.at => w.changes[j].path \notin v.touched
      BY <1>6, <3>1, <3>3, <3>4
    <3> QED BY <3>5, <3>6
  <2>4. ~v.incomplete
    BY <1>3, <1>6 DEF Committing
  <2> QED BY <1>6, <2>1, <2>2, <2>3, <2>4 DEF Committing
<1>9. \A x \in Paths \ Keys(p) : F[x] = files[x]
  BY <1>2, <1>4
<1>10. v.changes[v.at] = c
  BY <1>6
<1>11. CASE c.content = None
  <2>1. NextChange(p, v)
    BY <1>1, <1>11
  <2>2. F[v.changes[v.at].path] = v.changes[v.at].content /\ v.at \in DOMAIN v.changes
    BY <1>2, <1>4, <1>6, <1>10, <1>11
  <2> QED BY <1>1, <1>2, <1>4, <1>6, <1>7, <1>8, <1>9, <2>1, <2>2, NextStep
<1>12. CASE c.content # None
  <2>1. Doing(p, v) /\ Goto(p, "rename") /\ "rename" \in Working
    BY <1>1, <1>12 DEF Working
  <2>2. v.at \in DOMAIN v.changes /\ F[v.changes[v.at].path] = None
    BY <1>2, <1>4, <1>6, <1>10
  <2>3. Phase(p, "rename", v, B, outcome[p], F)
    BY <1>7, <1>8, <1>10, <1>12, <2>2 DEF Phase
  <2> QED BY <1>1, <1>2, <1>4, <1>6, <1>9, <2>1, <2>3, InsideStep
<1> QED BY <1>11, <1>12

(* The new content comes into place.                                       *)
LEMMA RenameTransaction ==
  ASSUME LocksInv, TransInv, NEW p \in Patches, Rename(p)
  PROVE  TransInv'
<1> DEFINE w == work[p]
           B == before[p]
           c == w.changes[w.at]
           k == c.path
           F == [files EXCEPT ![k] = c.content]
           v == [w EXCEPT !.touched = w.touched \cup {k}]
<1>1. /\ step[p] = "rename" /\ stage[p] = "runs" /\ Inside /\ files' = F /\ NextChange(p, v)
  BY DEF Rename, Does
<1>2. /\ step[p] \in Working /\ p \in Calls /\ Shape(w) /\ Plans(p, w, B, Len(Ops(p)))
      /\ w.at \in DOMAIN w.changes /\ k \in Keys(p) /\ c \in Change
      /\ \A j \in DOMAIN w.changes : w.changes[j].path = k => j = w.at
      /\ Keys(p) \subseteq Paths /\ files \in [Paths -> Contents]
  BY <1>1, AtCommit
<1>3. Committing(p, w, B, files) /\ files[k] = None
  BY <1>1, <1>2, AtWork DEF Phase
<1>4. /\ F \in [Paths -> Contents] /\ F[k] = c.content
      /\ \A x \in Paths : x # k => F[x] = files[x]
  BY <1>2 DEF Change
<1>5. PICK t : t = w.touched \cup {k}
  OBVIOUS
<1>6. /\ v.changes = w.changes /\ v.at = w.at /\ v.incomplete = w.incomplete /\ Shape(v)
      /\ v.touched = t /\ v.backups = w.backups
  <2>1. v = [w EXCEPT !.touched = t]
    BY <1>5
  <2> HIDE DEF v, w
  <2> QED BY <1>2, <2>1 DEF Shape
<1> HIDE DEF v, F, w
<1>7. Plans(p, v, B, Len(Ops(p)))
  BY <1>2, <1>6, SamePlans
<1>8. Committing(p, v, B, F)
  <2>1. /\ DOMAIN w.backups \subseteq w.touched
        /\ \A x \in DOMAIN w.backups : w.backups[x] = B[x]
        /\ \A x \in w.touched : \E j \in DOMAIN w.changes : w.changes[j].path = x
        /\ \A x \in Keys(p) \ w.touched : files[x] = B[x]
    BY <1>3 DEF Committing, Backed
  <2>2. Backed(p, v, B, F)
    BY <1>2, <1>4, <1>5, <1>6, <2>1 DEF Backed
  <2>3. k \notin w.touched => B[k] = None
    BY <1>2, <1>3, <2>1
  <2>4. \A x \in v.touched : B[x] # None => x \in DOMAIN v.backups
    BY <1>3, <1>5, <1>6, <2>3 DEF Committing
  <2>5. ASSUME NEW j \in DOMAIN w.changes
        PROVE  /\ j < w.at => F[w.changes[j].path] = w.changes[j].content
               /\ j > w.at => w.changes[j].path \notin v.touched
    <3>1. w.at \in Nat /\ j \in Nat
      BY <1>2, LenProperties DEF Shape
    <3>2. w.changes[j].path \in Paths
      BY <1>1, <1>2, AtCommit DEF w
    <3>3. j # w.at => w.changes[j].path # k
      BY <1>2
    <3>4. /\ j < w.at => files[w.changes[j].path] = w.changes[j].content
          /\ j > w.at => w.changes[j].path \notin w.touched
      BY <1>3 DEF Committing
    <3>5. j < w.at => F[w.changes[j].path] = w.changes[j].content
      BY <1>4, <3>1, <3>2, <3>3, <3>4
    <3>6. j > w.at => w.changes[j].path \notin v.touched
      BY <1>5, <1>6, <3>1, <3>3, <3>4
    <3> QED BY <3>5, <3>6
  <2>6. ~v.incomplete
    BY <1>3, <1>6 DEF Committing
  <2> QED BY <1>6, <2>2, <2>4, <2>5, <2>6 DEF Committing
<1>9. \A x \in Paths \ Keys(p) : F[x] = files[x]
  BY <1>2, <1>4
<1>10. F[v.changes[v.at].path] = v.changes[v.at].content /\ v.at \in DOMAIN v.changes
  BY <1>2, <1>4, <1>6
<1> QED BY <1>1, <1>2, <1>4, <1>6, <1>7, <1>8, <1>9, <1>10, NextStep

LEMMA CleanTransaction ==
  ASSUME LocksInv, TransInv, NEW p \in Patches, Clean(p)
  PROVE  TransInv'
<1> DEFINE v == [work[p] EXCEPT !.backups = <<>>]
<1>1. step[p] = "clean" /\ End(p, "applied") /\ Doing(p, v) /\ UNCHANGED files
  BY DEF Clean, Does
<1>2. step[p] \in Working
  BY <1>1 DEF Working
<1>3. Shape(work[p])
  BY <1>2, AtWork
<1>4. Shape(v)
  BY <1>3 DEF Shape
<1> HIDE DEF v
<1> QED BY <1>1, <1>2, <1>4, EndStep

(* A failure of the commit: the rollback begins.                           *)
LEMMA CommitFailsTransaction ==
  ASSUME LocksInv, TransInv, NEW p \in Patches, CommitFails(p)
  PROVE  TransInv'
<1> DEFINE w == work[p]
           B == before[p]
           i == Len(w.changes)
<1>1. /\ step[p] \in {"backup", "rename"} /\ stage[p] = "runs" /\ Inside /\ files' = files
      /\ Undo(p, w, i)
  BY DEF CommitFails, Does
<1>2. /\ step[p] \in Working /\ p \in Calls /\ Shape(w) /\ Plans(p, w, B, Len(Ops(p)))
      /\ files \in [Paths -> Contents]
      /\ DOMAIN w.changes = 1..i /\ i \in Nat
  BY <1>1, AtCommit
<1>3. Committing(p, w, B, files)
  BY <1>1, <1>2, AtWork DEF Phase
<1> HIDE DEF w, i
<1>4. OriginalsThere(p, w, B, files)
  BY <1>3 DEF Committing, Backed, OriginalsThere
<1>5. Rolling(p, w, B, files, i)
  <2>1. \A j \in DOMAIN w.changes : ~(j > i)
    BY <1>2
  <2> QED BY <1>3, <1>4, <2>1 DEF Committing, Rolling
<1>6. i \in 0..i
  BY <1>2
<1> QED BY <1>1, <1>2, <1>5, <1>6, UndoStep DEF i

(* The target of the change that is undone is removed.                     *)
LEMMA RemoveTransaction ==
  ASSUME LocksInv, TransInv, NEW p \in Patches, Remove(p)
  PROVE  TransInv'
<1> DEFINE w == work[p]
           B == before[p]
           k == w.changes[w.at].path
<1>1. PICK ok \in BOOLEAN :
        LET v == IF ok THEN work[p] ELSE [work[p] EXCEPT !.incomplete = TRUE] IN
        /\ IF ok THEN files' = [files EXCEPT ![k] = None] /\ UNCHANGED faults
                 ELSE UNCHANGED files /\ Fault
        /\ IF k \in DOMAIN v.backups THEN Doing(p, v) /\ Goto(p, "restore")
                                     ELSE Undo(p, v, v.at - 1)
  BY DEF Remove
<1> DEFINE v == IF ok THEN w ELSE [w EXCEPT !.incomplete = TRUE]
           F == IF ok THEN [files EXCEPT ![k] = None] ELSE files
<1>2. /\ step[p] = "remove" /\ stage[p] = "runs" /\ Inside /\ files' = F
      /\ IF k \in DOMAIN v.backups THEN Doing(p, v) /\ Goto(p, "restore")
                                   ELSE Undo(p, v, v.at - 1)
  BY <1>1 DEF Remove, Does
<1>3. /\ step[p] \in Working /\ p \in Calls /\ Shape(w) /\ Plans(p, w, B, Len(Ops(p)))
      /\ w.at \in DOMAIN w.changes /\ k \in Keys(p)
      /\ \A j \in DOMAIN w.changes : w.changes[j].path = k => j = w.at
      /\ \A j \in DOMAIN w.changes : w.changes[j].path \in Paths
      /\ Keys(p) \subseteq Paths /\ files \in [Paths -> Contents]
      /\ DOMAIN w.changes = 1..Len(w.changes) /\ Len(w.changes) \in Nat
  BY <1>2, AtCommit
<1>4. Rolling(p, w, B, files, w.at) /\ k \in w.touched
  BY <1>2, <1>3, AtWork DEF Phase
<1>5. /\ F \in [Paths -> Contents] /\ \A x \in Paths : x # k => F[x] = files[x]
      /\ ok => F[k] = None
  BY <1>3 DEF Contents
<1>6. /\ v.changes = w.changes /\ v.at = w.at /\ v.backups = w.backups /\ v.touched = w.touched
      /\ Shape(v) /\ v.incomplete = (IF ok THEN w.incomplete ELSE TRUE)
  BY <1>3 DEF Shape
<1> HIDE DEF v, F, w
<1>7. Plans(p, v, B, Len(Ops(p)))
  BY <1>3, <1>6, SamePlans
<1>8. Backed(p, v, B, F)
  BY <1>3, <1>4, <1>5, <1>6 DEF Rolling, Backed
<1>9. \A x \in Paths \ Keys(p) : F[x] = files[x]
  BY <1>3, <1>5
<1>10. (k \in DOMAIN w.backups /\ w.backups[k] = B[k]) \/ B[k] = None
  <2>1. w.at <= w.at
    BY <1>3
  <2> QED BY <1>3, <1>4, <2>1 DEF Rolling, Backed
<1>11. OriginalsThere(p, v, B, F)
  BY <1>3, <1>4, <1>5, <1>6, <1>10 DEF Rolling, OriginalsThere
<1>12. ASSUME NEW j \in DOMAIN w.changes, w.changes[j].path \in w.touched
       PROVE  /\ j <= w.at /\ B[w.changes[j].path] # None => w.changes[j].path \in DOMAIN w.backups
              /\ j > w.at /\ ~v.incomplete => F[w.changes[j].path] = B[w.changes[j].path]
  <2>1. j <= w.at /\ B[w.changes[j].path] # None => w.changes[j].path \in DOMAIN w.backups
    BY <1>4, <1>12 DEF Rolling
  <2>2. ASSUME j > w.at, ~v.incomplete PROVE F[w.changes[j].path] = B[w.changes[j].path]
    <3>1. w.changes[j].path # k
      BY <1>3, <2>2
    <3>2. files[w.changes[j].path] = B[w.changes[j].path]
      BY <1>4, <1>6, <1>12, <2>2 DEF Rolling
    <3> QED BY <1>3, <1>5, <3>1, <3>2
  <2> QED BY <2>1, <2>2
<1>13. CASE k \in DOMAIN w.backups
  <2>1. Doing(p, v) /\ Goto(p, "restore") /\ "restore" \in Working
    BY <1>2, <1>6, <1>13 DEF Working
  <2>2. Rolling(p, v, B, F, v.at)
    BY <1>6, <1>8, <1>11, <1>12 DEF Rolling
  <2>3. v.changes[v.at].path = k /\ k \in DOMAIN v.backups /\ v.at \in DOMAIN v.changes /\ k \in v.touched
    BY <1>3, <1>4, <1>6, <1>13
  <2>4. Phase(p, "restore", v, B, outcome[p], F)
    BY <1>7, <2>2, <2>3 DEF Phase
  <2> QED BY <1>2, <1>3, <1>5, <1>6, <1>9, <2>1, <2>4, InsideStep
<1>14. CASE k \notin DOMAIN w.backups
  <2> DEFINE i == v.at - 1
  <2>1. Undo(p, v, i)
    BY <1>2, <1>6, <1>14
  <2>2. i \in 0..Len(v.changes) /\ i = w.at - 1
    BY <1>3, <1>6
  <2>3. ASSUME NEW j \in DOMAIN w.changes, w.changes[j].path \in w.touched
        PROVE  /\ j <= i /\ B[w.changes[j].path] # None => w.changes[j].path \in DOMAIN w.backups
               /\ j > i /\ ~v.incomplete => F[w.changes[j].path] = B[w.changes[j].path]
    <3>1. (j <= i => j <= w.at) /\ (j > i => j > w.at \/ j = w.at)
      BY <1>3, <2>2
    <3>2. ~v.incomplete => F[k] = B[k]
      BY <1>5, <1>6, <1>10, <1>14
    <3> QED BY <1>12, <2>3, <3>1, <3>2
  <2> HIDE DEF i
  <2>4. Rolling(p, v, B, F, i)
    BY <1>6, <1>8, <1>11, <2>3 DEF Rolling
  <2> QED BY <1>2, <1>3, <1>5, <1>6, <1>7, <1>9, <2>1, <2>2, <2>4, UndoStep
<1> QED BY <1>13, <1>14

(* The backup becomes the target again, or stays where it is.              *)
LEMMA RestoreTransaction ==
  ASSUME LocksInv, TransInv, NEW p \in Patches, Restore(p)
  PROVE  TransInv'
<1> DEFINE w == work[p]
           B == before[p]
           k == w.changes[w.at].path
           i == w.at - 1
<1>1. step[p] = "restore" /\ stage[p] = "runs" /\ Inside
  BY DEF Restore, Does
<1>2. /\ step[p] \in Working /\ p \in Calls /\ Shape(w) /\ Plans(p, w, B, Len(Ops(p)))
      /\ w.at \in DOMAIN w.changes /\ k \in Keys(p)
      /\ \A j \in DOMAIN w.changes : w.changes[j].path = k => j = w.at
      /\ \A j \in DOMAIN w.changes : w.changes[j].path \in Paths
      /\ Keys(p) \subseteq Paths /\ files \in [Paths -> Contents] /\ B \in [Keys(p) -> Contents]
      /\ DOMAIN w.changes = 1..Len(w.changes) /\ Len(w.changes) \in Nat
  BY <1>1, AtCommit
<1>3. Rolling(p, w, B, files, w.at) /\ k \in DOMAIN w.backups
  BY <1>1, <1>2, AtWork DEF Phase
<1>4. w.backups[k] = B[k]
  BY <1>3 DEF Rolling, Backed
<1>5. i \in 0..Len(w.changes)
  BY <1>2
<1>6. CASE /\ files' = [files EXCEPT ![k] = w.backups[k]]
           /\ Undo(p, [w EXCEPT !.backups = Restrict(w.backups, DOMAIN w.backups \ {k})], i)
  <2> DEFINE F == [files EXCEPT ![k] = B[k]]
  <2>1. PICK b : b = Restrict(w.backups, DOMAIN w.backups \ {k})
    OBVIOUS
  <2> DEFINE v == [w EXCEPT !.backups = b]
  <2>2. files' = F /\ Undo(p, v, i)
    BY <1>4, <1>6, <2>1
  <2>3. /\ DOMAIN b = DOMAIN w.backups \ {k}
        /\ \A x \in DOMAIN b : b[x] = w.backups[x]
    BY <2>1 DEF Restrict
  <2>4. /\ v.changes = w.changes /\ v.at = w.at /\ v.backups = b /\ v.touched = w.touched
        /\ Shape(v) /\ v.incomplete = w.incomplete
    <3> HIDE DEF w
    <3> QED BY <1>2 DEF Shape
  <2>5. F \in [Paths -> Contents] /\ F[k] = B[k] /\ \A x \in Paths : x # k => F[x] = files[x]
    BY <1>2
  <2> HIDE DEF w, v, F, i
  <2>6. Backed(p, v, B, F)
    BY <1>2, <1>3, <2>3, <2>4, <2>5 DEF Rolling, Backed
  <2>7. OriginalsThere(p, v, B, F)
    BY <1>2, <1>3, <2>3, <2>4, <2>5 DEF Rolling, OriginalsThere
  <2>8. ASSUME NEW j \in DOMAIN w.changes, w.changes[j].path \in w.touched
        PROVE  /\ j <= i /\ B[w.changes[j].path] # None => w.changes[j].path \in DOMAIN b
               /\ j > i /\ ~v.incomplete => F[w.changes[j].path] = B[w.changes[j].path]
    <3>1. j \in Nat /\ w.at \in Nat /\ i = w.at - 1
      BY <1>2 DEF i
    <3>2. CASE j <= i
      <4>1. j <= w.at /\ j # w.at /\ ~(j > i)
        BY <3>1, <3>2
      <4>2. w.changes[j].path # k
        BY <1>2, <4>1
      <4> QED BY <1>3, <2>3, <2>8, <4>1, <4>2 DEF Rolling
    <3>3. CASE j = w.at
      BY <2>5, <3>1, <3>3
    <3>4. CASE j > w.at
      <4>1. ~(j <= i) /\ w.changes[j].path # k
        BY <1>2, <3>1, <3>4
      <4>2. ~w.incomplete => files[w.changes[j].path] = B[w.changes[j].path]
        BY <1>3, <2>8, <3>4 DEF Rolling
      <4> QED BY <1>2, <2>4, <2>5, <4>1, <4>2
    <3> QED BY <3>1, <3>2, <3>3, <3>4
  <2>9. Rolling(p, v, B, F, i)
    BY <2>4, <2>6, <2>7, <2>8 DEF Rolling
  <2>10. \A x \in Paths \ Keys(p) : F[x] = files[x]
    BY <1>2, <2>5
  <2>11. Plans(p, v, B, Len(Ops(p))) /\ i \in 0..Len(v.changes)
    BY <1>2, <1>5, <2>4, SamePlans
  <2> QED BY <1>1, <1>2, <2>2, <2>4, <2>5, <2>9, <2>10, <2>11, UndoStep, SMTT(30)
<1>7. CASE UNCHANGED files /\ Undo(p, [w EXCEPT !.incomplete = TRUE], i)
  <2>0. PICK t : t = TRUE
    OBVIOUS
  <2> DEFINE v == [w EXCEPT !.incomplete = t]
  <2>1. files' = files /\ Undo(p, v, i)
    BY <1>7, <2>0
  <2>2. /\ v.changes = w.changes /\ v.at = w.at /\ v.backups = w.backups /\ v.touched = w.touched
        /\ Shape(v) /\ v.incomplete = TRUE
    <3> HIDE DEF w
    <3>1. w = [changes |-> w.changes, at |-> w.at, backups |-> w.backups, touched |-> w.touched,
               incomplete |-> w.incomplete]
      BY <1>2 DEF Shape
    <3>2. v = [changes |-> w.changes, at |-> w.at, backups |-> w.backups, touched |-> w.touched,
               incomplete |-> t]
      BY <3>1
    <3>3. /\ v.changes = w.changes /\ v.at = w.at /\ v.backups = w.backups
          /\ v.touched = w.touched /\ v.incomplete = t
      BY <3>2
    <3> HIDE DEF v
    <3>4. w.changes \in Seq(Change) /\ w.at \in Nat /\ t \in BOOLEAN
      BY <1>2, <2>0 DEF Shape
    <3>5. Shape(v)
      BY <3>2, <3>3, <3>4 DEF Shape
    <3> QED BY <2>0, <3>3, <3>5
  <2> HIDE DEF w, v, i
  <2>3. Backed(p, v, B, files) /\ OriginalsThere(p, v, B, files)
    BY <1>3, <2>2 DEF Rolling, Backed, OriginalsThere
  <2>4. \A j \in DOMAIN w.changes : j <= i => j <= w.at
    BY <1>2 DEF i
  <2>5. Rolling(p, v, B, files, i)
    BY <1>3, <2>2, <2>3, <2>4 DEF Rolling
  <2>6. Plans(p, v, B, Len(Ops(p))) /\ i \in 0..Len(v.changes)
    BY <1>2, <1>5, <2>2, SamePlans
  <2> QED BY <1>1, <1>2, <2>1, <2>2, <2>5, <2>6, UndoStep
<1> QED BY <1>6, <1>7 DEF Restore

LEMMA UndoneTransaction ==
  ASSUME LocksInv, TransInv, NEW p \in Patches, Undone(p)
  PROVE  TransInv'
<1>1. /\ step[p] = "undone" /\ UNCHANGED <<work, files>>
      /\ \E o : End(p, o)
  BY DEF Undone, Does
<1>2. step[p] \in Working
  BY <1>1 DEF Working
<1>3. /\ p \in Calls /\ Shape(work[p])
      /\ OriginalsThere(p, work[p], before[p], files)
  BY <1>1, <1>2, AtWork DEF Phase, Rolling
<1>4. Doing(p, work[p])
  BY <1>1, <1>3 DEF Doing, TransInv
<1> QED BY <1>1, <1>2, <1>3, <1>4, EndStep

-----------------------------------------------------------------------------
LEMMA TransInvInit == Init => TransInv
<1> SUFFICES ASSUME Init PROVE TransInv
  OBVIOUS
<1>1. /\ work = [q \in Calls |-> NoWork] /\ before = [q \in Calls |-> <<>>]
      /\ outcome = [q \in Calls |-> "none"] /\ step = [q \in Calls |-> "new"]
      /\ stage = [q \in Calls |-> "new"] /\ files \in [Paths -> {None, <<>>}]
  BY DEF Init, GatesInit
<1>2. files \in [Paths -> Contents]
  <2>1. <<>> \in Seq(Calls)
    BY EmptySeq
  <2> QED BY <1>1, <2>1 DEF Contents
<1>3. Patches \subseteq Calls
  BY GatesInvInit, PatchAssumption DEF GatesInv, Patches
<1>4. ASSUME NEW p \in Patches PROVE Transaction(p)
  BY <1>1, <1>3 DEF Transaction, Early, Owns, Working
<1> QED BY <1>1, <1>2, <1>4 DEF TransInv

LEMMA TransInvStep == LocksInv /\ TransInv /\ [Next]_vars => TransInv'
<1> SUFFICES ASSUME LocksInv, TransInv, [Next]_vars PROVE TransInv'
  OBVIOUS
<1>1. ASSUME NEW p \in Patches, PatchGoesOn(p) \/ LockTimeout(p) \/ PatchTimeout(p)
      PROVE  TransInv'
  <2>1. CASE Commits(p)
    BY <2>1, PlanTransaction, PlanFailsTransaction, StageTransaction, BackupTransaction,
       RenameTransaction, CleanTransaction, CommitFailsTransaction, RemoveTransaction,
       RestoreTransaction, UndoneTransaction DEF Commits
  <2>2. CASE ~Commits(p)
    BY <1>1, <2>2, LocksTransaction, UnlockTransaction, LockTimeoutTransaction, GateTransaction
       DEF PatchGoesOn
  <2> QED BY <2>1, <2>2
<1>2. ASSUME NEW c \in Others, OtherGoesOn(c) \/ OtherEnds(c) \/ OtherTimeout(c)
      PROVE  TransInv'
  BY <1>2, OthersTransaction
<1>3. CASE UNCHANGED vars
  <2>1. UNCHANGED <<scenario, stage, held, step, work, outcome, files, before>>
    BY <1>3 DEF vars, gates, locking
  <2>2. Patches' = Patches /\ (\A q : Keys(q)' = Keys(q))
    BY <2>1 DEF Patches, Keys, Ops
  <2>3. ASSUME NEW q \in Patches PROVE Transaction(q)'
    <3>1. Transaction(q) /\ Owns(q)' = Owns(q)
      BY <2>1 DEF TransInv, Owns
    <3>2. Owns(q) => Phase(q, step[q], work[q], before[q], outcome[q], files)'
      BY <2>1, <3>1, PhaseNext DEF Transaction
    <3> QED BY <2>1, <2>2, <3>1, <3>2 DEF Transaction, Shape
  <2> QED BY <2>1, <2>2, <2>3 DEF TransInv
<1> QED BY <1>1, <1>2, <1>3 DEF Next

LEMMA TransInvariant == Spec => [](LocksInv /\ TransInv)
BY LocksInvInit, LocksInvStep, TransInvInit, TransInvStep, PTL DEF Spec

(* For any patches, timeouts and faults and whatever runs beside them, the *)
(* original of every target of a patch exists until all its changes are in *)
(* place, as the target or as its backup: neither a crash nor a rollback   *)
(* that fails loses one (patch.ts 219-270).                                *)
THEOREM OriginalsSafe == Spec => []OriginalsKept
<1>1. LocksInv /\ TransInv => OriginalsKept
  <2> SUFFICES ASSUME LocksInv, TransInv, NEW p \in Patches, before[p] # <<>>,
                      step[p] \notin {"clean", "end"}, outcome[p] # "applied",
                      NEW k \in Keys(p), before[p][k] # None
               PROVE  \/ files[k] = before[p][k]
                      \/ k \in DOMAIN work[p].backups /\ work[p].backups[k] = before[p][k]
    BY DEF OriginalsKept
  <2> DEFINE w == work[p]
             B == before[p]
  <2>1. Transaction(p)
    BY DEF TransInv
  <2>2. step[p] \notin Early
    BY <2>1 DEF Transaction
  <2>3. Owns(p)
    BY <2>1, <2>2 DEF Transaction, Owns
  <2>4. Phase(p, step[p], w, B, outcome[p], files)
    BY <2>1, <2>3 DEF Transaction
  <2>5. CASE step[p] \in {"plan", "stage"}
    BY <2>4, <2>5 DEF Phase, Fresh
  <2>6. CASE step[p] \in {"backup", "rename"}
    BY <2>4, <2>6 DEF Phase, Committing, Backed
  <2>7. CASE step[p] \in {"remove", "restore", "undone"}
    BY <2>4, <2>7 DEF Phase, Rolling, Backed, OriginalsThere
  <2>8. CASE step[p] = "unlock"
    BY <2>4, <2>8 DEF Phase, Rolling, Backed, OriginalsThere
  <2> QED BY <2>3, <2>5, <2>6, <2>7, <2>8 DEF Owns, Working
<1> QED BY <1>1, TransInvariant, PTL

(* The steps that report, and what they report of.                         *)
LEMMA Reports ==
  ASSUME LocksInv, TransInv, Next, NEW p \in Patches, outcome'[p] # outcome[p]
  PROVE  \/ Clean(p) /\ outcome'[p] = "applied"
         \/ /\ LockTimeout(p) \/ PatchTimeout(p) \/ PlanFails(p)
            /\ outcome'[p] \in {"timedOut", "failed"} /\ UNCHANGED files
         \/ Undone(p) /\ outcome'[p] \in {"failed", "rollbackFailed"} /\ UNCHANGED files
                      /\ (outcome'[p] = "failed" => ~work[p].incomplete)
<1>1. ASSUME NEW c \in Others, OtherGoesOn(c) \/ OtherEnds(c) \/ OtherTimeout(c) PROVE FALSE
  BY <1>1 DEF OtherGoesOn, OtherEnds, OtherTimeout
<1>2. ASSUME NEW q \in Patches, UNCHANGED outcome PROVE FALSE
  BY <1>2, Zenon
<1>3. /\ \A q \in Patches : Lock(q) \/ PatchArrives(q) \/ PatchAsks(q) \/ Unlock(q) => UNCHANGED outcome
      /\ \A q \in Patches : Plan(q) \/ Stage(q) \/ Backup(q) \/ Rename(q) \/ CommitFails(q)
                            \/ Remove(q) \/ Restore(q) => UNCHANGED outcome
  BY Zenon DEF Lock, PatchArrives, PatchAsks, Unlock, Plan, Stage, Backup, Rename, CommitFails, Remove,
         Restore, Inside
<1>4. PICK q \in Patches : \/ LockTimeout(q) \/ PatchTimeout(q) \/ PlanFails(q)
                           \/ Clean(q) \/ Undone(q)
  BY <1>1, <1>2, <1>3 DEF Next, PatchGoesOn, Commits
<1>5. \E o : /\ outcome' = [outcome EXCEPT ![q] = o]
             /\ LockTimeout(q) \/ PatchTimeout(q) => o = "timedOut" /\ UNCHANGED files
             /\ PlanFails(q) => o = "failed" /\ UNCHANGED files
             /\ Clean(q) => o = "applied"
             /\ Undone(q) => /\ o = "failed" => ~work[q].incomplete
                             /\ o \in {"failed", "rollbackFailed"} /\ UNCHANGED files
  <2>1. CASE LockTimeout(q) \/ PatchTimeout(q)
    <3>1. /\ outcome' = [outcome EXCEPT ![q] = "timedOut"] /\ UNCHANGED files
      BY <2>1 DEF LockTimeout, PatchTimeout, Untouched
    <3>2. step[q] \in {"wait", "plan"}
      <4>1. Transaction(q)
        BY DEF TransInv
      <4> QED BY <2>1, <4>1 DEF LockTimeout, PatchTimeout, ToolsTimeout, Transaction
    <3>3. ~Clean(q) /\ ~Undone(q)
      BY <3>2 DEF Clean, Undone, Does
    <3>4. ~PlanFails(q)
      BY <2>1, <3>2 DEF PlanFails, Does, LockTimeout, PatchTimeout, ToolsTimeout
    <3> QED BY <3>1, <3>3, <3>4
  <2>2. CASE PlanFails(q)
    <3>1. outcome' = [outcome EXCEPT ![q] = "failed"] /\ UNCHANGED files
      BY <2>2 DEF PlanFails, End
    <3>2. stage[q] = "runs" /\ step[q] \in {"plan", "stage"}
      BY <2>2 DEF PlanFails, Does
    <3>3. ~Clean(q) /\ ~Undone(q) /\ ~LockTimeout(q) /\ ~PatchTimeout(q)
      BY <3>2 DEF Clean, Undone, Does, LockTimeout, PatchTimeout, ToolsTimeout
    <3> QED BY <3>1, <3>3
  <2>3. CASE Clean(q)
    <3>1. outcome' = [outcome EXCEPT ![q] = "applied"] /\ stage[q] = "runs" /\ step[q] = "clean"
      BY <2>3 DEF Clean, End, Does
    <3>2. ~PlanFails(q) /\ ~Undone(q) /\ ~LockTimeout(q) /\ ~PatchTimeout(q)
      BY <3>1 DEF PlanFails, Undone, Does, LockTimeout, PatchTimeout, ToolsTimeout
    <3> QED BY <3>1, <3>2
  <2>4. CASE Undone(q)
    <3>1. /\ \E o \in {"failed", "rollbackFailed"} :
               /\ outcome' = [outcome EXCEPT ![q] = o]
               /\ o = "failed" => ~work[q].incomplete
          /\ UNCHANGED files /\ stage[q] = "runs" /\ step[q] = "undone"
      BY <2>4 DEF Undone, End, Does
    <3>2. ~PlanFails(q) /\ ~Clean(q) /\ ~LockTimeout(q) /\ ~PatchTimeout(q)
      BY <3>1 DEF PlanFails, Clean, Does, LockTimeout, PatchTimeout, ToolsTimeout
    <3> QED BY <3>1, <3>2
  <2> QED BY <1>4, <2>1, <2>2, <2>3, <2>4
<1>6. q = p /\ p \in Calls
  <2>1. p \in Calls /\ q \in Calls
    BY OpsTyped DEF LocksInv
  <2> QED BY <1>5, <2>1 DEF TransInv
<1>7. outcome = [c \in Calls |-> outcome[c]]
  BY DEF TransInv
<1> QED BY <1>4, <1>5, <1>6, <1>7

(* For any patches, paths, timeouts and faults and whatever runs beside    *)
(* them, a patch that reports has been applied to what its targets were    *)
(* when it got its locks, as a whole, or has changed nothing, unless it    *)
(* reports an incomplete rollback (patch.ts 197-320).                      *)
THEOREM PatchesAtomic == Spec => AllOrNothing
<1>1. LocksInv /\ TransInv /\ [Next]_vars => [\A p \in Patches : Truthful(p)]_vars
  <2> SUFFICES ASSUME LocksInv, TransInv, Next, NEW p \in Patches, outcome'[p] # outcome[p]
               PROVE  /\ outcome'[p] = "applied" =>
                           \A i \in DOMAIN Ops(p) :
                             LET op == Ops(p)[i]
                                 was == IF before[p][op.path] = None THEN <<>> ELSE before[p][op.path] IN
                             /\ op.kind = "add" => before[p][op.path] = None
                             /\ op.kind = "move" => before[p][op.to] = None
                             /\ files'[IF op.kind = "move" THEN op.to ELSE op.path] =
                                  IF op.kind = "delete" THEN None ELSE Append(was, p)
                             /\ op.kind = "move" => files'[op.path] = None
                      /\ outcome'[p] \in {"failed", "timedOut"} /\ before[p] # <<>> =>
                           \A k \in Keys(p) : files'[k] = before[p][k]
    <3>1. ~("applied" \in {"failed", "timedOut"})
      OBVIOUS
    <3> QED BY <3>1 DEF Truthful
  <2> DEFINE w == work[p]
             B == before[p]
  <2>1. Transaction(p) /\ Len(Ops(p)) \in Nat /\ DOMAIN Ops(p) = 1..Len(Ops(p))
    BY OpsTyped, LenProperties DEF TransInv, LocksInv
  <2>2. CASE Clean(p)
    <3>1. step[p] = "clean" /\ files' = files
      BY <2>2 DEF Clean, Does
    <3>2. Committing(p, w, B, files) /\ Plans(p, w, B, Len(Ops(p))) /\ w.at > Len(w.changes)
      BY <2>1, <3>1 DEF Transaction, Owns, Working, Phase
    <3>3. \A j \in DOMAIN w.changes : files[w.changes[j].path] = w.changes[j].content
      <4>1. /\ DOMAIN w.changes = 1..Len(w.changes) /\ Len(w.changes) \in Nat /\ w.at \in Nat
        <5>1. Shape(w)
          BY <2>1, <3>1 DEF Transaction, Owns, Working
        <5> QED BY <5>1, LenProperties DEF Shape
      <4> HIDE DEF w
      <4>2. \A j \in DOMAIN w.changes : j < w.at
        BY <3>2, <4>1
      <4> QED BY <3>2, <4>2 DEF Committing
    <3>4. ASSUME NEW i \in DOMAIN Ops(p), NEW op, op = Ops(p)[i]
          PROVE  /\ op.kind = "add" => B[op.path] = None
                 /\ op.kind = "move" => B[op.to] = None
                 /\ files[Goal(op)] = Result(p, op, B)
                 /\ op.kind = "move" => files[op.path] = None
      <4>1. Planned(p, op, w, B)
        BY <2>1, <3>2, <3>4 DEF Plans
      <4> QED BY <3>3, <4>1 DEF Planned
    <3>5. outcome'[p] = "applied"
      BY <2>2, Reports DEF Clean, LockTimeout, PatchTimeout, PlanFails, Undone, Does, ToolsTimeout
    <3> HIDE DEF B
    <3>6. ASSUME NEW i \in DOMAIN Ops(p), NEW op, op = Ops(p)[i]
          PROVE  LET was == IF B[op.path] = None THEN <<>> ELSE B[op.path] IN
                 /\ op.kind = "add" => B[op.path] = None
                 /\ op.kind = "move" => B[op.to] = None
                 /\ files'[IF op.kind = "move" THEN op.to ELSE op.path] =
                      IF op.kind = "delete" THEN None ELSE Append(was, p)
                 /\ op.kind = "move" => files'[op.path] = None
      BY <3>1, <3>4, <3>6 DEF Goal, Result
    <3> QED BY <3>5, <3>6 DEF B
  <2>3. CASE /\ LockTimeout(p) \/ PatchTimeout(p) \/ PlanFails(p)
             /\ outcome'[p] \in {"timedOut", "failed"} /\ UNCHANGED files
    <3>1. CASE step[p] = "wait"
      BY <2>1, <2>3, <3>1 DEF Transaction, Early
    <3>2. CASE step[p] \in {"plan", "stage"}
      BY <2>1, <2>3, <3>2 DEF Transaction, Owns, Working, Phase, Fresh
    <3> QED BY <2>1, <2>3, <3>1, <3>2
        DEF LockTimeout, PatchTimeout, ToolsTimeout, PlanFails, Does, Transaction
  <2>4. CASE /\ Undone(p) /\ outcome'[p] \in {"failed", "rollbackFailed"} /\ UNCHANGED files
             /\ (outcome'[p] = "failed" => ~work[p].incomplete)
    <3>1. Rolling(p, w, B, files, 0) /\ Shape(w)
      BY <2>1, <2>4 DEF Undone, Does, Transaction, Owns, Working, Phase
    <3>2. ASSUME ~w.incomplete, NEW k \in Keys(p) PROVE files[k] = B[k]
      <4>1. CASE k \notin w.touched
        BY <3>1, <4>1 DEF Rolling, Backed
      <4>2. CASE k \in w.touched
        <5>1. PICK j \in DOMAIN w.changes : w.changes[j].path = k
          BY <3>1, <4>2 DEF Rolling, Backed
        <5>2. j > 0
          BY <3>1, LenProperties DEF Shape
        <5> QED BY <3>1, <3>2, <4>2, <5>1, <5>2 DEF Rolling
      <4> QED BY <4>1, <4>2
    <3> QED BY <2>4, <3>2
  <2> QED BY <2>2, <2>3, <2>4, Reports
<1> QED BY <1>1, TransInvariant, PTL DEF Spec, AllOrNothing

=============================================================================
