---------------------------- MODULE BasicLemmas -----------------------------
(***************************************************************************)
(* Facts about natural numbers that several proofs need: a set of them has *)
(* a least element, and a greatest one when it is bounded.  What is proved *)
(* elsewhere by induction is proved by taking the least counterexample.    *)
(* And facts about texts that are joined from chunks.                      *)
(***************************************************************************)
EXTENDS Integers, Sequences, FiniteSets, FiniteSetTheorems, SequenceTheorems, WellFoundedInduction, TLAPS

(* A set of natural numbers that is not empty has a least element.         *)
LEMMA LeastNumber ==
  ASSUME NEW S \in SUBSET Nat, S # {}
  PROVE  \E m \in S : \A n \in S : m <= n
<1> DEFINE T == {0..n : n \in S}
           R == StrictSubsetOrdering(Nat)
<1>1. T \subseteq FiniteSubsetsOf(Nat)
  <2> SUFFICES ASSUME NEW n \in S PROVE 0..n \in FiniteSubsetsOf(Nat)
    OBVIOUS
  <2>1. IsFiniteSet(0..n)
    BY FS_Interval
  <2> QED BY <2>1 DEF FiniteSubsetsOf
<1>2. IsWellFoundedOn(R, FiniteSubsetsOf(Nat))
  BY FS_StrictSubsetOrderingWellFounded
<1>3. T # {}
  OBVIOUS
<1>4. \E x \in T : \A y \in T : ~ (<<y, x>> \in R)
  <2> HIDE DEF T, R
  <2> QED BY <1>1, <1>2, <1>3, WFMin
<1>5. PICK m \in S : \A n \in S : ~ (<<0..n, 0..m>> \in R)
  BY <1>4
<1>6. \A n \in S : m <= n
  <2> SUFFICES ASSUME NEW n \in S, ~(m <= n) PROVE FALSE
    OBVIOUS
  <2>1. n \in Nat /\ m \in Nat /\ n < m
    OBVIOUS
  <2>2. 0..n \subseteq 0..m /\ m \in 0..m /\ m \notin 0..n
    BY <2>1
  <2>3. 0..n # 0..m
    BY <2>2
  <2>4. 0..n \in SUBSET Nat /\ 0..m \in SUBSET Nat
    BY <2>1
  <2>5. <<0..n, 0..m>> \in R
    BY <2>2, <2>3, <2>4 DEF StrictSubsetOrdering
  <2> QED BY <1>5, <2>5
<1> QED BY <1>6

(* A set of natural numbers up to b that is not empty has a greatest one.  *)
LEMMA GreatestNumber ==
  ASSUME NEW S \in SUBSET Nat, S # {}, NEW b \in Nat, \A n \in S : n <= b
  PROVE  \E m \in S : \A n \in S : n <= m
<1> DEFINE T == {b - n : n \in S}
<1>1. T \in SUBSET Nat /\ T # {}
  <2>1. ASSUME NEW n \in S PROVE b - n \in Nat
    OBVIOUS
  <2>2. PICK n \in S : TRUE
    OBVIOUS
  <2>3. b - n \in T
    OBVIOUS
  <2> QED BY <2>1, <2>3
<1>2. PICK k \in T : \A j \in T : k <= j
  <2> HIDE DEF T
  <2> QED BY <1>1, LeastNumber
<1>3. PICK m \in S : k = b - m
  OBVIOUS
<1>4. \A n \in S : n <= m
  <2> SUFFICES ASSUME NEW n \in S PROVE n <= m
    OBVIOUS
  <2>1. b - m <= b - n
    BY <1>2, <1>3
  <2> QED BY <2>1
<1> QED BY <1>4

-----------------------------------------------------------------------------
(* A text in l pieces: f[n] joins the first n pieces of p.                 *)
Joined(f, p, n) == IF n = 0 THEN <<>> ELSE f[n - 1] \o p[n]
IsJoin(f, p, l) == f = [n \in 0..l |-> Joined(f, p, n)]

(* There is such a function: one for the first m pieces can be extended to *)
(* the next.                                                               *)
LEMMA JoinExists ==
  ASSUME NEW p, NEW l \in Nat
  PROVE  \E f : IsJoin(f, p, l)
<1> DEFINE Is(f, m) == f = [n \in 0..m |-> Joined(f, p, n)]
           Bad == {m \in 0..l : ~ \E f : Is(f, m)}
<1>1. Bad = {}
  <2> SUFFICES ASSUME Bad # {} PROVE FALSE
    OBVIOUS
  <2>1. PICK m \in Bad : \A n \in Bad : m <= n
    <3>1. Bad \in SUBSET Nat
      OBVIOUS
    <3> HIDE DEF Bad
    <3> QED BY <3>1, LeastNumber
  <2>2. CASE m = 0
    <3> DEFINE f == [n \in 0..0 |-> <<>>]
    <3>1. Is(f, 0)
      BY DEF Joined
    <3> QED BY <2>1, <2>2, <3>1
  <2>3. CASE m # 0
    <3>1. m - 1 \in 0..l /\ m \in 1..l /\ m - 1 \notin Bad
      BY <2>1, <2>3
    <3>2. PICK f : Is(f, m - 1)
      BY <3>1
    <3> DEFINE g == [n \in 0..m |-> Joined(f, p, n)]
    <3>3. ASSUME NEW n \in 0..m PROVE g[n] = Joined(g, p, n)
      <4>1. CASE n = 0
        BY <4>1 DEF Joined
      <4>2. CASE n # 0
        <5>1. n - 1 \in 0..(m - 1) /\ n - 1 \in 0..m
          BY <3>1, <4>2
        <5>2. g[n - 1] = f[n - 1]
          BY <3>2, <5>1
        <5>3. g[n] = Joined(f, p, n)
          OBVIOUS
        <5> HIDE DEF g, Is
        <5> QED BY <4>2, <5>2, <5>3 DEF Joined
      <4> QED BY <4>1, <4>2
    <3>4. Is(g, m)
      <4>1. g = [n \in 0..m |-> g[n]]
        OBVIOUS
      <4> HIDE DEF g
      <4> QED BY <3>3, <4>1
    <3> QED BY <2>1, <3>4
  <2> QED BY <2>2, <2>3
<1>2. l \notin Bad /\ l \in 0..l
  BY <1>1
<1> QED BY <1>2 DEF IsJoin

(* What it joins grows piece by piece, in sequences over S.                *)
Joins(f, p, l, S) ==
  /\ f[0] = <<>>
  /\ \A n \in 1..l : p[n] \in Seq(S) /\ f[n] = f[n - 1] \o p[n]
  /\ \A n \in 0..l : f[n] \in Seq(S)

LEMMA JoinGrows ==
  ASSUME NEW S, NEW p, NEW l \in Nat, \A n \in 1..l : p[n] \in Seq(S), NEW f, IsJoin(f, p, l)
  PROVE  Joins(f, p, l, S)
<1>1. f[0] = <<>> /\ \A n \in 1..l : f[n] = f[n - 1] \o p[n]
  <2>1. \A n \in 0..l : f[n] = Joined(f, p, n)
    BY DEF IsJoin
  <2>2. 0 \in 0..l /\ \A n \in 1..l : n \in 0..l /\ n # 0
    OBVIOUS
  <2> QED BY <2>1, <2>2, Zenon DEF Joined
<1> DEFINE Bad == {n \in 0..l : f[n] \notin Seq(S)}
<1>2. Bad = {}
  <2> SUFFICES ASSUME Bad # {} PROVE FALSE
    OBVIOUS
  <2>1. PICK m \in Bad : \A n \in Bad : m <= n
    <3>1. Bad \in SUBSET Nat
      OBVIOUS
    <3> HIDE DEF Bad
    <3> QED BY <3>1, LeastNumber
  <2>2. m # 0
    BY <1>1, <2>1, EmptySeq
  <2>3. m \in 1..l /\ m - 1 \in 0..l /\ m - 1 \notin Bad
    BY <2>1, <2>2
  <2>4. f[m - 1] \in Seq(S) /\ p[m] \in Seq(S)
    BY <2>3
  <2>5. f[m - 1] \o p[m] \in Seq(S)
    BY <2>4, ConcatProperties
  <2> QED BY <1>1, <2>1, <2>3, <2>5
<1> QED BY <1>1, <1>2, Zenon DEF Joins

(* What joins fewer pieces is the beginning of what joins more.            *)
Begins(a, b) == Len(a) <= Len(b) /\ \A i \in 1..Len(a) : b[i] = a[i]

LEMMA JoinBegins ==
  ASSUME NEW S, NEW p, NEW l \in Nat, NEW f, Joins(f, p, l, S), NEW m \in 0..l, NEW n \in m..l
  PROVE  f[m] \in Seq(S) /\ f[n] \in Seq(S) /\ Begins(f[m], f[n])
<1> DEFINE Good(k) == Len(f[m]) <= Len(f[k]) /\ \A i \in 1..Len(f[m]) : f[k][i] = f[m][i]
           Bad == {k \in m..l : ~Good(k)}
<1>1. /\ \A k \in 0..l : f[k] \in Seq(S) /\ Len(f[k]) \in Nat
      /\ \A k \in 1..l : f[k] = f[k - 1] \o p[k]
  <2>2. \A k \in 0..l : f[k] \in Seq(S)
    BY Zenon DEF Joins
  <2>3. \A k \in 1..l : f[k] = f[k - 1] \o p[k]
    BY Zenon DEF Joins
  <2> QED BY <2>2, <2>3, LenProperties
<1>2. Bad = {}
  <2> SUFFICES ASSUME Bad # {} PROVE FALSE
    OBVIOUS
  <2>1. PICK k \in Bad : \A j \in Bad : k <= j
    <3>1. Bad \in SUBSET Nat
      OBVIOUS
    <3> HIDE DEF Bad
    <3> QED BY <3>1, LeastNumber
  <2>2. k # m
    BY <1>1, <2>1
  <2>3. k \in 1..l /\ k - 1 \in m..l /\ k - 1 \in 0..l /\ k - 1 \notin Bad
    BY <2>1, <2>2
  <2>4. Good(k - 1)
    BY <2>3
  <2>5. f[k] = f[k - 1] \o p[k] /\ f[k - 1] \in Seq(S) /\ p[k] \in Seq(S)
    <3>2. k \in 1..l /\ k - 1 \in 0..l
      BY <2>3
    <3>3. p[k] \in Seq(S)
      BY <3>2, Zenon DEF Joins
    <3> HIDE DEF Bad, Good
    <3> QED BY <1>1, <3>2, <3>3, Zenon
  <2>6. PICK a, b, c, d : a = f[m] /\ b = f[k - 1] /\ c = p[k] /\ d = f[k]
    OBVIOUS
  <2>7. /\ Len(d) = Len(b) + Len(c) /\ Len(a) \in Nat /\ Len(b) \in Nat /\ Len(c) \in Nat
        /\ \A i \in 1..(Len(b) + Len(c)) : d[i] = IF i <= Len(b) THEN b[i] ELSE c[i - Len(b)]
    <3>1. b \in Seq(S) /\ c \in Seq(S) /\ d = b \o c /\ Len(a) \in Nat
      BY <1>1, <2>5, <2>6, Zenon
    <3> QED BY ONLY <3>1, ConcatProperties, LenProperties
  <2>8. Len(a) <= Len(b) /\ \A i \in 1..Len(a) : b[i] = a[i]
    BY <2>4, <2>6, Zenon
  <2>9. Len(a) <= Len(d) /\ \A i \in 1..Len(a) : d[i] = a[i]
    BY ONLY <2>7, <2>8
  <2> QED BY <2>1, <2>6, <2>9, Zenon
<1>3. Good(n)
  BY <1>2
<1> QED BY <1>1, <1>3 DEF Begins

LEMMA BeginsSame ==
  ASSUME NEW S, NEW a \in Seq(S), NEW b \in Seq(S), Begins(a, b), Len(a) = Len(b)
  PROVE  a = b
BY SeqEqual DEF Begins

LEMMA JoinSame ==
  ASSUME NEW S, NEW p, NEW l \in Nat, NEW f, Joins(f, p, l, S), NEW m \in 0..l, NEW n \in m..l,
         Len(f[m]) = Len(f[n])
  PROVE  f[m] = f[n]
BY JoinBegins, BeginsSame

=============================================================================
