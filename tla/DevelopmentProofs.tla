--------------------------- MODULE DevelopmentProofs ---------------------------
(***************************************************************************)
(* Proofs about two parts of the development tools: the life of a task in  *)
(* the coordinator and its worker (DevTaskLifecycle), for any set of tasks *)
(* of any kinds; and the plans for the environment in the service          *)
(* (EnvironmentPlans in Service), for any catalogue without cycles, any    *)
(* calls, plans and requests, and any supervisor.                          *)
(***************************************************************************)
EXTENDS DevTaskLifecycle, Service, BasicLemmas, FiniteSetTheorems

-----------------------------------------------------------------------------
(* The plans for the environment.                                          *)

(* The sequence s names every component after those of s it needs.         *)
Sorted(s) ==
  \A i \in 1 .. Len(s) : \A dep \in ToSet(Requires[s[i]]) \cap ToSet(s) :
    \E j \in 1 .. i - 1 : s[j] = dep

(* What a call r of c knows of its plan is so, and how far the broker has  *)
(* come with it.                                                           *)
Applies(r) == r.at \in {"step", "connect", "asked", "answered"}

Knows(r, pl) ==
  /\ r.plan # None => pl[r.plan].status # None /\ r.ops = pl[r.plan].ops
  /\ r.at \in {"inspect", "save"} /\ r.plan = None => r.request \in Requests
  /\ r.at = "save" => r.plan = None
  /\ r.at = "claim" \/ Applies(r) => r.plan # None
  /\ Applies(r) => /\ pl[r.plan].status = "claimed"
                   /\ r.step \in 1 .. Len(r.ops) + (IF r.at = "step" THEN 1 ELSE 0)

Reached(c, r, b, ex, ins) ==
  /\ r.at \in {"step", "connect"} => Len(ex[r.plan]) = r.step - 1 /\ ToSet(ex[r.plan]) \subseteq ins[r.plan]
  /\ r.at = "asked" => /\ Len(ex[r.plan]) = r.step
                       /\ b.busy = c /\ b.plan = r.plan /\ b.component = r.ops[r.step]
  /\ r.at = "answered" /\ r.answer = "accepted" =>
       Len(ex[r.plan]) = r.step /\ ToSet(ex[r.plan]) \subseteq ins[r.plan]

CallsInv == \A c \in Calls : Knows(call[c], plan) /\ Reached(c, call[c], broker, executed, installed)

(* One call at most applies a plan.                                        *)
AloneInv ==
  \A c, d \in Calls :
    Applies(call[c]) /\ Applies(call[d]) /\ call[c].plan = call[d].plan => c = d

(* What the broker was given of a plan begins the plan, and is installed   *)
(* but for the last.                                                       *)
Given(p, ex, pl, ins) ==
  /\ Len(ex[p]) <= Len(pl[p].ops)
  /\ \A i \in 1 .. Len(ex[p]) : ex[p][i] = pl[p].ops[i]
  /\ \A i \in 1 .. Len(ex[p]) - 1 : ex[p][i] \in ins[p]

Kept(p, pl, ex, ins, comp) ==
  /\ Sorted(pl[p].ops)
  /\ Given(p, ex, pl, ins)
  /\ pl[p].status # "claimed" => ex[p] = <<>> /\ p \notin comp
  /\ p \in comp => ToSet(pl[p].ops) \subseteq ins[p]

KeptInv == \A p \in PlanIds : Kept(p, plan, executed, installed, completed)

BrokerInv ==
  broker.busy # None => broker.up /\ broker.plan # None /\ broker.component # None

PlansInv == ETypeOK /\ CallsInv /\ AloneInv /\ KeptInv /\ BrokerInv
-----------------------------------------------------------------------------
(* The sort of a plan.  Its loop is a function of the position reached...  *)
Scanned(a, visit, order, ids, n) == IF n = 0 THEN order ELSE visit[ids[n]][a[n - 1]]

IsScan(a, visit, order, ids) == a = [n \in 0 .. Len(ids) |-> Scanned(a, visit, order, ids, n)]

(* The loop over any identifiers has its values, one after the other.      *)
LEMMA ScanExists ==
  ASSUME NEW visit, NEW order, NEW ids, Len(ids) \in Nat
  PROVE  \E a : IsScan(a, visit, order, ids)
<1> DEFINE Is(a, m) == a = [n \in 0 .. m |-> Scanned(a, visit, order, ids, n)]
           Bad == {m \in 0 .. Len(ids) : ~ \E a : Is(a, m)}
<1>1. Bad = {}
  <2> SUFFICES ASSUME Bad # {} PROVE FALSE
    OBVIOUS
  <2>1. PICK m \in Bad : \A n \in Bad : m <= n
    <3>1. Bad \in SUBSET Nat
      OBVIOUS
    <3> HIDE DEF Bad
    <3> QED BY <3>1, LeastNumber
  <2>2. CASE m = 0
    <3> DEFINE a == [n \in 0 .. 0 |-> order]
    <3>1. Is(a, 0)
      BY DEF Scanned
    <3> QED BY <2>1, <2>2, <3>1
  <2>3. CASE m # 0
    <3>1. m - 1 \in 0 .. Len(ids) /\ m \in 1 .. Len(ids) /\ m - 1 \notin Bad
      BY <2>1, <2>3
    <3>2. PICK a : Is(a, m - 1)
      BY <3>1
    <3> DEFINE b == [n \in 0 .. m |-> Scanned(a, visit, order, ids, n)]
    <3>3. ASSUME NEW n \in 0 .. m PROVE b[n] = Scanned(b, visit, order, ids, n)
      <4>1. CASE n = 0
        BY <4>1 DEF Scanned
      <4>2. CASE n # 0
        <5>1. n - 1 \in 0 .. (m - 1) /\ n - 1 \in 0 .. m
          BY <3>1, <4>2
        <5>2. b[n - 1] = a[n - 1]
          BY <3>2, <5>1
        <5>3. b[n] = Scanned(a, visit, order, ids, n)
          OBVIOUS
        <5> HIDE DEF b, Is
        <5> QED BY <4>2, <5>2, <5>3 DEF Scanned
      <4> QED BY <4>1, <4>2
    <3>4. Is(b, m)
      <4>1. b = [n \in 0 .. m |-> b[n]]
        OBVIOUS
      <4> HIDE DEF b
      <4> QED BY <3>3, <4>1
    <3> QED BY <2>1, <3>4
  <2> QED BY <2>2, <2>3
<1>2. Len(ids) \notin Bad /\ Len(ids) \in 0 .. Len(ids)
  BY <1>1
<1> QED BY <1>2 DEF IsScan

(* ... there is one, and only one.                                         *)
LEMMA ScanOnly ==
  ASSUME NEW visit, NEW order, NEW ids, Len(ids) \in Nat,
         NEW a, IsScan(a, visit, order, ids), NEW b, IsScan(b, visit, order, ids)
  PROVE  a[Len(ids)] = b[Len(ids)]
<1> DEFINE Bad == {n \in 0 .. Len(ids) : a[n] # b[n]}
<1>1. /\ \A n \in 0 .. Len(ids) : a[n] = Scanned(a, visit, order, ids, n)
      /\ \A n \in 0 .. Len(ids) : b[n] = Scanned(b, visit, order, ids, n)
  BY DEF IsScan
<1>2. Bad = {}
  <2> SUFFICES ASSUME Bad # {} PROVE FALSE
    OBVIOUS
  <2>1. PICK m \in Bad : \A n \in Bad : m <= n
    <3>1. Bad \in SUBSET Nat
      OBVIOUS
    <3> HIDE DEF Bad
    <3> QED BY <3>1, LeastNumber
  <2>2. m \in 0 .. Len(ids) /\ a[m] # b[m]
    BY <2>1
  <2>3. CASE m = 0
    BY <1>1, <2>2, <2>3 DEF Scanned
  <2>4. CASE m # 0
    <3>1. m - 1 \in 0 .. Len(ids) /\ ~(m <= m - 1)
      BY <2>2, <2>4
    <3>2. a[m - 1] = b[m - 1]
      BY <2>1, <3>1
    <3> QED BY <1>1, <2>2, <2>4, <3>2 DEF Scanned
  <2> QED BY <2>3, <2>4
<1>3. Len(ids) \in 0 .. Len(ids)
  OBVIOUS
<1> QED BY <1>2, <1>3

(* What the loop computes is the last of them.                             *)
LEMMA VisitAllIs ==
  ASSUME NEW visit, NEW order, NEW ids, Len(ids) \in Nat
  PROVE  /\ \E a : IsScan(a, visit, order, ids)
         /\ \A a : IsScan(a, visit, order, ids) => VisitAll(visit, order, ids) = a[Len(ids)]
<1> DEFINE after == CHOOSE a : IsScan(a, visit, order, ids)
<1>1. IsScan(after, visit, order, ids)
  BY ScanExists, Zenon
<1>2. VisitAll(visit, order, ids) = after[Len(ids)]
  BY Zenon DEF VisitAll, IsScan, Scanned
<1> HIDE DEF after
<1> QED BY <1>1, <1>2, ScanOnly

(* What a visit gives depends on the visits of what the component needs.   *)
LEMMA VisitSame ==
  ASSUME NEW v, NEW above, NEW id \in Components, NEW order, NEW request,
         Requires[id] \in Seq(Components),
         \A i \in 1 .. Len(Requires[id]) : v[Requires[id][i]] = above[Requires[id][i]]
  PROVE  Visit(v, order, id, request) = Visit(above, order, id, request)
<1> DEFINE ids == Requires[id]
<1>1. Len(ids) \in Nat
  BY LenProperties
<1> HIDE DEF ids
<1>2. PICK a : IsScan(a, v, order, ids)
  BY <1>1, ScanExists
<1>3. IsScan(a, above, order, ids)
  <2>1. ASSUME NEW n \in 0 .. Len(ids)
        PROVE  Scanned(a, v, order, ids, n) = Scanned(a, above, order, ids, n)
    <3>1. CASE n = 0
      BY <3>1 DEF Scanned
    <3>2. CASE n # 0
      <4>1. n \in 1 .. Len(ids)
        BY <1>1, <3>2
      <4>2. v[ids[n]] = above[ids[n]]
        BY <4>1 DEF ids
      <4> QED BY <3>2, <4>2 DEF Scanned
    <3> QED BY <3>1, <3>2
  <2> QED BY <1>2, <2>1 DEF IsScan
<1>4. VisitAll(v, order, ids) = VisitAll(above, order, ids)
  BY <1>1, <1>2, <1>3, VisitAllIs
<1> QED BY <1>4 DEF Visit, ids

(* Since no component needs itself, through others either, there is a      *)
(* function of the visits: one for the components of less than some rank   *)
(* extends to those of that rank.                                          *)
IsVisit(v, request) ==
  v = [id \in Components |-> [order \in Seq(Components) |-> Visit(v, order, id, request)]]

IsRank(rank) ==
  /\ rank \in [Components -> 0 .. Len(Catalog)]
  /\ \A comp \in Components : \A dep \in ToSet(Requires[comp]) : rank[dep] < rank[comp]

(* What the assumption on the constants says.                              *)
LEMMA EnvTypes ==
  /\ Len(Catalog) \in Nat /\ \E rank : IsRank(rank)
  /\ \A id \in Components : Requires[id] \in Seq(Components)
  /\ \A r \in Requests : r \in Seq(Components)
  /\ None \notin Calls /\ None \notin PlanIds /\ None \notin Components
BY EnvAssumption DEF EnvAssumption, IsRank

(* Since DEPENDENCIES has no cycle there is a visit of every component: a  *)
(* least rank at which there is none has one after all.                    *)
LEMMA VisitExists ==
  ASSUME NEW rank, IsRank(rank), NEW request
  PROVE  \E v : IsVisit(v, request)
<1> DEFINE Level(n) == {id \in Components : rank[id] < n}
           Is(v, n) == v = [id \in Level(n) |-> [order \in Seq(Components) |-> Visit(v, order, id, request)]]
           Top == Len(Catalog) + 1
           Bad == {n \in 0 .. Top : ~ \E v : Is(v, n)}
<1>1. Top \in Nat /\ rank \in [Components -> 0 .. Len(Catalog)]
  BY EnvTypes DEF IsRank
<1>2. Bad = {}
  <2> SUFFICES ASSUME Bad # {} PROVE FALSE
    OBVIOUS
  <2>1. PICK m \in Bad : \A n \in Bad : m <= n
    <3>1. Bad \in SUBSET Nat
      BY <1>1
    <3> HIDE DEF Bad
    <3> QED BY <3>1, LeastNumber
  <2>2. m \in 0 .. Top /\ ~ \E v : Is(v, m)
    BY <2>1
  <2>3. CASE m = 0
    <3>1. Level(0) = {}
      BY <1>1
    <3> DEFINE v == [id \in {} |-> [order \in Seq(Components) |-> order]]
    <3>2. v = [id \in {} |-> [order \in Seq(Components) |-> Visit(v, order, id, request)]]
      OBVIOUS
    <3>3. Is(v, 0)
      <4> HIDE DEF v, Level
      <4> QED BY <3>1, <3>2
    <3> HIDE DEF Is
    <3> QED BY <2>2, <2>3, <3>3
  <2>4. CASE m # 0
    <3>1. m - 1 \in 0 .. Top /\ ~(m <= m - 1)
      BY <1>1, <2>2, <2>4
    <3>2. m - 1 \notin Bad
      BY <2>1, <3>1
    <3>3. PICK v : Is(v, m - 1)
      BY <3>1, <3>2
    <3> DEFINE above == [id \in Level(m) |-> [order \in Seq(Components) |-> Visit(v, order, id, request)]]
    <3>4. Level(m - 1) \subseteq Level(m)
      BY <1>1, <2>2
    <3>5. ASSUME NEW id \in Level(m - 1) PROVE above[id] = v[id]
      BY <3>3, <3>4
    <3>6. ASSUME NEW id \in Level(m), NEW order \in Seq(Components)
          PROVE  Visit(v, order, id, request) = Visit(above, order, id, request)
      <4>1. Requires[id] \in Seq(Components) /\ id \in Components
        BY EnvTypes
      <4>2. ASSUME NEW i \in 1 .. Len(Requires[id]) PROVE Requires[id][i] \in Level(m - 1)
        <5>1. Requires[id][i] \in Components /\ Requires[id][i] \in ToSet(Requires[id])
          BY <4>1, ElementOfSeq, LenProperties DEF ToSet
        <5>2. rank[Requires[id][i]] < rank[id]
          BY <4>1, <5>1 DEF IsRank
        <5> QED BY <1>1, <2>2, <5>1, <5>2
      <4>3. \A i \in 1 .. Len(Requires[id]) : v[Requires[id][i]] = above[Requires[id][i]]
        BY <3>5, <4>2
      <4> HIDE DEF above, Level
      <4> QED BY ONLY <4>1, <4>3, VisitSame
    <3>7. above = [id \in Level(m) |-> [order \in Seq(Components) |-> Visit(above, order, id, request)]]
      <4> DEFINE u == above
      <4>1. above = [id \in Level(m) |-> [order \in Seq(Components) |-> Visit(v, order, id, request)]]
        OBVIOUS
      <4> HIDE DEF above, Level
      <4> QED BY <3>6, <4>1
    <3>8. Is(above, m)
      BY <3>7
    <3> HIDE DEF above, Is
    <3> QED BY <2>2, <3>8
  <2> QED BY <2>3, <2>4
<1>3. Level(Top) = Components
  BY <1>1
<1>4. Top \in 0 .. Top
  BY <1>1
<1>5. PICK v : Is(v, Top)
  <2> HIDE DEF Is, Top
  <2> QED BY <1>2, <1>4
<1> HIDE DEF Level, Top
<1> QED BY <1>3, <1>5 DEF IsVisit

(* An order so far: requested components, each after the requested ones it *)
(* needs.  A visit only adds to it.                                        *)
Sane(s, request) ==
  /\ s \in Seq(Components) /\ ToSet(s) \subseteq ToSet(request)
  /\ \A i \in 1 .. Len(s) : \A dep \in ToSet(Requires[s[i]]) \cap ToSet(request) :
       \E j \in 1 .. i - 1 : s[j] = dep

Adds(s, t, request) == Sane(t, request) /\ ToSet(s) \subseteq ToSet(t)

Visits(v, id, request) ==
  \A s \in Seq(Components) : Sane(s, request) =>
    Adds(s, v[id][s], request) /\ (id \in ToSet(request) => id \in ToSet(v[id][s]))

(* If each visit adds what it visits, sane and after what it needs, so     *)
(* does the loop.                                                          *)
LEMMA VisitAllAdds ==
  ASSUME NEW v, NEW request, NEW ids, Len(ids) \in Nat, \A i \in 1 .. Len(ids) : Visits(v, ids[i], request),
         NEW s, Sane(s, request)
  PROVE  /\ Adds(s, VisitAll(v, s, ids), request)
         /\ \A i \in 1 .. Len(ids) : ids[i] \in ToSet(request) => ids[i] \in ToSet(VisitAll(v, s, ids))
<1>1. PICK a : IsScan(a, v, s, ids)
  BY ScanExists
<1>2. VisitAll(v, s, ids) = a[Len(ids)]
  BY <1>1, VisitAllIs
<1>3. \A n \in 0 .. Len(ids) : a[n] = Scanned(a, v, s, ids, n)
  BY <1>1 DEF IsScan
<1> DEFINE Good(n) ==
      /\ Adds(s, a[n], request)
      /\ \A i \in 1 .. n : ids[i] \in ToSet(request) => ids[i] \in ToSet(a[n])
           Bad == {n \in 0 .. Len(ids) : ~Good(n)}
<1>4. Bad = {}
  <2> SUFFICES ASSUME Bad # {} PROVE FALSE
    OBVIOUS
  <2>1. PICK m \in Bad : \A n \in Bad : m <= n
    <3>1. Bad \in SUBSET Nat
      OBVIOUS
    <3> HIDE DEF Bad
    <3> QED BY <3>1, LeastNumber
  <2>2. m \in 0 .. Len(ids) /\ ~Good(m)
    BY <2>1
  <2>3. CASE m = 0
    <3>1. a[0] = s
      BY <1>3, <2>2, <2>3 DEF Scanned
    <3>2. \A i \in 1 .. 0 : FALSE
      OBVIOUS
    <3>3. Good(0)
      BY <3>1, <3>2 DEF Adds
    <3> HIDE DEF Good
    <3> QED BY <2>2, <2>3, <3>3
  <2>4. CASE m # 0
    <3>1. m - 1 \in 0 .. Len(ids) /\ ~(m <= m - 1) /\ m \in 1 .. Len(ids)
      BY <2>2, <2>4
    <3>2. Good(m - 1)
      BY <2>1, <3>1
    <3>3. a[m] = v[ids[m]][a[m - 1]]
      BY <1>3, <2>2, <2>4 DEF Scanned
    <3>4. a[m - 1] \in Seq(Components) /\ Sane(a[m - 1], request) /\ ToSet(s) \subseteq ToSet(a[m - 1])
      BY <3>2 DEF Adds, Sane
    <3>5. /\ Adds(a[m - 1], a[m], request)
          /\ ids[m] \in ToSet(request) => ids[m] \in ToSet(a[m])
      BY <3>1, <3>3, <3>4 DEF Visits
    <3>6. Adds(s, a[m], request)
      BY <3>4, <3>5 DEF Adds
    <3>7. ASSUME NEW i \in 1 .. m, ids[i] \in ToSet(request) PROVE ids[i] \in ToSet(a[m])
      <4>1. CASE i = m
        BY <3>5, <3>7, <4>1
      <4>2. CASE i # m
        <5>1. i \in 1 .. m - 1
          BY <3>1, <4>2
        <5> QED BY <3>2, <3>5, <3>7, <5>1 DEF Adds
      <4> QED BY <4>1, <4>2
    <3> QED BY <2>2, <3>6, <3>7
  <2> QED BY <2>3, <2>4
<1>5. Len(ids) \notin Bad /\ Len(ids) \in 0 .. Len(ids)
  BY <1>4
<1>6. Good(Len(ids))
  BY <1>5
<1> QED BY <1>2, <1>6

(* A component that is added comes after those it needs.                   *)
LEMMA AppendSane ==
  ASSUME NEW request, NEW s, Sane(s, request), NEW id \in Components, id \in ToSet(request),
         \A dep \in ToSet(Requires[id]) \cap ToSet(request) : dep \in ToSet(s)
  PROVE  Adds(s, Append(s, id), request) /\ id \in ToSet(Append(s, id))
<1> DEFINE t == Append(s, id)
<1>1. s \in Seq(Components) /\ Len(s) \in Nat /\ DOMAIN s = 1 .. Len(s)
  BY LenProperties DEF Sane
<1>2. /\ t \in Seq(Components) /\ Len(t) = Len(s) + 1 /\ DOMAIN t = 1 .. Len(t)
      /\ t[Len(s) + 1] = id /\ \A i \in 1 .. Len(s) : t[i] = s[i]
  BY <1>1, AppendProperties, LenProperties
<1> HIDE DEF t
<1>3. ToSet(s) \subseteq ToSet(t) /\ id \in ToSet(t) /\ ToSet(t) \subseteq ToSet(s) \cup {id}
  <2>1. ASSUME NEW i \in 1 .. Len(t) PROVE t[i] \in ToSet(s) \cup {id}
    <3>1. i \in 1 .. Len(s) \/ i = Len(s) + 1
      BY <1>1, <1>2
    <3> QED BY <1>1, <1>2, <3>1 DEF ToSet
  <2>2. ASSUME NEW i \in 1 .. Len(s) PROVE s[i] \in ToSet(t)
    <3>1. i \in DOMAIN t
      BY <1>1, <1>2
    <3> QED BY <1>2, <3>1 DEF ToSet
  <2>3. Len(s) + 1 \in DOMAIN t
    BY <1>1, <1>2
  <2> QED BY <1>1, <1>2, <2>1, <2>2, <2>3 DEF ToSet
<1>4. ASSUME NEW i \in 1 .. Len(t), NEW dep \in ToSet(Requires[t[i]]) \cap ToSet(request)
      PROVE  \E j \in 1 .. i - 1 : t[j] = dep
  <2>1. CASE i \in 1 .. Len(s)
    <3>1. PICK j \in 1 .. i - 1 : s[j] = dep
      BY <1>2, <1>4, <2>1 DEF Sane
    <3>2. j \in 1 .. Len(s)
      BY <1>1, <2>1
    <3> QED BY <1>2, <3>1, <3>2
  <2>2. CASE i = Len(s) + 1
    <3>1. dep \in ToSet(s)
      BY <1>2, <1>4, <2>2
    <3>2. PICK j \in 1 .. Len(s) : s[j] = dep
      BY <1>1, <3>1 DEF ToSet
    <3>3. j \in 1 .. i - 1
      BY <1>1, <2>2
    <3> QED BY <1>2, <3>2, <3>3
  <2> QED BY <1>1, <1>2, <2>1, <2>2
<1>5. Sane(t, request)
  BY <1>2, <1>3, <1>4 DEF Sane
<1> QED BY <1>3, <1>5 DEF Adds, t

(* Every visit does what it should, since those of less rank do.           *)
LEMMA AllVisit ==
  ASSUME NEW rank, IsRank(rank), NEW request, NEW v, IsVisit(v, request), NEW id \in Components
  PROVE  Visits(v, id, request)
<1> DEFINE Bad == {rank[x] : x \in {y \in Components : ~Visits(v, y, request)}}
<1>1. Len(Catalog) \in Nat /\ rank \in [Components -> 0 .. Len(Catalog)]
  BY EnvTypes DEF IsRank
<1>2. Bad = {}
  <2> SUFFICES ASSUME Bad # {} PROVE FALSE
    OBVIOUS
  <2>1. PICK m \in Bad : \A n \in Bad : m <= n
    <3>1. Bad \in SUBSET Nat
      BY <1>1
    <3> HIDE DEF Bad
    <3> QED BY <3>1, LeastNumber
  <2>2. PICK x \in Components : rank[x] = m /\ ~Visits(v, x, request)
    BY <2>1
  <2>3. Requires[x] \in Seq(Components) /\ Len(Requires[x]) \in Nat
    BY EnvTypes, LenProperties
  <2>4. ASSUME NEW i \in 1 .. Len(Requires[x]) PROVE Visits(v, Requires[x][i], request)
    <3>1. Requires[x][i] \in Components /\ Requires[x][i] \in ToSet(Requires[x])
      BY <2>3, ElementOfSeq, LenProperties DEF ToSet
    <3>2. rank[Requires[x][i]] < rank[x]
      BY <3>1 DEF IsRank
    <3>3. ~(m <= rank[Requires[x][i]])
      BY <1>1, <2>2, <3>1, <3>2
    <3>4. rank[Requires[x][i]] \notin Bad
      <4> HIDE DEF Bad
      <4> QED BY <2>1, <3>3
    <3> QED BY <3>1, <3>4
  <2>5. ASSUME NEW s \in Seq(Components), Sane(s, request)
        PROVE  Adds(s, v[x][s], request) /\ (x \in ToSet(request) => x \in ToSet(v[x][s]))
    <3>1. v[x][s] = Visit(v, s, x, request)
      BY DEF IsVisit
    <3>2. CASE x \in ToSet(s) \/ x \notin ToSet(request)
      BY <2>5, <3>1, <3>2 DEF Visit, Adds
    <3>3. CASE x \notin ToSet(s) /\ x \in ToSet(request)
      <4> DEFINE t == VisitAll(v, s, Requires[x])
      <4>1. v[x][s] = Append(t, x)
        BY <3>1, <3>3 DEF Visit
      <4>2. /\ Adds(s, t, request)
            /\ \A i \in 1 .. Len(Requires[x]) :
                 Requires[x][i] \in ToSet(request) => Requires[x][i] \in ToSet(t)
        BY <2>3, <2>4, <2>5, VisitAllAdds
      <4> HIDE DEF t
      <4>3. \A dep \in ToSet(Requires[x]) \cap ToSet(request) : dep \in ToSet(t)
        BY <2>3, <4>2, LenProperties DEF ToSet
      <4>4. Adds(t, Append(t, x), request) /\ x \in ToSet(Append(t, x))
        BY <3>3, <4>2, <4>3, AppendSane DEF Adds
      <4> QED BY <4>1, <4>2, <4>4 DEF Adds
    <3> QED BY <3>2, <3>3
  <2>6. Visits(v, x, request)
    BY <2>5 DEF Visits
  <2> QED BY <2>2, <2>6
<1> QED BY <1>2

(* Sorting gives a sequence in which every component comes after those of  *)
(* the request it needs (planner.ts 164-178).                              *)
LEMMA TopoSortSorts ==
  ASSUME NEW request \in Seq(Components)
  PROVE  /\ TopoSort(request) \in Seq(Components) /\ Sorted(TopoSort(request))
         /\ ToSet(TopoSort(request)) = ToSet(request)
<1> DEFINE v == CHOOSE f : IsVisit(f, request)
           s == VisitAll(v, <<>>, request)
<1>1. PICK rank : IsRank(rank)
  BY EnvTypes
<1>2. IsVisit(v, request)
  BY <1>1, VisitExists, Zenon
<1>3. TopoSort(request) = s
  BY Zenon DEF TopoSort, IsVisit
<1> HIDE DEF v
<1>4. Len(request) \in Nat /\ DOMAIN request = 1 .. Len(request)
      /\ \A i \in 1 .. Len(request) : request[i] \in Components
  BY ElementOfSeq, LenProperties
<1>5. \A i \in 1 .. Len(request) : Visits(v, request[i], request)
  BY <1>1, <1>2, <1>4, AllVisit
<1>6. Sane(<<>>, request)
  BY EmptySeq DEF Sane, ToSet
<1>7. Sane(s, request) /\ \A i \in 1 .. Len(request) : request[i] \in ToSet(request) => request[i] \in ToSet(s)
  BY <1>4, <1>5, <1>6, VisitAllAdds DEF Adds
<1> HIDE DEF s
<1>8. ToSet(s) = ToSet(request)
  BY <1>4, <1>7 DEF Sane, ToSet
<1>9. Sorted(s)
  BY <1>7, <1>8 DEF Sane, Sorted
<1> QED BY <1>3, <1>7, <1>8, <1>9 DEF Sane

-----------------------------------------------------------------------------
(* The steps of the calls, the broker and the machine.                     *)
LEMMA IdleIs ==
  /\ IdleCall \in CallRecord /\ IdleCall.plan = None /\ ~Applies(IdleCall)
  /\ \A pl : Knows(IdleCall, pl)
  /\ \A c, b, ex, ins : Reached(c, IdleCall, b, ex, ins)
<1>1. /\ IdleCall.at = "idle" /\ IdleCall.plan = None
      /\ IdleCall = [at |-> "idle", plan |-> None, owner |-> None, request |-> <<>>, pos |-> 0,
                     seen |-> {}, ops |-> <<>>, step |-> 0, answer |-> None]
  BY DEF IdleCall
<1>2. IdleCall \in CallRecord
  BY <1>1, EmptySeq DEF CallRecord
<1> QED BY <1>1, <1>2 DEF Applies, Knows, Reached

(* The types of the parts of the state.                                    *)
LEMMA TypesOf ==
  ASSUME ETypeOK
  PROVE  /\ \A c \in Calls : call[c] \in CallRecord
         /\ \A p \in PlanIds :
              /\ plan[p] \in PlanRecord /\ plan[p].ops \in Seq(Components) /\ Len(plan[p].ops) \in Nat
              /\ executed[p] \in Seq(Components) /\ Len(executed[p]) \in Nat
              /\ installed[p] \in SUBSET Components
BY LenProperties DEF ETypeOK, PlanRecord

(* A call is a record of these fields.                                     *)
Shape(r) ==
  r = [at |-> r.at, plan |-> r.plan, owner |-> r.owner, request |-> r.request, pos |-> r.pos,
       seen |-> r.seen, ops |-> r.ops, step |-> r.step, answer |-> r.answer]

LEMMA Typed ==
  ASSUME NEW r, Shape(r),
         r.at \in {"idle", "inspect", "save", "claim", "step", "connect", "asked", "answered"},
         r.plan \in PlanIds \cup {None}, r.owner \in Owners \cup {None}, r.request \in Requests \cup {<<>>},
         r.pos \in Nat, r.seen \in SUBSET Components, r.ops \in Seq(Components), r.step \in Nat,
         r.answer \in {None, "accepted", "failed", "AlreadyApplied"}
  PROVE  r \in CallRecord
BY DEF Shape, CallRecord

(* A step of one call that changes no plan, and neither what the broker    *)
(* does nor what it has done, keeps the invariant if what the call now     *)
(* says is so.                                                             *)
LEMMA CallMoves ==
  ASSUME PlansInv, NEW c \in Calls, NEW r \in CallRecord, Go(c, r),
         Knows(r, plan), Reached(c, r, broker, executed, installed),
         Applies(r) => Applies(call[c]) /\ r.plan = call[c].plan,
         UNCHANGED <<plan, broker, executed, installed>>,
         ready' \in SUBSET Components, efaults' \in Nat, drifts' \in Nat, completed' \in SUBSET PlanIds,
         \A p \in completed' \ completed :
           plan[p].status = "claimed" /\ ToSet(plan[p].ops) \subseteq installed[p]
  PROVE  PlansInv'
<1>1. /\ call \in [Calls -> CallRecord] /\ call' = [call EXCEPT ![c] = r]
      /\ plan' = plan /\ broker' = broker /\ executed' = executed /\ installed' = installed
  BY DEF PlansInv, ETypeOK, Go
<1>2. call'[c] = r /\ \A d \in Calls \ {c} : call'[d] = call[d]
  BY <1>1
<1>3. ETypeOK'
  BY <1>1 DEF PlansInv, ETypeOK
<1>4. CallsInv'
  BY <1>1, <1>2, Zenon DEF PlansInv, CallsInv
<1>5. AloneInv'
  <2>1. ASSUME NEW d \in Calls, Applies(call'[d])
        PROVE  Applies(call[d]) /\ call'[d].plan = call[d].plan
    BY <1>2, <2>1
  <2> QED BY <2>1, Zenon DEF PlansInv, AloneInv
<1>6. KeptInv'
  BY <1>1, Zenon DEF PlansInv, KeptInv, Kept
<1>7. BrokerInv'
  BY <1>1 DEF PlansInv, BrokerInv
<1> QED BY <1>3, <1>4, <1>5, <1>6, <1>7 DEF PlansInv

(* A call that ends leaves the plans as they are.                          *)
LEMMA CallStops ==
  ASSUME PlansInv, NEW c \in Calls, Go(c, IdleCall),
         UNCHANGED <<ready, plan, broker, executed, installed, completed, drifts>>, efaults' \in Nat
  PROVE  PlansInv'
<1>1. /\ ready' \in SUBSET Components /\ drifts' \in Nat /\ completed' \in SUBSET PlanIds
      /\ completed' \ completed = {} /\ UNCHANGED <<plan, broker, executed, installed>>
  BY DEF PlansInv, ETypeOK
<1> QED BY <1>1, IdleIs, CallMoves

(* What a call knows stays so while its plan stays as it is.               *)
LEMMA KnowsStill ==
  ASSUME NEW r, NEW before, NEW after, Knows(r, before),
         r.plan # None => after[r.plan] = before[r.plan]
  PROVE  Knows(r, after)
<1>1. CASE r.plan = None
  BY <1>1 DEF Knows
<1>2. CASE r.plan # None
  <2>1. after[r.plan] = before[r.plan]
    BY <1>2
  <2> QED BY <1>2, <2>1 DEF Knows
<1> QED BY <1>1, <1>2

(* What a step of a call alone leaves typed.                               *)
LEMMA StaticTypes ==
  ASSUME PlansInv, UNCHANGED <<ready, plan, broker, executed, installed, completed, efaults, drifts>>
  PROVE  /\ ready' \in SUBSET Components /\ drifts' \in Nat /\ efaults' \in Nat
         /\ completed' \in SUBSET PlanIds /\ completed' \ completed = {}
         /\ UNCHANGED <<plan, broker, executed, installed>>
BY DEF PlansInv, ETypeOK

(* The steps of a call up to the claim.                                    *)
LEMMA BeginPlanInv ==
  ASSUME PlansInv, NEW c \in Calls, NEW o \in Owners, NEW q \in Requests, BeginPlan(c, o, q)
  PROVE  PlansInv'
<1>1. PICK r :
        /\ r = [IdleCall EXCEPT !.at = "inspect", !.owner = o, !.request = q, !.pos = 1]
        /\ Go(c, r) /\ UNCHANGED <<ready, plan, broker, executed, installed, completed, efaults, drifts>>
  BY DEF BeginPlan
<1>2. /\ Shape(r) /\ r.at = "inspect" /\ r.plan = IdleCall.plan /\ r.owner = o /\ r.request = q /\ r.pos = 1
      /\ r.seen = IdleCall.seen /\ r.ops = IdleCall.ops /\ r.step = IdleCall.step /\ r.answer = IdleCall.answer
  BY <1>1, IdleIs DEF CallRecord, Shape
<1>3. r \in CallRecord /\ r.plan = None
  <2>1. /\ IdleCall.plan = None /\ IdleCall.seen \in SUBSET Components /\ IdleCall.ops \in Seq(Components)
        /\ IdleCall.step \in Nat /\ IdleCall.answer \in {None, "accepted", "failed", "AlreadyApplied"}
    BY IdleIs DEF CallRecord
  <2>2. r.plan \in PlanIds \cup {None} /\ r.pos \in Nat /\ r.owner \in Owners \cup {None}
        /\ r.request \in Requests \cup {<<>>} /\ r.at \in {"idle", "inspect", "save", "claim", "step", "connect", "asked", "answered"}
    BY <1>2, <2>1
  <2>3. r.seen \in SUBSET Components /\ r.ops \in Seq(Components) /\ r.step \in Nat
        /\ r.answer \in {None, "accepted", "failed", "AlreadyApplied"}
    BY <1>2, <2>1
  <2>4. r \in CallRecord
    BY <1>2, <2>2, <2>3, Typed
  <2> QED BY <1>2, <2>1, <2>4
<1>4. Knows(r, plan) /\ Reached(c, r, broker, executed, installed) /\ ~Applies(r)
  BY <1>2, <1>3 DEF Knows, Reached, Applies
<1> QED BY <1>1, <1>3, <1>4, StaticTypes, CallMoves

LEMMA BeginApplyInv ==
  ASSUME PlansInv, NEW c \in Calls, NEW o \in Owners, NEW p \in PlanIds, BeginApply(c, o, p)
  PROVE  PlansInv'
<1>1. PICK r :
        /\ r = [IdleCall EXCEPT !.at = "inspect", !.owner = o, !.plan = p, !.ops = plan[p].ops, !.pos = 1]
        /\ Go(c, r) /\ UNCHANGED <<ready, plan, broker, executed, installed, completed, efaults, drifts>>
        /\ plan[p].status # None
  BY DEF BeginApply
<1>2. /\ Shape(r) /\ r.at = "inspect" /\ r.plan = p /\ r.owner = o /\ r.ops = plan[p].ops /\ r.pos = 1
      /\ r.seen = IdleCall.seen /\ r.request = IdleCall.request /\ r.step = IdleCall.step /\ r.answer = IdleCall.answer
  BY <1>1, IdleIs DEF CallRecord, Shape
<1>3. plan[p].ops \in Seq(Components) /\ p # None
  BY TypesOf, EnvTypes DEF PlansInv
<1>4. r \in CallRecord
  BY <1>2, <1>3, IdleIs, Typed DEF CallRecord
<1>5. Knows(r, plan) /\ Reached(c, r, broker, executed, installed) /\ ~Applies(r)
  BY <1>1, <1>2, <1>3 DEF Knows, Reached, Applies
<1> QED BY <1>1, <1>4, <1>5, StaticTypes, CallMoves

LEMMA InspectInv ==
  ASSUME PlansInv, NEW c \in Calls, Inspect(c)
  PROVE  PlansInv'
<1> DEFINE old == call[c]
           at2 == IF old.pos < Len(Catalog) THEN "inspect" ELSE IF old.plan = None THEN "save" ELSE "claim"
           more == old.seen \cup Resolved(Catalog[old.pos])
<1>1. PICK r :
        /\ r = [old EXCEPT !.seen = more, !.pos = @ + 1, !.at = at2]
        /\ Go(c, r) /\ UNCHANGED <<ready, plan, broker, executed, installed, completed, efaults, drifts>>
        /\ old.at = "inspect"
  BY DEF Inspect
<1>2. old \in CallRecord /\ Knows(old, plan)
  BY TypesOf DEF PlansInv, CallsInv
<1>3. more \in SUBSET Components
  BY <1>2 DEF Resolved, CallRecord, PlansInv, ETypeOK
<1>4. at2 \in {"inspect", "save", "claim"} /\ (at2 = "save" => old.plan = None) /\ (at2 = "claim" => old.plan # None)
  OBVIOUS
<1> HIDE DEF old, at2
<1>5. /\ r.at = at2 /\ r.plan = old.plan /\ r.ops = old.ops /\ r.request = old.request
      /\ r \in CallRecord
  <2>1. /\ Shape(r) /\ r.at = at2 /\ r.plan = old.plan /\ r.owner = old.owner /\ r.ops = old.ops
        /\ r.pos = old.pos + 1 /\ r.seen = more /\ r.request = old.request
        /\ r.step = old.step /\ r.answer = old.answer
    <3> HIDE DEF more
    <3> QED BY <1>1, <1>2 DEF CallRecord, Shape
  <2> HIDE DEF more
  <2>2. old.pos + 1 \in Nat
    BY <1>2 DEF CallRecord
  <2>3. r \in CallRecord
    BY <1>2, <1>3, <1>4, <2>1, <2>2, Typed DEF CallRecord
  <2> QED BY <2>1, <2>3
<1>6. Knows(r, plan) /\ Reached(c, r, broker, executed, installed) /\ ~Applies(r)
  BY <1>1, <1>2, <1>4, <1>5 DEF Knows, Reached, Applies
<1> QED BY <1>1, <1>5, <1>6, StaticTypes, CallMoves

(* A plan is saved under an identifier that nothing knows.                 *)
LEMMA SavePlanInv ==
  ASSUME PlansInv, NEW c \in Calls, NEW p \in PlanIds, SavePlan(c, p)
  PROVE  PlansInv'
<1> DEFINE q == call[c].request
           new == [status |-> "planned", owner |-> call[c].owner, made |-> call[c].seen,
                   ops |-> TopoSort(q), expired |-> FALSE]
<1>1. /\ call[c].at = "save" /\ plan[p].status = None
      /\ plan' = [plan EXCEPT ![p] = new] /\ Go(c, IdleCall)
      /\ UNCHANGED <<ready, broker, executed, installed, completed, efaults, drifts>>
  BY DEF SavePlan
<1>2. /\ call[c] \in CallRecord /\ q \in Requests
      /\ plan \in [PlanIds -> PlanRecord] /\ call \in [Calls -> CallRecord]
  BY <1>1, TypesOf, Zenon DEF PlansInv, ETypeOK, CallsInv, Knows
<1>3. TopoSort(q) \in Seq(Components) /\ Sorted(TopoSort(q)) /\ Len(TopoSort(q)) \in Nat
  BY <1>2, EnvTypes, TopoSortSorts, LenProperties
<1>4. new \in PlanRecord /\ new.status = "planned" /\ new.ops = TopoSort(q)
  BY <1>2, <1>3 DEF PlanRecord, CallRecord
<1> HIDE DEF new, q
<1>5. /\ plan'[p] = new /\ \A x \in PlanIds \ {p} : plan'[x] = plan[x]
      /\ call'[c] = IdleCall /\ \A d \in Calls \ {c} : call'[d] = call[d]
  BY <1>1, <1>2 DEF Go
<1>6. ETypeOK'
  <2>1. plan' \in [PlanIds -> PlanRecord] /\ call' \in [Calls -> CallRecord]
    BY <1>1, <1>2, <1>4, IdleIs DEF Go
  <2> QED BY <1>1, <2>1 DEF PlansInv, ETypeOK
<1>7. CallsInv'
  <2> SUFFICES ASSUME NEW d \in Calls
               PROVE  Knows(call'[d], plan') /\ Reached(d, call'[d], broker, executed, installed)
    BY <1>1, Zenon DEF CallsInv
  <2>1. CASE d = c
    BY <1>5, <2>1, IdleIs
  <2>2. CASE d # c
    <3>1. call'[d] = call[d] /\ call[d] \in CallRecord /\ Knows(call[d], plan)
          /\ Reached(d, call[d], broker, executed, installed)
      BY <1>2, <1>5, <2>2 DEF PlansInv, CallsInv
    <3>2. call[d].plan # None => call[d].plan \in PlanIds /\ call[d].plan # p
      BY <1>1, <3>1 DEF Knows, CallRecord
    <3>3. call[d].plan # None => plan'[call[d].plan] = plan[call[d].plan]
      BY <1>5, <3>2
    <3>4. Knows(call[d], plan')
      BY <3>1, <3>3, KnowsStill
    <3> QED BY <3>1, <3>4
  <2> QED BY <2>1, <2>2
<1>8. AloneInv'
  <2>1. ASSUME NEW d \in Calls, Applies(call'[d]) PROVE call'[d] = call[d]
    BY <1>5, <2>1, IdleIs
  <2> QED BY <2>1, Zenon DEF PlansInv, AloneInv
<1>9. KeptInv'
  <2> SUFFICES ASSUME NEW x \in PlanIds PROVE Kept(x, plan', executed, installed, completed)
    BY <1>1, Zenon DEF KeptInv
  <2>1. Kept(x, plan, executed, installed, completed)
    BY DEF PlansInv, KeptInv
  <2>2. CASE x = p
    <3>1. executed[p] = <<>> /\ p \notin completed
      BY <1>1, <2>1, <2>2 DEF Kept, None
    <3>2. Len(executed[p]) = 0
      BY <3>1
    <3>3. Given(p, executed, plan', installed)
      BY <1>3, <1>4, <1>5, <3>2 DEF Given
    <3> QED BY <1>3, <1>4, <1>5, <2>2, <3>1, <3>3 DEF Kept
  <2>3. CASE x # p
    BY <1>5, <2>1, <2>3 DEF Kept, Given
  <2> QED BY <2>2, <2>3
<1>10. BrokerInv'
  BY <1>1 DEF PlansInv, BrokerInv
<1> QED BY <1>6, <1>7, <1>8, <1>9, <1>10 DEF PlansInv

(* A claim makes the caller the one who applies the plan.                  *)
LEMMA ClaimInv ==
  ASSUME PlansInv, NEW c \in Calls, Claim(c)
  PROVE  PlansInv'
<1> DEFINE p == call[c].plan
           r == [call[c] EXCEPT !.at = "step", !.step = 1]
<1>1. call[c].at = "claim" /\ UNCHANGED <<ready, broker, executed, installed, completed, efaults, drifts>>
  BY DEF Claim
<1>2. CASE ~Claimable(c)
  <2>1. Go(c, IdleCall) /\ UNCHANGED plan
    BY <1>2 DEF Claim
  <2> QED BY <1>1, <2>1, StaticTypes, CallStops
<1>3. CASE Claimable(c)
  <2>1. /\ plan[p].status = "planned" /\ plan' = [plan EXCEPT ![p].status = "claimed"] /\ Go(c, r)
    BY <1>3 DEF Claim, Claimable
  <2>2. /\ call[c] \in CallRecord /\ Knows(call[c], plan) /\ p \in PlanIds
        /\ plan \in [PlanIds -> PlanRecord] /\ call \in [Calls -> CallRecord]
    <3>1. call[c] \in CallRecord /\ Knows(call[c], plan)
      BY TypesOf DEF PlansInv, CallsInv
    <3>2. p \in PlanIds
      BY <1>1, <3>1 DEF Knows, CallRecord
    <3> QED BY <3>1, <3>2 DEF PlansInv, ETypeOK
  <2>3. /\ r \in CallRecord /\ r.at = "step" /\ r.step = 1 /\ r.plan = p /\ r.ops = call[c].ops
    BY <2>2 DEF CallRecord
  <2>4. call[c].ops = plan[p].ops
    BY <2>2, EnvTypes DEF Knows
  <2> HIDE DEF r
  <2>5. /\ call'[c] = r /\ \A d \in Calls \ {c} : call'[d] = call[d]
    BY <2>1, <2>2 DEF Go
  <2>6. /\ plan'[p] = [plan[p] EXCEPT !.status = "claimed"] /\ plan[p] \in PlanRecord
        /\ \A x \in PlanIds \ {p} : plan'[x] = plan[x]
    BY <2>1, <2>2
  <2>7. plan'[p] \in PlanRecord /\ plan'[p].status = "claimed" /\ plan'[p].ops = plan[p].ops
    BY <2>6 DEF PlanRecord
  <2> HIDE DEF p
  <2>8. ETypeOK'
    <3>1. plan' \in [PlanIds -> PlanRecord]
      BY <2>1, <2>2, <2>7
    <3>2. call' \in [Calls -> CallRecord]
      BY <2>1, <2>2, <2>3 DEF Go
    <3> QED BY <1>1, <3>1, <3>2 DEF PlansInv, ETypeOK
  <2>9. \A x \in PlanIds : plan'[x].ops = plan[x].ops /\ (plan[x].status = "claimed" => plan'[x].status = "claimed")
    BY <2>6, <2>7
  <2>10. Kept(p, plan, executed, installed, completed) /\ executed[p] = <<>>
    BY <2>1, <2>2 DEF PlansInv, KeptInv, Kept
  <2>11. CallsInv'
    <3> SUFFICES ASSUME NEW d \in Calls
                 PROVE  Knows(call'[d], plan') /\ Reached(d, call'[d], broker, executed, installed)
      BY <1>1, Zenon DEF CallsInv
    <3>1. CASE d = c
      <4>1. Len(r.ops) \in Nat /\ Len(executed[p]) = 0 /\ ToSet(executed[p]) = {}
        BY <2>2, <2>3, <2>10, LenProperties DEF CallRecord, ToSet
      <4>2. Knows(r, plan')
        <5>1. /\ r.plan # None /\ plan'[r.plan].status = "claimed" /\ r.ops = plan'[r.plan].ops
              /\ r.at = "step" /\ r.step \in 1 .. Len(r.ops) + 1
          BY <2>2, <2>3, <2>4, <2>7, <4>1, EnvTypes
        <5> QED BY <5>1 DEF Knows, Applies, None
      <4>3. Reached(c, r, broker, executed, installed)
        BY <2>3, <4>1 DEF Reached
      <4> QED BY <2>5, <3>1, <4>2, <4>3
    <3>2. CASE d # c
      <4>1. call'[d] = call[d] /\ call[d] \in CallRecord /\ Knows(call[d], plan)
            /\ Reached(d, call[d], broker, executed, installed)
        BY <2>2, <2>5, <3>2 DEF PlansInv, CallsInv
      <4>2. call[d].plan # None => call[d].plan \in PlanIds
        BY <4>1 DEF CallRecord
      <4>3. call[d].plan # None => plan'[call[d].plan].status # None
        BY <2>6, <2>7, <4>1, <4>2 DEF Knows, None
      <4>4. Knows(call[d], plan')
        BY <2>9, <4>1, <4>2, <4>3 DEF Knows, Applies
      <4> QED BY <4>1, <4>4
    <3> QED BY <3>1, <3>2
  <2>12. AloneInv'
    <3>1. \A d \in Calls \ {c} : Applies(call[d]) => call[d].plan # p
      BY <2>1, <2>2 DEF PlansInv, CallsInv, Knows
    <3>2. \A d \in Calls : d # c => call'[d] = call[d]
      BY <2>5
    <3>3. ASSUME NEW d \in Calls, NEW e \in Calls, Applies(call'[d]), Applies(call'[e]),
                 call'[d].plan = call'[e].plan
          PROVE  d = e
      <4>1. CASE d # c /\ e # c
        BY <3>2, <3>3, <4>1 DEF PlansInv, AloneInv
      <4>2. CASE d = c \/ e = c
        BY <2>3, <2>5, <3>1, <3>2, <3>3, <4>2
      <4> QED BY <4>1, <4>2
    <3> QED BY <3>3 DEF AloneInv
  <2>13. KeptInv'
    <3> SUFFICES ASSUME NEW x \in PlanIds PROVE Kept(x, plan', executed, installed, completed)
      BY <1>1, Zenon DEF KeptInv
    <3>1. Kept(x, plan, executed, installed, completed)
      BY DEF PlansInv, KeptInv
    <3>2. plan'[x].status # "claimed" => plan[x].status # "claimed"
      BY <2>9
    <3> QED BY <2>9, <3>1, <3>2 DEF Kept, Given
  <2>14. BrokerInv'
    BY <1>1 DEF PlansInv, BrokerInv
  <2> QED BY <2>8, <2>11, <2>12, <2>13, <2>14 DEF PlansInv
<1> QED BY <1>2, <1>3

(* The caller's plan, and how far it has come.                             *)
LEMMA ApplierIs ==
  ASSUME PlansInv, NEW c \in Calls, Applies(call[c])
  PROVE  /\ call[c] \in CallRecord /\ Knows(call[c], plan)
         /\ Reached(c, call[c], broker, executed, installed)
         /\ call[c].plan \in PlanIds /\ call[c].plan # None /\ plan[call[c].plan].status = "claimed"
         /\ call[c].ops = plan[call[c].plan].ops /\ call[c].ops \in Seq(Components)
         /\ call[c].step \in Nat /\ call[c].step >= 1 /\ Len(call[c].ops) \in Nat
         /\ Kept(call[c].plan, plan, executed, installed, completed)
<1>1. /\ call[c] \in CallRecord /\ Knows(call[c], plan)
      /\ Reached(c, call[c], broker, executed, installed)
  BY TypesOf DEF PlansInv, CallsInv
<1>2. call[c].plan # None /\ plan[call[c].plan].status = "claimed" /\ call[c].ops = plan[call[c].plan].ops
  BY <1>1 DEF Knows
<1>3. call[c].plan \in PlanIds /\ call[c].ops \in Seq(Components) /\ Len(call[c].ops) \in Nat
  BY <1>1, <1>2, LenProperties DEF CallRecord
<1>4. call[c].step \in Nat /\ call[c].step >= 1
  BY <1>1, <1>3 DEF Knows
<1>5. Kept(call[c].plan, plan, executed, installed, completed)
  BY <1>3 DEF PlansInv, KeptInv
<1> QED BY <1>1, <1>2, <1>3, <1>4, <1>5

(* The next operation, or the end, at which all was given and installed.   *)
LEMMA ApplyStepInv ==
  ASSUME PlansInv, NEW c \in Calls, ApplyStep(c)
  PROVE  PlansInv'
<1> DEFINE p == call[c].plan
           r == [call[c] EXCEPT !.at = "connect"]
<1>1. call[c].at = "step" /\ UNCHANGED <<ready, plan, broker, executed, installed, efaults, drifts>>
  BY DEF ApplyStep
<1>2. /\ call[c] \in CallRecord /\ Knows(call[c], plan) /\ p \in PlanIds /\ p # None
      /\ plan[p].status = "claimed" /\ call[c].ops = plan[p].ops
      /\ call[c].step \in Nat /\ call[c].step >= 1 /\ Len(call[c].ops) \in Nat
      /\ Kept(p, plan, executed, installed, completed)
      /\ Reached(c, call[c], broker, executed, installed)
  BY <1>1, ApplierIs DEF Applies
<1>3. /\ call[c].step <= Len(call[c].ops) + 1
      /\ Len(executed[p]) = call[c].step - 1 /\ ToSet(executed[p]) \subseteq installed[p]
  BY <1>1, <1>2 DEF Knows, Applies, Reached
<1>4. /\ ready' \in SUBSET Components /\ efaults' \in Nat /\ drifts' \in Nat
      /\ UNCHANGED <<plan, broker, executed, installed>>
  BY <1>1 DEF PlansInv, ETypeOK
<1>5. CASE call[c].step > Len(call[c].ops)
  <2>1. Go(c, IdleCall) /\ completed' = completed \cup {p}
    BY <1>5 DEF ApplyStep
  <2>2. completed' \in SUBSET PlanIds
    BY <1>2, <2>1 DEF PlansInv, ETypeOK
  <2>3. ToSet(plan[p].ops) \subseteq installed[p]
    <3>1. Len(executed[p]) = Len(plan[p].ops)
      <4>1. call[c].step = Len(call[c].ops) + 1
        BY <1>2, <1>3, <1>5
      <4>2. Len(call[c].ops) = Len(plan[p].ops)
        BY <1>2
      <4> QED BY ONLY <1>2, <1>3, <4>1, <4>2
    <3>2. \A i \in 1 .. Len(plan[p].ops) : plan[p].ops[i] = executed[p][i]
      BY <1>2, <3>1 DEF Kept, Given
    <3>3. ToSet(plan[p].ops) \subseteq ToSet(executed[p])
      <4>1. DOMAIN plan[p].ops = 1 .. Len(plan[p].ops) /\ DOMAIN executed[p] = 1 .. Len(plan[p].ops)
        BY <1>2, <3>1, TypesOf DEF PlansInv
      <4> QED BY <3>2, <4>1, Zenon DEF ToSet
    <3> QED BY <1>3, <3>3
  <2>4. \A x \in completed' \ completed : plan[x].status = "claimed" /\ ToSet(plan[x].ops) \subseteq installed[x]
    BY <1>2, <2>1, <2>3
  <2> HIDE DEF p
  <2> QED BY <1>4, <2>1, <2>2, <2>4, IdleIs, CallMoves
<1>6. CASE call[c].step <= Len(call[c].ops)
  <2>1. UNCHANGED completed /\ (Go(c, IdleCall) \/ Go(c, r))
    BY <1>2, <1>6 DEF ApplyStep
  <2>2. CASE Go(c, IdleCall)
    BY <1>1, <1>4, <2>1, <2>2, CallStops
  <2>3. CASE Go(c, r)
    <3>1. /\ r \in CallRecord /\ r.at = "connect" /\ r.plan = p /\ r.step = call[c].step /\ r.ops = call[c].ops
      BY <1>2 DEF CallRecord
    <3>2. completed' \in SUBSET PlanIds /\ completed' \ completed = {}
      BY <2>1 DEF PlansInv, ETypeOK
    <3> HIDE DEF r
    <3>3. Knows(r, plan)
      BY <1>2, <1>6, <3>1 DEF Knows, Applies, None
    <3>4. Reached(c, r, broker, executed, installed)
      BY <1>3, <3>1 DEF Reached
    <3>5. Applies(r) /\ Applies(call[c])
      BY <1>1, <3>1 DEF Applies
    <3> QED BY <1>4, <2>3, <3>1, <3>2, <3>3, <3>4, <3>5, CallMoves
  <2> QED BY <2>1, <2>2, <2>3
<1> QED BY <1>2, <1>5, <1>6

(* Only an operation that was accepted lets the call go on.                *)
LEMMA AnsweredInv ==
  ASSUME PlansInv, NEW c \in Calls, Answered(c)
  PROVE  PlansInv'
<1> DEFINE p == call[c].plan
           next == [call[c] EXCEPT !.at = "step", !.step = @ + 1]
<1>1. call[c].at = "answered" /\ UNCHANGED <<ready, plan, broker, executed, installed, completed, efaults, drifts>>
  BY DEF Answered
<1>2. CASE call[c].answer # "accepted"
  <2>1. Go(c, IdleCall)
    BY <1>2 DEF Answered, Accepted
  <2> QED BY <1>1, <2>1, StaticTypes, CallStops
<1>3. CASE call[c].answer = "accepted"
  <2>1. PICK r : r = next /\ Go(c, r)
    BY <1>3 DEF Answered, Accepted
  <2>2. /\ call[c] \in CallRecord /\ Knows(call[c], plan) /\ p \in PlanIds /\ p # None
        /\ plan[p].status = "claimed" /\ call[c].ops = plan[p].ops
        /\ call[c].step \in Nat /\ call[c].step >= 1 /\ Len(call[c].ops) \in Nat
        /\ Reached(c, call[c], broker, executed, installed)
    BY <1>1, ApplierIs DEF Applies
  <2>3. /\ call[c].step <= Len(call[c].ops)
        /\ Len(executed[p]) = call[c].step /\ ToSet(executed[p]) \subseteq installed[p]
    BY <1>1, <1>3, <2>2 DEF Knows, Applies, Reached
  <2>4. /\ r \in CallRecord /\ r.at = "step" /\ r.plan = p /\ r.step = call[c].step + 1 /\ r.ops = call[c].ops
    <3>1. /\ Shape(r) /\ r.at = "step" /\ r.plan = p /\ r.owner = call[c].owner /\ r.ops = call[c].ops
          /\ r.pos = call[c].pos /\ r.seen = call[c].seen /\ r.request = call[c].request
          /\ r.step = call[c].step + 1 /\ r.answer = call[c].answer
      BY <2>1, <2>2 DEF CallRecord, Shape
    <3>2. r.step \in Nat
      BY <2>2, <3>1
    <3>3. r \in CallRecord
      BY <2>2, <3>1, <3>2, Typed DEF CallRecord
    <3> QED BY <3>1, <3>3
  <2>5. Knows(r, plan)
    BY <2>2, <2>3, <2>4 DEF Knows, Applies, None
  <2>6. Reached(c, r, broker, executed, installed)
    BY <2>2, <2>3, <2>4 DEF Reached
  <2>7. Applies(r) /\ Applies(call[c])
    BY <1>1, <2>4 DEF Applies
  <2> QED BY <1>1, <2>1, <2>4, <2>5, <2>6, <2>7, StaticTypes, CallMoves
<1> QED BY <1>2, <1>3

(* A step that changes no plan and gives the broker nothing keeps the      *)
(* invariant if what the calls now say is so.                              *)
LEMMA Moves ==
  ASSUME PlansInv, UNCHANGED <<plan, executed, completed>>,
         ready' \in SUBSET Components, efaults' \in Nat, drifts' \in Nat,
         call' \in [Calls -> CallRecord], broker' \in BrokerRecord, BrokerInv',
         installed' \in [PlanIds -> SUBSET Components],
         \A p \in PlanIds : installed[p] \subseteq installed'[p],
         \A c \in Calls : /\ Knows(call'[c], plan)
                          /\ Reached(c, call'[c], broker', executed, installed')
                          /\ Applies(call'[c]) => Applies(call[c]) /\ call'[c].plan = call[c].plan
  PROVE  PlansInv'
<1>1. ETypeOK'
  BY DEF PlansInv, ETypeOK
<1>2. CallsInv'
  BY Zenon DEF CallsInv
<1>3. AloneInv'
  BY Zenon DEF PlansInv, AloneInv
<1>4. KeptInv'
  <2> SUFFICES ASSUME NEW x \in PlanIds PROVE Kept(x, plan, executed, installed', completed)
    BY Zenon DEF KeptInv
  <2>1. Kept(x, plan, executed, installed, completed) /\ installed[x] \subseteq installed'[x]
    BY DEF PlansInv, KeptInv
  <2> QED BY <2>1 DEF Kept, Given
<1> QED BY <1>1, <1>2, <1>3, <1>4 DEF PlansInv

(* A call that waits for no answer does not see the broker.                *)
LEMMA ReachedStill ==
  ASSUME NEW d, NEW r, NEW b, NEW b2, NEW ex, NEW ex2, NEW ins, NEW ins2,
         Reached(d, r, b, ex, ins), r.at # "asked",
         Applies(r) => ex2[r.plan] = ex[r.plan] /\ ins[r.plan] \subseteq ins2[r.plan]
  PROVE  Reached(d, r, b2, ex2, ins2)
BY DEF Reached, Applies

(* Nobody waits for a broker that has nothing to do.                       *)
LEMMA Asked ==
  ASSUME PlansInv, NEW d \in Calls, call[d].at = "asked"
  PROVE  broker.busy = d /\ broker.plan = call[d].plan /\ broker.busy # None /\ broker.up
<1>1. broker.busy = d /\ broker.plan = call[d].plan
  BY DEF PlansInv, CallsInv, Reached
<1> QED BY <1>1, EnvTypes DEF PlansInv, BrokerInv

(* Calls end, the broker comes to rest and what is installed grows.        *)
LEMMA CallsEnd ==
  ASSUME PlansInv, UNCHANGED <<plan, executed, completed>>,
         ready' \in SUBSET Components, efaults' \in Nat, drifts' \in Nat,
         call' \in [Calls -> CallRecord], broker' \in BrokerRecord, BrokerInv',
         installed' \in [PlanIds -> SUBSET Components],
         \A p \in PlanIds : installed[p] \subseteq installed'[p],
         \A c \in Calls : \/ call'[c] = IdleCall
                          \/ call'[c] = call[c] /\ (call[c].at = "asked" => broker' = broker)
  PROVE  PlansInv'
<1>1. ASSUME NEW c \in Calls
      PROVE  /\ Knows(call'[c], plan)
             /\ Reached(c, call'[c], broker', executed, installed')
             /\ Applies(call'[c]) => Applies(call[c]) /\ call'[c].plan = call[c].plan
  <2>1. CASE call'[c] = IdleCall
    BY <2>1, IdleIs
  <2>2. CASE call'[c] = call[c] /\ (call[c].at = "asked" => broker' = broker)
    <3>1. /\ Knows(call[c], plan) /\ Reached(c, call[c], broker, executed, installed)
      BY DEF PlansInv, CallsInv
    <3>2. Reached(c, call[c], broker', executed, installed')
      <4>1. CASE call[c].at = "asked"
        BY <2>2, <3>1, <4>1 DEF Reached
      <4>2. CASE call[c].at # "asked"
        <5>1. Applies(call[c]) => installed[call[c].plan] \subseteq installed'[call[c].plan]
          BY ApplierIs
        <5> QED BY <3>1, <4>2, <5>1, ReachedStill
      <4> QED BY <4>1, <4>2
    <3> QED BY <2>2, <3>1, <3>2
  <2> QED BY <2>1, <2>2
<1> QED BY <1>1, Moves

(* The broker refuses what it has been given, or is given the next         *)
(* operation of the caller's plan.                                         *)
LEMMA BrokerTakesInv ==
  ASSUME PlansInv, NEW c \in Calls, BrokerTakes(c)
  PROVE  PlansInv'
<1> DEFINE p == call[c].plan
           comp == call[c].ops[call[c].step]
           id == SentPlanId(c)
<1>1. /\ call[c].at = "connect" /\ broker.up /\ broker.busy = None
      /\ UNCHANGED <<ready, plan, installed, completed, efaults, drifts>>
  BY DEF BrokerTakes
<1>2. /\ call[c] \in CallRecord /\ Knows(call[c], plan) /\ p \in PlanIds /\ p # None
      /\ plan[p].status = "claimed" /\ call[c].ops = plan[p].ops /\ call[c].ops \in Seq(Components)
      /\ call[c].step \in Nat /\ call[c].step >= 1 /\ Len(call[c].ops) \in Nat
      /\ Kept(p, plan, executed, installed, completed)
      /\ Reached(c, call[c], broker, executed, installed) /\ Applies(call[c])
  BY <1>1, ApplierIs DEF Applies
<1>3. /\ call[c].step <= Len(call[c].ops)
      /\ Len(executed[p]) = call[c].step - 1 /\ ToSet(executed[p]) \subseteq installed[p]
  BY <1>1, <1>2 DEF Knows, Applies, Reached
<1>4. CASE id \in broker.known
  <2>1. PICK r : /\ r = [call[c] EXCEPT !.at = "answered", !.answer = "AlreadyApplied"]
                 /\ Go(c, r) /\ UNCHANGED <<broker, executed>>
    BY <1>4 DEF BrokerTakes
  <2>2. /\ Shape(r) /\ r.at = "answered" /\ r.plan = p /\ r.owner = call[c].owner /\ r.ops = call[c].ops
        /\ r.pos = call[c].pos /\ r.seen = call[c].seen /\ r.request = call[c].request
        /\ r.step = call[c].step /\ r.answer = "AlreadyApplied"
    BY <1>2, <2>1 DEF CallRecord, Shape
  <2>3. r \in CallRecord
    BY <1>2, <2>2, Typed DEF CallRecord
  <2>4. Knows(r, plan)
    BY <1>2, <1>3, <2>2 DEF Knows, Applies, None
  <2>5. Reached(c, r, broker, executed, installed) /\ Applies(r)
    BY <2>2 DEF Reached, Applies
  <2> QED BY <1>1, <1>2, <2>1, <2>2, <2>3, <2>4, <2>5, StaticTypes, CallMoves
<1>5. CASE id \notin broker.known
  <2>1. PICK r, b :
           /\ r = [call[c] EXCEPT !.at = "asked"]
           /\ b = [broker EXCEPT !.busy = c, !.component = comp, !.plan = p, !.known = @ \cup {id}]
           /\ Go(c, r) /\ broker' = b
           /\ executed' = [executed EXCEPT ![p] = Append(@, comp)]
    BY <1>5 DEF BrokerTakes
  <2>2. r \in CallRecord /\ r.at = "asked" /\ r.plan = p /\ r.step = call[c].step /\ r.ops = call[c].ops
    BY <1>2, <2>1 DEF CallRecord
  <2>3. comp \in Components /\ comp # None /\ c # None
    BY <1>2, <1>3, ElementOfSeq, EnvTypes
  <2>4. broker \in BrokerRecord
    BY DEF PlansInv, ETypeOK
  <2>5. /\ b.up = broker.up /\ b.busy = c /\ b.component = comp /\ b.plan = p /\ b.known = broker.known \cup {id}
        /\ b = [up |-> b.up, busy |-> b.busy, component |-> b.component, plan |-> b.plan, known |-> b.known]
    BY <2>1, <2>4 DEF BrokerRecord
  <2>6. b \in BrokerRecord
    <3>1. b.known \in {{}, {""}}
      BY <2>4, <2>5 DEF BrokerRecord, SentPlanId
    <3>2. b.up \in BOOLEAN
      BY <2>4, <2>5 DEF BrokerRecord
    <3> QED BY <1>2, <2>3, <2>5, <3>1, <3>2 DEF BrokerRecord
  <2>7. /\ executed[p] \in Seq(Components) /\ executed'[p] = Append(executed[p], comp)
        /\ \A x \in PlanIds \ {p} : executed'[x] = executed[x]
        /\ executed' \in [PlanIds -> Seq(Components)]
    <3>1. executed \in [PlanIds -> Seq(Components)]
      BY DEF PlansInv, ETypeOK
    <3>2. Append(executed[p], comp) \in Seq(Components)
      BY <1>2, <2>3, <3>1, AppendProperties
    <3> HIDE DEF comp
    <3> QED BY <1>2, <2>1, <3>1, <3>2
  <2>8. /\ Len(executed'[p]) = call[c].step
        /\ executed'[p][call[c].step] = comp
        /\ \A i \in 1 .. call[c].step - 1 : executed'[p][i] = executed[p][i]
    BY <1>2, <1>3, <2>3, <2>7, AppendProperties
  <2>9. call' \in [Calls -> CallRecord] /\ call'[c] = r /\ \A d \in Calls \ {c} : call'[d] = call[d]
    BY <2>1, <2>2 DEF Go, PlansInv, ETypeOK
  <2> HIDE DEF comp, p, id
  <2>10. ETypeOK'
    BY <1>1, <2>1, <2>6, <2>7, <2>9 DEF PlansInv, ETypeOK
  <2>11. CallsInv'
    <3> SUFFICES ASSUME NEW d \in Calls
                 PROVE  Knows(call'[d], plan) /\ Reached(d, call'[d], broker', executed', installed)
      BY <1>1, Zenon DEF CallsInv
    <3>1. CASE d = c
      <4>1. Knows(r, plan)
        BY <1>2, <1>3, <2>2 DEF Knows, Applies, None, p
      <4>2. Reached(c, r, broker', executed', installed)
        BY <2>1, <2>2, <2>5, <2>8 DEF Reached, comp
      <4> QED BY <2>9, <3>1, <4>1, <4>2
    <3>2. CASE d # c
      <4>1. call'[d] = call[d] /\ Knows(call[d], plan) /\ Reached(d, call[d], broker, executed, installed)
        BY <2>9, <3>2 DEF PlansInv, CallsInv
      <4>2. call[d].at # "asked"
        BY <1>1, Asked
      <4>3. Applies(call[d]) => executed'[call[d].plan] = executed[call[d].plan]
        <5> SUFFICES ASSUME Applies(call[d]) PROVE executed'[call[d].plan] = executed[call[d].plan]
          OBVIOUS
        <5>1. call[d].plan # p
          BY <1>2, <3>2 DEF PlansInv, AloneInv, p
        <5> QED BY <2>7, <5>1, ApplierIs
      <4>4. Reached(d, call[d], broker', executed', installed)
        BY <4>1, <4>2, <4>3, ReachedStill
      <4> QED BY <4>1, <4>4
    <3> QED BY <3>1, <3>2
  <2>12. AloneInv'
    <3>1. ASSUME NEW d \in Calls, Applies(call'[d])
          PROVE  Applies(call[d]) /\ call'[d].plan = call[d].plan
      BY <1>2, <2>2, <2>9, <3>1 DEF p
    <3> QED BY <3>1, Zenon DEF PlansInv, AloneInv
  <2>13. KeptInv'
    <3> SUFFICES ASSUME NEW x \in PlanIds PROVE Kept(x, plan, executed', installed, completed)
      BY <1>1, Zenon DEF KeptInv
    <3>1. Kept(x, plan, executed, installed, completed)
      BY DEF PlansInv, KeptInv
    <3>2. CASE x = p
      <4>1. \A i \in 1 .. Len(executed'[p]) - 1 : i \in 1 .. Len(executed[p])
        BY <1>2, <1>3, <2>8
      <4>2. \A i \in 1 .. Len(executed'[p]) - 1 : executed[p][i] \in installed[p]
        <5>1. DOMAIN executed[p] = 1 .. Len(executed[p])
          BY <2>7
        <5> QED BY <1>3, <4>1, <5>1, Zenon DEF ToSet, p
      <4>3. \A i \in 1 .. Len(executed'[p]) : executed'[p][i] = plan[p].ops[i]
        BY <1>2, <1>3, <2>8, <3>1, <3>2 DEF Kept, Given, comp
      <4>4. Given(p, executed', plan, installed)
        BY <1>2, <1>3, <2>8, <4>2, <4>3 DEF Given
      <4> QED BY <1>2, <3>1, <3>2, <4>4 DEF Kept
    <3>3. CASE x # p
      BY <2>7, <3>1, <3>3 DEF Kept, Given
    <3> QED BY <3>2, <3>3
  <2>14. BrokerInv'
    BY <1>1, <1>2, <2>1, <2>3, <2>5 DEF BrokerInv
  <2> QED BY <2>10, <2>11, <2>12, <2>13, <2>14 DEF PlansInv
<1> QED BY <1>4, <1>5

(* The broker has ended with an operation: the caller learns of it, or is  *)
(* gone.                                                                   *)
LEMMA BrokerAnswersInv ==
  ASSUME PlansInv, broker.busy # None, NEW answer \in {"accepted", "failed"}, BrokerAnswers(answer),
         UNCHANGED <<plan, executed, completed>>,
         ready' \in SUBSET Components, efaults' \in Nat, drifts' \in Nat,
         installed' \in [PlanIds -> SUBSET Components],
         \A p \in PlanIds : installed[p] \subseteq installed'[p],
         answer = "accepted" => broker.component \in installed'[broker.plan]
  PROVE  PlansInv'
<1> DEFINE c == broker.busy
           waits == call[c].at = "asked" /\ call[c].plan = broker.plan
<1>1. /\ broker \in BrokerRecord /\ call \in [Calls -> CallRecord] /\ c \in Calls /\ c # None
  BY DEF PlansInv, ETypeOK, BrokerRecord
<1>2. PICK b :
        /\ broker' = b
        /\ b = [broker EXCEPT !.up = waits, !.busy = None, !.component = None, !.plan = None,
                              !.known = IF waits THEN @ ELSE {}]
  BY DEF BrokerAnswers
<1>3. b \in BrokerRecord /\ b.busy = None
  <2>1. /\ b.busy = None /\ b.component = None /\ b.plan = None
        /\ b.up \in BOOLEAN /\ b.known \in {{}, {""}}
        /\ b = [up |-> b.up, busy |-> b.busy, component |-> b.component, plan |-> b.plan, known |-> b.known]
    BY <1>1, <1>2 DEF BrokerRecord
  <2> QED BY <2>1 DEF BrokerRecord
<1>4. BrokerInv'
  BY <1>2, <1>3 DEF BrokerInv
<1>5. \A d \in Calls : call[d].at = "asked" => d = c /\ waits
  BY Asked
<1>6. CASE ~waits
  <2>1. call' = call
    BY <1>6 DEF BrokerAnswers
  <2>2. \A d \in Calls : call'[d] = call[d] /\ call[d].at # "asked"
    BY <1>5, <1>6, <2>1
  <2> QED BY <1>1, <1>2, <1>3, <1>4, <2>1, <2>2, CallsEnd
<1>7. CASE waits
  <2>1. PICK r : /\ r = [call[c] EXCEPT !.at = "answered", !.answer = answer]
                 /\ call' = [call EXCEPT ![c] = r]
    BY <1>1, <1>7 DEF BrokerAnswers
  <2>2. /\ call[c] \in CallRecord /\ Knows(call[c], plan) /\ call[c].plan \in PlanIds /\ call[c].plan # None
        /\ plan[call[c].plan].status = "claimed" /\ call[c].ops = plan[call[c].plan].ops
        /\ call[c].step \in Nat /\ call[c].step >= 1 /\ Len(call[c].ops) \in Nat
        /\ Kept(call[c].plan, plan, executed, installed, completed)
        /\ Reached(c, call[c], broker, executed, installed) /\ Applies(call[c])
    BY <1>1, <1>7, ApplierIs DEF Applies
  <2>3. /\ Shape(r) /\ r.at = "answered" /\ r.plan = call[c].plan /\ r.owner = call[c].owner
        /\ r.ops = call[c].ops /\ r.pos = call[c].pos /\ r.seen = call[c].seen
        /\ r.request = call[c].request /\ r.step = call[c].step /\ r.answer = answer
    BY <2>1, <2>2 DEF CallRecord, Shape
  <2>4. r \in CallRecord
    <3>1. r.answer \in {None, "accepted", "failed", "AlreadyApplied"}
      BY <2>3
    <3> QED BY <2>2, <2>3, <3>1, Typed DEF CallRecord
  <2>5. /\ call' \in [Calls -> CallRecord] /\ call'[c] = r
        /\ \A d \in Calls \ {c} : call'[d] = call[d]
    BY <1>1, <2>1, <2>4
  <2> HIDE DEF c
  <2>6. Knows(r, plan) /\ Applies(r)
    BY <1>7, <2>2, <2>3 DEF Knows, Applies, None
  <2>7. Reached(c, r, b, executed, installed')
    <3>1. SUFFICES ASSUME answer = "accepted"
                   PROVE  /\ Len(executed[r.plan]) = r.step
                          /\ ToSet(executed[r.plan]) \subseteq installed'[r.plan]
      BY <2>3 DEF Reached
    <3>2. /\ Len(executed[r.plan]) = r.step /\ broker.plan = r.plan /\ broker.component = r.ops[r.step]
      BY <1>7, <2>2, <2>3 DEF Reached
    <3>3. \A i \in 1 .. Len(executed[r.plan]) : executed[r.plan][i] \in installed'[r.plan]
      <4> TAKE i \in 1 .. Len(executed[r.plan])
      <4>1. Given(r.plan, executed, plan, installed) /\ installed[r.plan] \subseteq installed'[r.plan]
        BY <2>2, <2>3 DEF Kept
      <4>2. CASE i = r.step
        BY <2>2, <2>3, <3>1, <3>2, <4>1, <4>2 DEF Given
      <4>3. CASE i # r.step
        <5>1. i \in 1 .. Len(executed[r.plan]) - 1
          BY <2>2, <2>3, <3>2, <4>3
        <5> QED BY <4>1, <5>1 DEF Given
      <4> QED BY <4>2, <4>3
    <3>4. DOMAIN executed[r.plan] = 1 .. Len(executed[r.plan])
      BY <2>2, <2>3, TypesOf DEF PlansInv
    <3> QED BY <3>2, <3>3, <3>4, Zenon DEF ToSet
  <2>8. ASSUME NEW d \in Calls
        PROVE  /\ Knows(call'[d], plan) /\ Reached(d, call'[d], broker', executed, installed')
               /\ Applies(call'[d]) => Applies(call[d]) /\ call'[d].plan = call[d].plan
    <3>1. CASE d = c
      BY <1>2, <2>2, <2>3, <2>5, <2>6, <2>7, <3>1
    <3>2. CASE d # c
      <4>1. call'[d] = call[d] /\ call[d].at # "asked" /\ Knows(call[d], plan)
            /\ Reached(d, call[d], broker, executed, installed)
        BY <1>5, <2>5, <3>2 DEF PlansInv, CallsInv
      <4>2. Applies(call[d]) => installed[call[d].plan] \subseteq installed'[call[d].plan]
        BY ApplierIs
      <4>3. Reached(d, call[d], broker', executed, installed')
        BY <4>1, <4>2, ReachedStill
      <4> QED BY <4>1, <4>3
    <3> QED BY <3>1, <3>2
  <2> QED BY <1>2, <1>3, <1>4, <2>5, <2>8, Moves
<1> QED BY <1>6, <1>7

(* An installation ends well, or fails.                                    *)
LEMMA InstalledInv ==
  ASSUME PlansInv, Installed
  PROVE  PlansInv'
<1>1. /\ broker.busy # None /\ BrokerAnswers("accepted")
      /\ ready' = ready \cup {broker.component}
      /\ installed' = [installed EXCEPT ![broker.plan] = @ \cup {broker.component}]
      /\ UNCHANGED <<plan, executed, completed, efaults, drifts>>
  BY DEF Installed
<1>2. broker.component \in Components /\ broker.plan \in PlanIds
  BY <1>1, EnvTypes DEF PlansInv, ETypeOK, BrokerInv, BrokerRecord
<1>3. ready' \in SUBSET Components /\ efaults' \in Nat /\ drifts' \in Nat
  BY <1>1, <1>2 DEF PlansInv, ETypeOK
<1>4. /\ installed' \in [PlanIds -> SUBSET Components]
      /\ \A p \in PlanIds : installed[p] \subseteq installed'[p]
      /\ broker.component \in installed'[broker.plan]
  BY <1>1, <1>2 DEF PlansInv, ETypeOK
<1> QED BY <1>1, <1>3, <1>4, BrokerAnswersInv

LEMMA InstallFailsInv ==
  ASSUME PlansInv, InstallFails
  PROVE  PlansInv'
<1>1. /\ broker.busy # None /\ BrokerAnswers("failed")
      /\ UNCHANGED <<ready, plan, executed, installed, completed, drifts>>
      /\ efaults > 0 /\ efaults' = efaults - 1
  BY DEF InstallFails, EFault
<1>2. /\ ready' \in SUBSET Components /\ efaults' \in Nat /\ drifts' \in Nat
      /\ installed' \in [PlanIds -> SUBSET Components] /\ \A p \in PlanIds : installed[p] \subseteq installed'[p]
  BY <1>1 DEF PlansInv, ETypeOK
<1> QED BY <1>1, <1>2, BrokerAnswersInv

(* The broker at its start, and after a stop.                              *)
LEMMA BrokerUpIs ==
  /\ BrokerUp \in BrokerRecord /\ BrokerUp.busy = None
  /\ [BrokerUp EXCEPT !.up = FALSE] \in BrokerRecord
  /\ [BrokerUp EXCEPT !.up = FALSE].busy = None
BY DEF BrokerUp, BrokerRecord

(* Calls end or go on, and no call waits for a broker that changes.        *)
LEMMA RestInv ==
  ASSUME PlansInv, UNCHANGED <<plan, executed, installed, completed>>,
         ready' \in SUBSET Components, efaults' \in Nat, drifts' \in Nat,
         broker' \in BrokerRecord, broker' = broker \/ broker'.busy = None,
         call' \in [Calls -> CallRecord],
         \A c \in Calls : \/ call'[c] = IdleCall
                          \/ call'[c] = call[c] /\ (call[c].at = "asked" => broker' = broker)
  PROVE  PlansInv'
<1>1. BrokerInv'
  BY DEF PlansInv, BrokerInv
<1>2. /\ installed' \in [PlanIds -> SUBSET Components]
      /\ \A p \in PlanIds : installed[p] \subseteq installed'[p]
  BY DEF PlansInv, ETypeOK
<1> QED BY <1>1, <1>2, CallsEnd

(* Nobody waits for a broker that starts; whoever waits for one that stops *)
(* gives up.                                                               *)
LEMMA BrokerStartsInv ==
  ASSUME PlansInv, BrokerStarts
  PROVE  PlansInv'
<1>1. ~broker.up /\ broker' = BrokerUp /\ UNCHANGED <<ready, plan, call, executed, installed, completed, efaults, drifts>>
  BY DEF BrokerStarts
<1>2. \A c \in Calls : call'[c] = call[c] /\ call[c].at # "asked"
  BY <1>1, Asked
<1>3. ready' \in SUBSET Components /\ efaults' \in Nat /\ drifts' \in Nat /\ call' \in [Calls -> CallRecord]
  BY <1>1 DEF PlansInv, ETypeOK
<1> QED BY <1>1, <1>2, <1>3, BrokerUpIs, RestInv

LEMMA BrokerStopsInv ==
  ASSUME PlansInv, BrokerStops
  PROVE  PlansInv'
<1>1. /\ broker' = [BrokerUp EXCEPT !.up = FALSE] /\ UNCHANGED <<ready, plan, executed, installed, completed, drifts>>
      /\ call' = [c \in Calls |-> IF call[c].at = "asked" THEN IdleCall ELSE call[c]]
      /\ efaults > 0 /\ efaults' = efaults - 1
  BY DEF BrokerStops, EFault
<1>2. /\ call' \in [Calls -> CallRecord]
      /\ \A c \in Calls : call'[c] = IdleCall \/ (call'[c] = call[c] /\ call[c].at # "asked")
  <2>1. call \in [Calls -> CallRecord]
    BY DEF PlansInv, ETypeOK
  <2> QED BY <1>1, <2>1, IdleIs
<1>3. ready' \in SUBSET Components /\ efaults' \in Nat /\ drifts' \in Nat
  BY <1>1 DEF PlansInv, ETypeOK
<1> QED BY <1>1, <1>2, <1>3, BrokerUpIs, RestInv

(* The machine changes, the server dies, a plan expires.                   *)
LEMMA DriftInv ==
  ASSUME PlansInv, NEW comp \in Components, Drift(comp)
  PROVE  PlansInv'
<1>1. /\ UNCHANGED <<plan, call, broker, executed, installed, completed, efaults>>
      /\ ready' \subseteq ready \cup {comp} /\ drifts > 0 /\ drifts' = drifts - 1
  BY DEF Drift
<1>2. /\ ready' \in SUBSET Components /\ efaults' \in Nat /\ drifts' \in Nat
      /\ call' \in [Calls -> CallRecord] /\ broker' \in BrokerRecord
  BY <1>1 DEF PlansInv, ETypeOK
<1> QED BY <1>1, <1>2, RestInv

LEMMA ServerDiesInv ==
  ASSUME PlansInv, ServerDies
  PROVE  PlansInv'
<1>1. /\ call' = [c \in Calls |-> IdleCall]
      /\ UNCHANGED <<ready, plan, broker, executed, installed, completed, efaults, drifts>>
  BY DEF ServerDies
<1>2. /\ ready' \in SUBSET Components /\ efaults' \in Nat /\ drifts' \in Nat /\ broker' \in BrokerRecord
  BY <1>1 DEF PlansInv, ETypeOK
<1>3. call' \in [Calls -> CallRecord] /\ \A c \in Calls : call'[c] = IdleCall
  BY <1>1, IdleIs
<1> QED BY <1>1, <1>2, <1>3, RestInv

LEMMA ExpireInv ==
  ASSUME PlansInv, NEW p \in PlanIds, Expire(p)
  PROVE  PlansInv'
<1>1. /\ plan' = [plan EXCEPT ![p].expired = TRUE]
      /\ UNCHANGED <<ready, call, broker, executed, installed, completed, efaults>>
      /\ drifts > 0 /\ drifts' = drifts - 1
  BY DEF Expire
<1>2. plan \in [PlanIds -> PlanRecord] /\ drifts' \in Nat /\ plan[p] \in PlanRecord
  BY <1>1 DEF PlansInv, ETypeOK
<1>3. PICK q : q = [plan[p] EXCEPT !.expired = TRUE] /\ plan' = [plan EXCEPT ![p] = q]
  BY <1>1, <1>2
<1>4. q \in PlanRecord /\ q.status = plan[p].status /\ q.ops = plan[p].ops
  BY <1>2, <1>3 DEF PlanRecord
<1>5. /\ plan' \in [PlanIds -> PlanRecord]
      /\ \A x \in PlanIds : plan'[x].status = plan[x].status /\ plan'[x].ops = plan[x].ops
  BY <1>2, <1>3, <1>4
<1>6. ETypeOK'
  BY <1>1, <1>2, <1>5 DEF PlansInv, ETypeOK
<1>7. CallsInv'
  <2> SUFFICES ASSUME NEW d \in Calls
               PROVE  Knows(call[d], plan') /\ Reached(d, call[d], broker, executed, installed)
    BY <1>1, Zenon DEF CallsInv
  <2>1. call[d] \in CallRecord /\ Knows(call[d], plan) /\ Reached(d, call[d], broker, executed, installed)
    BY TypesOf DEF PlansInv, CallsInv
  <2>2. call[d].plan # None => call[d].plan \in PlanIds
    BY <2>1 DEF CallRecord
  <2>3. call[d].plan # None =>
          plan'[call[d].plan].status = plan[call[d].plan].status /\ plan'[call[d].plan].ops = plan[call[d].plan].ops
    BY <1>5, <2>2
  <2>4. Knows(call[d], plan')
    <3>1. CASE call[d].plan = None
      BY <2>1, <3>1 DEF Knows
    <3>2. CASE call[d].plan # None
      <4>1. plan'[call[d].plan].status = plan[call[d].plan].status /\ plan'[call[d].plan].ops = plan[call[d].plan].ops
        BY <2>3, <3>2
      <4> QED BY <2>1, <3>2, <4>1 DEF Knows
    <3> QED BY <3>1, <3>2
  <2> QED BY <2>1, <2>4
<1>8. AloneInv'
  BY <1>1 DEF PlansInv, AloneInv
<1>9. KeptInv'
  <2> SUFFICES ASSUME NEW x \in PlanIds PROVE Kept(x, plan', executed, installed, completed)
    BY <1>1, Zenon DEF KeptInv
  <2>1. Kept(x, plan, executed, installed, completed)
    BY DEF PlansInv, KeptInv
  <2> QED BY <1>5, <2>1 DEF Kept, Given
<1>10. BrokerInv'
  BY <1>1 DEF PlansInv, BrokerInv
<1> QED BY <1>6, <1>7, <1>8, <1>9, <1>10 DEF PlansInv

LEMMA PlansStay ==
  ASSUME PlansInv, UNCHANGED evars
  PROVE  PlansInv'
<1>1. UNCHANGED <<ready, plan, call, broker, executed, installed, completed, efaults, drifts>>
  BY DEF evars
<1> QED BY <1>1 DEF PlansInv, ETypeOK, CallsInv, AloneInv, KeptInv, BrokerInv

(* The invariant holds at first, and every step of the service keeps it.   *)
LEMMA PlansBegin ==
  ASSUME NEW maxFaults \in Nat, NEW maxDrifts \in Nat, EInit(maxFaults, maxDrifts)
  PROVE  PlansInv
<1>1. /\ ready = {} /\ plan = [p \in PlanIds |-> NoPlan] /\ call = [c \in Calls |-> IdleCall] /\ broker = BrokerUp
      /\ executed = [p \in PlanIds |-> <<>>] /\ installed = [p \in PlanIds |-> {}] /\ completed = {}
      /\ efaults \in Nat /\ drifts \in Nat
  BY DEF EInit
<1>2. NoPlan \in PlanRecord /\ NoPlan.ops = <<>>
  <2>1. NoPlan = [status |-> None, owner |-> None, made |-> {}, ops |-> <<>>, expired |-> FALSE]
    BY DEF NoPlan
  <2>2. <<>> \in Seq(Components) /\ {} \in SUBSET Components
    BY EmptySeq
  <2> HIDE DEF NoPlan
  <2> QED BY <2>1, <2>2 DEF PlanRecord
<1>3. <<>> \in Seq(Components) /\ Len(<<>>) = 0
  BY EmptySeq
<1>4. ETypeOK
  <2>1. plan \in [PlanIds -> PlanRecord] /\ call \in [Calls -> CallRecord] /\ broker \in BrokerRecord
    BY <1>1, <1>2, IdleIs, BrokerUpIs
  <2>2. executed \in [PlanIds -> Seq(Components)] /\ installed \in [PlanIds -> SUBSET Components]
    BY <1>1, <1>3
  <2> QED BY <1>1, <2>1, <2>2 DEF ETypeOK
<1>5. \A c \in Calls : call[c] = IdleCall
  BY <1>1
<1>6. CallsInv /\ AloneInv /\ BrokerInv
  BY <1>1, <1>5, IdleIs, BrokerUpIs DEF CallsInv, AloneInv, BrokerInv
<1>7. KeptInv
  <2> SUFFICES ASSUME NEW p \in PlanIds PROVE Kept(p, plan, executed, installed, completed)
    BY DEF KeptInv
  <2>1. plan[p].ops = <<>> /\ executed[p] = <<>> /\ p \notin completed /\ Len(executed[p]) = 0 /\ Len(plan[p].ops) = 0
    BY <1>1, <1>2, <1>3
  <2>2. Sorted(plan[p].ops)
    BY <2>1 DEF Sorted
  <2> QED BY <2>1, <2>2 DEF Kept, Given
<1> QED BY <1>4, <1>6, <1>7 DEF PlansInv

LEMMA PlansGoOn ==
  ASSUME PlansInv, clients \subseteq Calls, ServiceNext
  PROVE  PlansInv'
<1>1. CASE Calling
  <2>1. PICK c \in Calls : EBegin(c) \/ ECall(c)
    BY <1>1 DEF Calling
  <2>2. CASE EBegin(c)
    BY <2>2, BeginPlanInv, BeginApplyInv DEF EBegin
  <2>3. CASE ECall(c)
    <3>1. CASE Inspect(c)
      BY <3>1, InspectInv
    <3>2. CASE \E p \in PlanIds : SavePlan(c, p)
      BY <3>2, SavePlanInv
    <3>3. CASE Claim(c)
      BY <3>3, ClaimInv
    <3>4. CASE ApplyStep(c)
      BY <3>4, ApplyStepInv
    <3>5. CASE ConnectFails(c)
      BY <3>5, StaticTypes, CallStops DEF ConnectFails
    <3>6. CASE TimesOut(c)
      <4>1. Go(c, IdleCall) /\ UNCHANGED <<ready, plan, broker, executed, installed, completed, drifts>>
        BY <3>6 DEF TimesOut
      <4>2. efaults' \in Nat
        BY <3>6 DEF TimesOut, EFault, PlansInv, ETypeOK
      <4> QED BY <4>1, <4>2, CallStops
    <3>7. CASE Answered(c)
      BY <3>7, AnsweredInv
    <3> QED BY <2>3, <3>1, <3>2, <3>3, <3>4, <3>5, <3>6, <3>7 DEF ECall
  <2> QED BY <2>1, <2>2, <2>3
<1>2. CASE Elsewhere
  <2>1. CASE \E c \in Calls : BrokerTakes(c)
    BY <2>1, BrokerTakesInv
  <2>2. CASE Installed \/ InstallFails
    BY <2>2, InstalledInv, InstallFailsInv
  <2>3. CASE BrokerStarts \/ BrokerStops
    BY <2>3, BrokerStartsInv, BrokerStopsInv
  <2>4. CASE (\E comp \in Components : Drift(comp)) \/ (\E p \in PlanIds : Expire(p))
    BY <2>4, DriftInv, ExpireInv
  <2> QED BY <1>2, <2>1, <2>2, <2>3, <2>4 DEF Elsewhere, EOutside
<1>3. CASE Supervising
  <2>1. ServerDies \/ UNCHANGED evars
    BY <1>3 DEF Supervising
  <2> QED BY <2>1, ServerDiesInv, PlansStay
<1> QED BY <1>1, <1>2, <1>3 DEF ServiceNext

(* The invariant of the plans, whatever the calls, the broker, the machine *)
(* and the supervisor do (planStore.ts 91, applyPlan.ts 57-125).           *)
THEOREM PlansAreKept == ServiceSpec => [](PlansInv /\ clients \subseteq Calls)
<1>1. ServiceInit => PlansInv /\ clients \subseteq Calls
  <2> SUFFICES ASSUME ServiceInit PROVE PlansInv /\ clients \subseteq Calls
    OBVIOUS
  <2>1. PICK k \in Cases : clients = k.clients /\ EInit(k.broker, k.drifts)
    BY DEF ServiceInit
  <2>2. k.clients \subseteq Calls /\ k.broker \in Nat /\ k.drifts \in Nat
    BY CasesAssumption DEF CasesAssumption
  <2> QED BY <2>1, <2>2, PlansBegin
<1>2. PlansInv /\ clients \subseteq Calls /\ [ServiceNext]_serviceVars => (PlansInv /\ clients \subseteq Calls)'
  <2> SUFFICES ASSUME PlansInv, clients \subseteq Calls, [ServiceNext]_serviceVars
               PROVE  PlansInv' /\ clients' \subseteq Calls
    OBVIOUS
  <2>1. CASE ServiceNext
    <3>1. clients' = clients
      BY <2>1 DEF ServiceNext, Calling, Elsewhere, Supervising
    <3> QED BY <2>1, <3>1, PlansGoOn
  <2>2. CASE UNCHANGED serviceVars
    <3>1. UNCHANGED evars /\ clients' = clients
      BY <2>2 DEF serviceVars
    <3> QED BY <3>1, PlansStay
  <2> QED BY <2>1, <2>2
<1> QED BY <1>1, <1>2, PTL DEF ServiceSpec

(* Every variable of the plans keeps its type: in particular the files of  *)
(* the store hold plans of the catalogue (planStore.ts 55-150).            *)
THEOREM PlansTypeCorrect == ServiceSpec => []ETypeOK
<1>1. PlansInv => ETypeOK
  BY DEF PlansInv
<1> QED BY <1>1, PlansAreKept, PTL

(* Of a plan the broker is given each operation at most once, in the order *)
(* of the plan and none after a failure: a plan is claimed once, the one   *)
(* call that has claimed it goes on only after an answer, and dies with    *)
(* the connection or the server (planStore.ts 91, applyPlan.ts 57-125).    *)
THEOREM GivenInOrderOnce == ServiceSpec => []ExecutedOnce
<1>1. PlansInv => ExecutedOnce
  <2> SUFFICES ASSUME PlansInv, NEW p \in PlanIds PROVE IsPrefix(executed[p], plan[p].ops)
    BY DEF ExecutedOnce
  <2>1. Given(p, executed, plan, installed)
    BY DEF PlansInv, KeptInv, Kept
  <2>2. /\ executed[p] \in Seq(Components) /\ plan[p].ops \in Seq(Components)
        /\ Len(executed[p]) \in Nat /\ Len(plan[p].ops) \in Nat
    BY TypesOf DEF PlansInv
  <2>3. executed[p] = SubSeq(plan[p].ops, 1, Len(executed[p]))
    BY <2>1, <2>2 DEF Given
  <2> QED BY <2>1, <2>2, <2>3 DEF Given, IsPrefix
<1> QED BY <1>1, PlansAreKept, PTL

(* What a component needs of its plan is installed before the broker is    *)
(* given the component, and a plan that is reported completed is installed *)
(* as a whole: the operations are sorted by their dependencies, and the    *)
(* applier goes on only after the broker has said that one is done         *)
(* (planner.ts 164, applyPlan.ts 65-105, developmentEnvironment.ts 256).   *)
THEOREM DependenciesFirst == ServiceSpec => []InstalledAsPlanned
<1>1. PlansInv => InstalledAsPlanned
  <2> SUFFICES ASSUME PlansInv PROVE InstalledAsPlanned
    OBVIOUS
  <2>1. CompletedInstalled
    BY DEF PlansInv, ETypeOK, KeptInv, Kept, CompletedInstalled
  <2>2. ASSUME NEW p \in PlanIds, NEW comp \in ToSet(executed[p]),
               NEW dep \in ToSet(Requires[comp]) \cap ToSet(plan[p].ops)
        PROVE  dep \in installed[p]
    <3>1. Sorted(plan[p].ops) /\ Given(p, executed, plan, installed)
      BY DEF PlansInv, KeptInv, Kept
    <3>2. /\ Len(executed[p]) \in Nat /\ Len(plan[p].ops) \in Nat
          /\ DOMAIN executed[p] = 1 .. Len(executed[p])
      BY TypesOf DEF PlansInv
    <3>3. PICK i \in 1 .. Len(executed[p]) : executed[p][i] = comp
      BY <3>2 DEF ToSet
    <3>4. i \in 1 .. Len(plan[p].ops) /\ plan[p].ops[i] = comp
      BY <3>1, <3>2, <3>3 DEF Given
    <3>5. PICK j \in 1 .. i - 1 : plan[p].ops[j] = dep
      BY <3>1, <3>4, <2>2 DEF Sorted
    <3>6. j \in 1 .. Len(executed[p]) - 1 /\ j \in 1 .. Len(executed[p])
      BY <3>2, <3>3, <3>5
    <3> QED BY <3>1, <3>5, <3>6 DEF Given
  <2>3. DependenciesInstalled
    BY <2>2, Zenon DEF DependenciesInstalled
  <2> QED BY <2>1, <2>3 DEF InstalledAsPlanned
<1> QED BY <1>1, PlansAreKept, PTL

-----------------------------------------------------------------------------
(* The life of a task.                                                     *)

(* The coordinator's synchronous code is on its way to spawning a worker.  *)
Starting == {"created", "token", "mark", "spawn"}

(* What the worker's counter says of its tool, its record and its token.   *)
WorkerInv ==
  \A t \in Tasks :
    /\ w[t] \in {"none", "boot", "startW", "failW"} => child[t] = "none"
    /\ w[t] \in {"none", "boot", "startW"} => starts[t] = 0
    /\ w[t] = "finalW" => child[t] # "alive"
    /\ w[t] \in Live => meta[t] \notin {"succeeded", "failed", "cancelled"}
    /\ meta[t] \in {"absent", "queued"} => w[t] = "none"
    /\ w[t] \in {"boot", "startW"} => token[t] \/ meta[t] = "removed"

(* Whatever waits to be started, in the list, in the coordinator's code or *)
(* among the records to recover, waits in one place and is still queued.   *)
StartInv ==
  /\ at.op # "idle" =>
       /\ at.task \in Tasks \ waiters
       /\ todo[at.task] = "absent"
       /\ meta[at.task] \notin {"absent", "removed"}
  /\ at.op \in Starting =>
       /\ w[at.task] = "none"
       /\ meta[at.task] = (IF at.op = "spawn" THEN "running" ELSE "queued")
       /\ at.op \in {"mark", "spawn"} => token[at.task]
       /\ at.op = "created" => at.task \notin active
  /\ \A t \in active : meta[t] # "absent"
  /\ \A t \in waiters : meta[t] = "queued" /\ t \notin active /\ todo[t] = "absent"
  /\ \A t \in Tasks : todo[t] # "absent" =>
       (todo[t] = "queued" <=> meta[t] = "queued") /\ meta[t] \notin {"absent", "removed"} /\ t \notin active
  /\ ~up => at.op = "idle" /\ waiters = {} /\ active = {}/\ \A t \in Tasks : todo[t] = "absent"

LifeInv == TypeOK /\ WorkerInv /\ StartInv /\ AtMostOnce /\ VerdictAfterChild

LEMMA CreatedFinite == Cardinality({u \in Tasks : born[u] > 0}) \in Nat
BY LifecycleAssumption, FS_Subset, FS_CardinalityType

USE DEF Ops, States, Open, Terminal, Live

LEMMA InitLife == Init => LifeInv
BY LifecycleAssumption, SMTT(30)
DEF Init, Idle, LifeInv, TypeOK, WorkerInv, StartInv, Starting, AtMostOnce, VerdictAfterChild

LEMMA LifeStep == LifeInv /\ [Next]_vars => LifeInv'
<1> SUFFICES ASSUME LifeInv, [Next]_vars PROVE LifeInv'
  OBVIOUS
<1>0. scenario' = scenario /\ unrun' \subseteq Tasks
  BY DEF Next, Record, vars, LifeInv, TypeOK
<1> USE <1>0
<1> USE LifecycleAssumption
    DEF LifeInv, TypeOK, WorkerInv, StartInv, Starting, AtMostOnce, VerdictAfterChild,
        files, queue, coord, work, Set, Do, DoWith, Idle, At, Free, Recovered
<1>1. ASSUME NEW t \in Tasks, Create(t) PROVE LifeInv'
  BY <1>1, CreatedFinite DEF Create
<1>2. ASSUME NEW t \in Tasks, SaveSpec(t) PROVE LifeInv'
  BY <1>2 DEF SaveSpec, Admit
<1>3. ASSUME NEW t \in Tasks, IssueToken(t) PROVE LifeInv'
  BY <1>3 DEF IssueToken
<1>4. ASSUME NEW t \in Tasks, TokenExists(t) PROVE LifeInv'
  BY <1>4 DEF TokenExists, Finish, Oldest
<1>5. ASSUME NEW t \in Tasks, MarkRunning(t) PROVE LifeInv'
  BY <1>5 DEF MarkRunning
<1>6. ASSUME NEW t \in Tasks, SpawnWorker(t) PROVE LifeInv'
  BY <1>6 DEF SpawnWorker
<1>7. ASSUME NEW t \in Tasks, RecordPid(t) PROVE LifeInv'
  BY <1>7 DEF RecordPid
<1>8. ASSUME NEW t \in Tasks, RecordPidWrite(t) PROVE LifeInv'
  BY <1>8 DEF RecordPidWrite
<1>9. ASSUME NEW t \in Tasks, QueueTimeout(t) PROVE LifeInv'
  BY <1>9 DEF QueueTimeout
<1>10. ASSUME NEW t \in Tasks, CancelWaiter(t) PROVE LifeInv'
  BY <1>10 DEF CancelWaiter
<1>11. ASSUME NEW t \in Tasks, CancelRead(t) PROVE LifeInv'
  BY <1>11 DEF CancelRead
<1>12. ASSUME NEW t \in Tasks, CancelCheck(t) PROVE LifeInv'
  BY <1>12 DEF CancelCheck
<1>13. ASSUME NEW t \in Tasks, CancelWrite(t) PROVE LifeInv'
  BY <1>13 DEF CancelWrite
<1>14. ASSUME NEW t \in Tasks, RequestCancel(t) PROVE LifeInv'
  BY <1>14 DEF RequestCancel
<1>15. ASSUME NEW t \in Tasks, PollEnded(t) PROVE LifeInv'
  BY <1>15 DEF PollEnded, Watched, Finish, Oldest
<1>16. ASSUME NEW t \in Tasks, PollFresh(t) PROVE LifeInv'
  BY <1>16 DEF PollFresh, Watched
<1>17. ASSUME NEW t \in Tasks, PollLost(t) PROVE LifeInv'
  BY <1>17 DEF PollLost, Watched
<1>18. ASSUME NEW t \in Tasks, ExpireCheck(t) PROVE LifeInv'
  BY <1>18 DEF ExpireCheck, Finish, Oldest
<1>19. ASSUME NEW t \in Tasks, ExpireWrite(t) PROVE LifeInv'
  BY <1>19 DEF ExpireWrite, Finish, Oldest
<1>20. ASSUME NEW t \in Tasks, RecoverEnded(t) PROVE LifeInv'
  BY <1>20 DEF RecoverEnded, Recovering, ToRecover, Oldest
<1>21. ASSUME NEW t \in Tasks, RecoverQueued(t) PROVE LifeInv'
  BY <1>21 DEF RecoverQueued, Recovering, ToRecover, Oldest, Admit
<1>22. ASSUME NEW t \in Tasks, RecoverAdopt(t) PROVE LifeInv'
  BY <1>22 DEF RecoverAdopt, Recovering, ToRecover, Oldest
<1>23. ASSUME NEW t \in Tasks, RecoverStale(t) PROVE LifeInv'
  BY <1>23 DEF RecoverStale, Recovering, ToRecover, Oldest
<1>24. ASSUME NEW t \in Tasks, RecoverWrite(t) PROVE LifeInv'
  BY <1>24 DEF RecoverWrite
<1>25. ASSUME NEW t \in Tasks, Cleanup(t) PROVE LifeInv'
  BY <1>25 DEF Cleanup, RemoveTask
<1>26. ASSUME NEW t \in Tasks, WorkerRefused(t) PROVE LifeInv'
  BY <1>26 DEF WorkerRefused
<1>27. ASSUME NEW t \in Tasks, CommandStart(t) PROVE LifeInv'
  BY <1>27 DEF CommandStart, WorkerVerified, StartChild
<1>28. ASSUME NEW t \in Tasks, StartFails(t) PROVE LifeInv'
  BY <1>28 DEF StartFails, WorkerVerified
<1>29. ASSUME NEW t \in Tasks, FailWrite(t) PROVE LifeInv'
  BY <1>29 DEF FailWrite
<1>30. ASSUME NEW t \in Tasks, StagedRead(t) PROVE LifeInv'
  BY <1>30 DEF StagedRead, WorkerVerified
<1>31. ASSUME NEW t \in Tasks, StagedStart(t) PROVE LifeInv'
  BY <1>31 DEF StagedStart, StartChild
<1>32. ASSUME NEW t \in Tasks, CancelTick(t) PROVE LifeInv'
  BY <1>32 DEF CancelTick
<1>33. ASSUME NEW t \in Tasks, CancelTickWrite(t) PROVE LifeInv'
  BY <1>33 DEF CancelTickWrite
<1>34. ASSUME NEW t \in Tasks, RuntimeTimer(t) PROVE LifeInv'
  BY <1>34 DEF RuntimeTimer
<1>35. ASSUME NEW t \in Tasks, Progress(t) PROVE LifeInv'
  BY <1>35 DEF Progress
<1>36. ASSUME NEW t \in Tasks, ProgressWrite(t) PROVE LifeInv'
  BY <1>36 DEF ProgressWrite
<1>37. ASSUME NEW t \in Tasks, Finalize(t) PROVE LifeInv'
  BY <1>37 DEF Finalize
<1>38. ASSUME NEW t \in Tasks, FinalizeWrite(t) PROVE LifeInv'
  BY <1>38 DEF FinalizeWrite, Verdict
<1>39. ASSUME NEW t \in Tasks, Heartbeat(t) PROVE LifeInv'
  BY <1>39 DEF Heartbeat
<1>40. ASSUME NEW t \in Tasks, ChildExit(t) PROVE LifeInv'
  BY <1>40 DEF ChildExit
<1>41. ASSUME NEW t \in Tasks, BeatAges(t) PROVE LifeInv'
  BY <1>41 DEF BeatAges, Beating
<1>42. ASSUME NEW t \in Tasks, WorkerCrash(t) PROVE LifeInv'
  BY <1>42 DEF WorkerCrash
<1>43. CASE Crash
  <2>1. TypeOK'
    <3>1. at' \in [op : Ops, task : Tasks \cup {NoTask}, snap : States]
      BY <1>43 DEF Crash
    <3>2. todo' \in [Tasks -> States] /\ crashes' \in Nat
      BY <1>43 DEF Crash
    <3>3. QED
      BY <1>43, <3>1, <3>2 DEF Crash
  <2>2. WorkerInv' /\ StartInv' /\ AtMostOnce' /\ VerdictAfterChild'
    BY <1>43 DEF Crash
  <2>3. QED
    BY <2>1, <2>2
<1>44. CASE Restart
  BY <1>44 DEF Restart
<1>45. CASE UNCHANGED vars
  BY <1>45 DEF vars, progress
<1>46. QED
  BY <1>1, <1>2, <1>3, <1>4, <1>5, <1>6, <1>7, <1>8, <1>9, <1>10, <1>11,
     <1>12, <1>13, <1>14, <1>15, <1>16, <1>17, <1>18, <1>19, <1>20, <1>21,
     <1>22, <1>23, <1>24, <1>25, <1>26, <1>27, <1>28, <1>29, <1>30, <1>31,
     <1>32, <1>33, <1>34, <1>35, <1>36, <1>37, <1>38, <1>39, <1>40, <1>41,
     <1>42, <1>43, <1>44, <1>45, ZenonT(30)
     DEF Next, Record, Enqueue, Dispatch, Cancel, Poll, Recover, Worker, Outside


LEMMA Life == Spec => []LifeInv
BY InitLife, LifeStep, PTL DEF Spec

(* Every variable keeps its type, whatever the tasks, kinds and faults.    *)
THEOREM TypeCorrect == Spec => []TypeOK
<1>1. LifeInv => TypeOK
  BY DEF LifeInv
<1> QED
  BY Life, <1>1, PTL

(* At-most-once execution: no sequence of crashes of the coordinator and   *)
(* of workers, stalls, restarts, cancellations and removals makes the tool *)
(* of a task start a second time (dispatch, recover and the staged start). *)
THEOREM ToolAtMostOnce == Spec => []AtMostOnce
<1>1. LifeInv => AtMostOnce
  BY DEF LifeInv
<1> QED
  BY Life, <1>1, PTL

(* A record never reads succeeded, failed or cancelled in front of a tool  *)
(* that still runs, whatever fails (worker.ts, finalize and fail).         *)
THEOREM VerdictsFollowTools == Spec => []VerdictAfterChild
<1>1. LifeInv => VerdictAfterChild
  BY DEF LifeInv
<1> QED
  BY Life, <1>1, PTL

-----------------------------------------------------------------------------
(* The tool of t has not started, and nothing is left that could start it. *)
Barred(t) ==
  /\ w[t] \notin {"boot", "startW"} /\ child[t] = "none"
  /\ w[t] = "none" => meta[t] \notin {"absent", "queued"} /\ ~At("spawn", t)

LEMMA BarredStep ==
  ASSUME NEW b \in Tasks, LifeInv, [Next]_vars, Barred(b)
  PROVE  Barred(b)'
<1> USE DEF Barred, LifeInv, TypeOK, WorkerInv, StartInv, Starting,
        files, queue, coord, work, Set, Do, DoWith, Idle, At, Free, Recovered
<1>1. ASSUME NEW t \in Tasks, Create(t) PROVE Barred(b)'
  BY <1>1 DEF Create
<1>2. ASSUME NEW t \in Tasks, SaveSpec(t) PROVE Barred(b)'
  BY <1>2 DEF SaveSpec, Admit
<1>3. ASSUME NEW t \in Tasks, IssueToken(t) PROVE Barred(b)'
  BY <1>3 DEF IssueToken
<1>4. ASSUME NEW t \in Tasks, TokenExists(t) PROVE Barred(b)'
  BY <1>4 DEF TokenExists, Finish, Oldest
<1>5. ASSUME NEW t \in Tasks, MarkRunning(t) PROVE Barred(b)'
  BY <1>5 DEF MarkRunning
<1>6. ASSUME NEW t \in Tasks, SpawnWorker(t) PROVE Barred(b)'
  BY <1>6 DEF SpawnWorker
<1>7. ASSUME NEW t \in Tasks, RecordPid(t) PROVE Barred(b)'
  BY <1>7 DEF RecordPid
<1>8. ASSUME NEW t \in Tasks, RecordPidWrite(t) PROVE Barred(b)'
  BY <1>8 DEF RecordPidWrite
<1>9. ASSUME NEW t \in Tasks, QueueTimeout(t) PROVE Barred(b)'
  BY <1>9 DEF QueueTimeout
<1>10. ASSUME NEW t \in Tasks, CancelWaiter(t) PROVE Barred(b)'
  BY <1>10 DEF CancelWaiter
<1>11. ASSUME NEW t \in Tasks, CancelRead(t) PROVE Barred(b)'
  BY <1>11 DEF CancelRead
<1>12. ASSUME NEW t \in Tasks, CancelCheck(t) PROVE Barred(b)'
  BY <1>12 DEF CancelCheck
<1>13. ASSUME NEW t \in Tasks, CancelWrite(t) PROVE Barred(b)'
  BY <1>13 DEF CancelWrite
<1>14. ASSUME NEW t \in Tasks, RequestCancel(t) PROVE Barred(b)'
  BY <1>14 DEF RequestCancel
<1>15. ASSUME NEW t \in Tasks, PollEnded(t) PROVE Barred(b)'
  BY <1>15 DEF PollEnded, Watched, Finish, Oldest
<1>16. ASSUME NEW t \in Tasks, PollFresh(t) PROVE Barred(b)'
  BY <1>16 DEF PollFresh, Watched
<1>17. ASSUME NEW t \in Tasks, PollLost(t) PROVE Barred(b)'
  BY <1>17 DEF PollLost, Watched
<1>18. ASSUME NEW t \in Tasks, ExpireCheck(t) PROVE Barred(b)'
  BY <1>18 DEF ExpireCheck, Finish, Oldest
<1>19. ASSUME NEW t \in Tasks, ExpireWrite(t) PROVE Barred(b)'
  BY <1>19 DEF ExpireWrite, Finish, Oldest
<1>20. ASSUME NEW t \in Tasks, RecoverEnded(t) PROVE Barred(b)'
  BY <1>20 DEF RecoverEnded, Recovering, ToRecover, Oldest
<1>21. ASSUME NEW t \in Tasks, RecoverQueued(t) PROVE Barred(b)'
  BY <1>21 DEF RecoverQueued, Recovering, ToRecover, Oldest, Admit
<1>22. ASSUME NEW t \in Tasks, RecoverAdopt(t) PROVE Barred(b)'
  BY <1>22 DEF RecoverAdopt, Recovering, ToRecover, Oldest
<1>23. ASSUME NEW t \in Tasks, RecoverStale(t) PROVE Barred(b)'
  BY <1>23 DEF RecoverStale, Recovering, ToRecover, Oldest
<1>24. ASSUME NEW t \in Tasks, RecoverWrite(t) PROVE Barred(b)'
  BY <1>24 DEF RecoverWrite
<1>25. ASSUME NEW t \in Tasks, Cleanup(t) PROVE Barred(b)'
  BY <1>25 DEF Cleanup, RemoveTask
<1>26. ASSUME NEW t \in Tasks, WorkerRefused(t) PROVE Barred(b)'
  BY <1>26 DEF WorkerRefused
<1>27. ASSUME NEW t \in Tasks, CommandStart(t) PROVE Barred(b)'
  BY <1>27 DEF CommandStart, WorkerVerified, StartChild
<1>28. ASSUME NEW t \in Tasks, StartFails(t) PROVE Barred(b)'
  BY <1>28 DEF StartFails, WorkerVerified
<1>29. ASSUME NEW t \in Tasks, FailWrite(t) PROVE Barred(b)'
  BY <1>29 DEF FailWrite
<1>30. ASSUME NEW t \in Tasks, StagedRead(t) PROVE Barred(b)'
  BY <1>30 DEF StagedRead, WorkerVerified
<1>31. ASSUME NEW t \in Tasks, StagedStart(t) PROVE Barred(b)'
  BY <1>31 DEF StagedStart, StartChild
<1>32. ASSUME NEW t \in Tasks, CancelTick(t) PROVE Barred(b)'
  BY <1>32 DEF CancelTick
<1>33. ASSUME NEW t \in Tasks, CancelTickWrite(t) PROVE Barred(b)'
  BY <1>33 DEF CancelTickWrite
<1>34. ASSUME NEW t \in Tasks, RuntimeTimer(t) PROVE Barred(b)'
  BY <1>34 DEF RuntimeTimer
<1>35. ASSUME NEW t \in Tasks, Progress(t) PROVE Barred(b)'
  BY <1>35 DEF Progress
<1>36. ASSUME NEW t \in Tasks, ProgressWrite(t) PROVE Barred(b)'
  BY <1>36 DEF ProgressWrite
<1>37. ASSUME NEW t \in Tasks, Finalize(t) PROVE Barred(b)'
  BY <1>37 DEF Finalize
<1>38. ASSUME NEW t \in Tasks, FinalizeWrite(t) PROVE Barred(b)'
  BY <1>38 DEF FinalizeWrite, Verdict
<1>39. ASSUME NEW t \in Tasks, Heartbeat(t) PROVE Barred(b)'
  BY <1>39 DEF Heartbeat
<1>40. ASSUME NEW t \in Tasks, ChildExit(t) PROVE Barred(b)'
  BY <1>40 DEF ChildExit
<1>41. ASSUME NEW t \in Tasks, BeatAges(t) PROVE Barred(b)'
  BY <1>41 DEF BeatAges, Beating
<1>42. ASSUME NEW t \in Tasks, WorkerCrash(t) PROVE Barred(b)'
  BY <1>42 DEF WorkerCrash
<1>43. CASE Crash
  BY <1>43 DEF Crash
<1>44. CASE Restart
  BY <1>44 DEF Restart
<1>45. CASE UNCHANGED vars
  BY <1>45 DEF vars, progress
<1>46. QED
  BY <1>1, <1>2, <1>3, <1>4, <1>5, <1>6, <1>7, <1>8, <1>9, <1>10, <1>11,
     <1>12, <1>13, <1>14, <1>15, <1>16, <1>17, <1>18, <1>19, <1>20, <1>21,
     <1>22, <1>23, <1>24, <1>25, <1>26, <1>27, <1>28, <1>29, <1>30, <1>31,
     <1>32, <1>33, <1>34, <1>35, <1>36, <1>37, <1>38, <1>39, <1>40, <1>41,
     <1>42, <1>43, <1>44, <1>45
     DEF Next, Record, Enqueue, Dispatch, Cancel, Poll, Recover, Worker, Outside

LEMMA EndedIsBarred ==
  ASSUME NEW b \in Tasks, LifeInv, EndedUnstarted(b)
  PROVE  Barred(b)
BY DEF Barred, EndedUnstarted, LifeInv, TypeOK, WorkerInv, StartInv, Starting, At

LEMMA EndedBarredNext ==
  ASSUME NEW b \in Tasks, LifeInv', EndedUnstarted(b)'
  PROVE  Barred(b)'
BY DEF Barred, EndedUnstarted, LifeInv, TypeOK, WorkerInv, StartInv, Starting, At

LEMMA UnrunBarred == Spec => [](\A b \in unrun : b \in Tasks /\ Barred(b))
<1> DEFINE AllBarred == \A b \in unrun : b \in Tasks /\ Barred(b)
<1>1. Init => AllBarred
  BY DEF Init
<1>2. ASSUME LifeInv, LifeInv', [Next]_vars, AllBarred PROVE AllBarred'
  <2>1. \A b \in unrun : (b \in Tasks /\ Barred(b))'
    BY <1>2, BarredStep
  <2>2. \A b \in Tasks : EndedUnstarted(b)' => Barred(b)'
    BY <1>2, EndedBarredNext
  <2>3. unrun' \subseteq unrun \cup {b \in Tasks : EndedUnstarted(b)'}
    BY <1>2 DEF Next, Record, vars
  <2>4. QED
    BY <2>1, <2>2, <2>3
<1>3. QED
  BY <1>1, <1>2, Life, PTL DEF Spec

(* A task that ended before its token was issued is never run, whatever    *)
(* restarts and re-admissions follow (cancel, the queue timer, recover).   *)
THEOREM EndedNeverRuns == Spec => []NeverRunsAfterQueue
<1>1. (\A b \in unrun : b \in Tasks /\ Barred(b)) => NeverRunsAfterQueue
  BY SMTT(30) DEF Barred, NeverRunsAfterQueue
<1>2. QED
  BY <1>1, UnrunBarred, PTL

-----------------------------------------------------------------------------
(* Without crashes of the coordinator and without stalls: the one active   *)
(* task is the one whose worker lives, its heartbeat is fresh from the     *)
(* moment it runs, and nobody takes it for dead.                           *)
LeaseInv ==
  /\ up /\ \A t \in Tasks : todo[t] = "absent"
  /\ \A t, u \in active : t = u
  /\ \A t \in Tasks :
       /\ w[t] \in Live => t \in active /\ t \in handle
       /\ meta[t] \in {"interrupted", "removed"} => w[t] \notin Live
       /\ w[t] \in Beating => beat[t] = "fresh"
       /\ w[t] \in {"none", "boot", "startW", "failW"} => beat[t] = "none" /\ t \notin observed
  /\ at.op \in {"token", "mark", "spawn"} => at.task \in active
  /\ at.op \in {"expire", "expireW"} => w[at.task] \notin Live
  /\ at.op # "recoverW"
  /\ ~May("workerCrash") => \A t \in Tasks : child[t] = "alive" => w[t] \in Live

Steady == ~May("coordinatorCrash") /\ ~May("stall")

LEMMA LeaseStep ==
  ASSUME Steady, LifeInv, LeaseInv, [Next]_vars
  PROVE  LeaseInv'
<1>0. scenario' = scenario
  BY DEF Next, Record, vars
<1> USE LifecycleAssumption, <1>0
    DEF Steady, May, LeaseInv, LifeInv, TypeOK, WorkerInv, StartInv, Starting, Beating,
        files, queue, coord, work, Set, Do, DoWith, Idle, At, Free, Recovered
<1>1. ASSUME NEW t \in Tasks, Create(t) PROVE LeaseInv'
  BY <1>1 DEF Create
<1>2. ASSUME NEW t \in Tasks, SaveSpec(t) PROVE LeaseInv'
  BY <1>2 DEF SaveSpec, Admit
<1>3. ASSUME NEW t \in Tasks, IssueToken(t) PROVE LeaseInv'
  BY <1>3 DEF IssueToken
<1>4. ASSUME NEW t \in Tasks, TokenExists(t) PROVE LeaseInv'
  BY <1>4 DEF TokenExists, Finish, Oldest
<1>5. ASSUME NEW t \in Tasks, MarkRunning(t) PROVE LeaseInv'
  BY <1>5 DEF MarkRunning
<1>6. ASSUME NEW t \in Tasks, SpawnWorker(t) PROVE LeaseInv'
  BY <1>6 DEF SpawnWorker
<1>7. ASSUME NEW t \in Tasks, RecordPid(t) PROVE LeaseInv'
  BY <1>7 DEF RecordPid
<1>8. ASSUME NEW t \in Tasks, RecordPidWrite(t) PROVE LeaseInv'
  BY <1>8 DEF RecordPidWrite
<1>9. ASSUME NEW t \in Tasks, QueueTimeout(t) PROVE LeaseInv'
  BY <1>9 DEF QueueTimeout
<1>10. ASSUME NEW t \in Tasks, CancelWaiter(t) PROVE LeaseInv'
  BY <1>10 DEF CancelWaiter
<1>11. ASSUME NEW t \in Tasks, CancelRead(t) PROVE LeaseInv'
  BY <1>11 DEF CancelRead
<1>12. ASSUME NEW t \in Tasks, CancelCheck(t) PROVE LeaseInv'
  BY <1>12 DEF CancelCheck
<1>13. ASSUME NEW t \in Tasks, CancelWrite(t) PROVE LeaseInv'
  BY <1>13 DEF CancelWrite
<1>14. ASSUME NEW t \in Tasks, RequestCancel(t) PROVE LeaseInv'
  BY <1>14 DEF RequestCancel
<1>15. ASSUME NEW t \in Tasks, PollEnded(t) PROVE LeaseInv'
  BY <1>15 DEF PollEnded, Watched, Finish, Oldest
<1>16. ASSUME NEW t \in Tasks, PollFresh(t) PROVE LeaseInv'
  BY <1>16 DEF PollFresh, Watched
<1>17. ASSUME NEW t \in Tasks, PollLost(t) PROVE LeaseInv'
  BY <1>17 DEF PollLost, Watched
<1>18. ASSUME NEW t \in Tasks, ExpireCheck(t) PROVE LeaseInv'
  BY <1>18 DEF ExpireCheck, Finish, Oldest
<1>19. ASSUME NEW t \in Tasks, ExpireWrite(t) PROVE LeaseInv'
  BY <1>19 DEF ExpireWrite, Finish, Oldest
<1>20. ASSUME NEW t \in Tasks, RecoverEnded(t) PROVE LeaseInv'
  BY <1>20 DEF RecoverEnded, Recovering, ToRecover, Oldest
<1>21. ASSUME NEW t \in Tasks, RecoverQueued(t) PROVE LeaseInv'
  BY <1>21 DEF RecoverQueued, Recovering, ToRecover, Oldest, Admit
<1>22. ASSUME NEW t \in Tasks, RecoverAdopt(t) PROVE LeaseInv'
  BY <1>22 DEF RecoverAdopt, Recovering, ToRecover, Oldest
<1>23. ASSUME NEW t \in Tasks, RecoverStale(t) PROVE LeaseInv'
  BY <1>23 DEF RecoverStale, Recovering, ToRecover, Oldest
<1>24. ASSUME NEW t \in Tasks, RecoverWrite(t) PROVE LeaseInv'
  BY <1>24 DEF RecoverWrite
<1>25. ASSUME NEW t \in Tasks, Cleanup(t) PROVE LeaseInv'
  BY <1>25 DEF Cleanup, RemoveTask
<1>26. ASSUME NEW t \in Tasks, WorkerRefused(t) PROVE LeaseInv'
  BY <1>26 DEF WorkerRefused
<1>27. ASSUME NEW t \in Tasks, CommandStart(t) PROVE LeaseInv'
  BY <1>27 DEF CommandStart, WorkerVerified, StartChild
<1>28. ASSUME NEW t \in Tasks, StartFails(t) PROVE LeaseInv'
  BY <1>28 DEF StartFails, WorkerVerified
<1>29. ASSUME NEW t \in Tasks, FailWrite(t) PROVE LeaseInv'
  BY <1>29 DEF FailWrite
<1>30. ASSUME NEW t \in Tasks, StagedRead(t) PROVE LeaseInv'
  BY <1>30 DEF StagedRead, WorkerVerified
<1>31. ASSUME NEW t \in Tasks, StagedStart(t) PROVE LeaseInv'
  BY <1>31 DEF StagedStart, StartChild
<1>32. ASSUME NEW t \in Tasks, CancelTick(t) PROVE LeaseInv'
  BY <1>32 DEF CancelTick
<1>33. ASSUME NEW t \in Tasks, CancelTickWrite(t) PROVE LeaseInv'
  BY <1>33 DEF CancelTickWrite
<1>34. ASSUME NEW t \in Tasks, RuntimeTimer(t) PROVE LeaseInv'
  BY <1>34 DEF RuntimeTimer
<1>35. ASSUME NEW t \in Tasks, Progress(t) PROVE LeaseInv'
  BY <1>35 DEF Progress
<1>36. ASSUME NEW t \in Tasks, ProgressWrite(t) PROVE LeaseInv'
  BY <1>36 DEF ProgressWrite
<1>37. ASSUME NEW t \in Tasks, Finalize(t) PROVE LeaseInv'
  BY <1>37 DEF Finalize
<1>38. ASSUME NEW t \in Tasks, FinalizeWrite(t) PROVE LeaseInv'
  BY <1>38 DEF FinalizeWrite, Verdict
<1>39. ASSUME NEW t \in Tasks, Heartbeat(t) PROVE LeaseInv'
  BY <1>39 DEF Heartbeat
<1>40. ASSUME NEW t \in Tasks, ChildExit(t) PROVE LeaseInv'
  BY <1>40 DEF ChildExit
<1>41. ASSUME NEW t \in Tasks, BeatAges(t) PROVE LeaseInv'
  BY <1>41 DEF BeatAges
<1>42. ASSUME NEW t \in Tasks, WorkerCrash(t) PROVE LeaseInv'
  BY <1>42 DEF WorkerCrash
<1>43. CASE Crash
  BY <1>43 DEF Crash
<1>44. CASE Restart
  BY <1>44 DEF Restart
<1>45. CASE UNCHANGED vars
  BY <1>45 DEF vars, progress
<1>46. QED
  BY <1>1, <1>2, <1>3, <1>4, <1>5, <1>6, <1>7, <1>8, <1>9, <1>10, <1>11,
     <1>12, <1>13, <1>14, <1>15, <1>16, <1>17, <1>18, <1>19, <1>20, <1>21,
     <1>22, <1>23, <1>24, <1>25, <1>26, <1>27, <1>28, <1>29, <1>30, <1>31,
     <1>32, <1>33, <1>34, <1>35, <1>36, <1>37, <1>38, <1>39, <1>40, <1>41,
     <1>42, <1>43, <1>44, <1>45
     DEF Next, Record, Enqueue, Dispatch, Cancel, Poll, Recover, Worker, Outside

LEMMA InitLease == Init => LeaseInv
BY LifecycleAssumption DEF Init, Idle, LeaseInv, Beating

LEMMA Lease == Spec => [](Steady => LeaseInv)
<1>1. LifeInv /\ (Steady => LeaseInv) /\ [Next]_vars => (Steady => LeaseInv)'
  <2>1. [Next]_vars => scenario' = scenario
    BY DEF Next, Record, vars
  <2>2. QED
    BY <2>1, LeaseStep DEF Steady, May
<1> QED
  BY <1>1, InitLease, Life, PTL DEF Spec

(* As long as the server stays up and no live worker is delayed beyond the *)
(* staleness bound, a task is interrupted only once its worker is gone     *)
(* (waitForTerminal's startup rule), any number of workers crashing.       *)
THEOREM InterruptsOnlyTheDead == Spec => []InterruptedHasNoWorker
<1>1. LifeInv /\ (Steady => LeaseInv) => InterruptedHasNoWorker
  BY DEF LifeInv, TypeOK, LeaseInv, InterruptedHasNoWorker, Steady
<1> QED
  BY <1>1, Life, Lease, PTL

(* If workers do not crash either, the exclusive resource is held, and by  *)
(* nobody else, for as long as the tool runs.                              *)
THEOREM LeaseOutlivesTool == Spec => []ChildHoldsLease
<1>1. LifeInv /\ (Steady => LeaseInv) => ChildHoldsLease
  BY DEF LifeInv, TypeOK, LeaseInv, ChildHoldsLease, Steady
<1> QED
  BY <1>1, Life, Lease, PTL

=============================================================================
