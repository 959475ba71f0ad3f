----------------------------- MODULE TaskProofs -----------------------------
(***************************************************************************)
(* Proofs about the tasks.  First about their admission, DevTaskScheduler, *)
(* for every set of tasks and resources and every value of the caps; then  *)
(* about their logs, TaskLogs, for every set of characters and widths,     *)
(* every output, and every way the pipe and the limits cut it.             *)
(***************************************************************************)
EXTENDS DevTaskScheduler, TaskLogs, BasicLemmas, FiniteSetTheorems

(* The counters of occupancy o are exact for the requests req.             *)
Exact(o, req) ==
  /\ \A r \in Resources : o.held[r] = Cardinality(Wanting(o.active, r, req))
  /\ o.builds = Cardinality(OfClass(o.active, "build", req))
  /\ o.privileged = Cardinality(OfClass(o.active, "privileged", req))

(* ahd orders the waiters W totally; it may name tasks that have left.     *)
IsList(W, ahd) ==
  /\ \A t \in W : t \notin ahd[t]
  /\ \A t, u \in W :
       /\ t # u => (t \in ahd[u] \/ u \in ahd[t])
       /\ t \in ahd[u] => ahd[t] \subseteq ahd[u]

-----------------------------------------------------------------------------
(* Sets of tasks are finite, and their cardinalities are monotone.         *)
LEMMA TaskSets ==
  ASSUME NEW S \in SUBSET Tasks
  PROVE  /\ IsFiniteSet(S)
         /\ Cardinality(S) \in Nat
         /\ \A T \in SUBSET S : Cardinality(T) \in Nat /\ Cardinality(T) <= Cardinality(S)
         /\ Cardinality(S) = 0 <=> S = {}
<1>1. IsFiniteSet(S)
  BY SchedulerAssumption, FS_Subset
<1>2. Cardinality(S) \in Nat
  BY <1>1, FS_CardinalityType
<1>3. ASSUME NEW T \in SUBSET S PROVE Cardinality(T) \in Nat /\ Cardinality(T) <= Cardinality(S)
  <2>1. IsFiniteSet(T) /\ Cardinality(T) <= Cardinality(S)
    BY <1>1, FS_Subset
  <2> QED BY <2>1, FS_CardinalityType
<1>4. Cardinality(S) = 0 <=> S = {}
  BY <1>1, FS_EmptySet
<1> QED BY <1>1, <1>2, <1>3, <1>4

(* Counting over disjoint sets of tasks adds up.                           *)
LEMMA DisjointCounts ==
  ASSUME NEW S \in SUBSET Tasks, NEW T \in SUBSET Tasks, S \cap T = {}
  PROVE  Cardinality(S \cup T) = Cardinality(S) + Cardinality(T)
<1>1. IsFiniteSet(S) /\ IsFiniteSet(T) /\ Cardinality(S) \in Nat /\ Cardinality(T) \in Nat
  BY TaskSets
<1>2. Cardinality(S \cup T) = Cardinality(S) + Cardinality(T) - Cardinality(S \cap T)
  BY <1>1, FS_Union
<1>3. Cardinality(S \cap T) = 0
  BY FS_EmptySet
<1> QED BY <1>1, <1>2, <1>3

(* Reserving tasks that are not active keeps the counters exact.           *)
LEMMA ReserveExact ==
  ASSUME NEW o \in Occupancies, NEW req \in [Tasks -> Requests], Exact(o, req),
         NEW T \in SUBSET Tasks, T \cap o.active = {}
  PROVE  /\ Reserve(o, T, req) \in Occupancies
         /\ Exact(Reserve(o, T, req), req)
<1> DEFINE n == Reserve(o, T, req)
<1>1. n.active = o.active \cup T /\ n.active \in SUBSET Tasks
  BY DEF Reserve, Occupancies
<1>2. ASSUME NEW r \in Resources
      PROVE  n.held[r] \in Nat /\ n.held[r] = Cardinality(Wanting(n.active, r, req))
  <2>1. n.held[r] = Cardinality(Wanting(o.active, r, req)) + Cardinality(Wanting(T, r, req))
    BY DEF Reserve, Exact
  <2>2. /\ Wanting(o.active, r, req) \in SUBSET Tasks /\ Wanting(T, r, req) \in SUBSET Tasks
        /\ Wanting(o.active, r, req) \cap Wanting(T, r, req) = {}
        /\ Wanting(n.active, r, req) = Wanting(o.active, r, req) \cup Wanting(T, r, req)
    BY <1>1 DEF Wanting
  <2>3. Cardinality(Wanting(n.active, r, req)) = n.held[r]
    BY <2>1, <2>2, DisjointCounts
  <2>4. Cardinality(Wanting(n.active, r, req)) \in Nat
    BY <1>1, TaskSets DEF Wanting
  <2> QED BY <2>3, <2>4
<1>3. ASSUME NEW c
      PROVE  /\ Cardinality(OfClass(o.active, c, req)) \in Nat
             /\ Cardinality(OfClass(T, c, req)) \in Nat
             /\ Cardinality(OfClass(n.active, c, req))
                  = Cardinality(OfClass(o.active, c, req)) + Cardinality(OfClass(T, c, req))
  <2>1. /\ OfClass(o.active, c, req) \in SUBSET Tasks /\ OfClass(T, c, req) \in SUBSET Tasks
        /\ OfClass(o.active, c, req) \cap OfClass(T, c, req) = {}
        /\ OfClass(n.active, c, req) = OfClass(o.active, c, req) \cup OfClass(T, c, req)
    BY <1>1 DEF OfClass
  <2> QED BY <2>1, DisjointCounts, TaskSets
<1>4. n.builds = Cardinality(OfClass(n.active, "build", req)) /\ n.builds \in Int
  <2>1. n.builds = Cardinality(OfClass(o.active, "build", req)) + Cardinality(OfClass(T, "build", req))
    BY DEF Reserve, Exact
  <2> HIDE DEF n
  <2> QED BY <1>3, <2>1
<1>5. n.privileged = Cardinality(OfClass(n.active, "privileged", req)) /\ n.privileged \in Int
  <2>1. n.privileged = Cardinality(OfClass(o.active, "privileged", req))
                         + Cardinality(OfClass(T, "privileged", req))
    BY DEF Reserve, Exact
  <2> HIDE DEF n
  <2> QED BY <1>3, <2>1
<1>6. n.held \in [Resources -> Nat]
  <2>1. n.held = [r \in Resources |-> n.held[r]]
    BY DEF Reserve
  <2> QED BY <1>2, <2>1
<1>7. n \in Occupancies
  <2>1. n = [active |-> n.active, held |-> n.held, builds |-> n.builds, privileged |-> n.privileged]
    BY DEF Reserve
  <2> HIDE DEF n
  <2> QED BY <1>1, <1>4, <1>5, <1>6, <2>1 DEF Occupancies
<1> QED BY <1>2, <1>4, <1>5, <1>7 DEF Exact

(* Releasing an active task keeps the counters exact.                      *)
LEMMA ReleaseExact ==
  ASSUME NEW o \in Occupancies, NEW req \in [Tasks -> Requests], Exact(o, req),
         NEW t \in o.active
  PROVE  /\ Release(o, t, req[t]) \in Occupancies
         /\ Exact(Release(o, t, req[t]), req)
<1> DEFINE n == Release(o, t, req[t])
<1>1. n.active = o.active \ {t} /\ n.active \in SUBSET Tasks /\ o.active \in SUBSET Tasks /\ t \in Tasks
  BY DEF Release, Occupancies
<1>2. ASSUME NEW r \in Resources
      PROVE  n.held[r] \in Nat /\ n.held[r] = Cardinality(Wanting(n.active, r, req))
  <2> DEFINE w == Wanting(o.active, r, req)
  <2>1. /\ IsFiniteSet(w) /\ Cardinality(w) \in Nat /\ (Cardinality(w) = 0 <=> w = {})
        /\ Wanting(n.active, r, req) = w \ {t}
        /\ t \in w <=> r \in req[t].resources
    BY <1>1, TaskSets DEF Wanting
  <2>2. Cardinality(w \ {t}) = IF t \in w THEN Cardinality(w) - 1 ELSE Cardinality(w)
    BY <2>1, FS_RemoveElement
  <2>3. o.held[r] = Cardinality(w)
    BY DEF Exact
  <2>4. n.held[r] = IF r \in req[t].resources /\ o.held[r] > 0 THEN o.held[r] - 1 ELSE o.held[r]
    BY DEF Release
  <2> HIDE DEF n, w
  <2> QED BY <2>1, <2>2, <2>3, <2>4
<1>3. ASSUME NEW c
      PROVE  /\ Cardinality(OfClass(o.active, c, req)) \in Nat
             /\ Cardinality(OfClass(n.active, c, req))
                  = IF req[t].class = c THEN Cardinality(OfClass(o.active, c, req)) - 1
                                        ELSE Cardinality(OfClass(o.active, c, req))
  <2> DEFINE k == OfClass(o.active, c, req)
  <2>1. /\ IsFiniteSet(k) /\ Cardinality(k) \in Nat
        /\ OfClass(n.active, c, req) = k \ {t}
        /\ t \in k <=> req[t].class = c
    BY <1>1, TaskSets DEF OfClass
  <2>2. Cardinality(k \ {t}) = IF t \in k THEN Cardinality(k) - 1 ELSE Cardinality(k)
    BY <2>1, FS_RemoveElement
  <2> HIDE DEF n, k
  <2>3. /\ Cardinality(k) \in Nat
        /\ Cardinality(OfClass(n.active, c, req))
             = IF req[t].class = c THEN Cardinality(k) - 1 ELSE Cardinality(k)
    BY <2>1, <2>2
  <2> QED BY <2>3 DEF k
<1>4. n.builds = Cardinality(OfClass(n.active, "build", req)) /\ n.builds \in Int
  <2>1. n.builds = IF req[t].class = "build" THEN o.builds - 1 ELSE o.builds
    BY DEF Release
  <2>2. o.builds = Cardinality(OfClass(o.active, "build", req))
    BY DEF Exact
  <2> HIDE DEF n
  <2> QED BY <1>3, <2>1, <2>2
<1>5. n.privileged = Cardinality(OfClass(n.active, "privileged", req)) /\ n.privileged \in Int
  <2>1. n.privileged = IF req[t].class = "privileged" THEN o.privileged - 1 ELSE o.privileged
    BY DEF Release
  <2>2. o.privileged = Cardinality(OfClass(o.active, "privileged", req))
    BY DEF Exact
  <2> HIDE DEF n
  <2> QED BY <1>3, <2>1, <2>2
<1>6. n.held \in [Resources -> Nat]
  <2> DEFINE h == [r \in Resources |-> IF r \in req[t].resources /\ o.held[r] > 0
                                      THEN o.held[r] - 1 ELSE o.held[r]]
  <2>1. n.held = h
    BY DEF Release
  <2>2. \A r \in Resources : h[r] \in Nat
    BY <1>2, <2>1
  <2>3. h \in [Resources -> Nat]
    BY <2>2
  <2> QED BY <2>1, <2>3
<1>7. n \in Occupancies
  <2>1. n = [active |-> n.active, held |-> n.held, builds |-> n.builds, privileged |-> n.privileged]
    BY DEF Release
  <2> HIDE DEF n
  <2> QED BY <1>1, <1>4, <1>5, <1>6, <2>1 DEF Occupancies
<1> QED BY <1>2, <1>4, <1>5, <1>7 DEF Exact

-----------------------------------------------------------------------------
(* A request fits beside the set S of active tasks.                        *)
Fits(q, S, req) ==
  /\ Cardinality(S) < Total
  /\ q.class = "build" => Cardinality(OfClass(S, "build", req)) < Builds
  /\ q.class = "privileged" => Cardinality(OfClass(S, "privileged", req)) < Privileged
  /\ \A u \in S : req[u].resources \cap q.resources = {}

(* With exact counters, canStart decides whether the request fits.         *)
LEMMA CanStartFits ==
  ASSUME NEW o \in Occupancies, NEW req \in [Tasks -> Requests], Exact(o, req),
         NEW q \in Requests
  PROVE  CanStart(q, o) <=> Fits(q, o.active, req)
<1>1. o.active \in SUBSET Tasks /\ q.resources \in SUBSET Resources
  BY DEF Occupancies, Requests
<1>2. ASSUME NEW r \in Resources
      PROVE  o.held[r] = 0 <=> \A u \in o.active : r \notin req[u].resources
  <2>1. Wanting(o.active, r, req) \in SUBSET Tasks
    BY <1>1 DEF Wanting
  <2>2. o.held[r] = 0 <=> Wanting(o.active, r, req) = {}
    BY <2>1, TaskSets DEF Exact
  <2> QED BY <2>2 DEF Wanting
<1>3. (\A r \in q.resources : o.held[r] = 0)
        <=> \A u \in o.active : req[u].resources \cap q.resources = {}
  BY <1>1, <1>2
<1> QED BY <1>3 DEF CanStart, Fits, Exact

(* What fits beside a set of tasks fits beside every subset of it.         *)
LEMMA FitsMonotone ==
  ASSUME NEW T \in SUBSET Tasks, NEW S \in SUBSET T, NEW req, NEW q, Fits(q, T, req)
  PROVE  Fits(q, S, req)
<1>1. Cardinality(S) < Total
  BY TaskSets, SchedulerAssumption DEF Fits
<1>2. ASSUME NEW c
      PROVE  /\ Cardinality(OfClass(S, c, req)) \in Nat /\ Cardinality(OfClass(T, c, req)) \in Nat
             /\ Cardinality(OfClass(S, c, req)) <= Cardinality(OfClass(T, c, req))
  <2>1. OfClass(S, c, req) \in SUBSET OfClass(T, c, req) /\ OfClass(T, c, req) \in SUBSET Tasks
    BY DEF OfClass
  <2> QED BY <2>1, TaskSets
<1>3. q.class = "build" => Cardinality(OfClass(S, "build", req)) < Builds
  BY <1>2, SchedulerAssumption DEF Fits
<1>4. q.class = "privileged" => Cardinality(OfClass(S, "privileged", req)) < Privileged
  BY <1>2, SchedulerAssumption DEF Fits
<1> QED BY <1>1, <1>3, <1>4 DEF Fits

(* Every non-empty set of waiters has a last one.                          *)
LEMMA LastWaiter ==
  ASSUME NEW ahd \in [Tasks -> SUBSET Tasks], NEW W \in SUBSET Tasks, IsList(W, ahd),
         NEW B \in SUBSET W, B # {}
  PROVE  \E u \in B : B \ {u} \subseteq ahd[u]
<1> DEFINE Behind(u) == Tasks \ ahd[u]
           Os == {Behind(u) : u \in B}
<1>1. IsWellFoundedOn(StrictSubsetOrdering(Tasks), SUBSET Tasks)
  BY SchedulerAssumption, FS_StrictSubsetOrderingWellFounded, FS_FiniteSubsetsOfFinite
<1>2. Os \subseteq SUBSET Tasks /\ Os # {}
  OBVIOUS
<1>3. PICK m \in Os : \A y \in Os : ~(<<y, m>> \in StrictSubsetOrdering(Tasks))
  <2> HIDE DEF Os
  <2> QED BY <1>1, <1>2, WFMin
<1>4. PICK u \in B : m = Behind(u)
  OBVIOUS
<1>5. ASSUME NEW v \in B \ {u}, v \notin ahd[u] PROVE FALSE
  <2>1. u \in ahd[v] /\ ahd[u] \subseteq ahd[v] /\ u \notin ahd[u] /\ u \in Tasks
    BY <1>5 DEF IsList
  <2>2. Behind(v) \subseteq Behind(u) /\ Behind(v) # Behind(u)
    BY <2>1
  <2>3. <<Behind(v), m>> \in StrictSubsetOrdering(Tasks)
    BY <1>4, <2>2 DEF StrictSubsetOrdering
  <2> QED BY <1>3, <2>3
<1> QED BY <1>5

-----------------------------------------------------------------------------
(* A drain starts exactly the waiters that fit beside the active tasks and *)
(* the earlier waiters it starts.                                          *)
LEMMA DrainFits ==
  ASSUME TypeOK, NEW o \in Occupancies, Exact(o, request),
         NEW W \in SUBSET Tasks, W \cap o.active = {}, NEW A, Drains(A, o, W)
  PROVE  /\ A \in SUBSET W
         /\ \A t \in W : t \in A <=> Fits(request[t], o.active \cup (A \cap ahead[t]), request)
<1>1. A \in SUBSET W
  BY DEF Drains
<1>2. ASSUME NEW t \in W
      PROVE  t \in A <=> Fits(request[t], o.active \cup (A \cap ahead[t]), request)
  <2> DEFINE E == A \cap ahead[t]
             n == Reserve(o, E, request)
  <2>1. E \in SUBSET Tasks /\ E \cap o.active = {} /\ request \in [Tasks -> Requests]
    BY <1>1 DEF TypeOK
  <2>2. n \in Occupancies /\ Exact(n, request)
    BY <2>1, ReserveExact
  <2>3. request[t] \in Requests
    BY DEF TypeOK
  <2>4. CanStart(request[t], n) <=> Fits(request[t], n.active, request)
    <3> HIDE DEF n
    <3> QED BY <2>1, <2>2, <2>3, CanStartFits
  <2>5. n.active = o.active \cup E
    BY DEF Reserve
  <2> QED BY <2>4, <2>5 DEF Drains
<1> QED BY <1>1, <1>2

(* The tasks of class c that a drain leaves active number at most limit    *)
(* once it has started one of them.                                        *)
LEMMA DrainWithin ==
  ASSUME NEW W \in SUBSET Tasks, NEW ahd \in [Tasks -> SUBSET Tasks], IsList(W, ahd),
         NEW S \in SUBSET Tasks, NEW B \in SUBSET W, B # {}, NEW limit \in Nat,
         \A t \in B : Cardinality(S \cup (B \cap ahd[t])) < limit
  PROVE  Cardinality(S \cup B) <= limit
<1>1. PICK u \in B : B \ {u} \subseteq ahd[u]
  BY LastWaiter
<1> DEFINE R == S \cup (B \cap ahd[u])
<1>2. R \in SUBSET Tasks
  OBVIOUS
<1>3. IsFiniteSet(R) /\ Cardinality(R) \in Nat
  BY <1>2, TaskSets
<1>4. Cardinality(R) < limit
  OBVIOUS
<1>5. S \cup B = R \cup {u}
  BY <1>1
<1>6. Cardinality(R \cup {u}) = IF u \in R THEN Cardinality(R) ELSE Cardinality(R) + 1
  BY <1>3, FS_AddElement
<1> HIDE DEF R
<1> QED BY <1>3, <1>4, <1>5, <1>6

(* What a drain starts keeps the global cap and the caps per class.        *)
LEMMA DrainCaps ==
  ASSUME TypeOK, NEW o \in Occupancies, Exact(o, request),
         NEW W \in SUBSET Tasks, W \cap o.active = {}, IsList(W, ahead),
         NEW A, Drains(A, o, W)
  PROVE  /\ A # {} => Cardinality(o.active \cup A) <= Total
         /\ OfClass(A, "build", request) # {}
              => Cardinality(OfClass(o.active \cup A, "build", request)) <= Builds
         /\ OfClass(A, "privileged", request) # {}
              => Cardinality(OfClass(o.active \cup A, "privileged", request)) <= Privileged
<1>1. /\ A \in SUBSET W /\ o.active \in SUBSET Tasks
      /\ \A t \in A : Fits(request[t], o.active \cup (A \cap ahead[t]), request)
  BY DrainFits DEF Occupancies
<1>2. ahead \in [Tasks -> SUBSET Tasks]
  BY DEF TypeOK
<1>3. A # {} => Cardinality(o.active \cup A) <= Total
  <2>1. \A t \in A : Cardinality(o.active \cup (A \cap ahead[t])) < Total
    BY <1>1 DEF Fits
  <2> QED BY <1>1, <1>2, <2>1, DrainWithin, SchedulerAssumption
<1>4. ASSUME NEW c \in Classes, NEW limit \in Nat,
             \A t \in OfClass(A, c, request) :
               Cardinality(OfClass(o.active \cup (A \cap ahead[t]), c, request)) < limit,
             OfClass(A, c, request) # {}
      PROVE  Cardinality(OfClass(o.active \cup A, c, request)) <= limit
  <2> DEFINE S == OfClass(o.active, c, request)
             B == OfClass(A, c, request)
  <2>1. S \in SUBSET Tasks /\ B \in SUBSET W /\ B # {}
    BY <1>1, <1>4 DEF OfClass
  <2>2. ASSUME NEW t \in B PROVE Cardinality(S \cup (B \cap ahead[t])) < limit
    <3>1. S \cup (B \cap ahead[t]) = OfClass(o.active \cup (A \cap ahead[t]), c, request)
      BY DEF OfClass
    <3> QED BY <1>4, <3>1
  <2>3. S \cup B = OfClass(o.active \cup A, c, request)
    BY DEF OfClass
  <2> HIDE DEF S, B
  <2> QED BY <1>2, <2>1, <2>2, <2>3, DrainWithin
<1>5. \A t \in OfClass(A, "build", request) :
        Cardinality(OfClass(o.active \cup (A \cap ahead[t]), "build", request)) < Builds
  BY <1>1 DEF Fits, OfClass
<1>6. \A t \in OfClass(A, "privileged", request) :
        Cardinality(OfClass(o.active \cup (A \cap ahead[t]), "privileged", request)) < Privileged
  BY <1>1 DEF Fits, OfClass
<1> QED BY <1>3, <1>4, <1>5, <1>6, SchedulerAssumption DEF Classes

(* What a drain starts shares no resource with any other active task.      *)
LEMMA DrainExclusive ==
  ASSUME TypeOK, NEW o \in Occupancies, Exact(o, request),
         NEW W \in SUBSET Tasks, W \cap o.active = {}, IsList(W, ahead),
         NEW A, Drains(A, o, W),
         NEW t \in A, NEW u \in (o.active \cup A) \ {t}
  PROVE  request[t].resources \cap request[u].resources = {}
<1>1. /\ A \in SUBSET W
      /\ \A v \in A : Fits(request[v], o.active \cup (A \cap ahead[v]), request)
  BY DrainFits
<1>2. u \in A => t \in ahead[u] \/ u \in ahead[t]
  BY <1>1 DEF IsList
<1>3. CASE u \in A /\ t \in ahead[u]
  BY <1>1, <1>3 DEF Fits
<1>4. CASE u \in o.active \/ u \in ahead[t]
  BY <1>1, <1>4 DEF Fits
<1> QED BY <1>2, <1>3, <1>4

(* No waiter that a drain leaves in the list could be started after it.    *)
LEMMA DrainConserves ==
  ASSUME TypeOK, NEW o \in Occupancies, Exact(o, request),
         NEW W \in SUBSET Tasks, W \cap o.active = {},
         NEW A, Drains(A, o, W), NEW t \in W \ A
  PROVE  ~Fits(request[t], o.active \cup A, request)
<1>1. /\ A \in SUBSET W /\ o.active \in SUBSET Tasks
      /\ ~Fits(request[t], o.active \cup (A \cap ahead[t]), request)
  BY DrainFits DEF Occupancies
<1>2. o.active \cup A \in SUBSET Tasks
      /\ o.active \cup (A \cap ahead[t]) \in SUBSET (o.active \cup A)
  BY <1>1
<1> QED BY <1>1, <1>2, FitsMonotone

-----------------------------------------------------------------------------
(* The inductive invariant: the checked invariants, and that an adopted    *)
(* task is active.                                                         *)
SchedulerInv ==
  /\ TypeOK
  /\ QueueIsList
  /\ adopted \subseteq occ.active
  /\ CountersExact
  /\ ExclusiveResources
  /\ CapsRespected
  /\ WorkConserving

(* A drain establishes the invariant from exact counters on what stays     *)
(* active; both Settle and Leave end in one.                               *)
LEMMA DrainStep ==
  ASSUME TypeOK, NEW o \in Occupancies, Exact(o, request),
         NEW W \in SUBSET Tasks, W \cap o.active = {}, IsList(W, ahead),
         Drain(o, W), request' = request, outcome' \in [Tasks -> Outcomes],
         adopted' \subseteq o.active,
         \A t, u \in o.active :
           t # u /\ request[t].resources \cap request[u].resources # {}
             => t \in adopted' \/ u \in adopted',
         Cardinality(o.active \ adopted') <= Total,
         Cardinality(OfClass(o.active \ adopted', "build", request)) <= Builds,
         Cardinality(OfClass(o.active \ adopted', "privileged", request)) <= Privileged
  PROVE  SchedulerInv'
<1>1. PICK A \in SUBSET W :
        /\ Drains(A, o, W)
        /\ occ' = Reserve(o, A, request)
        /\ waiters' = W \ A
        /\ ahead' = [t \in Tasks |-> IF t \in W \ A THEN ahead[t] \cap (W \ A) ELSE {}]
  BY DEF Drain
<1>2. /\ occ' \in Occupancies /\ Exact(occ', request)
      /\ occ'.active = o.active \cup A /\ occ'.active \in SUBSET Tasks
  <2>1. request \in [Tasks -> Requests] /\ A \in SUBSET Tasks /\ A \cap o.active = {}
    BY DEF TypeOK
  <2>2. occ' \in Occupancies /\ Exact(occ', request)
    BY <1>1, <2>1, ReserveExact
  <2> QED BY <1>1, <2>2 DEF Reserve, Occupancies
<1>3. TypeOK'
  BY <1>1, <1>2 DEF TypeOK
<1>4. QueueIsList'
  <2>1. waiters' \cap occ'.active = {}
    BY <1>1, <1>2
  <2>2. \A t \in waiters' : ahead'[t] = ahead[t] \cap (W \ A)
    BY <1>1
  <2> QED BY <1>1, <2>1, <2>2 DEF QueueIsList, IsList
<1>5. adopted' \subseteq occ'.active
  BY <1>2
<1>6. CountersExact'
  BY <1>2 DEF CountersExact, Exact
<1>7. ExclusiveResources'
  <2> SUFFICES ASSUME NEW t \in occ'.active, NEW u \in occ'.active, t # u,
                      request[t].resources \cap request[u].resources # {}
               PROVE  t \in adopted' \/ u \in adopted'
    BY DEF ExclusiveResources
  <2>1. t \notin A
    BY <1>1, <1>2, DrainExclusive
  <2>2. u \notin A
    <3>1. u \in A => request[u].resources \cap request[t].resources = {}
      BY <1>1, <1>2, DrainExclusive
    <3> QED BY <3>1
  <2> QED BY <1>2, <2>1, <2>2
<1>8. CapsRespected'
  <2> DEFINE S == occ'.active \ adopted'
             R == o.active \ adopted'
  <2>1. /\ A # {} => Cardinality(occ'.active) <= Total
        /\ OfClass(A, "build", request) # {}
             => Cardinality(OfClass(occ'.active, "build", request)) <= Builds
        /\ OfClass(A, "privileged", request) # {}
             => Cardinality(OfClass(occ'.active, "privileged", request)) <= Privileged
    BY <1>1, <1>2, DrainCaps
  <2>2. Cardinality(S) <= Total
    <3>1. A = {} => S = R
      BY <1>2
    <3>2. Cardinality(S) \in Nat /\ Cardinality(occ'.active) \in Nat
          /\ Cardinality(S) <= Cardinality(occ'.active)
      BY <1>2, TaskSets
    <3>3. Cardinality(R) <= Total /\ Total \in Nat
      BY SchedulerAssumption
    <3> HIDE DEF S, R
    <3>4. CASE A = {}
      BY <3>1, <3>3, <3>4
    <3>5. CASE A # {}
      BY <2>1, <3>2, <3>3, <3>5
    <3> QED BY <3>4, <3>5
  <2>3. ASSUME NEW c, NEW limit \in Nat, Cardinality(OfClass(R, c, request)) <= limit,
               OfClass(A, c, request) # {}
                 => Cardinality(OfClass(occ'.active, c, request)) <= limit
        PROVE  Cardinality(OfClass(S, c, request)) <= limit
    <3>1. OfClass(A, c, request) = {} => OfClass(S, c, request) = OfClass(R, c, request)
      BY <1>2 DEF OfClass
    <3>2. /\ OfClass(S, c, request) \in SUBSET OfClass(occ'.active, c, request)
          /\ OfClass(occ'.active, c, request) \in SUBSET Tasks
      BY <1>2 DEF OfClass
    <3>3. /\ Cardinality(OfClass(S, c, request)) \in Nat
          /\ Cardinality(OfClass(occ'.active, c, request)) \in Nat
          /\ Cardinality(OfClass(S, c, request)) <= Cardinality(OfClass(occ'.active, c, request))
      BY <3>2, TaskSets
    <3> HIDE DEF S, R
    <3> QED BY <2>3, <3>1, <3>3
  <2>4. Cardinality(OfClass(S, "build", request)) <= Builds
    BY <2>1, <2>3, SchedulerAssumption
  <2>5. Cardinality(OfClass(S, "privileged", request)) <= Privileged
    BY <2>1, <2>3, SchedulerAssumption
  <2> QED BY <2>2, <2>4, <2>5 DEF CapsRespected
<1>9. WorkConserving'
  <2> SUFFICES ASSUME NEW t \in W \ A PROVE ~CanStart(request[t], occ')
    BY <1>1 DEF WorkConserving
  <2>1. request \in [Tasks -> Requests] /\ request[t] \in Requests
    BY DEF TypeOK
  <2>2. ~Fits(request[t], o.active \cup A, request)
    BY <1>1, DrainConserves
  <2>3. ~Fits(request[t], occ'.active, request)
    BY <1>2, <2>2
  <2> QED BY <1>2, <2>1, <2>3, CanStartFits
<1> QED BY <1>3, <1>4, <1>5, <1>6, <1>7, <1>8, <1>9 DEF SchedulerInv

(* The initial state satisfies the invariant.                              *)
LEMMA InitInv == Init => SchedulerInv
<1> SUFFICES ASSUME Init PROVE SchedulerInv
  OBVIOUS
<1>1. occ.active = {} /\ waiters = {} /\ adopted = {}
  BY DEF Init
<1>2. TypeOK
  BY DEF Init, TypeOK, Occupancies, Requests, Classes, Outcomes
<1>3. CountersExact
  <2>1. /\ \A r \in Resources : Wanting(occ.active, r, request) = {} /\ occ.held[r] = 0
        /\ OfClass(occ.active, "build", request) = {} /\ occ.builds = 0
        /\ OfClass(occ.active, "privileged", request) = {} /\ occ.privileged = 0
    BY <1>1 DEF Init, Wanting, OfClass
  <2> QED BY <2>1, FS_EmptySet DEF CountersExact
<1>4. CapsRespected
  <2>1. /\ occ.active \ adopted = {}
        /\ OfClass({}, "build", request) = {} /\ OfClass({}, "privileged", request) = {}
    BY <1>1 DEF OfClass
  <2> QED BY <2>1, FS_EmptySet, SchedulerAssumption DEF CapsRespected
<1>5. QueueIsList /\ ExclusiveResources /\ WorkConserving /\ adopted \subseteq occ.active
  BY <1>1 DEF QueueIsList, ExclusiveResources, WorkConserving
<1> QED BY <1>2, <1>3, <1>4, <1>5 DEF SchedulerInv

(* Reserving one unscheduled task, admitted or adopted, keeps everything   *)
(* but the exclusion and the caps, which depend on how it came in.         *)
LEMMA ReserveStep ==
  ASSUME SchedulerInv, NEW t \in Tasks, Unscheduled(t), NEW q \in Requests,
         request' = [request EXCEPT ![t] = q], occ' = Reserve(occ, {t}, request'),
         waiters' = waiters, ahead' = ahead, outcome' = [outcome EXCEPT ![t] = "pending"],
         adopted' \in {adopted, adopted \cup {t}}
  PROVE  /\ TypeOK' /\ QueueIsList' /\ adopted' \subseteq occ'.active
         /\ CountersExact' /\ WorkConserving'
         /\ occ'.active = occ.active \cup {t}
         /\ \A u \in occ.active : request'[u] = request[u]
         /\ request'[t] = q
<1>1. /\ occ \in Occupancies /\ occ.active \in SUBSET Tasks /\ t \notin occ.active
      /\ waiters \in SUBSET Tasks /\ t \notin waiters
      /\ request \in [Tasks -> Requests] /\ request' \in [Tasks -> Requests]
  BY DEF SchedulerInv, TypeOK, Occupancies, Unscheduled
<1>2. Exact(occ, request')
  <2>1. /\ \A r : Wanting(occ.active, r, request') = Wanting(occ.active, r, request)
        /\ \A c : OfClass(occ.active, c, request') = OfClass(occ.active, c, request)
    <3>1. \A u \in occ.active : request'[u] = request[u]
      BY <1>1
    <3> QED BY <3>1 DEF Wanting, OfClass
  <2> QED BY <2>1 DEF SchedulerInv, CountersExact, Exact
<1>3. /\ occ' \in Occupancies /\ Exact(occ', request')
      /\ occ'.active = occ.active \cup {t}
  BY <1>1, <1>2, ReserveExact DEF Reserve
<1>4. TypeOK'
  BY <1>1, <1>3 DEF SchedulerInv, TypeOK, Outcomes
<1>5. QueueIsList'
  <2>1. waiters' \cap occ'.active = {}
    <3>1. waiters \cap occ.active = {}
      BY DEF SchedulerInv, QueueIsList
    <3> QED BY <1>1, <1>3, <3>1
  <2>2. /\ \A w \in waiters : ahead[w] \subseteq waiters /\ w \notin ahead[w]
        /\ \A v, w \in waiters :
             /\ v # w => (v \in ahead[w] \/ w \in ahead[v])
             /\ v \in ahead[w] => ahead[v] \subseteq ahead[w]
    BY DEF SchedulerInv, QueueIsList
  <2> QED BY <2>1, <2>2 DEF QueueIsList
<1>6. CountersExact'
  BY <1>3 DEF CountersExact, Exact
<1>7. WorkConserving'
  <2> SUFFICES ASSUME NEW w \in waiters PROVE ~CanStart(request'[w], occ')
    BY DEF WorkConserving
  <2>1. request'[w] = request[w] /\ request[w] \in Requests
    BY <1>1
  <2>2. ~CanStart(request[w], occ)
    BY DEF SchedulerInv, WorkConserving
  <2>3. ~Fits(request[w], occ.active, request')
    BY <1>1, <1>2, <2>1, <2>2, CanStartFits
  <2>4. ~Fits(request[w], occ'.active, request')
    <3>1. occ'.active \in SUBSET Tasks /\ occ.active \in SUBSET occ'.active
      BY <1>1, <1>3
    <3> QED BY <2>3, <3>1, FitsMonotone
  <2> QED BY <1>1, <1>3, <2>1, <2>4, CanStartFits
<1>8. adopted' \subseteq occ'.active
  BY <1>3 DEF SchedulerInv
<1> QED BY <1>1, <1>3, <1>4, <1>5, <1>6, <1>7, <1>8

(* run() that starts at once keeps the invariant.                          *)
LEMMA RunStartInv ==
  ASSUME SchedulerInv, NEW t \in Tasks, NEW q \in Requests, RunStart(t, q)
  PROVE  SchedulerInv'
<1>1. /\ TypeOK' /\ QueueIsList' /\ adopted' \subseteq occ'.active
      /\ CountersExact' /\ WorkConserving'
      /\ occ'.active = occ.active \cup {t}
      /\ \A u \in occ.active : request'[u] = request[u]
      /\ request'[t] = q
  BY ReserveStep DEF RunStart
<1>2. /\ occ \in Occupancies /\ occ.active \in SUBSET Tasks /\ t \notin occ.active
      /\ request \in [Tasks -> Requests] /\ Exact(occ, request)
      /\ adopted \subseteq occ.active /\ adopted' = adopted
  BY DEF SchedulerInv, TypeOK, Occupancies, CountersExact, Exact, RunStart, Unscheduled
<1>3. Fits(q, occ.active, request)
  BY <1>2, CanStartFits DEF RunStart
<1>4. ExclusiveResources'
  BY <1>1, <1>2, <1>3 DEF SchedulerInv, ExclusiveResources, Fits
<1>5. CapsRespected'
  <2> DEFINE S == occ.active \ adopted
  <2>1. /\ occ'.active \ adopted' = S \cup {t} /\ S \in SUBSET occ.active
        /\ t \notin S /\ IsFiniteSet(S) /\ Cardinality(S) \in Nat
        /\ Cardinality(S) <= Cardinality(occ.active) /\ Cardinality(occ.active) \in Nat
    BY <1>1, <1>2, TaskSets
  <2>2. Cardinality(S \cup {t}) <= Total
    <3>1. Cardinality(S \cup {t}) = Cardinality(S) + 1
      BY <2>1, FS_AddElement
    <3> HIDE DEF S
    <3> QED BY <1>3, <2>1, <3>1, SchedulerAssumption DEF Fits
  <2>3. ASSUME NEW c, NEW limit \in Nat, Cardinality(OfClass(S, c, request)) <= limit,
               q.class = c => Cardinality(OfClass(occ.active, c, request)) < limit
        PROVE  Cardinality(OfClass(S \cup {t}, c, request')) <= limit
    <3> DEFINE k == OfClass(S, c, request)
    <3>1. /\ OfClass(S \cup {t}, c, request') = IF q.class = c THEN k \cup {t} ELSE k
          /\ t \notin k /\ k \in SUBSET OfClass(occ.active, c, request)
      BY <1>1, <1>2, <2>1 DEF OfClass
    <3>2. OfClass(occ.active, c, request) \in SUBSET Tasks
      BY <1>2 DEF OfClass
    <3>3. /\ IsFiniteSet(k) /\ Cardinality(k) \in Nat
          /\ Cardinality(k) <= Cardinality(OfClass(occ.active, c, request))
          /\ Cardinality(OfClass(occ.active, c, request)) \in Nat
      BY <3>1, <3>2, TaskSets
    <3>4. Cardinality(k \cup {t}) = Cardinality(k) + 1
      BY <3>1, <3>3, FS_AddElement
    <3>5. Cardinality(k) <= limit
      BY <2>3
    <3> HIDE DEF k, S
    <3> QED BY <2>3, <3>1, <3>3, <3>4, <3>5
  <2>4. /\ Cardinality(OfClass(S, "build", request)) <= Builds
        /\ Cardinality(OfClass(S, "privileged", request)) <= Privileged
    BY DEF SchedulerInv, CapsRespected
  <2>5. Cardinality(OfClass(S \cup {t}, "build", request')) <= Builds
    BY <1>3, <2>3, <2>4, SchedulerAssumption DEF Fits
  <2>6. Cardinality(OfClass(S \cup {t}, "privileged", request')) <= Privileged
    BY <1>3, <2>3, <2>4, SchedulerAssumption DEF Fits
  <2> QED BY <2>1, <2>2, <2>5, <2>6 DEF CapsRespected
<1> QED BY <1>1, <1>4, <1>5 DEF SchedulerInv

(* adopt() keeps the invariant.                                            *)
LEMMA AdoptInv ==
  ASSUME SchedulerInv, NEW t \in Tasks, NEW q \in Requests, Adopt(t, q)
  PROVE  SchedulerInv'
<1>1. /\ TypeOK' /\ QueueIsList' /\ adopted' \subseteq occ'.active
      /\ CountersExact' /\ WorkConserving'
      /\ occ'.active = occ.active \cup {t}
      /\ \A u \in occ.active : request'[u] = request[u]
  BY ReserveStep DEF Adopt
<1>2. /\ occ.active \in SUBSET Tasks /\ t \notin occ.active
      /\ adopted \subseteq occ.active /\ adopted' = adopted \cup {t}
  BY DEF SchedulerInv, TypeOK, Occupancies, Adopt, Unscheduled
<1>3. ExclusiveResources'
  BY <1>1, <1>2 DEF SchedulerInv, ExclusiveResources
<1>4. CapsRespected'
  <2>1. occ'.active \ adopted' = occ.active \ adopted
    BY <1>1, <1>2
  <2>2. \A c : OfClass(occ.active \ adopted, c, request') = OfClass(occ.active \ adopted, c, request)
    BY <1>1 DEF OfClass
  <2> QED BY <2>1, <2>2 DEF SchedulerInv, CapsRespected
<1> QED BY <1>1, <1>3, <1>4 DEF SchedulerInv

(* run() that joins the list keeps the invariant.                          *)
LEMMA RunQueueInv ==
  ASSUME SchedulerInv, NEW t \in Tasks, NEW q \in Requests, RunQueue(t, q)
  PROVE  SchedulerInv'
<1>1. /\ occ' = occ /\ adopted' = adopted /\ waiters' = waiters \cup {t}
      /\ ahead' = [ahead EXCEPT ![t] = waiters] /\ ahead \in [Tasks -> SUBSET Tasks]
      /\ request' = [request EXCEPT ![t] = q]
      /\ occ.active \in SUBSET Tasks /\ t \notin occ.active
      /\ waiters \in SUBSET Tasks /\ t \notin waiters
      /\ request \in [Tasks -> Requests] /\ request' \in [Tasks -> Requests]
      /\ adopted \subseteq occ.active
  BY DEF RunQueue, SchedulerInv, TypeOK, Occupancies, Unscheduled
<1>2. TypeOK'
  BY <1>1 DEF RunQueue, SchedulerInv, TypeOK, Outcomes
<1>3. QueueIsList'
  <2>1. /\ \A w \in waiters : ahead'[w] = ahead[w]
        /\ ahead'[t] = waiters
    BY <1>1
  <2> QED BY <1>1, <2>1 DEF SchedulerInv, QueueIsList
<1>4. CountersExact'
  <2>1. /\ \A r : Wanting(occ.active, r, request') = Wanting(occ.active, r, request)
        /\ \A c : OfClass(occ.active, c, request') = OfClass(occ.active, c, request)
    <3>1. \A u \in occ.active : request'[u] = request[u]
      BY <1>1
    <3> QED BY <3>1 DEF Wanting, OfClass
  <2> QED BY <1>1, <2>1 DEF SchedulerInv, CountersExact
<1>5. ExclusiveResources'
  BY <1>1 DEF SchedulerInv, ExclusiveResources
<1>6. CapsRespected'
  <2>1. \A c : OfClass(occ.active \ adopted, c, request') = OfClass(occ.active \ adopted, c, request)
    BY <1>1 DEF OfClass
  <2> QED BY <1>1, <2>1 DEF SchedulerInv, CapsRespected
<1>7. WorkConserving'
  <2>1. \A w \in waiters : request'[w] = request[w]
    BY <1>1
  <2> QED BY <1>1, <2>1 DEF RunQueue, SchedulerInv, WorkConserving, CanStart
<1> QED BY <1>1, <1>2, <1>3, <1>4, <1>5, <1>6, <1>7 DEF SchedulerInv

(* The settling of an active task keeps the invariant.                     *)
LEMMA SettleInv ==
  ASSUME SchedulerInv, NEW t \in Tasks, Settle(t)
  PROVE  SchedulerInv'
<1> DEFINE o == Release(occ, t, request[t])
<1>1. /\ t \in occ.active /\ Drain(o, waiters) /\ adopted' = adopted \ {t}
      /\ request' = request /\ outcome' \in [Tasks -> Outcomes]
      /\ occ \in Occupancies /\ occ.active \in SUBSET Tasks /\ waiters \in SUBSET Tasks
      /\ request \in [Tasks -> Requests] /\ Exact(occ, request) /\ adopted \subseteq occ.active
      /\ IsList(waiters, ahead) /\ TypeOK /\ waiters \cap occ.active = {}
  BY DEF Settle, SchedulerInv, TypeOK, Occupancies, Outcomes, CountersExact, Exact, QueueIsList, IsList
<1>2. o \in Occupancies /\ Exact(o, request) /\ o.active = occ.active \ {t}
  BY <1>1, ReleaseExact DEF Release
<1>3. /\ waiters \cap o.active = {} /\ adopted' \subseteq o.active
      /\ o.active \ adopted' \in SUBSET (occ.active \ adopted)
  BY <1>1, <1>2
<1>4. \A v, u \in o.active :
        v # u /\ request[v].resources \cap request[u].resources # {}
          => v \in adopted' \/ u \in adopted'
  BY <1>1, <1>2 DEF SchedulerInv, ExclusiveResources
<1>5. /\ Cardinality(o.active \ adopted') <= Total
      /\ Cardinality(OfClass(o.active \ adopted', "build", request)) <= Builds
      /\ Cardinality(OfClass(o.active \ adopted', "privileged", request)) <= Privileged
  <2> DEFINE S == occ.active \ adopted
             R == o.active \ adopted'
  <2>1. Cardinality(R) <= Cardinality(S) /\ Cardinality(R) \in Nat /\ Cardinality(S) \in Nat
    BY <1>1, <1>3, TaskSets
  <2>2. ASSUME NEW c
        PROVE  /\ Cardinality(OfClass(R, c, request)) <= Cardinality(OfClass(S, c, request))
               /\ Cardinality(OfClass(R, c, request)) \in Nat
               /\ Cardinality(OfClass(S, c, request)) \in Nat
    <3>1. OfClass(R, c, request) \in SUBSET OfClass(S, c, request)
          /\ OfClass(S, c, request) \in SUBSET Tasks
      BY <1>1, <1>3 DEF OfClass
    <3> QED BY <3>1, TaskSets
  <2>3. /\ Cardinality(S) <= Total
        /\ Cardinality(OfClass(S, "build", request)) <= Builds
        /\ Cardinality(OfClass(S, "privileged", request)) <= Privileged
    BY DEF SchedulerInv, CapsRespected
  <2> HIDE DEF S, R
  <2>4. /\ Cardinality(R) <= Total
        /\ Cardinality(OfClass(R, "build", request)) <= Builds
        /\ Cardinality(OfClass(R, "privileged", request)) <= Privileged
    BY <2>1, <2>2, <2>3, SchedulerAssumption
  <2> QED BY <2>4 DEF R
<1> HIDE DEF o
<1> QED BY <1>1, <1>2, <1>3, <1>4, <1>5, DrainStep

(* A waiter that is cancelled or times out keeps the invariant.            *)
LEMMA LeaveInv ==
  ASSUME SchedulerInv, NEW t \in Tasks, NEW why \in Outcomes, Leave(t, why)
  PROVE  SchedulerInv'
<1> DEFINE W == waiters \ {t}
<1>1. /\ Drain(occ, W) /\ adopted' = adopted /\ request' = request
      /\ outcome' \in [Tasks -> Outcomes]
      /\ occ \in Occupancies /\ W \in SUBSET Tasks /\ W \cap occ.active = {}
      /\ Exact(occ, request) /\ adopted \subseteq occ.active /\ TypeOK
  BY DEF Leave, SchedulerInv, TypeOK, QueueIsList, CountersExact, Exact
<1>2. IsList(W, ahead)
  BY DEF SchedulerInv, QueueIsList, IsList
<1>3. /\ \A v, u \in occ.active :
           v # u /\ request[v].resources \cap request[u].resources # {}
             => v \in adopted' \/ u \in adopted'
      /\ Cardinality(occ.active \ adopted') <= Total
      /\ Cardinality(OfClass(occ.active \ adopted', "build", request)) <= Builds
      /\ Cardinality(OfClass(occ.active \ adopted', "privileged", request)) <= Privileged
  BY <1>1 DEF SchedulerInv, ExclusiveResources, CapsRespected
<1> HIDE DEF W
<1> QED BY <1>1, <1>2, <1>3, DrainStep

(* Every step keeps the invariant.                                         *)
LEMMA NextInv == SchedulerInv /\ [Next]_vars => SchedulerInv'
<1> SUFFICES ASSUME SchedulerInv, [Next]_vars PROVE SchedulerInv'
  OBVIOUS
<1>1. ASSUME NEW t \in Tasks, NEW q \in Requests, RunStart(t, q) PROVE SchedulerInv'
  BY <1>1, RunStartInv
<1>2. ASSUME NEW t \in Tasks, NEW q \in Requests, RunQueue(t, q) PROVE SchedulerInv'
  BY <1>2, RunQueueInv
<1>3. ASSUME NEW t \in Tasks, NEW q \in Requests, Adopt(t, q) PROVE SchedulerInv'
  BY <1>3, AdoptInv
<1>4. ASSUME NEW t \in Tasks, Settle(t) PROVE SchedulerInv'
  BY <1>4, SettleInv
<1>5. ASSUME NEW t \in Tasks, Cancel(t) PROVE SchedulerInv'
  BY <1>5, LeaveInv DEF Cancel, Outcomes
<1>6. ASSUME NEW t \in Tasks, QueueTimeout(t) PROVE SchedulerInv'
  BY <1>6, LeaveInv DEF QueueTimeout, Outcomes
<1>7. CASE UNCHANGED vars
  BY <1>7 DEF vars, SchedulerInv, TypeOK, QueueIsList, CountersExact, ExclusiveResources,
              CapsRespected, WorkConserving, CanStart
<1> QED BY <1>1, <1>2, <1>3, <1>4, <1>5, <1>6, <1>7 DEF Next

-----------------------------------------------------------------------------
(* The invariant holds in every reachable state.                           *)
THEOREM Invariance == Spec => []SchedulerInv
  BY InitInv, NextInv, PTL DEF Spec

(* Every variable of the scheduler keeps its type (fields of lines 55-59). *)
THEOREM TypeCorrect == Spec => []TypeOK
<1>1. SchedulerInv => TypeOK
  BY DEF SchedulerInv
<1> QED BY <1>1, Invariance, PTL

(* The waiters stay one list without repetitions, apart from the active    *)
(* tasks (the guards of lines 90-93 and 113).                              *)
THEOREM WaitersFormList == Spec => []QueueIsList
<1>1. SchedulerInv => QueueIsList
  BY DEF SchedulerInv
<1> QED BY <1>1, Invariance, PTL

(* Named resources are serialized: two active tasks that were both         *)
(* admitted never share one (scheduler.ts lines 4-8).                      *)
THEOREM ResourceExclusion == Spec => []ExclusiveResources
<1>1. SchedulerInv => ExclusiveResources
  BY DEF SchedulerInv
<1> QED BY <1>1, Invariance, PTL

(* The held counts and the class counters are exactly what the active      *)
(* tasks add up to: reserve and release (lines 179-240) never drift.       *)
THEOREM ExactCounters == Spec => []CountersExact
<1>1. SchedulerInv => CountersExact
  BY DEF SchedulerInv
<1> QED BY <1>1, Invariance, PTL

(* Admitted tasks keep the global cap and both class caps (lines 157-165). *)
THEOREM Caps == Spec => []CapsRespected
<1>1. SchedulerInv => CapsRespected
  BY DEF SchedulerInv
<1> QED BY <1>1, Invariance, PTL

(* No waiter that could be started is left waiting: every release and      *)
(* every departure drains far enough (lines 242-257).                      *)
THEOREM NoLostWakeUp == Spec => []WorkConserving
<1>1. SchedulerInv => WorkConserving
  BY DEF SchedulerInv
<1> QED BY <1>1, Invariance, PTL

-----------------------------------------------------------------------------
(* Two facts about a drain, as it happens after a settlement or a          *)
(* departure.  What it starts is within the caps, the adopted counted.     *)
LEMMA DrainAdmits ==
  ASSUME TypeOK, NEW o \in Occupancies, Exact(o, request),
         NEW W \in SUBSET Tasks, W \cap o.active = {}, IsList(W, ahead),
         Drain(o, W), request' = request,
         occ.active \cap W = {}, o.active \subseteq occ.active
  PROVE  AdmitsWithinCaps
<1>1. PICK A \in SUBSET W : Drains(A, o, W) /\ occ' = Reserve(o, A, request)
  BY DEF Drain
<1>2. /\ request \in [Tasks -> Requests] /\ o.active \in SUBSET Tasks
      /\ A \in SUBSET Tasks /\ A \cap o.active = {}
  BY DEF TypeOK, Occupancies
<1>3. occ'.active = o.active \cup A /\ Exact(occ', request)
  BY <1>1, <1>2, ReserveExact DEF Reserve
<1> DEFINE new == occ'.active \ (occ.active \cup adopted')
<1>4. new \in SUBSET A
  BY <1>3
<1>5. new # {} => Cardinality(occ'.active) <= Total
  BY <1>1, <1>3, <1>4, DrainCaps
<1>6. OfClass(new, "build", request') # {} => occ'.builds <= Builds
  <2>1. OfClass(new, "build", request') \in SUBSET OfClass(A, "build", request)
    BY <1>4 DEF OfClass
  <2>2. occ'.builds = Cardinality(OfClass(o.active \cup A, "build", request))
    BY <1>3 DEF Exact
  <2>3. OfClass(A, "build", request) # {}
          => Cardinality(OfClass(o.active \cup A, "build", request)) <= Builds
    BY <1>1, DrainCaps
  <2> HIDE DEF new
  <2> QED BY <2>1, <2>2, <2>3
<1>7. OfClass(new, "privileged", request') # {} => occ'.privileged <= Privileged
  <2>1. OfClass(new, "privileged", request') \in SUBSET OfClass(A, "privileged", request)
    BY <1>4 DEF OfClass
  <2>2. occ'.privileged = Cardinality(OfClass(o.active \cup A, "privileged", request))
    BY <1>3 DEF Exact
  <2>3. OfClass(A, "privileged", request) # {}
          => Cardinality(OfClass(o.active \cup A, "privileged", request)) <= Privileged
    BY <1>1, DrainCaps
  <2> HIDE DEF new
  <2> QED BY <2>1, <2>2, <2>3
<1>8. ASSUME NEW t \in new, NEW u \in occ'.active \ {t}
      PROVE  request'[t].resources \cap request'[u].resources = {}
  BY <1>1, <1>3, <1>4, DrainExclusive
<1> HIDE DEF new
<1>9. new # {} =>
        /\ Cardinality(occ'.active) <= Total
        /\ OfClass(new, "build", request') # {} => occ'.builds <= Builds
        /\ OfClass(new, "privileged", request') # {} => occ'.privileged <= Privileged
        /\ \A t \in new : \A u \in occ'.active \ {t} :
             request'[t].resources \cap request'[u].resources = {}
  BY <1>5, <1>6, <1>7, <1>8
<1> QED BY <1>9 DEF new, AdmitsWithinCaps

(* Of two rivals it starts the one behind only if it starts the one ahead. *)
LEMMA DrainOrders ==
  ASSUME TypeOK, NEW o \in Occupancies, Exact(o, request),
         NEW W \in SUBSET waiters, W \cap o.active = {}, IsList(W, ahead),
         Drain(o, W), occ.active \cap waiters = {}, o.active \subseteq occ.active
  PROVE  KeepsOrder
<1>1. PICK A \in SUBSET W :
        Drains(A, o, W) /\ occ' = Reserve(o, A, request) /\ waiters' = W \ A
  BY DEF Drain
<1>2. SUFFICES ASSUME NEW t \in waiters, NEW u \in waiters, t \in ahead[u],
                      request[t].class \in {request[u].class, "default"},
                      request[t].resources \subseteq request[u].resources,
                      u \in occ'.active, t \in waiters'
               PROVE  FALSE
  BY DEF KeepsOrder
<1>3. u \in A /\ u \in W /\ t \in W /\ t \notin A
  BY <1>1, <1>2 DEF Reserve
<1> DEFINE near == o.active \cup (A \cap ahead[t])
           far  == o.active \cup (A \cap ahead[u])
<1>4. near \in SUBSET far /\ far \in SUBSET Tasks
  BY <1>2, <1>3 DEF IsList, TypeOK, Occupancies
<1>5. W \in SUBSET Tasks
  BY DEF TypeOK
<1>6. Fits(request[u], far, request) /\ ~Fits(request[t], near, request)
  BY <1>1, <1>3, <1>5, DrainFits
<1> HIDE DEF near, far
<1>7. Fits(request[t], far, request)
  BY <1>2, <1>6 DEF Fits
<1> QED BY <1>4, <1>6, <1>7, FitsMonotone

(* A call that starts at once, or is adopted, wakes nobody.                *)
LEMMA CallsAdmit ==
  ASSUME SchedulerInv, NEW t \in Tasks, NEW q \in Requests,
         RunStart(t, q) \/ RunQueue(t, q) \/ Adopt(t, q)
  PROVE  AdmitsWithinCaps /\ KeepsOrder
<1>1. /\ occ \in Occupancies /\ occ.active \in SUBSET Tasks /\ adopted \subseteq occ.active
      /\ request \in [Tasks -> Requests] /\ Exact(occ, request) /\ Unscheduled(t)
      /\ waiters \cap occ.active = {} /\ request' = [request EXCEPT ![t] = q]
  BY DEF SchedulerInv, TypeOK, Occupancies, CountersExact, Exact, QueueIsList, RunStart, RunQueue, Adopt
<1>2. CASE RunQueue(t, q)
  BY <1>1, <1>2 DEF RunQueue, AdmitsWithinCaps, KeepsOrder
<1>3. ASSUME RunStart(t, q) \/ Adopt(t, q)
      PROVE  occ'.active = occ.active \cup {t} /\ t \notin occ.active /\ t \notin waiters
  BY <1>1, <1>3 DEF RunStart, Adopt, Reserve, Unscheduled
<1>4. CASE Adopt(t, q)
  <2>1. occ'.active \ (occ.active \cup adopted') = {}
    BY <1>3, <1>4 DEF Adopt
  <2>2. KeepsOrder
    BY <1>1, <1>3, <1>4 DEF KeepsOrder
  <2> QED BY <2>1, <2>2 DEF AdmitsWithinCaps
<1>5. CASE RunStart(t, q)
  <2>1. Fits(q, occ.active, request)
    BY <1>1, <1>5, CanStartFits DEF RunStart
  <2>2. CountersExact'
    BY <1>5, RunStartInv DEF SchedulerInv
  <2>3. occ'.active \ (occ.active \cup adopted') = {t}
    BY <1>1, <1>3, <1>5 DEF RunStart
  <2>4. request'[t] = q /\ \A u \in occ.active : request'[u] = request[u]
    BY <1>1, <1>3, <1>5
  <2>5. Cardinality(occ'.active) <= Total
    <3>1. IsFiniteSet(occ.active) /\ Cardinality(occ.active) \in Nat
      BY <1>1, TaskSets
    <3>2. Cardinality(occ.active \cup {t}) = Cardinality(occ.active) + 1
      BY <1>3, <1>5, <3>1, FS_AddElement
    <3>3. Cardinality(occ.active) < Total
      BY <2>1 DEF Fits
    <3>4. occ'.active = occ.active \cup {t}
      BY <1>3, <1>5
    <3> QED BY <3>1, <3>2, <3>3, <3>4, SchedulerAssumption
  <2>6. ASSUME NEW c, NEW limit \in Nat, q.class = c,
               Cardinality(OfClass(occ.active, c, request)) < limit
        PROVE  Cardinality(OfClass(occ'.active, c, request')) <= limit
    <3> DEFINE k == OfClass(occ.active, c, request)
    <3>1. OfClass(occ'.active, c, request') = k \cup {t} /\ t \notin k /\ k \in SUBSET Tasks
      BY <1>1, <1>3, <1>5, <2>4, <2>6 DEF OfClass
    <3>2. IsFiniteSet(k) /\ Cardinality(k) \in Nat
      BY <3>1, TaskSets
    <3>3. Cardinality(k \cup {t}) = Cardinality(k) + 1
      BY <3>1, <3>2, FS_AddElement
    <3> HIDE DEF k
    <3>4. Cardinality(k) < limit
      BY <2>6 DEF k
    <3> QED BY <3>1, <3>2, <3>3, <3>4
  <2>7. q.class = "build" => occ'.builds <= Builds
    <3>1. occ'.builds = Cardinality(OfClass(occ'.active, "build", request'))
      BY <2>2 DEF CountersExact
    <3>2. q.class = "build" => Cardinality(OfClass(occ.active, "build", request)) < Builds
      BY <2>1 DEF Fits
    <3> QED BY <2>6, <3>1, <3>2, SchedulerAssumption
  <2>8. q.class = "privileged" => occ'.privileged <= Privileged
    <3>1. occ'.privileged = Cardinality(OfClass(occ'.active, "privileged", request'))
      BY <2>2 DEF CountersExact
    <3>2. q.class = "privileged" => Cardinality(OfClass(occ.active, "privileged", request)) < Privileged
      BY <2>1 DEF Fits
    <3> QED BY <2>6, <3>1, <3>2, SchedulerAssumption
  <2>9. \A u \in occ'.active \ {t} : request'[t].resources \cap request'[u].resources = {}
    BY <1>3, <1>5, <2>1, <2>4 DEF Fits
  <2>10. \A c : OfClass({t}, c, request') # {} => q.class = c
    BY <2>4 DEF OfClass
  <2>11. AdmitsWithinCaps
    BY <2>3, <2>5, <2>7, <2>8, <2>9, <2>10 DEF AdmitsWithinCaps
  <2>12. KeepsOrder
    BY <1>1, <1>3, <1>5 DEF KeepsOrder
  <2> QED BY <2>11, <2>12
<1> QED BY <1>2, <1>4, <1>5

(* Every step keeps the caps and the order.                                *)
LEMMA StepsAdmit ==
  ASSUME SchedulerInv, [Next]_vars
  PROVE  AdmitsWithinCaps /\ KeepsOrder
<1>1. /\ TypeOK /\ occ \in Occupancies /\ occ.active \in SUBSET Tasks /\ waiters \in SUBSET Tasks
      /\ request \in [Tasks -> Requests] /\ Exact(occ, request)
      /\ waiters \cap occ.active = {} /\ IsList(waiters, ahead)
  BY DEF SchedulerInv, TypeOK, Occupancies, CountersExact, Exact, QueueIsList, IsList
<1>2. ASSUME NEW t \in Tasks, Settle(t) PROVE AdmitsWithinCaps /\ KeepsOrder
  <2> DEFINE o == Release(occ, t, request[t])
  <2>1. o \in Occupancies /\ Exact(o, request) /\ o.active = occ.active \ {t}
    BY <1>1, <1>2, ReleaseExact DEF Release, Settle
  <2>2. Drain(o, waiters) /\ request' = request
    BY <1>2 DEF Settle
  <2> HIDE DEF o
  <2>3. waiters \cap o.active = {} /\ o.active \subseteq occ.active /\ waiters \in SUBSET waiters
    BY <1>1, <2>1
  <2>4. AdmitsWithinCaps
    BY <1>1, <2>1, <2>2, <2>3, DrainAdmits
  <2>5. KeepsOrder
    BY <1>1, <2>1, <2>2, <2>3, DrainOrders
  <2> QED BY <2>4, <2>5
<1>3. ASSUME NEW t \in Tasks, NEW why, Leave(t, why) PROVE AdmitsWithinCaps /\ KeepsOrder
  <2> DEFINE W == waiters \ {t}
  <2>1. /\ Drain(occ, W) /\ request' = request /\ W \in SUBSET Tasks /\ W \in SUBSET waiters
        /\ W \cap occ.active = {} /\ IsList(W, ahead)
    BY <1>1, <1>3 DEF Leave, IsList
  <2> HIDE DEF W
  <2>2. AdmitsWithinCaps
    BY <1>1, <2>1, DrainAdmits
  <2>3. KeepsOrder
    BY <1>1, <2>1, DrainOrders
  <2> QED BY <2>2, <2>3
<1>4. CASE UNCHANGED vars
  BY <1>1, <1>4 DEF vars, AdmitsWithinCaps, KeepsOrder
<1> QED BY <1>2, <1>3, <1>4, CallsAdmit DEF Next, Cancel, QueueTimeout

(* A step that admits a task leaves the scheduler within every cap, with   *)
(* the adopted workers counted, and what it admits shares no resource with *)
(* any active task, adopted or not (adopt's comment, lines 126-131).       *)
THEOREM AdmitsAlwaysWithinCaps == Spec => AdmissionWithinCaps
<1>1. SchedulerInv /\ [Next]_vars => AdmitsWithinCaps
  BY StepsAdmit
<1> QED BY <1>1, Invariance, PTL DEF Spec, AdmissionWithinCaps

(* No waiter is started while an earlier one that asks for no more of the  *)
(* same class stays in the list: the scan starts at the front (242-257).   *)
THEOREM RivalsAlwaysInOrder == Spec => RivalsInOrder
<1>1. SchedulerInv /\ [Next]_vars => KeepsOrder
  BY StepsAdmit
<1> QED BY <1>1, Invariance, PTL DEF Spec, RivalsInOrder

-----------------------------------------------------------------------------
(* Texts and their bytes.                                                  *)
Code == UNION {{<<c, k>> : k \in 1..Width[c]} : c \in Chars}

(* What the assumption on the constants says.                              *)
LEMMA LogTypes ==
  /\ \A c \in Chars : Width[c] \in 1..4
  /\ Invalid \in Chars /\ Replacement \in Seq(CodeUnits) /\ Outputs \subseteq Seq(Chars)
  /\ Secrets \in Seq(Seq(CodeUnits) \ {<<>>}) /\ TailCap \in Nat
  /\ \A l \in Limits : l[1] \in Nat /\ l[2] \in Nat /\ l[2] # 0
BY LogsAssumption DEF LogsAssumption

(* The first n of a sequence.                                              *)
LEMMA FirstOf ==
  ASSUME NEW S, NEW s \in Seq(S), NEW n \in 0..Len(s)
  PROVE  /\ SubSeq(s, 1, n) \in Seq(S) /\ Len(SubSeq(s, 1, n)) = n
         /\ \A i \in 1..n : SubSeq(s, 1, n)[i] = s[i]
<1>1. n \in Int /\ 1 \in Int /\ \A i \in 1..n : s[i] \in S
  BY LenProperties, ElementOfSeq
<1> QED BY <1>1, SubSeqProperties

(* ... is the first n - 1 and the n-th.                                    *)
LEMMA OneMore ==
  ASSUME NEW S, NEW s \in Seq(S), NEW n \in 1..Len(s)
  PROVE  SubSeq(s, 1, n) = SubSeq(s, 1, n - 1) \o <<s[n]>>
<1>1. 1 \in 1..Len(s) /\ n \in 1..Len(s)
  BY LenProperties
<1> QED BY <1>1, SubSeqRecursiveSecond

(* Named, so that the provers find which texts it is about.                *)
Associate(a, b, c) == (a \o b) \o c = a \o (b \o c)

LEMMA Associates ==
  ASSUME NEW a \in Seq(CodeUnits), NEW b \in Seq(CodeUnits), NEW c \in Seq(CodeUnits)
  PROVE  Associate(a, b, c)
BY ConcatAssociative DEF Associate

LEMMA TextsAssociate ==
  ASSUME NEW a \in Seq(Chars), NEW b \in Seq(Chars), NEW c \in Seq(Chars)
  PROVE  Associate(a, b, c)
BY ConcatAssociative DEF Associate

(* A sequence is its first k elements and the rest.                        *)
LEMMA SplitAt ==
  ASSUME NEW S, NEW t \in Seq(S), NEW k \in 0..Len(t)
  PROVE  /\ SubSeq(t, 1, k) \in Seq(S) /\ SubSeq(t, k + 1, Len(t)) \in Seq(S)
         /\ t = SubSeq(t, 1, k) \o SubSeq(t, k + 1, Len(t))
<1>1. Len(t) \in Nat /\ SubSeq(t, 1, k) \in Seq(S)
  BY LenProperties, FirstOf
<1>2. SubSeq(t, k + 1, Len(t)) \in Seq(S)
  <2>1. k + 1 \in Int /\ Len(t) \in Int /\ \A i \in (k + 1)..Len(t) : t[i] \in S
    BY <1>1, ElementOfSeq
  <2> QED BY <2>1, SubSeqProperties
<1>3. t = SubSeq(t, 1, k) \o SubSeq(t, k + 1, Len(t))
  <2>1. 1 \in 1..(Len(t) + 1) /\ k \in (1 - 1)..Len(t) /\ Len(t) \in k..Len(t)
    BY <1>1
  <2>2. SubSeq(t, 1, k) \o SubSeq(t, k + 1, Len(t)) = SubSeq(t, 1, Len(t))
    BY <2>1, ConcatAdjacentSubSeq
  <2> QED BY <2>2, SubSeqFull
<1> QED BY <1>1, <1>2, <1>3

(* There is only one join of the first l pieces.                           *)
LEMMA JoinOnly ==
  ASSUME NEW p, NEW l \in Nat, NEW f, IsJoin(f, p, l), NEW g, IsJoin(g, p, l)
  PROVE  f = g
<1> DEFINE Bad == {n \in 0..l : g[n] # f[n]}
<1>1. \A n \in 0..l : f[n] = Joined(f, p, n) /\ g[n] = Joined(g, p, n)
  BY DEF IsJoin
<1>2. Bad = {}
  <2> SUFFICES ASSUME Bad # {} PROVE FALSE
    OBVIOUS
  <2>1. PICK m \in Bad : \A n \in Bad : m <= n
    <3>1. Bad \in SUBSET Nat
      OBVIOUS
    <3> HIDE DEF Bad
    <3> QED BY <3>1, LeastNumber
  <2>2. m \in 0..l /\ g[m] # f[m]
    BY <2>1
  <2>3. CASE m = 0
    BY <1>1, <2>2, <2>3 DEF Joined
  <2>4. CASE m # 0
    <3>1. m - 1 \in 0..l /\ ~(m <= m - 1)
      BY <2>2, <2>4
    <3>2. g[m - 1] = f[m - 1]
      BY <2>1, <3>1
    <3> QED BY <1>1, <2>2, <2>4, <3>2 DEF Joined
  <2> QED BY <2>3, <2>4
<1>3. \A n \in 0..l : f[n] = g[n]
  BY <1>2
<1>4. f = [n \in 0..l |-> f[n]] /\ g = [n \in 0..l |-> g[n]]
  BY DEF IsJoin
<1> QED BY <1>3, <1>4

(* FlattenSeq joins its pieces.                                            *)
LEMMA FlattenIs ==
  ASSUME NEW S, NEW p \in Seq(Seq(S)), NEW f, IsJoin(f, p, Len(p))
  PROVE  FlattenSeq(p) = f[Len(p)]
<1>1. Len(p) \in Nat /\ \A n \in 1..Len(p) : p[n] \in Seq(S)
  BY LenProperties, ElementOfSeq
<1>2. Joins(f, p, Len(p), S)
  BY <1>1, JoinGrows
<1>3. CASE Len(p) = 0
  <2>1. p = <<>>
    BY <1>3, EmptySeq
  <2> QED BY <1>2, <1>3, <2>1 DEF FlattenSeq, Joins
<1>4. CASE Len(p) # 0
  <2> DEFINE Flattened(h, i) == IF i = 1 THEN p[i] ELSE h[i - 1] \o p[i]
             Is(h) == h = [i \in 1..Len(p) |-> Flattened(h, i)]
             g == CHOOSE h : Is(h)
             shown == [i \in 1..Len(p) |-> f[i]]
  <2>1. Is(shown)
    <3>1. ASSUME NEW i \in 1..Len(p) PROVE shown[i] = Flattened(shown, i)
      <4>1. f[i] = f[i - 1] \o p[i] /\ p[i] \in Seq(S) /\ f[0] = <<>>
        BY <1>2 DEF Joins
      <4>2. CASE i = 1
        <5>1. i - 1 = 0
          BY <4>2
        <5>2. f[i] = <<>> \o p[i]
          BY <4>1, <5>1
        <5>3. <<>> \o p[i] = p[i]
          BY <4>1, ConcatEmptySeq
        <5> QED BY <4>2, <5>2, <5>3
      <4>3. CASE i # 1
        <5>1. i - 1 \in 1..Len(p)
          BY <1>1, <4>3
        <5>2. shown[i - 1] = f[i - 1] /\ shown[i] = f[i]
          BY <5>1
        <5> HIDE DEF shown
        <5> QED BY <4>1, <4>3, <5>2
      <4> QED BY <4>2, <4>3
    <3>2. shown = [i \in 1..Len(p) |-> shown[i]]
      OBVIOUS
    <3> HIDE DEF shown, Flattened
    <3> QED BY <3>1, <3>2
  <2>2. Is(g)
    <3> HIDE DEF Is
    <3> QED BY <2>1, Zenon
  <2>3. FlattenSeq(p) = g[Len(p)]
    BY <1>4, Zenon DEF FlattenSeq
  <2> HIDE DEF g
  <2> DEFINE h == [n \in 0..Len(p) |-> IF n = 0 THEN <<>> ELSE g[n]]
  <2>4. ASSUME NEW n \in 0..Len(p) PROVE h[n] = Joined(h, p, n)
    <3>1. CASE n = 0
      BY <3>1 DEF Joined
    <3>2. CASE n = 1
      <4>1. h[1] = p[1] /\ h[0] = <<>> /\ p[1] \in Seq(S)
        BY <1>1, <1>4, <2>2
      <4>2. <<>> \o p[1] = p[1] /\ n - 1 = 0
        BY <3>2, <4>1, ConcatEmptySeq
      <4> HIDE DEF h
      <4> QED BY <3>2, <4>1, <4>2 DEF Joined
    <3>3. CASE n # 0 /\ n # 1
      <4>1. n \in 1..Len(p) /\ n - 1 \in 0..Len(p) /\ n - 1 # 0
        BY <1>1, <3>3
      <4>2. h[n] = g[n - 1] \o p[n] /\ h[n - 1] = g[n - 1]
        BY <2>2, <3>3, <4>1
      <4> HIDE DEF h
      <4> QED BY <3>3, <4>2 DEF Joined
    <3> QED BY <3>1, <3>2, <3>3
  <2>5. h[Len(p)] = g[Len(p)] /\ h = [n \in 0..Len(p) |-> h[n]]
    BY <1>1, <1>4
  <2> HIDE DEF h
  <2>6. IsJoin(h, p, Len(p))
    <3> HIDE DEF Joined
    <3> QED BY <2>4, <2>5 DEF IsJoin
  <2>7. h = f
    BY <1>1, <2>6, JoinOnly
  <2> QED BY <2>3, <2>5, <2>7
<1> QED BY <1>3, <1>4

(* A join of some of the pieces is part of a join of all.                  *)
LEMMA JoinPart ==
  ASSUME NEW p, NEW l \in Nat, NEW f, IsJoin(f, p, l), NEW m \in 0..l,
         NEW q, \A n \in 1..m : q[n] = p[n]
  PROVE  IsJoin([n \in 0..m |-> f[n]], q, m)
<1> DEFINE g == [n \in 0..m |-> f[n]]
<1>1. ASSUME NEW n \in 0..m PROVE g[n] = Joined(g, q, n)
  <2>1. n \in 0..l /\ f[n] = Joined(f, p, n) /\ g[n] = f[n]
    BY DEF IsJoin
  <2>2. CASE n = 0
    BY <2>1, <2>2 DEF Joined
  <2>3. CASE n # 0
    <3>1. n \in 1..m /\ n - 1 \in 0..m
      BY <2>3
    <3>2. g[n - 1] = f[n - 1] /\ q[n] = p[n]
      BY <3>1
    <3> HIDE DEF g
    <3> QED BY <2>1, <2>3, <3>2 DEF Joined
  <2> QED BY <2>2, <2>3
<1>2. g = [n \in 0..m |-> g[n]]
  OBVIOUS
<1> HIDE DEF g, Joined
<1>3. IsJoin(g, q, m)
  BY <1>1, <1>2 DEF IsJoin
<1> QED BY <1>3 DEF g

(* The pieces of two sequences, one after the other.                       *)
LEMMA FlattenConcat ==
  ASSUME NEW S, NEW p \in Seq(Seq(S)), NEW q \in Seq(Seq(S)), NEW w \in Seq(Seq(S)),
         w = p \o q
  PROVE  FlattenSeq(w) = FlattenSeq(p) \o FlattenSeq(q)
<1> DEFINE l == Len(p)
           m == Len(q)
<1>1. l \in Nat /\ m \in Nat
  BY LenProperties
<1>2. /\ Len(w) = l + m /\ \A i \in 1..l : w[i] = p[i]
      /\ \A i \in 1..m : w[l + i] = q[i]
  BY <1>1, ConcatProperties
<1>3. PICK f : IsJoin(f, w, Len(w))
  <2>1. Len(w) \in Nat
    BY LenProperties
  <2>2. \E f : IsJoin(f, w, Len(w))
    BY ONLY <2>1, JoinExists
  <2> QED BY <2>2
<1>4. PICK g : IsJoin(g, q, m)
  BY <1>1, JoinExists
<1>5. FlattenSeq(w) = f[Len(w)] /\ FlattenSeq(q) = g[m]
  BY <1>3, <1>4, FlattenIs
<1>6. FlattenSeq(p) = f[l]
  <2> DEFINE h == [n \in 0..l |-> f[n]]
  <2>1. IsJoin(h, p, l)
    BY <1>1, <1>2, <1>3, JoinPart
  <2>2. h[l] = f[l]
    BY <1>1
  <2> HIDE DEF h
  <2> QED BY <2>1, <2>2, FlattenIs
<1>7. Joins(f, w, Len(w), S) /\ Joins(g, q, m, S)
  <2>1. \A n \in 1..Len(w) : w[n] \in Seq(S)
    BY ElementOfSeq
  <2>2. \A n \in 1..m : q[n] \in Seq(S)
    BY ElementOfSeq
  <2>3. Len(w) \in Nat /\ m \in Nat
    BY <1>1, <1>2
  <2>4. Joins(f, w, Len(w), S)
    BY <1>3, <2>1, <2>3, JoinGrows
  <2>5. Joins(g, q, m, S)
    BY <1>4, <2>2, <2>3, JoinGrows
  <2> QED BY <2>4, <2>5
<1> HIDE DEF l, m
<1> DEFINE Bad == {n \in 0..m : f[l + n] # f[l] \o g[n]}
<1>8. f[l] \in Seq(S)
  BY <1>1, <1>2, <1>7 DEF Joins
<1>9. Bad = {}
  <2> SUFFICES ASSUME Bad # {} PROVE FALSE
    OBVIOUS
  <2>1. PICK n \in Bad : \A k \in Bad : n <= k
    <3>1. \A n \in 0..m : n \in Nat
      BY <1>1
    <3>2. \A n \in Bad : n \in 0..m
      OBVIOUS
    <3> HIDE DEF Bad
    <3>3. Bad \in SUBSET Nat
      BY <3>1, <3>2
    <3> QED BY <3>3, LeastNumber
  <2>2. n \in 0..m /\ f[l + n] # f[l] \o g[n]
    BY <2>1
  <2>3. CASE n = 0
    <3>1. l + n = l /\ g[n] = <<>>
      BY <1>1, <1>7, <2>3 DEF Joins
    <3>2. f[l] \o <<>> = f[l]
      BY <1>8, ConcatEmptySeq
    <3> QED BY <2>2, <3>1, <3>2
  <2>4. CASE n # 0
    <3>1. n \in 1..m /\ n - 1 \in 0..m /\ ~(n <= n - 1) /\ l + n \in 1..Len(w)
          /\ (l + n) - 1 = l + (n - 1)
      BY <1>1, <1>2, <2>2, <2>4
    <3>2. f[l + (n - 1)] = f[l] \o g[n - 1]
      BY <2>1, <3>1
    <3>3. f[l + n] = f[l + (n - 1)] \o q[n] /\ g[n] = g[n - 1] \o q[n]
      BY <1>2, <1>7, <3>1 DEF Joins
    <3> DEFINE a == f[l]
               b == g[n - 1]
               c == q[n]
    <3>4. a \in Seq(S) /\ b \in Seq(S) /\ c \in Seq(S)
      BY <1>7, <1>8, <3>1 DEF Joins
    <3> HIDE DEF a, b, c
    <3>5. (a \o b) \o c = a \o (b \o c)
      BY <3>4, ConcatAssociative
    <3> QED BY <2>2, <3>2, <3>3, <3>5 DEF a, b, c
  <2> QED BY <2>3, <2>4
<1>10. f[l + m] = f[l] \o g[m]
  <2>1. m \in 0..m
    BY <1>1
  <2> QED BY <1>9, <2>1
<1> QED BY <1>2, <1>5, <1>6, <1>10

-----------------------------------------------------------------------------
(* The bytes of a character.                                               *)
LEMMA EncodedIs ==
  ASSUME NEW c \in Chars
  PROVE  /\ Encoded[c] \in Seq(Code) /\ Len(Encoded[c]) = Width[c] /\ Width[c] \in 1..4
         /\ \A k \in 1..Width[c] : Encoded[c][k] = <<c, k>>
<1>1. Width[c] \in 1..4 /\ Width[c] \in Nat
  BY LogTypes
<1>2. Encoded[c] = [k \in 1..Width[c] |-> <<c, k>>]
  BY DEF Encoded, Chars
<1>3. \A k \in 1..Width[c] : <<c, k>> \in Code
  BY DEF Code
<1> QED BY <1>1, <1>2, <1>3

Pieces(t) == [i \in DOMAIN t |-> Encoded[t[i]]]

LEMMA PiecesAre ==
  ASSUME NEW t \in Seq(Chars)
  PROVE  /\ Pieces(t) \in Seq(Seq(Code)) /\ Len(Pieces(t)) = Len(t) /\ Len(t) \in Nat
         /\ \A i \in 1..Len(t) : t[i] \in Chars /\ Pieces(t)[i] = Encoded[t[i]]
<1>1. Len(t) \in Nat /\ DOMAIN t = 1..Len(t) /\ \A i \in 1..Len(t) : t[i] \in Chars
  BY LenProperties, ElementOfSeq
<1>2. \A i \in 1..Len(t) : Encoded[t[i]] \in Seq(Code)
  BY <1>1, EncodedIs
<1>3. Pieces(t) = [i \in 1..Len(t) |-> Encoded[t[i]]]
  BY <1>1 DEF Pieces
<1> QED BY <1>1, <1>2, <1>3

LEMMA BytesJoin ==
  ASSUME NEW t \in Seq(Chars), NEW f, IsJoin(f, Pieces(t), Len(t))
  PROVE  Bytes(t) = f[Len(t)] /\ Joins(f, Pieces(t), Len(t), Code)
<1>1. Pieces(t) \in Seq(Seq(Code)) /\ Len(Pieces(t)) = Len(t) /\ Len(t) \in Nat
  BY PiecesAre
<1>2. FlattenSeq(Pieces(t)) = f[Len(t)]
  BY <1>1, FlattenIs
<1>3. \A n \in 1..Len(t) : Pieces(t)[n] \in Seq(Code)
  BY <1>1, ElementOfSeq
<1>4. Joins(f, Pieces(t), Len(t), Code)
  BY <1>1, <1>3, JoinGrows
<1> QED BY <1>2, <1>4 DEF Bytes, Pieces

(* The bytes of no character, and of one character more.                   *)
LEMMA BytesAre ==
  /\ \A t \in Seq(Chars) : Bytes(t) \in Seq(Code)
  /\ Bytes(<<>>) = <<>>
  /\ \A t \in Seq(Chars), c \in Chars : Bytes(t \o <<c>>) = Bytes(t) \o Encoded[c]
<1>1. ASSUME NEW t \in Seq(Chars) PROVE Bytes(t) \in Seq(Code)
  <2>1. Len(t) \in Nat /\ Len(t) \in 0..Len(t)
    BY LenProperties
  <2>2. PICK f : IsJoin(f, Pieces(t), Len(t))
    BY <2>1, JoinExists
  <2>3. Bytes(t) = f[Len(t)] /\ Joins(f, Pieces(t), Len(t), Code)
    BY <2>2, BytesJoin
  <2> QED BY <2>1, <2>3 DEF Joins
<1>2. Bytes(<<>>) = <<>>
  <2>1. <<>> \in Seq(Chars) /\ Len(<<>>) = 0
    BY EmptySeq
  <2>2. PICK f : IsJoin(f, Pieces(<<>>), 0)
    BY JoinExists
  <2>3. Bytes(<<>>) = f[0] /\ Joins(f, Pieces(<<>>), 0, Code)
    BY <2>1, <2>2, BytesJoin
  <2> QED BY <2>3 DEF Joins
<1>3. ASSUME NEW t \in Seq(Chars), NEW c \in Chars
      PROVE  Bytes(t \o <<c>>) = Bytes(t) \o Encoded[c]
  <2> DEFINE q == t \o <<c>>
  <2>1. <<c>> \in Seq(Chars) /\ Len(<<c>>) = 1 /\ <<c>>[1] = c
    OBVIOUS
  <2>2. /\ Len(t) \in Nat /\ q \in Seq(Chars) /\ Len(q) = Len(t) + 1
        /\ \A i \in 1..Len(t) : q[i] = t[i]
        /\ q[Len(t) + 1] = c
    <3>1. Len(t) \in Nat
      BY LenProperties
    <3> QED BY <2>1, <3>1, ConcatProperties
  <2> HIDE DEF q
  <2>3. PICK f : IsJoin(f, Pieces(q), Len(q))
    BY <2>2, JoinExists
  <2>4. Bytes(q) = f[Len(q)] /\ Joins(f, Pieces(q), Len(q), Code)
    BY <2>2, <2>3, BytesJoin
  <2>5. f[Len(q)] = f[Len(t)] \o Encoded[c]
    <3>1. Len(q) \in 1..Len(q) /\ Len(q) - 1 = Len(t)
      BY <2>2
    <3>2. Pieces(q)[Len(q)] = Encoded[c]
      BY <2>2, <3>1, PiecesAre
    <3> QED BY <2>4, <3>1, <3>2 DEF Joins
  <2> DEFINE g == [n \in 0..Len(t) |-> f[n]]
  <2>6. \A n \in 1..Len(t) : Pieces(t)[n] = Pieces(q)[n]
    <3> SUFFICES ASSUME NEW n \in 1..Len(t) PROVE Pieces(t)[n] = Pieces(q)[n]
      OBVIOUS
    <3>1. n \in 1..Len(q) /\ q[n] = t[n]
      BY <2>2
    <3>2. Pieces(t)[n] = Encoded[t[n]] /\ Pieces(q)[n] = Encoded[q[n]]
      BY <2>2, <3>1, PiecesAre
    <3> QED BY <3>1, <3>2
  <2>7. IsJoin(g, Pieces(t), Len(t))
    <3>1. Len(t) \in 0..Len(q) /\ Len(q) \in Nat
      BY <2>2
    <3> QED BY <2>3, <2>6, <3>1, JoinPart
  <2>8. Bytes(t) = g[Len(t)] /\ g[Len(t)] = f[Len(t)]
    <3>1. g[Len(t)] = f[Len(t)]
      BY <2>2
    <3> HIDE DEF g
    <3> QED BY <2>7, <3>1, BytesJoin
  <2> QED BY <2>4, <2>5, <2>8 DEF q
<1> QED BY <1>1, <1>2, <1>3

(* The bytes of two texts, one after the other.                            *)
LEMMA BytesConcat ==
  ASSUME NEW s \in Seq(Chars), NEW t \in Seq(Chars)
  PROVE  Bytes(s \o t) = Bytes(s) \o Bytes(t)
<1> DEFINE Bad == {n \in 0..Len(t) : Bytes(s \o SubSeq(t, 1, n)) # Bytes(s) \o Bytes(SubSeq(t, 1, n))}
<1>1. Len(t) \in Nat /\ Bytes(s) \in Seq(Code)
  BY LenProperties, BytesAre
<1>2. Bad = {}
  <2> SUFFICES ASSUME Bad # {} PROVE FALSE
    OBVIOUS
  <2>1. PICK m \in Bad : \A n \in Bad : m <= n
    <3>1. Bad \in SUBSET Nat
      BY <1>1
    <3> HIDE DEF Bad
    <3> QED BY <3>1, LeastNumber
  <2>2. m \in 0..Len(t) /\ Bytes(s \o SubSeq(t, 1, m)) # Bytes(s) \o Bytes(SubSeq(t, 1, m))
    BY <2>1
  <2>3. CASE m = 0
    <3>1. SubSeq(t, 1, m) = <<>>
      BY <2>3, SubSeqEmpty
    <3>2. s \o <<>> = s /\ Bytes(s) \o <<>> = Bytes(s)
      BY <1>1, ConcatEmptySeq
    <3> QED BY <2>2, <3>1, <3>2, BytesAre
  <2>4. CASE m # 0
    <3> DEFINE u == SubSeq(t, 1, m - 1)
               c == t[m]
    <3>1. m \in 1..Len(t) /\ m - 1 \in 0..Len(t) /\ ~(m <= m - 1)
      BY <1>1, <2>2, <2>4
    <3>2. u \in Seq(Chars) /\ c \in Chars /\ SubSeq(t, 1, m) = u \o <<c>>
      BY <3>1, FirstOf, OneMore, ElementOfSeq
    <3>3. Bytes(s \o u) = Bytes(s) \o Bytes(u)
      BY <2>1, <3>1
    <3> HIDE DEF u, c, Bad
    <3>4. <<c>> \in Seq(Chars) /\ s \o u \in Seq(Chars)
      BY <3>2, ConcatProperties
    <3>5. s \o (u \o <<c>>) = (s \o u) \o <<c>>
      BY <3>2, <3>4, ConcatAssociative
    <3>6. Bytes((s \o u) \o <<c>>) = Bytes(s \o u) \o Encoded[c] /\ Bytes(u \o <<c>>) = Bytes(u) \o Encoded[c]
      BY <3>2, <3>4, BytesAre
    <3>7. Bytes(u) \in Seq(Code) /\ Encoded[c] \in Seq(Code)
      BY <3>2, BytesAre, EncodedIs
    <3>8. (Bytes(s) \o Bytes(u)) \o Encoded[c] = Bytes(s) \o (Bytes(u) \o Encoded[c])
      <4> DEFINE bs == Bytes(s)
                 bu == Bytes(u)
                 bc == Encoded[c]
      <4>1. bs \in Seq(Code) /\ bu \in Seq(Code) /\ bc \in Seq(Code)
        BY <1>1, <3>7
      <4> HIDE DEF bs, bu, bc
      <4>2. (bs \o bu) \o bc = bs \o (bu \o bc)
        BY <4>1, ConcatAssociative
      <4> QED BY <4>2 DEF bs, bu, bc
    <3> QED BY <2>2, <3>2, <3>3, <3>5, <3>6, <3>8
  <2> QED BY <2>3, <2>4
<1>3. Len(t) \in 0..Len(t)
  BY <1>1
<1>4. Bytes(s \o SubSeq(t, 1, Len(t))) = Bytes(s) \o Bytes(SubSeq(t, 1, Len(t)))
  BY <1>2, <1>3
<1> QED BY <1>4, SubSeqFull

(* The bytes of a text begin with those of its first k characters.         *)
LEMMA BytesSplit ==
  ASSUME NEW t \in Seq(Chars), NEW k \in 0..Len(t)
  PROVE  /\ SubSeq(t, 1, k) \in Seq(Chars) /\ SubSeq(t, k + 1, Len(t)) \in Seq(Chars)
         /\ t = SubSeq(t, 1, k) \o SubSeq(t, k + 1, Len(t))
         /\ Bytes(t) = Bytes(SubSeq(t, 1, k)) \o Bytes(SubSeq(t, k + 1, Len(t)))
<1> DEFINE a == SubSeq(t, 1, k)
           b == SubSeq(t, k + 1, Len(t))
<1>1. a \in Seq(Chars) /\ b \in Seq(Chars) /\ t = a \o b
  BY SplitAt
<1> HIDE DEF a, b
<1>2. Bytes(a \o b) = Bytes(a) \o Bytes(b)
  BY <1>1, BytesConcat
<1> QED BY <1>1, <1>2 DEF a, b

(* How many bytes the first k characters of a text take.                   *)
Offset(t, k) == Len(Bytes(SubSeq(t, 1, k)))

LEMMA OffsetIs ==
  ASSUME NEW t \in Seq(Chars)
  PROVE  /\ Len(Bytes(t)) \in Nat /\ Offset(t, 0) = 0 /\ Offset(t, Len(t)) = Len(Bytes(t))
         /\ \A k \in 0..Len(t) : Offset(t, k) \in 0..Len(Bytes(t))
         /\ \A k \in 0..Len(t) : SubSeq(Bytes(t), 1, Offset(t, k)) = Bytes(SubSeq(t, 1, k))
<1>1. Bytes(t) \in Seq(Code) /\ Len(Bytes(t)) \in Nat
  BY BytesAre, LenProperties
<1>2. Offset(t, 0) = 0
  <2>1. SubSeq(t, 1, 0) = <<>>
    BY SubSeqEmpty
  <2> QED BY <2>1, BytesAre, EmptySeq DEF Offset
<1>3. Offset(t, Len(t)) = Len(Bytes(t))
  BY SubSeqFull DEF Offset
<1>4. ASSUME NEW k \in 0..Len(t)
      PROVE  /\ Offset(t, k) \in 0..Len(Bytes(t))
             /\ SubSeq(Bytes(t), 1, Offset(t, k)) = Bytes(SubSeq(t, 1, k))
  <2> DEFINE a == Bytes(SubSeq(t, 1, k))
             b == Bytes(SubSeq(t, k + 1, Len(t)))
  <2>1. a \in Seq(Code) /\ b \in Seq(Code) /\ Bytes(t) = a \o b
    BY BytesSplit, BytesAre
  <2>2. Offset(t, k) = Len(a)
    BY DEF Offset
  <2> HIDE DEF a, b
  <2>3. Len(a) \in Nat /\ Len(b) \in Nat /\ Len(a \o b) = Len(a) + Len(b)
    BY <2>1, LenProperties, ConcatProperties
  <2>4. SubSeq(a \o b, 1, Len(a)) = a
    <3> DEFINE c == a \o b
    <3>1. c \in Seq(Code) /\ Len(a) \in 0..Len(c)
      BY <2>1, <2>3, ConcatProperties
    <3>2. \A i \in 1..Len(a) : c[i] = a[i]
      BY <2>1, <2>3, ConcatProperties
    <3> HIDE DEF c
    <3>3. /\ SubSeq(c, 1, Len(a)) \in Seq(Code) /\ Len(SubSeq(c, 1, Len(a))) = Len(a)
          /\ \A i \in 1..Len(a) : SubSeq(c, 1, Len(a))[i] = c[i]
      BY <3>1, FirstOf
    <3>4. SubSeq(c, 1, Len(a)) = a
      BY <2>1, <3>2, <3>3, SeqEqual
    <3> QED BY <3>4 DEF c
  <2>5. Offset(t, k) \in 0..Len(Bytes(t))
    BY <2>1, <2>2, <2>3
  <2>6. SubSeq(Bytes(t), 1, Offset(t, k)) = a
    BY <2>1, <2>2, <2>4
  <2> QED BY <2>5, <2>6 DEF a
<1> QED BY <1>1, <1>2, <1>3, <1>4

(* Where the k-th character of a text begins, and its bytes.               *)
LEMMA CharacterAt ==
  ASSUME NEW t \in Seq(Chars), NEW k \in 1..Len(t)
  PROVE  /\ t[k] \in Chars /\ Width[t[k]] \in 1..4
         /\ Offset(t, k - 1) \in Nat /\ Offset(t, k) = Offset(t, k - 1) + Width[t[k]]
         /\ Offset(t, k) <= Len(Bytes(t)) /\ Len(Bytes(t)) \in Nat
         /\ \A j \in 1..Width[t[k]] : Bytes(t)[Offset(t, k - 1) + j] = <<t[k], j>>
<1> DEFINE u == SubSeq(t, 1, k - 1)
           c == t[k]
           q == SubSeq(t, 1, k)
           b == Bytes(t)
<1>1. Len(t) \in Nat /\ k - 1 \in 0..Len(t) /\ k \in 0..Len(t)
  BY LenProperties
<1>2. u \in Seq(Chars) /\ c \in Chars /\ q = u \o <<c>>
  BY <1>1, FirstOf, OneMore, ElementOfSeq
<1>3. Offset(t, k - 1) = Len(Bytes(u)) /\ Offset(t, k) = Len(Bytes(q))
  BY DEF Offset
<1>4. SubSeq(b, 1, Offset(t, k)) = Bytes(q) /\ b \in Seq(Code) /\ Offset(t, k) \in 0..Len(b) /\ Len(b) \in Nat
  BY <1>1, OffsetIs, BytesAre
<1> HIDE DEF u, c, q, b
<1>5. Bytes(q) = Bytes(u) \o Encoded[c] /\ Bytes(u) \in Seq(Code)
  BY <1>2, BytesAre
<1>6. Encoded[c] \in Seq(Code) /\ Len(Encoded[c]) = Width[c] /\ Width[c] \in 1..4
      /\ \A j \in 1..Width[c] : Encoded[c][j] = <<c, j>>
  BY <1>2, EncodedIs
<1> DEFINE x == Bytes(u)
           y == Encoded[c]
           z == Bytes(q)
<1>7. x \in Seq(Code) /\ y \in Seq(Code) /\ z = x \o y /\ Len(y) = Width[c]
  BY <1>5, <1>6
<1> HIDE DEF x, y, z
<1>8. /\ Len(x) \in Nat /\ Len(z) = Len(x) + Len(y)
      /\ \A i \in 1..(Len(x) + Len(y)) : z[i] = IF i <= Len(x) THEN x[i] ELSE y[i - Len(x)]
  BY <1>7, LenProperties, ConcatProperties
<1>9. Offset(t, k - 1) = Len(x) /\ Offset(t, k) = Len(x) + Width[c]
  BY <1>3, <1>7, <1>8 DEF x, z
<1>10. ASSUME NEW j \in 1..Width[c] PROVE b[Len(x) + j] = <<c, j>>
  <2>1. Len(x) + j \in 1..Offset(t, k) /\ ~(Len(x) + j <= Len(x)) /\ (Len(x) + j) - Len(x) = j
    BY <1>6, <1>8, <1>9
  <2>2. SubSeq(b, 1, Offset(t, k))[Len(x) + j] = b[Len(x) + j]
    BY <1>4, <2>1, FirstOf
  <2>3. z[Len(x) + j] = y[j]
    BY <1>7, <1>8, <1>9, <2>1
  <2>4. y[j] = <<c, j>>
    BY <1>6 DEF y
  <2> QED BY <1>4, <2>2, <2>3, <2>4 DEF z
<1>11. Offset(t, k - 1) \in Nat /\ Offset(t, k) = Offset(t, k - 1) + Width[c] /\ Offset(t, k) <= Len(b)
  BY <1>4, <1>8, <1>9
<1>12. \A j \in 1..Width[c] : b[Offset(t, k - 1) + j] = <<c, j>>
  BY <1>9, <1>10
<1> QED BY ONLY <1>2, <1>4, <1>6, <1>11, <1>12 DEF b, c

(* Every byte of a text is one of a character of it.                       *)
LEMMA InCharacter ==
  ASSUME NEW t \in Seq(Chars), NEW i \in 1..Len(Bytes(t))
  PROVE  \E k \in 1..Len(t) : \E j \in 1..Width[t[k]] : i = Offset(t, k - 1) + j
<1> DEFINE S == {k \in 0..Len(t) : i <= Offset(t, k)}
<1>1. Len(t) \in Nat /\ Len(Bytes(t)) \in Nat /\ Offset(t, 0) = 0 /\ Offset(t, Len(t)) = Len(Bytes(t))
  BY LenProperties, OffsetIs
<1>2. PICK k \in S : \A n \in S : k <= n
  <2>1. S \in SUBSET Nat /\ S # {}
    BY <1>1
  <2> HIDE DEF S
  <2> QED BY <2>1, LeastNumber
<1>3. k \in 1..Len(t) /\ k - 1 \in 0..Len(t) /\ ~(k <= k - 1) /\ i <= Offset(t, k)
  BY <1>1, <1>2
<1>4. ~(i <= Offset(t, k - 1))
  BY <1>2, <1>3
<1>5. Offset(t, k - 1) \in Nat /\ Offset(t, k) = Offset(t, k - 1) + Width[t[k]] /\ Width[t[k]] \in 1..4
  BY <1>3, CharacterAt
<1>6. i - Offset(t, k - 1) \in 1..Width[t[k]] /\ i = Offset(t, k - 1) + (i - Offset(t, k - 1))
  BY <1>1, <1>3, <1>4, <1>5
<1> QED BY <1>3, <1>6

-----------------------------------------------------------------------------
(* What bytes are decoded to.                                              *)
Characters(b) == [i \in 1..Len(b) |-> Character(b, i)]

LEMMA DecodeIs ==
  ASSUME NEW b, Len(b) \in Nat, NEW f, IsJoin(f, Characters(b), Len(b))
  PROVE  Decode(b) = f[Len(b)]
<1> DEFINE Is(h) == h = [n \in 0..Len(b) |-> IF n = 0 THEN <<>> ELSE h[n - 1] \o Character(b, n)]
           g == CHOOSE h : Is(h)
<1>1. ASSUME NEW h PROVE Is(h) <=> IsJoin(h, Characters(b), Len(b))
  <2>1. ASSUME NEW n \in 0..Len(b)
        PROVE  (IF n = 0 THEN <<>> ELSE h[n - 1] \o Character(b, n)) = Joined(h, Characters(b), n)
    <3>1. CASE n = 0
      BY <3>1 DEF Joined
    <3>2. CASE n # 0
      <4>1. Characters(b)[n] = Character(b, n)
        <5>1. n \in 1..Len(b)
          BY <3>2
        <5> QED BY <5>1 DEF Characters
      <4> QED BY <3>2, <4>1 DEF Joined
    <3> QED BY <3>1, <3>2
  <2>2. [n \in 0..Len(b) |-> IF n = 0 THEN <<>> ELSE h[n - 1] \o Character(b, n)]
          = [n \in 0..Len(b) |-> Joined(h, Characters(b), n)]
    BY <2>1
  <2> QED BY <2>2, Zenon DEF IsJoin
<1>2. Is(g)
  <2>1. Is(f)
    BY <1>1
  <2> HIDE DEF Is
  <2> QED BY <2>1, Zenon
<1>3. Decode(b) = g[Len(b)]
  BY Zenon DEF Decode
<1> HIDE DEF g
<1>4. IsJoin(g, Characters(b), Len(b))
  BY <1>1, <1>2
<1>5. f = g
  BY <1>4, JoinOnly
<1> QED BY <1>3, <1>5

LEMMA DecodeType ==
  ASSUME NEW b \in Seq(Code)
  PROVE  Decode(b) \in Seq(Chars)
<1>1. Len(b) \in Nat /\ Len(b) \in 0..Len(b)
  BY LenProperties
<1>2. ASSUME NEW n \in 1..Len(b) PROVE Characters(b)[n] \in Seq(Chars)
  <2>1. b[n] \in Code
    BY <1>2, ElementOfSeq
  <2>2. b[n][1] \in Chars
    BY <2>1 DEF Code
  <2>3. <<b[n][1]>> \in Seq(Chars) /\ <<>> \in Seq(Chars) /\ <<Invalid>> \in Seq(Chars)
    BY <2>2, LogTypes, EmptySeq
  <2> QED BY <2>3 DEF Characters, Character
<1>3. PICK f : IsJoin(f, Characters(b), Len(b))
  BY <1>1, JoinExists
<1>4. Joins(f, Characters(b), Len(b), Chars)
  BY <1>1, <1>2, <1>3, JoinGrows
<1> QED BY <1>1, <1>3, <1>4, DecodeIs DEF Joins

(* The bytes of a text are decoded to it.                                  *)
LEMMA DecodeBytes ==
  ASSUME NEW t \in Seq(Chars)
  PROVE  Decode(Bytes(t)) = t
<1> DEFINE b == Bytes(t)
<1>1. /\ Len(t) \in Nat /\ b \in Seq(Code) /\ Len(b) \in Nat
      /\ Offset(t, 0) = 0 /\ Offset(t, Len(t)) = Len(b)
  BY LenProperties, BytesAre, OffsetIs
<1>2. ASSUME NEW k \in 1..Len(t)
      PROVE  /\ t[k] \in Chars /\ Width[t[k]] \in 1..4
             /\ Offset(t, k - 1) \in Nat /\ Offset(t, k) = Offset(t, k - 1) + Width[t[k]]
             /\ Offset(t, k) <= Len(b)
             /\ \A j \in 1..Width[t[k]] : b[Offset(t, k - 1) + j] = <<t[k], j>>
  BY CharacterAt
<1> HIDE DEF b
<1>3. PICK f : IsJoin(f, Characters(b), Len(b))
  BY <1>1, JoinExists
<1>4. \A n \in 0..Len(b) : f[n] = Joined(f, Characters(b), n)
  BY <1>3 DEF IsJoin
<1> DEFINE Bad == {k \in 0..Len(t) : f[Offset(t, k)] # SubSeq(t, 1, k)}
<1>5. Bad = {}
  <2> SUFFICES ASSUME Bad # {} PROVE FALSE
    OBVIOUS
  <2>1. PICK k \in Bad : \A n \in Bad : k <= n
    <3>1. Bad \in SUBSET Nat
      BY <1>1
    <3> HIDE DEF Bad
    <3> QED BY <3>1, LeastNumber
  <2>2. k \in 0..Len(t) /\ f[Offset(t, k)] # SubSeq(t, 1, k)
    BY <2>1
  <2>3. CASE k = 0
    <3>1. SubSeq(t, 1, k) = <<>>
      BY <2>3, SubSeqEmpty
    <3>2. f[0] = <<>>
      BY <1>1, <1>4 DEF Joined
    <3> QED BY <1>1, <2>2, <2>3, <3>1, <3>2
  <2>4. CASE k # 0
    <3> DEFINE o == Offset(t, k - 1)
               w == Width[t[k]]
    <3>1. k \in 1..Len(t) /\ k - 1 \in 0..Len(t) /\ ~(k <= k - 1)
      BY <1>1, <2>2, <2>4
    <3>2. f[o] = SubSeq(t, 1, k - 1)
      BY <2>1, <3>1
    <3> HIDE DEF Bad
    <3>3. /\ t[k] \in Chars /\ w \in 1..4 /\ o \in Nat /\ Offset(t, k) = o + w /\ o + w <= Len(b)
          /\ \A j \in 1..w : b[o + j] = <<t[k], j>>
      BY <1>2, <3>1
    <3> HIDE DEF o
    <3>4. \A j \in 1..w : f[o + j] = f[o + j - 1] \o (IF j = 1 THEN <<t[k]>> ELSE <<>>)
      <4> SUFFICES ASSUME NEW j \in 1..w
                   PROVE  f[o + j] = f[o + j - 1] \o (IF j = 1 THEN <<t[k]>> ELSE <<>>)
        OBVIOUS
      <4>1. o + j \in 1..Len(b) /\ o + j \in 0..Len(b) /\ o + j # 0
        BY <1>1, <3>3
      <4>2. f[o + j] = f[o + j - 1] \o Character(b, o + j)
        <5> DEFINE n == o + j
        <5>1. n \in 0..Len(b) /\ n \in 1..Len(b) /\ n # 0
          BY <4>1
        <5> HIDE DEF n
        <5>2. Characters(b)[n] = Character(b, n)
          BY <5>1 DEF Characters
        <5>3. f[n] = Joined(f, Characters(b), n)
          BY <1>4, <5>1
        <5>4. f[n] = f[n - 1] \o Character(b, n)
          BY <5>1, <5>2, <5>3 DEF Joined
        <5>5. n - 1 = o + (j - 1)
          BY <3>3 DEF n
        <5> QED BY <5>4, <5>5 DEF n
      <4>3. b[o + j] = <<t[k], j>> /\ b[o + j][1] = t[k] /\ b[o + j][2] = j
        BY <3>3
      <4>4. Character(b, o + j) = IF j = 1 THEN <<t[k]>> ELSE <<>>
        <5>1. CASE j = 1
          <6>1. o + j + Width[t[k]] - 1 <= Len(b)
            BY <1>1, <3>3, <5>1
          <6> QED BY <4>3, <5>1, <6>1 DEF Character
        <5>2. CASE j # 1
          <6>1. j > 1 /\ j <= o + j
            BY <3>3, <5>2
          <6> QED BY <4>3, <5>2, <6>1 DEF Character
        <5> QED BY <5>1, <5>2
      <4> QED BY <4>2, <4>4
    <3> DEFINE u == SubSeq(t, 1, k - 1)
               q == SubSeq(t, 1, k)
    <3>5. u \in Seq(Chars) /\ q = u \o <<t[k]>> /\ q \in Seq(Chars)
      <4>1. k \in 1..Len(t) /\ k \in 0..Len(t) /\ k - 1 \in 0..Len(t)
        BY <3>1
      <4>2. u \in Seq(Chars) /\ q \in Seq(Chars)
        BY <4>1, FirstOf, Zenon
      <4>3. q = u \o <<t[k]>>
        BY <4>1, OneMore, Zenon
      <4> QED BY <4>2, <4>3
    <3>6. q \o <<>> = q
      BY <3>5, ConcatEmptySeq
    <3>7. f[o] = u
      BY <3>2
    <3> HIDE DEF u, q
    <3>8. f[o + 1] = q
      <4>1. 1 \in 1..w /\ o + 1 - 1 = o
        BY <3>3
      <4> QED BY <3>4, <3>5, <3>7, <4>1
    <3>9. \A j \in 1..w : j # 1 => f[o + j] = f[o + j - 1] \o <<>>
      BY <3>4
    <3> DEFINE Off == {j \in 1..w : f[o + j] # q}
    <3>10. Off = {}
      <4> SUFFICES ASSUME Off # {} PROVE FALSE
        OBVIOUS
      <4>1. PICK j \in Off : \A n \in Off : j <= n
        <5>1. Off \in SUBSET Nat
          BY <3>3
        <5> HIDE DEF Off
        <5> QED BY <5>1, LeastNumber
      <4>2. j # 1 /\ j \in 1..w
        BY <3>8, <4>1
      <4>3. j - 1 \in 1..w /\ ~(j <= j - 1) /\ o + (j - 1) = o + j - 1
        BY <3>3, <4>2
      <4>4. f[o + (j - 1)] = q
        BY <4>1, <4>3
      <4>5. f[o + j] = q \o <<>>
        BY <3>9, <4>2, <4>3, <4>4
      <4> QED BY <3>6, <4>1, <4>5
    <3>11. w \in 1..w
      BY <3>3
    <3>12. f[o + w] = q
      BY <3>10, <3>11
    <3> QED BY <2>2, <3>3, <3>12 DEF q
  <2> QED BY <2>3, <2>4
<1>6. Len(t) \in 0..Len(t)
  BY <1>1
<1>7. f[Len(b)] = SubSeq(t, 1, Len(t))
  BY <1>1, <1>5, <1>6
<1>8. Decode(b) = f[Len(b)]
  BY <1>1, <1>3, DecodeIs
<1> QED BY <1>7, <1>8, SubSeqFull DEF b

-----------------------------------------------------------------------------
(* A slice of a text.                                                      *)
LEMMA LeastIs ==
  ASSUME NEW S \in SUBSET Nat, NEW m \in S, \A n \in S : m <= n
  PROVE  Least(S) = m
<1> DEFINE x == CHOOSE y \in S : \A n \in S : y <= n
<1>1. x \in S /\ \A n \in S : x <= n
  BY Zenon
<1>2. Least(S) = x
  BY DEF Least
<1> HIDE DEF x
<1>3. x <= m /\ m <= x /\ x \in Nat /\ m \in Nat
  BY <1>1
<1> QED BY <1>2, <1>3

LEMMA LeastIn ==
  ASSUME NEW S \in SUBSET Nat, S # {}
  PROVE  Least(S) \in S /\ \A n \in S : Least(S) <= n
<1>1. PICK m \in S : \A n \in S : m <= n
  BY LeastNumber
<1> QED BY <1>1, LeastIs

LEMMA OffsetsGrow ==
  ASSUME NEW t \in Seq(Chars), NEW m \in 0..Len(t), NEW n \in m..Len(t)
  PROVE  Offset(t, m) <= Offset(t, n)
<1> DEFINE Bad == {k \in m..Len(t) : ~(Offset(t, m) <= Offset(t, k))}
<1>1. Len(t) \in Nat /\ Offset(t, m) \in Nat
  BY LenProperties, OffsetIs
<1>2. Bad = {}
  <2> SUFFICES ASSUME Bad # {} PROVE FALSE
    OBVIOUS
  <2>1. PICK k \in Bad : \A i \in Bad : k <= i
    <3>1. Bad \in SUBSET Nat
      BY <1>1
    <3> HIDE DEF Bad
    <3> QED BY <3>1, LeastNumber
  <2>2. k \in m..Len(t) /\ ~(Offset(t, m) <= Offset(t, k)) /\ k # m
    BY <1>1, <2>1
  <2>3. k \in 1..Len(t) /\ k - 1 \in m..Len(t) /\ ~(k <= k - 1)
    BY <1>1, <2>2
  <2>4. Offset(t, m) <= Offset(t, k - 1)
    BY <2>1, <2>3
  <2>5. Offset(t, k - 1) \in Nat /\ Offset(t, k) = Offset(t, k - 1) + Width[t[k]] /\ Width[t[k]] \in 1..4
    BY <2>3, CharacterAt
  <2> QED BY <1>1, <2>2, <2>4, <2>5
<1> QED BY <1>2

(* The whole characters among the first u bytes of a text: k of them.      *)
IsCut(t, u, k) ==
  /\ k \in 0..Len(t) /\ Offset(t, k) <= u
  /\ k # Len(t) => k + 1 \in 1..Len(t) /\ u < Offset(t, k + 1)

LEMMA CutExists ==
  ASSUME NEW t \in Seq(Chars), NEW u \in 0..Len(Bytes(t))
  PROVE  \E k : IsCut(t, u, k)
<1> DEFINE S == {k \in 0..Len(t) : Offset(t, k) <= u}
<1>1. /\ Len(t) \in Nat /\ Offset(t, 0) = 0 /\ Len(Bytes(t)) \in Nat
      /\ \A k \in 0..Len(t) : Offset(t, k) \in Nat
  BY LenProperties, OffsetIs
<1>2. S \in SUBSET Nat /\ 0 \in S /\ \A n \in S : n <= Len(t)
  BY <1>1
<1>3. PICK k \in S : \A n \in S : n <= k
  <2> HIDE DEF S
  <2> QED BY <1>1, <1>2, GreatestNumber
<1>4. k \in 0..Len(t) /\ Offset(t, k) <= u
  BY <1>3
<1>5. ASSUME k # Len(t) PROVE k + 1 \in 1..Len(t) /\ u < Offset(t, k + 1)
  <2>1. k + 1 \in 1..Len(t) /\ k + 1 \in 0..Len(t) /\ ~(k + 1 <= k)
    BY <1>1, <1>4, <1>5
  <2>2. ~(Offset(t, k + 1) <= u)
    BY <1>3, <2>1
  <2> QED BY <1>1, <2>1, <2>2
<1> QED BY <1>4, <1>5 DEF IsCut

(* They are what the slice is cut to.                                      *)
CutIs(t, u, k, b) ==
  /\ b \in Seq(Code) /\ Len(b) = u
  /\ Utf8SafeStart(b) = 0 /\ Utf8SafeEnd(b, 0) = Offset(t, k)
  /\ SubSeq(b, 1, Offset(t, k)) = Bytes(SubSeq(t, 1, k))

LEMMA SafeIs ==
  ASSUME NEW t \in Seq(Chars), NEW u \in 0..Len(Bytes(t)), NEW k, IsCut(t, u, k),
         NEW b, b = SubSeq(Bytes(t), 1, u)
  PROVE  CutIs(t, u, k, b)
<1> DEFINE o == Offset(t, k)
<1>1. /\ Len(t) \in Nat /\ Len(Bytes(t)) \in Nat /\ Bytes(t) \in Seq(Code)
      /\ Offset(t, 0) = 0 /\ Offset(t, Len(t)) = Len(Bytes(t))
  BY LenProperties, OffsetIs, BytesAre
<1>2. b \in Seq(Code) /\ Len(b) = u /\ \A i \in 1..u : b[i] = Bytes(t)[i]
  BY <1>1, FirstOf
<1>3. k \in 0..Len(t) /\ o \in 0..u /\ u \in Nat /\ SubSeq(Bytes(t), 1, o) = Bytes(SubSeq(t, 1, k))
  BY <1>1, OffsetIs DEF IsCut
<1>4. ASSUME NEW i \in 0..(u - 1)
      PROVE  \E n \in 1..Len(t) : \E j \in 1..4 :
               /\ i + 1 = Offset(t, n - 1) + j /\ Offset(t, n - 1) \in Nat
               /\ b[i + 1][1] = t[n] /\ b[i + 1][2] = j
               /\ Offset(t, n) = Offset(t, n - 1) + Width[t[n]] /\ Width[t[n]] \in 1..4
  <2>1. i + 1 \in 1..u /\ i + 1 \in 1..Len(Bytes(t))
    BY <1>1, <1>3
  <2>2. PICK n \in 1..Len(t) : \E j \in 1..Width[t[n]] : i + 1 = Offset(t, n - 1) + j
    BY <2>1, InCharacter
  <2>3. PICK j \in 1..Width[t[n]] : i + 1 = Offset(t, n - 1) + j
    BY <2>2
  <2>4. /\ Width[t[n]] \in 1..4 /\ Offset(t, n - 1) \in Nat
        /\ Offset(t, n) = Offset(t, n - 1) + Width[t[n]]
        /\ Bytes(t)[Offset(t, n - 1) + j] = <<t[n], j>>
    BY CharacterAt
  <2>5. b[i + 1] = <<t[n], j>>
    BY <1>2, <2>1, <2>3, <2>4
  <2>6. b[i + 1][1] = t[n] /\ b[i + 1][2] = j /\ j \in 1..4
    BY <2>4, <2>5
  <2> QED BY <2>3, <2>4, <2>6
<1>5. ASSUME k # Len(t)
      PROVE  /\ k + 1 \in 1..Len(t) /\ u < o + Width[t[k + 1]] /\ Width[t[k + 1]] \in 1..4
             /\ o < u => b[o + 1][1] = t[k + 1] /\ b[o + 1][2] = 1
  <2>1. k + 1 \in 1..Len(t) /\ u < Offset(t, k + 1) /\ (k + 1) - 1 = k
    BY <1>3, <1>5 DEF IsCut
  <2>2. /\ Width[t[k + 1]] \in 1..4 /\ Offset(t, k + 1) = Offset(t, (k + 1) - 1) + Width[t[k + 1]]
        /\ \A j \in 1..Width[t[k + 1]] : Bytes(t)[Offset(t, (k + 1) - 1) + j] = <<t[k + 1], j>>
    BY <2>1, CharacterAt
  <2>3. Bytes(t)[o + 1] = <<t[k + 1], 1>>
    <3>1. 1 \in 1..Width[t[k + 1]] /\ Offset(t, (k + 1) - 1) = o
      BY <2>1, <2>2
    <3> HIDE DEF o
    <3> QED BY <2>2, <3>1, Zenon
  <2>4. ASSUME o < u PROVE b[o + 1][1] = t[k + 1] /\ b[o + 1][2] = 1
    <3>1. o + 1 \in 1..u
      BY <1>3, <2>4
    <3> DEFINE x == b[o + 1]
               c == t[k + 1]
    <3>2. x = <<c, 1>>
      BY <1>2, <2>3, <3>1
    <3> HIDE DEF x, c
    <3>3. x[1] = c /\ x[2] = 1
      BY <3>2
    <3> QED BY <3>3 DEF x, c
  <2>5. u < o + Width[t[k + 1]]
    BY <2>1, <2>2
  <2> QED BY ONLY <2>1, <2>2, <2>4, <2>5
<1> HIDE DEF o
<1>6. Utf8SafeStart(b) = 0
  <2> DEFINE S == {i \in 0..Len(b) : StartsAt(b, i + 1)}
  <2>1. StartsAt(b, 1)
    <3>1. CASE u = 0
      <4>1. 1 \notin DOMAIN b
        BY <1>2, <3>1, LenProperties
      <4> QED BY <4>1 DEF StartsAt
    <3>2. CASE u # 0
      <4>1. 0 \in 0..(u - 1) /\ 0 + 1 = 1
        BY <1>3, <3>2
      <4>2. PICK n \in 1..Len(t) : \E j \in 1..4 :
               /\ 0 + 1 = Offset(t, n - 1) + j /\ Offset(t, n - 1) \in Nat /\ b[0 + 1][2] = j
        BY <1>4, <4>1
      <4>3. b[1][2] = 1
        BY <4>1, <4>2
      <4> QED BY <4>3 DEF StartsAt
    <3> QED BY <3>1, <3>2
  <2>2. S \in SUBSET Nat /\ 0 \in S /\ \A n \in S : 0 <= n
    <3>1. 0 + 1 = 1 /\ 0 \in 0..Len(b)
      BY <1>2, <1>3
    <3>2. 0 \in S
      BY <2>1, <3>1
    <3> QED BY <1>2, <1>3, <3>2
  <2> HIDE DEF S
  <2>3. Least(S) = 0
    BY <2>2, LeastIs
  <2> QED BY <2>3 DEF Utf8SafeStart, S
<1>7. Utf8SafeEnd(b, 0) = o
  <2> DEFINE cut == {i \in 0..(Len(b) - 1) : /\ i + 3 >= Len(b) /\ StartsAt(b, i + 1)
                                              /\ i + Width[b[i + 1][1]] > Len(b)}
  <2>1. ASSUME NEW i \in cut PROVE i = o
    <3>1. i \in 0..(u - 1) /\ StartsAt(b, i + 1) /\ i + Width[b[i + 1][1]] > u
      BY <1>2
    <3>2. b[i + 1][2] = 1
      <4>1. i + 1 \in DOMAIN b
        BY <1>2, <1>3, <3>1, LenProperties
      <4> QED BY <3>1, <4>1 DEF StartsAt
    <3>3. PICK n \in 1..Len(t) : \E j \in 1..4 :
               /\ i + 1 = Offset(t, n - 1) + j /\ Offset(t, n - 1) \in Nat
               /\ b[i + 1][1] = t[n] /\ b[i + 1][2] = j
               /\ Offset(t, n) = Offset(t, n - 1) + Width[t[n]] /\ Width[t[n]] \in 1..4
      BY <1>4, <3>1
    <3> HIDE DEF cut
    <3>4. i = Offset(t, n - 1) /\ Offset(t, n) > u /\ Offset(t, n) \in Nat
      <4>1. i + 1 = Offset(t, n - 1) + 1 /\ Offset(t, n - 1) \in Nat
        BY <3>2, <3>3
      <4>2. i = Offset(t, n - 1)
        BY <3>1, <4>1
      <4>3. Width[b[i + 1][1]] = Width[t[n]]
        BY <3>3
      <4>4. i + Width[t[n]] > u
        BY <3>1, <4>3
      <4> QED BY <3>3, <4>1, <4>2, <4>4
    <3>5. ~(n <= k)
      <4>1. ASSUME n <= k PROVE FALSE
        <5>1. n \in 0..Len(t) /\ k \in n..Len(t)
          BY <1>1, <1>3, <4>1
        <5>2. Offset(t, n) <= o
          BY <5>1, OffsetsGrow DEF o
        <5> QED BY <1>3, <3>4, <5>2
      <4> QED BY <4>1
    <3>6. ~(k < n - 1)
      <4>1. ASSUME k < n - 1 PROVE FALSE
        <5>1. k # Len(t) /\ k + 1 \in 0..Len(t) /\ n - 1 \in (k + 1)..Len(t)
          BY <1>1, <1>3, <4>1
        <5>2. Offset(t, k + 1) <= Offset(t, n - 1) /\ u < Offset(t, k + 1)
          BY <5>1, OffsetsGrow DEF IsCut
        <5>3. Offset(t, k + 1) \in Nat
          BY <5>1, OffsetIs
        <5> QED BY <1>3, <3>1, <3>4, <5>2, <5>3
      <4> QED BY <4>1
    <3>7. n - 1 = k
      BY <1>3, <3>5, <3>6
    <3> QED BY <3>4, <3>7 DEF o
  <2>2. CASE o = u
    <3>1. cut = {}
      <4> SUFFICES ASSUME NEW i \in cut PROVE FALSE
        OBVIOUS
      <4>1. i \in 0..(u - 1) /\ i = o
        BY <1>2, <2>1
      <4> QED BY <1>3, <2>2, <4>1
    <3> HIDE DEF cut
    <3> QED BY <1>2, <2>2, <3>1 DEF Utf8SafeEnd, cut
  <2>3. CASE o # u
    <3>1. k # Len(t)
      BY <1>1, <1>3, <2>3 DEF o
    <3>2. o < u /\ o \in 0..(Len(b) - 1)
      BY <1>2, <1>3, <2>3
    <3>3. b[o + 1][1] = t[k + 1] /\ b[o + 1][2] = 1 /\ u < o + Width[t[k + 1]] /\ Width[t[k + 1]] \in 1..4
      BY <1>5, <3>1, <3>2
    <3>4. StartsAt(b, o + 1)
      BY <3>3 DEF StartsAt
    <3>5. o + 3 >= Len(b) /\ o + Width[b[o + 1][1]] > Len(b)
      <4>1. Width[b[o + 1][1]] = Width[t[k + 1]]
        BY <3>3
      <4>2. o + 3 >= u /\ o + Width[t[k + 1]] > u
        BY <1>3, <3>3
      <4> QED BY <1>2, <4>1, <4>2
    <3>6. o \in cut
      BY <3>2, <3>4, <3>5
    <3>7. cut \in SUBSET Nat /\ cut # {} /\ \A i \in cut : o <= i
      <4>1. \A i \in cut : i = o
        BY <2>1
      <4> HIDE DEF cut
      <4> QED BY <1>3, <3>6, <4>1
    <3> HIDE DEF cut
    <3>8. Least(cut) = o
      BY <3>6, <3>7, LeastIs
    <3> QED BY <3>7, <3>8 DEF Utf8SafeEnd, cut
  <2> QED BY <2>2, <2>3
<1>8. SubSeq(b, 1, o) = SubSeq(Bytes(t), 1, o)
  <2>1. o \in 0..Len(b) /\ o \in 0..Len(Bytes(t))
    BY <1>1, <1>2, <1>3
  <2> DEFINE x == SubSeq(b, 1, o)
             y == SubSeq(Bytes(t), 1, o)
  <2>2. x \in Seq(Code) /\ Len(x) = o /\ \A i \in 1..o : x[i] = b[i]
    BY <1>2, <2>1, FirstOf
  <2>3. y \in Seq(Code) /\ Len(y) = o /\ \A i \in 1..o : y[i] = Bytes(t)[i]
    BY <1>1, <2>1, FirstOf
  <2> HIDE DEF x, y
  <2>4. \A i \in 1..o : x[i] = y[i]
    BY <1>2, <1>3, <2>2, <2>3
  <2>5. x = y
    BY <2>2, <2>3, <2>4, SeqEqual
  <2> QED BY <2>5 DEF x, y
<1> QED BY <1>2, <1>3, <1>6, <1>7, <1>8, Zenon DEF o, CutIs

(* How many of the first k characters end a line.                          *)
Ended(t, k) == Cardinality({i \in 1..k : t[i] = Newline})

LEMMA EndedIs ==
  ASSUME NEW t
  PROVE  /\ Ended(t, 0) = 0
         /\ \A k \in Nat : Ended(t, k) \in Nat
         /\ \A k \in Nat : Ended(t, k + 1) = Ended(t, k) + (IF t[k + 1] = Newline THEN 1 ELSE 0)
<1> DEFINE N(k) == {i \in 1..k : t[i] = Newline}
<1>1. \A k \in Nat : IsFiniteSet(N(k)) /\ Cardinality(N(k)) \in Nat
  <2> SUFFICES ASSUME NEW k \in Nat PROVE IsFiniteSet(N(k)) /\ Cardinality(N(k)) \in Nat
    OBVIOUS
  <2>1. IsFiniteSet(1..k) /\ N(k) \in SUBSET (1..k)
    BY FS_Interval
  <2> HIDE DEF N
  <2> QED BY <2>1, FS_Subset, FS_CardinalityType
<1>2. Ended(t, 0) = 0
  <2>1. N(0) = {}
    OBVIOUS
  <2> QED BY <2>1, FS_EmptySet DEF Ended
<1>3. ASSUME NEW k \in Nat
      PROVE  Ended(t, k + 1) = Ended(t, k) + (IF t[k + 1] = Newline THEN 1 ELSE 0)
  <2>1. CASE t[k + 1] = Newline
    <3>1. N(k + 1) = N(k) \cup {k + 1} /\ k + 1 \notin N(k)
      BY <2>1
    <3>2. IsFiniteSet(N(k))
      BY <1>1
    <3> HIDE DEF N
    <3>3. Cardinality(N(k + 1)) = Cardinality(N(k)) + 1
      BY <3>1, <3>2, FS_AddElement
    <3> QED BY <2>1, <3>3 DEF Ended, N
  <2>2. CASE t[k + 1] # Newline
    <3>1. N(k + 1) = N(k)
      BY <2>2
    <3>2. Cardinality(N(k)) \in Nat
      BY <1>1
    <3> HIDE DEF N
    <3>3. Ended(t, k + 1) = Cardinality(N(k)) /\ Ended(t, k) = Cardinality(N(k))
      BY <3>1 DEF Ended, N
    <3> QED BY <2>2, <3>2, <3>3
  <2> QED BY <2>1, <2>2
<1>4. \A k \in Nat : Ended(t, k) \in Nat
  BY <1>1 DEF Ended
<1> QED BY <1>2, <1>3, <1>4

(* The lines of the first k characters.                                    *)
LEMMA LinesAre ==
  ASSUME NEW t \in Seq(Chars), NEW k \in 0..Len(t)
  PROVE  Lines(SubSeq(t, 1, k)) = Ended(t, k) + (IF k # 0 /\ t[k] # Newline THEN 1 ELSE 0)
<1> DEFINE u == SubSeq(t, 1, k)
<1>1. u \in Seq(Chars) /\ Len(u) = k /\ \A i \in 1..k : u[i] = t[i]
  BY FirstOf
<1>2. k \in Nat
  BY LenProperties
<1> HIDE DEF u
<1>3. {i \in DOMAIN u : u[i] = Newline} = {i \in 1..k : t[i] = Newline}
  <2>1. DOMAIN u = 1..k
    BY <1>1, LenProperties
  <2> QED BY <1>1, <2>1
<1>4. (u # <<>> /\ Last(u) # Newline) <=> (k # 0 /\ t[k] # Newline)
  <2>1. CASE k = 0
    <3>1. u = <<>>
      BY <1>1, <2>1, EmptySeq
    <3> QED BY <2>1, <3>1
  <2>2. CASE k # 0
    <3>1. u # <<>> /\ k \in 1..k
      BY <1>1, <1>2, <2>2, EmptySeq
    <3>2. Last(u) = t[k]
      BY <1>1, <3>1 DEF Last
    <3> QED BY <2>2, <3>1, <3>2
  <2> QED BY <2>1, <2>2
<1>5. Lines(u) = Ended(t, k) + (IF k # 0 /\ t[k] # Newline THEN 1 ELSE 0)
  BY <1>3, <1>4 DEF Lines, Ended
<1> QED BY <1>5 DEF u

(* A text of more than n lines has n that end in it.                       *)
LEMMA FirstLinesAre ==
  ASSUME NEW t \in Seq(Chars), NEW n \in Nat, n # 0, Lines(t) > n
  PROVE  \E k \in 1..Len(t) : FirstLines(t, n) = SubSeq(t, 1, k)
<1> DEFINE S == {k \in 0..Len(t) : Ended(t, k) >= n}
           F == {k \in DOMAIN t : t[k] = Newline /\ Lines(SubSeq(t, 1, k)) = n}
<1>1. Len(t) \in Nat /\ DOMAIN t = 1..Len(t) /\ Ended(t, 0) = 0 /\ \A k \in Nat : Ended(t, k) \in Nat
  BY LenProperties, EndedIs
<1>2. Len(t) \in S
  <2>1. Lines(t) = Ended(t, Len(t)) + (IF Len(t) # 0 /\ t[Len(t)] # Newline THEN 1 ELSE 0)
    <3>1. Len(t) \in 0..Len(t)
      BY <1>1
    <3> QED BY <3>1, LinesAre, SubSeqFull
  <2> QED BY <1>1, <2>1
<1>3. PICK k \in S : \A i \in S : k <= i
  <2>1. S \in SUBSET Nat /\ S # {}
    BY <1>1, <1>2
  <2> HIDE DEF S
  <2> QED BY <2>1, LeastNumber
<1>4. k \in 0..Len(t) /\ Ended(t, k) >= n /\ k # 0
  BY <1>1, <1>3
<1>5. k \in 1..Len(t) /\ k - 1 \in 0..Len(t) /\ k - 1 \in Nat /\ (k - 1) + 1 = k /\ ~(k <= k - 1)
  BY <1>1, <1>4
<1>6. ~(Ended(t, k - 1) >= n)
  BY <1>3, <1>5
<1>7. Ended(t, k) = Ended(t, k - 1) + (IF t[k] = Newline THEN 1 ELSE 0)
  <2>1. Ended(t, (k - 1) + 1) = Ended(t, k - 1) + (IF t[(k - 1) + 1] = Newline THEN 1 ELSE 0)
    BY <1>5, EndedIs
  <2> QED BY <1>5, <2>1
<1>8. t[k] = Newline /\ Ended(t, k) = n
  <2>1. Ended(t, k) \in Nat /\ Ended(t, k - 1) \in Nat /\ n \in Nat
    <3>1. k \in Nat
      BY <1>4
    <3> QED BY <1>5, <3>1, EndedIs, Zenon
  <2> DEFINE e == Ended(t, k)
             d == Ended(t, k - 1)
  <2>2. e \in Nat /\ d \in Nat /\ n \in Nat /\ e >= n /\ ~(d >= n)
    BY <1>4, <1>6, <2>1
  <2>3. e = d + (IF t[k] = Newline THEN 1 ELSE 0)
    BY <1>7
  <2> HIDE DEF e, d
  <2>4. t[k] = Newline /\ e = n
    BY ONLY <2>2, <2>3
  <2> QED BY <2>4 DEF e
<1>9. k \in F
  <2>1. Lines(SubSeq(t, 1, k)) = n
    BY <1>4, <1>8, LinesAre
  <2> QED BY <1>1, <1>5, <1>8, <2>1
<1>10. F \in SUBSET Nat /\ F # {} /\ F \subseteq 1..Len(t)
  BY <1>1, <1>9
<1>11. FirstLines(t, n) = SubSeq(t, 1, Least(F))
  BY DEF FirstLines
<1> HIDE DEF F
<1>12. Least(F) \in F
  BY <1>10, LeastIn
<1> QED BY <1>10, <1>11, <1>12

(* A slice of the bytes of a text gives some of its first characters, and  *)
(* passes over just their bytes.                                           *)
LEMMA SliceIs ==
  ASSUME NEW t \in Seq(Chars), NEW u \in 0..Len(Bytes(t)), NEW n \in Nat \ {0}
  PROVE  LET slice == Slice(SubSeq(Bytes(t), 1, u), u = Len(Bytes(t)), n)
         IN \E k \in 0..Len(t) : slice.text = SubSeq(t, 1, k) /\ slice.consumed = Offset(t, k)
<1> DEFINE atEnd == u = Len(Bytes(t))
           b == SubSeq(Bytes(t), 1, u)
           slice == Slice(b, atEnd, n)
<1> SUFFICES \E k \in 0..Len(t) : slice.text = SubSeq(t, 1, k) /\ slice.consumed = Offset(t, k)
  OBVIOUS
<1>0. b = SubSeq(Bytes(t), 1, u)
  OBVIOUS
<1> HIDE DEF b, slice
<1>1. PICK k : IsCut(t, u, k)
  BY CutExists
<1> DEFINE o == Offset(t, k)
           q == SubSeq(t, 1, k)
           kept == FirstLines(q, n)
<1>2. /\ b \in Seq(Code) /\ Len(b) = u
      /\ Utf8SafeStart(b) = 0 /\ Utf8SafeEnd(b, 0) = o /\ SubSeq(b, 1, o) = Bytes(q)
  <2>1. CutIs(t, u, k, b)
    BY <1>0, <1>1, SafeIs
  <2> QED BY <2>1, Zenon DEF CutIs
<1>3. k \in 0..Len(t) /\ Len(t) \in Nat /\ q \in Seq(Chars) /\ Len(q) = k
  BY <1>1, FirstOf, LenProperties DEF IsCut
<1>4. (IF atEnd THEN Len(b) ELSE Utf8SafeEnd(b, 0)) = o
  <2>1. CASE ~atEnd
    BY <1>2, <2>1
  <2>2. CASE atEnd
    <3>1. u = Len(Bytes(t)) /\ Len(Bytes(t)) \in Nat /\ Offset(t, Len(t)) = u
      BY <2>2, OffsetIs
    <3>2. k = Len(t)
      <4>1. ASSUME k # Len(t) PROVE FALSE
        <5>1. k + 1 \in 0..Len(t) /\ u < Offset(t, k + 1)
          BY <1>1, <1>3, <4>1 DEF IsCut
        <5>2. Offset(t, k + 1) \in 0..u
          BY <3>1, <5>1, OffsetIs
        <5> QED BY <3>1, <5>1, <5>2
      <4> QED BY <4>1
    <3> QED BY <1>2, <2>2, <3>1, <3>2
  <2> QED BY <2>1, <2>2
<1>5. Decode(SubSeq(b, 0 + 1, o)) = q
  <2>1. Decode(Bytes(q)) = q
    BY <1>3, DecodeBytes, Zenon
  <2>2. 0 + 1 = 1
    OBVIOUS
  <2> HIDE DEF o, q
  <2> QED BY ONLY <1>2, <2>1, <2>2
<1>6. slice =
        IF Lines(q) > n THEN [text |-> kept, consumed |-> 0 + Len(Bytes(kept))]
        ELSE [text |-> q, consumed |-> o]
  <2> HIDE DEF o, q
  <2> QED BY <1>2, <1>4, <1>5 DEF Slice, slice
<1>7. CASE ~(Lines(q) > n)
  <2> HIDE DEF o, q, kept
  <2>1. slice.text = q /\ slice.consumed = o
    BY <1>6, <1>7
  <2> QED BY <1>3, <2>1 DEF o, q
<1>8. CASE Lines(q) > n
  <2>1. PICK j \in 1..Len(q) : kept = SubSeq(q, 1, j)
    <3> HIDE DEF q
    <3> QED BY <1>3, <1>8, FirstLinesAre
  <2>2. j \in 0..Len(t) /\ j \in 0..Len(q)
    BY <1>3, <2>1
  <2>3. SubSeq(q, 1, j) = SubSeq(t, 1, j)
    <3> DEFINE x == SubSeq(q, 1, j)
               y == SubSeq(t, 1, j)
    <3>1. x \in Seq(Chars) /\ Len(x) = j /\ \A i \in 1..j : x[i] = q[i]
      <4> HIDE DEF q
      <4> QED BY <1>3, <2>2, FirstOf
    <3>2. y \in Seq(Chars) /\ Len(y) = j /\ \A i \in 1..j : y[i] = t[i]
      BY <2>2, FirstOf
    <3>3. \A i \in 1..j : q[i] = t[i]
      <4>1. \A i \in 1..k : q[i] = t[i]
        BY <1>3, FirstOf
      <4> HIDE DEF q
      <4> QED BY <1>3, <2>1, <4>1
    <3> HIDE DEF x, y, q
    <3>4. x = y
      BY <3>1, <3>2, <3>3, SeqEqual
    <3> QED BY <3>4 DEF x, y
  <2>4. Len(Bytes(kept)) = Offset(t, j)
    BY <2>1, <2>3 DEF Offset
  <2>5. 0 + Len(Bytes(kept)) = Offset(t, j)
    BY <2>2, <2>4, OffsetIs
  <2> HIDE DEF q, kept
  <2>6. slice.text = kept /\ slice.consumed = 0 + Len(Bytes(kept))
    BY <1>6, <1>8
  <2> QED BY <2>1, <2>2, <2>3, <2>5, <2>6
<1> QED BY <1>7, <1>8

-----------------------------------------------------------------------------
(* Code units.                                                             *)
LEMMA FlattenType ==
  ASSUME NEW S, NEW p \in Seq(Seq(S))
  PROVE  FlattenSeq(p) \in Seq(S)
<1>1. Len(p) \in Nat /\ Len(p) \in 0..Len(p) /\ \A n \in 1..Len(p) : p[n] \in Seq(S)
  BY LenProperties, ElementOfSeq
<1>2. PICK f : IsJoin(f, p, Len(p))
  BY <1>1, JoinExists
<1>3. FlattenSeq(p) = f[Len(p)]
  BY <1>2, FlattenIs
<1>4. Joins(f, p, Len(p), S)
  BY <1>1, <1>2, JoinGrows
<1> QED BY <1>1, <1>3, <1>4 DEF Joins

LEMMA UnitIs ==
  ASSUME NEW u \in Seq(CodeUnits), NEW i \in 1..Len(u)
  PROVE  /\ u[i] \in CodeUnits /\ u[i][1] \in Chars /\ Halves(u[i][1]) \in {1, 2}
         /\ u[i][2] \in 1..Halves(u[i][1])
<1>1. u[i] \in CodeUnits
  BY ElementOfSeq
<1>2. PICK c \in Chars : \E k \in 1..Halves(c) : u[i] = <<c, k>>
  BY <1>1 DEF CodeUnits
<1> QED BY <1>1, <1>2 DEF Halves

LEMMA UnitsType ==
  ASSUME NEW t \in Seq(Chars)
  PROVE  Units(t) \in Seq(CodeUnits)
<1> DEFINE p == [i \in DOMAIN t |-> InUnits[t[i]]]
<1>1. Len(t) \in Nat /\ DOMAIN t = 1..Len(t) /\ \A i \in 1..Len(t) : t[i] \in Chars
  BY LenProperties, ElementOfSeq
<1>2. ASSUME NEW c \in Chars PROVE InUnits[c] \in Seq(CodeUnits)
  <2>1. Halves(c) \in Nat /\ \A k \in 1..Halves(c) : <<c, k>> \in CodeUnits
    BY DEF Halves, CodeUnits
  <2>2. InUnits[c] = [k \in 1..Halves(c) |-> <<c, k>>]
    BY DEF InUnits, Chars
  <2> QED BY <2>1, <2>2
<1>3. p \in Seq(Seq(CodeUnits))
  BY <1>1, <1>2
<1> HIDE DEF p
<1>4. FlattenSeq(p) \in Seq(CodeUnits)
  BY <1>3, FlattenType
<1> QED BY <1>4 DEF Units, p

OfUnits(u) == [i \in DOMAIN u |-> OfUnit(u, i)]

LEMMA OfUnitsAre ==
  ASSUME NEW u \in Seq(CodeUnits)
  PROVE  /\ OfUnits(u) \in Seq(Seq(Chars)) /\ Len(OfUnits(u)) = Len(u) /\ Len(u) \in Nat
         /\ \A i \in 1..Len(u) : OfUnits(u)[i] = OfUnit(u, i)
<1>1. Len(u) \in Nat /\ DOMAIN u = 1..Len(u)
  BY LenProperties
<1>2. ASSUME NEW i \in 1..Len(u) PROVE OfUnit(u, i) \in Seq(Chars)
  <2>1. u[i][1] \in Chars /\ Invalid \in Chars
    BY UnitIs, LogTypes
  <2>2. OfUnit(u, i) \in {<<u[i][1]>>, <<>>, <<Invalid>>}
    BY DEF OfUnit
  <2>3. \A c \in Chars : <<c>> \in Seq(Chars)
    OBVIOUS
  <2>4. <<>> \in Seq(Chars)
    OBVIOUS
  <2> QED BY <2>1, <2>2, <2>3, <2>4, Zenon
<1>3. OfUnits(u) = [i \in 1..Len(u) |-> OfUnit(u, i)]
  BY <1>1 DEF OfUnits
<1> QED BY <1>1, <1>2, <1>3

LEMMA FromUnitsType ==
  ASSUME NEW u \in Seq(CodeUnits)
  PROVE  FromUnits(u) \in Seq(Chars)
<1>1. FlattenSeq(OfUnits(u)) \in Seq(Chars)
  BY OfUnitsAre, FlattenType
<1> QED BY <1>1 DEF FromUnits, OfUnits

(* Units that do not end within a pair can be written by themselves.       *)
LEMMA FromUnitsConcat ==
  ASSUME NEW u \in Seq(CodeUnits), NEW v \in Seq(CodeUnits), ~EndsWithin(u)
  PROVE  FromUnits(u \o v) = FromUnits(u) \o FromUnits(v)
<1> DEFINE w == u \o v
           l == Len(u)
           m == Len(v)
<1>1. l \in Nat /\ m \in Nat
  BY LenProperties
<1>2. /\ w \in Seq(CodeUnits) /\ Len(w) = l + m
      /\ \A i \in 1..l : w[i] = u[i]
      /\ \A i \in 1..m : w[l + i] = v[i]
  BY <1>1, ConcatProperties
<1>3. l # 0 => u[l][2] = Halves(u[l][1]) /\ u[l][2] \in Nat
  <2> SUFFICES ASSUME l # 0 PROVE u[l][2] = Halves(u[l][1]) /\ u[l][2] \in Nat
    OBVIOUS
  <2>1. l \in 1..l /\ u # <<>>
    BY <1>1, EmptySeq
  <2>2. u[l][2] \in 1..Halves(u[l][1]) /\ Halves(u[l][1]) \in {1, 2}
    BY <2>1, UnitIs
  <2> QED BY <2>1, <2>2 DEF EndsWithin
<1> HIDE DEF w
<1>4. ASSUME NEW i \in 1..l PROVE OfUnit(w, i) = OfUnit(u, i)
  <2>1. i \in 1..Len(u) /\ w[i] = u[i] /\ (i > 1 => w[i - 1] = u[i - 1])
    BY <1>1, <1>2
  <2>2. CASE i = l
    <3>1. u[i][2] = Halves(u[i][1])
      BY <1>1, <1>3, <2>2
    <3> QED BY <2>1, <3>1 DEF OfUnit
  <2>3. CASE i # l
    <3>1. i < Len(w) /\ i < Len(u) /\ w[i + 1] = u[i + 1]
      BY <1>1, <1>2, <2>3
    <3> QED BY <2>1, <3>1 DEF OfUnit
  <2> QED BY <2>2, <2>3
<1>5. ASSUME NEW i \in 1..m PROVE OfUnit(w, l + i) = OfUnit(v, i)
  <2>1. w[l + i] = v[i] /\ l + i \in Nat /\ i \in Nat
    BY <1>1, <1>2
  <2>2. (l + i < Len(w)) = (i < Len(v)) /\ (i < Len(v) => w[(l + i) + 1] = v[i + 1])
    <3>1. i < m => i + 1 \in 1..m /\ (l + i) + 1 = l + (i + 1)
      BY <1>1
    <3> QED BY <1>1, <1>2, <3>1
  <2>3. CASE i > 1
    <3>1. i - 1 \in 1..m /\ (l + i) - 1 = l + (i - 1) /\ l + i > 1
      BY <1>1, <2>3
    <3>2. w[(l + i) - 1] = v[i - 1]
      BY <1>2, <3>1
    <3> QED BY <2>1, <2>2, <2>3, <3>1, <3>2 DEF OfUnit
  <2>4. CASE ~(i > 1)
    <3>1. (l + i) - 1 = l /\ (l + i > 1 => l # 0 /\ l \in 1..l)
      BY <1>1, <2>4
    <3>2. ASSUME l + i > 1, NEW c, Halves(c) = 2 PROVE w[(l + i) - 1] # <<c, 1>>
      <4>1. w[l] = u[l] /\ u[l][2] = Halves(u[l][1])
        BY <1>2, <1>3, <3>1, <3>2
      <4>2. u[l] = <<c, 1>> => u[l][1] = c /\ u[l][2] = 1
        OBVIOUS
      <4> QED BY <3>1, <3>2, <4>1, <4>2
    <3> QED BY <2>1, <2>2, <2>4, <3>2 DEF OfUnit
  <2> QED BY <2>3, <2>4
<1>6. /\ OfUnits(u) \in Seq(Seq(Chars)) /\ Len(OfUnits(u)) = l
      /\ OfUnits(v) \in Seq(Seq(Chars)) /\ Len(OfUnits(v)) = m
      /\ OfUnits(w) \in Seq(Seq(Chars)) /\ Len(OfUnits(w)) = l + m
      /\ \A i \in 1..l : OfUnits(u)[i] = OfUnit(u, i)
      /\ \A i \in 1..m : OfUnits(v)[i] = OfUnit(v, i)
      /\ \A i \in 1..(l + m) : OfUnits(w)[i] = OfUnit(w, i)
  BY <1>2, OfUnitsAre
<1>7. OfUnits(w) = OfUnits(u) \o OfUnits(v)
  <2> DEFINE p == OfUnits(u)
             q == OfUnits(v)
             x == OfUnits(w)
             y == p \o q
  <2>1. p \in Seq(Seq(Chars)) /\ q \in Seq(Seq(Chars)) /\ x \in Seq(Seq(Chars))
    BY <1>6
  <2>2. \A i \in 1..l : x[i] = p[i]
    BY <1>1, <1>4, <1>6
  <2>3. \A i \in 1..m : x[l + i] = q[i]
    BY <1>1, <1>5, <1>6
  <2>4. Len(p) = l /\ Len(q) = m /\ Len(x) = l + m
    BY <1>6
  <2> HIDE DEF p, q, x, l, m
  <2>5. /\ y \in Seq(Seq(Chars)) /\ Len(y) = l + m /\ \A i \in 1..l : y[i] = p[i]
        /\ \A i \in 1..m : y[l + i] = q[i]
    <3>1. /\ y \in Seq(Seq(Chars)) /\ Len(y) = Len(p) + Len(q)
          /\ \A i \in 1..(Len(p) + Len(q)) : y[i] = IF i <= Len(p) THEN p[i] ELSE q[i - Len(p)]
      BY <2>1, ConcatProperties
    <3> HIDE DEF y
    <3>2. ASSUME NEW i \in 1..l PROVE y[i] = p[i]
      BY <1>1, <2>4, <3>1
    <3>3. ASSUME NEW i \in 1..m PROVE y[l + i] = q[i]
      <4>1. l + i \in 1..(l + m) /\ ~(l + i <= l) /\ (l + i) - l = i
        BY <1>1
      <4> QED BY <2>4, <3>1, <4>1
    <3> QED BY <2>4, <3>1, <3>2, <3>3
  <2> HIDE DEF y
  <2>6. ASSUME NEW i \in 1..Len(x) PROVE x[i] = y[i]
    <3>1. CASE i \in 1..l
      BY <2>2, <2>5, <3>1
    <3>2. CASE i \notin 1..l
      <4>1. i - l \in 1..m /\ l + (i - l) = i
        BY <1>1, <2>4, <3>2
      <4> QED BY <2>3, <2>5, <4>1
    <3> QED BY <3>1, <3>2
  <2>7. x = y
    BY <2>1, <2>4, <2>5, <2>6, SeqEqual
  <2> QED BY <2>7 DEF x, y, p, q
<1>8. FlattenSeq(OfUnits(w)) = FlattenSeq(OfUnits(u)) \o FlattenSeq(OfUnits(v))
  BY <1>6, <1>7, FlattenConcat
<1> QED BY <1>8 DEF FromUnits, OfUnits, w

-----------------------------------------------------------------------------
(* The redactor.  What follows from i on, given what follows later.        *)
Rest(f, t, s, i) ==
  CASE i > Len(t) -> <<>>
    [] i + Len(s) - 1 <= Len(t) /\ SubSeq(t, i, i + Len(s) - 1) = s -> Replacement \o f[i + Len(s)]
    [] OTHER -> <<t[i]>> \o f[i + 1]
IsRest(f, t, s, m) == f = [i \in m..(Len(t) + 1) |-> Rest(f, t, s, i)]

LEMMA RestIs ==
  ASSUME NEW t \in Seq(CodeUnits), NEW s \in Seq(CodeUnits) \ {<<>>}, NEW i \in 1..(Len(t) + 1)
  PROVE  /\ Len(t) \in Nat
         /\ \A f : (\A j \in (i + 1)..(Len(t) + 1) : f[j] \in Seq(CodeUnits)) => Rest(f, t, s, i) \in Seq(CodeUnits)
<1>1. Len(t) \in Nat /\ Len(s) \in Nat /\ Len(s) # 0
  BY LenProperties, EmptySeq
<1>2. CASE i > Len(t)
  <2>1. \A f : Rest(f, t, s, i) = <<>>
    BY <1>2 DEF Rest
  <2> QED BY <1>1, <2>1, EmptySeq
<1>3. CASE i + Len(s) - 1 <= Len(t) /\ SubSeq(t, i, i + Len(s) - 1) = s /\ ~(i > Len(t))
  <2>1. i + Len(s) \in (i + 1)..(Len(t) + 1)
    BY <1>1, <1>3
  <2>2. \A f : Rest(f, t, s, i) = Replacement \o f[i + Len(s)]
    BY <1>3 DEF Rest
  <2>3. ASSUME NEW f, \A j \in (i + 1)..(Len(t) + 1) : f[j] \in Seq(CodeUnits)
        PROVE  Rest(f, t, s, i) \in Seq(CodeUnits)
    <3>1. f[i + Len(s)] \in Seq(CodeUnits) /\ Replacement \in Seq(CodeUnits)
      BY <2>1, <2>3, LogTypes
    <3>2. Replacement \o f[i + Len(s)] \in Seq(CodeUnits)
      BY <3>1, ConcatProperties
    <3> QED BY <2>2, <3>2
  <2> QED BY <1>1, <2>1, <2>2, <2>3
<1>4. CASE ~(i + Len(s) - 1 <= Len(t) /\ SubSeq(t, i, i + Len(s) - 1) = s) /\ ~(i > Len(t))
  <2>1. i + 1 \in (i + 1)..(Len(t) + 1) /\ i \in 1..Len(t)
    BY <1>1, <1>4
  <2>2. \A f : Rest(f, t, s, i) = <<t[i]>> \o f[i + 1]
    BY <1>4 DEF Rest
  <2>3. ASSUME NEW f, \A j \in (i + 1)..(Len(t) + 1) : f[j] \in Seq(CodeUnits)
        PROVE  Rest(f, t, s, i) \in Seq(CodeUnits)
    <3>1. f[i + 1] \in Seq(CodeUnits) /\ t[i] \in CodeUnits
      BY <2>1, <2>3, ElementOfSeq
    <3>2. <<t[i]>> \in Seq(CodeUnits)
      BY <3>1
    <3>3. <<t[i]>> \o f[i + 1] \in Seq(CodeUnits)
      BY <3>1, <3>2, ConcatProperties
    <3> QED BY <2>2, <3>3
  <2> QED BY <1>1, <2>1, <2>2, <2>3
<1> QED BY <1>2, <1>3, <1>4

(* What is left to replace depends on what comes after only.               *)
SameAfter(f, g, i, n) == \A j \in (i + 1)..n : f[j] = g[j]

LEMMA RestSame ==
  ASSUME NEW t \in Seq(CodeUnits), NEW s \in Seq(CodeUnits) \ {<<>>}, NEW i \in 1..(Len(t) + 1),
         NEW f, NEW g, SameAfter(f, g, i, Len(t) + 1)
  PROVE  Rest(f, t, s, i) = Rest(g, t, s, i)
<1>1. Len(t) \in Nat /\ Len(s) \in Nat /\ Len(s) # 0
  BY LenProperties, EmptySeq
<1>2. CASE i > Len(t)
  BY <1>2 DEF Rest
<1>3. CASE i + Len(s) - 1 <= Len(t) /\ SubSeq(t, i, i + Len(s) - 1) = s /\ ~(i > Len(t))
  <2>1. i + Len(s) \in (i + 1)..(Len(t) + 1)
    BY <1>1, <1>3
  <2>2. Rest(f, t, s, i) = Replacement \o f[i + Len(s)] /\ Rest(g, t, s, i) = Replacement \o g[i + Len(s)]
    BY <1>3 DEF Rest
  <2> QED BY <2>1, <2>2 DEF SameAfter
<1>4. CASE ~(i + Len(s) - 1 <= Len(t) /\ SubSeq(t, i, i + Len(s) - 1) = s) /\ ~(i > Len(t))
  <2>1. i + 1 \in (i + 1)..(Len(t) + 1)
    BY <1>1, <1>4
  <2>2. Rest(f, t, s, i) = <<t[i]>> \o f[i + 1] /\ Rest(g, t, s, i) = <<t[i]>> \o g[i + 1]
    BY <1>4 DEF Rest
  <2> QED BY <2>1, <2>2 DEF SameAfter
<1> QED BY <1>2, <1>3, <1>4

(* There is a function of them: one from i + 1 on extends to i.            *)
LEMMA RestExists ==
  ASSUME NEW t \in Seq(CodeUnits), NEW s \in Seq(CodeUnits) \ {<<>>}
  PROVE  \E f : IsRest(f, t, s, 1)
<1> DEFINE l == Len(t) + 1
           Bad == {m \in 1..l : ~ \E f : IsRest(f, t, s, m)}
<1>1. Len(t) \in Nat /\ l \in Nat
  BY LenProperties
<1>2. Bad = {}
  <2> SUFFICES ASSUME Bad # {} PROVE FALSE
    OBVIOUS
  <2>1. PICK m \in Bad : \A i \in Bad : i <= m
    <3>1. Bad \in SUBSET Nat /\ \A i \in Bad : i <= l
      BY <1>1
    <3> HIDE DEF Bad, l
    <3> QED BY <1>1, <3>1, GreatestNumber
  <2>2. m \in 1..l /\ ~ \E f : IsRest(f, t, s, m)
    BY <2>1
  <2>3. PICK f : m = l \/ IsRest(f, t, s, m + 1)
    <3>1. CASE m = l
      BY <3>1
    <3>2. CASE m # l
      <4>1. m + 1 \in 1..l /\ ~(m + 1 <= m)
        BY <1>1, <2>2, <3>2
      <4>2. m + 1 \notin Bad
        BY <2>1, <4>1
      <4> QED BY <4>1, <4>2
    <3> QED BY <3>1, <3>2
  <2> HIDE DEF Bad
  <2> DEFINE g == [i \in m..l |-> Rest(f, t, s, i)]
  <2>4. ASSUME NEW j \in (m + 1)..l PROVE g[j] = f[j]
    <3>1. m # l /\ j \in m..l
      BY <1>1, <2>2
    <3>2. f[j] = Rest(f, t, s, j)
      BY <2>3, <3>1 DEF IsRest
    <3>3. g[j] = Rest(f, t, s, j)
      BY <3>1
    <3> QED BY <3>2, <3>3
  <2>5. ASSUME NEW i \in m..l PROVE g[i] = Rest(g, t, s, i)
    <3>1. g[i] = Rest(f, t, s, i)
      OBVIOUS
    <3> HIDE DEF g
    <3>2. \A j \in (i + 1)..l : g[j] = f[j]
      <4> SUFFICES ASSUME NEW j \in (i + 1)..l PROVE g[j] = f[j]
        OBVIOUS
      <4>1. j \in (m + 1)..l
        BY <1>1, <2>2
      <4> QED BY <2>4, <4>1
    <3>3. i \in 1..(Len(t) + 1)
      BY <1>1, <2>2
    <3>4. Rest(g, t, s, i) = Rest(f, t, s, i)
      <4>1. SameAfter(g, f, i, Len(t) + 1)
        BY <3>2 DEF SameAfter
      <4> QED BY <3>3, <4>1, RestSame
    <3> QED BY <3>1, <3>4
  <2>6. g = [i \in m..l |-> g[i]]
    OBVIOUS
  <2> HIDE DEF g
  <2>7. IsRest(g, t, s, m)
    BY <2>5, <2>6 DEF IsRest
  <2> QED BY <2>2, <2>7
<1>3. 1 \in 1..l
  BY <1>1
<1> QED BY <1>2, <1>3

LEMMA ReplaceType ==
  ASSUME NEW t \in Seq(CodeUnits), NEW s \in Seq(CodeUnits) \ {<<>>}
  PROVE  Replace(t, s) \in Seq(CodeUnits)
<1> DEFINE Is(h) == IsRest(h, t, s, 1)
           f == CHOOSE h : Is(h)
           l == Len(t) + 1
<1>1. Is(f)
  BY RestExists, Zenon
<1>2. Replace(t, s) = f[1]
  BY Zenon DEF Replace, IsRest, Rest
<1> HIDE DEF f
<1>3. Len(t) \in Nat /\ l \in Nat
  BY LenProperties
<1>4. \A i \in 1..l : f[i] = Rest(f, t, s, i)
  BY <1>1 DEF IsRest
<1> DEFINE Bad == {i \in 1..l : f[i] \notin Seq(CodeUnits)}
<1>5. Bad = {}
  <2> SUFFICES ASSUME Bad # {} PROVE FALSE
    OBVIOUS
  <2>1. PICK m \in Bad : \A i \in Bad : i <= m
    <3>1. Bad \in SUBSET Nat /\ \A i \in Bad : i <= l
      BY <1>3
    <3> HIDE DEF Bad, l
    <3> QED BY <1>3, <3>1, GreatestNumber
  <2>2. m \in 1..(Len(t) + 1) /\ f[m] \notin Seq(CodeUnits)
    BY <2>1
  <2>3. \A j \in (m + 1)..(Len(t) + 1) : f[j] \in Seq(CodeUnits)
    <3> SUFFICES ASSUME NEW j \in (m + 1)..(Len(t) + 1) PROVE f[j] \in Seq(CodeUnits)
      OBVIOUS
    <3>1. j \in 1..l /\ ~(j <= m)
      BY <1>3, <2>2
    <3> QED BY <2>1, <3>1
  <2> HIDE DEF Bad
  <2>4. Rest(f, t, s, m) \in Seq(CodeUnits)
    BY <2>2, <2>3, RestIs
  <2> QED BY <1>4, <2>2, <2>4
<1>6. 1 \in 1..l
  BY <1>3
<1> QED BY <1>2, <1>5, <1>6

(* One secret is replaced after the other.                                 *)
Redacted(f, t, n) == IF n = 0 THEN t ELSE Replace(f[n - 1], Secrets[n])
IsRedacted(f, t, m) == f = [n \in 0..m |-> Redacted(f, t, n)]

LEMMA RedactedExists ==
  ASSUME NEW t, NEW l \in Nat
  PROVE  \E f : IsRedacted(f, t, l)
<1> DEFINE Bad == {m \in 0..l : ~ \E f : IsRedacted(f, t, m)}
<1>1. Bad = {}
  <2> SUFFICES ASSUME Bad # {} PROVE FALSE
    OBVIOUS
  <2>1. PICK m \in Bad : \A n \in Bad : m <= n
    <3>1. Bad \in SUBSET Nat
      OBVIOUS
    <3> HIDE DEF Bad
    <3> QED BY <3>1, LeastNumber
  <2>2. m \in 0..l /\ ~ \E f : IsRedacted(f, t, m)
    BY <2>1
  <2>3. PICK f : m = 0 \/ IsRedacted(f, t, m - 1)
    <3>1. CASE m = 0
      BY <3>1
    <3>2. CASE m # 0
      <4>1. m - 1 \in 0..l /\ ~(m <= m - 1)
        BY <2>2, <3>2
      <4>2. m - 1 \notin Bad
        BY <2>1, <4>1
      <4> QED BY <4>1, <4>2
    <3> QED BY <3>1, <3>2
  <2> HIDE DEF Bad
  <2> DEFINE g == [n \in 0..m |-> Redacted(f, t, n)]
  <2>4. ASSUME NEW n \in 0..m PROVE g[n] = Redacted(g, t, n)
    <3>1. g[n] = Redacted(f, t, n)
      OBVIOUS
    <3>2. CASE n = 0
      BY <3>1, <3>2 DEF Redacted
    <3>3. CASE n # 0
      <4>1. m # 0 /\ n - 1 \in 0..(m - 1) /\ n - 1 \in 0..m
        BY <2>2, <3>3
      <4>2. f[n - 1] = Redacted(f, t, n - 1)
        BY <2>3, <4>1 DEF IsRedacted
      <4>3. g[n - 1] = f[n - 1]
        BY <4>1, <4>2
      <4> HIDE DEF g
      <4> QED BY <3>1, <3>3, <4>3 DEF Redacted
    <3> QED BY <3>2, <3>3
  <2>5. g = [n \in 0..m |-> g[n]]
    OBVIOUS
  <2> HIDE DEF g
  <2>6. IsRedacted(g, t, m)
    BY <2>4, <2>5 DEF IsRedacted
  <2> QED BY <2>2, <2>6
<1>2. l \in 0..l
  OBVIOUS
<1> QED BY <1>1, <1>2

LEMMA RedactOnceType ==
  ASSUME NEW t \in Seq(CodeUnits)
  PROVE  RedactOnce(t) \in Seq(CodeUnits)
<1> DEFINE l == Len(Secrets)
           Is(h) == IsRedacted(h, t, l)
           f == CHOOSE h : Is(h)
<1>1. l \in Nat /\ \A n \in 1..l : Secrets[n] \in Seq(CodeUnits) \ {<<>>}
  BY LogTypes, LenProperties, ElementOfSeq
<1>2. Is(f)
  <2>1. \E h : Is(h)
    <3> HIDE DEF l
    <3> QED BY <1>1, RedactedExists
  <2> HIDE DEF Is
  <2> QED BY <2>1, Zenon
<1>3. RedactOnce(t) = f[l]
  BY Zenon DEF RedactOnce, IsRedacted, Redacted
<1> HIDE DEF f, l
<1>4. \A n \in 0..l : f[n] = Redacted(f, t, n)
  BY <1>2 DEF IsRedacted
<1> DEFINE Bad == {n \in 0..l : f[n] \notin Seq(CodeUnits)}
<1>5. Bad = {}
  <2> SUFFICES ASSUME Bad # {} PROVE FALSE
    OBVIOUS
  <2>1. PICK m \in Bad : \A n \in Bad : m <= n
    <3>1. Bad \in SUBSET Nat
      BY <1>1
    <3> HIDE DEF Bad
    <3> QED BY <3>1, LeastNumber
  <2>2. m \in 0..l /\ f[m] \notin Seq(CodeUnits)
    BY <2>1
  <2>3. CASE m = 0
    BY <1>4, <2>2, <2>3 DEF Redacted
  <2>4. CASE m # 0
    <3>1. m - 1 \in 0..l /\ m \in 1..l /\ ~(m <= m - 1)
      BY <1>1, <2>2, <2>4
    <3>2. f[m - 1] \in Seq(CodeUnits)
      BY <2>1, <3>1
    <3>3. Replace(f[m - 1], Secrets[m]) \in Seq(CodeUnits)
      BY <1>1, <3>1, <3>2, ReplaceType
    <3>4. f[m] = Replace(f[m - 1], Secrets[m])
      BY <1>4, <2>2, <2>4 DEF Redacted
    <3> QED BY <2>2, <3>3, <3>4
  <2> QED BY <2>3, <2>4
<1>6. l \in 0..l
  BY <1>1
<1> QED BY <1>3, <1>5, <1>6

LEMMA HoldCountType ==
  ASSUME NEW t \in Seq(CodeUnits)
  PROVE  HoldCount(t) \in 0..Len(t) /\ Len(t) \in Nat
<1> DEFINE D == {DOMAIN s : s \in ToSet(Secrets)}
           g == [n \in 1..Len(Secrets) |-> DOMAIN Secrets[n]]
<1>1. Len(t) \in Nat /\ Len(Secrets) \in Nat /\ DOMAIN Secrets = 1..Len(Secrets)
      /\ \A n \in 1..Len(Secrets) : Secrets[n] \in Seq(CodeUnits)
  BY LogTypes, LenProperties, ElementOfSeq
<1>2. \A d : d \in D <=> \E n \in 1..Len(Secrets) : d = DOMAIN Secrets[n]
  BY <1>1 DEF ToSet
<1>3. IsFiniteSet(D)
  <2>1. IsFiniteSet(1..Len(Secrets))
    BY <1>1, FS_Interval
  <2>2. g \in [1..Len(Secrets) -> D] /\ \A d \in D : \E n \in 1..Len(Secrets) : g[n] = d
    <3> HIDE DEF D
    <3> QED BY <1>2
  <2> HIDE DEF g, D
  <2>3. g \in Surjection(1..Len(Secrets), D)
    BY <2>2 DEF Surjection
  <2> QED BY <2>1, <2>3, FS_Surjection
<1> HIDE DEF D
<1>4. ASSUME NEW d \in D PROVE IsFiniteSet(d)
  <2>1. PICK n \in 1..Len(Secrets) : d = DOMAIN Secrets[n]
    BY <1>2
  <2>2. d = 1..Len(Secrets[n]) /\ Len(Secrets[n]) \in Nat
    BY <1>1, <2>1, LenProperties
  <2> QED BY <2>2, FS_Interval
<1>5. IsFiniteSet(UNION D)
  BY <1>3, <1>4, FS_UNION
<1>6. IsFiniteSet({1} \cup UNION D)
  <2> DEFINE U == UNION D
  <2>1. IsFiniteSet(U)
    BY <1>5
  <2> HIDE DEF U
  <2>2. {1} \cup U = U \cup {1}
    OBVIOUS
  <2>3. IsFiniteSet(U \cup {1})
    BY <2>1, FS_AddElement
  <2> QED BY <2>2, <2>3 DEF U
<1>7. MaxSecretLength \in Nat /\ MaxSecretLength # 0
  <2>1. MaxSecretLength = Cardinality({1} \cup UNION D)
    BY DEF MaxSecretLength, D
  <2>2. {1} \cup UNION D # {}
    OBVIOUS
  <2> QED BY <1>6, <2>1, <2>2, FS_CardinalityType, FS_EmptySet
<1> DEFINE S == {Len(t), MaxSecretLength - 1, TailCap}
<1>8. S \in SUBSET Nat /\ S # {} /\ Len(t) \in S
  BY <1>1, <1>7, LogTypes
<1>9. HoldCount(t) = Least(S)
  BY DEF HoldCount
<1> HIDE DEF S
<1>10. Least(S) \in Nat /\ Least(S) <= Len(t)
  BY <1>8, LeastIn
<1> QED BY <1>1, <1>9, <1>10

-----------------------------------------------------------------------------
(* The log is the bytes of a text of which the client has been given the   *)
(* first characters; its cursor is where they end.                         *)
LogInv ==
  /\ output \in Seq(Code) /\ sent \in 0..Len(output) /\ limits \in Limits
  /\ text \in Seq(CodeUnits) /\ buffer \in Seq(CodeUnits) /\ seen \in Seq(Chars)
  /\ \E rest \in Seq(Chars) : log = Bytes(seen \o rest)
  /\ cursor = Len(Bytes(seen))

LEMMA LogInvInit == LogInit => LogInv
<1> SUFFICES ASSUME LogInit PROVE LogInv
  OBVIOUS
<1>1. output \in Seq(Code)
  BY LogTypes, BytesAre DEF LogInit
<1>2. <<>> \in Seq(Chars) /\ <<>> \in Seq(CodeUnits) /\ <<>> \o <<>> = <<>>
  BY EmptySeq, ConcatEmptySeq
<1>3. log = Bytes(<<>> \o <<>>) /\ Len(Bytes(<<>>)) = 0
  BY <1>2, BytesAre, EmptySeq DEF LogInit
<1>4. sent \in 0..Len(output)
  BY <1>1, LenProperties DEF LogInit
<1>5. \E rest \in Seq(Chars) : log = Bytes(seen \o rest)
  BY <1>2, <1>3 DEF LogInit
<1>6. cursor = Len(Bytes(seen))
  BY <1>3 DEF LogInit
<1>7. /\ text \in Seq(CodeUnits) /\ buffer \in Seq(CodeUnits) /\ seen \in Seq(Chars)
      /\ limits \in Limits
  BY <1>2 DEF LogInit
<1> QED BY <1>1, <1>4, <1>5, <1>6, <1>7 DEF LogInv

(* The log stays such a text when units are written to it.                 *)
LEMMA LogAdded ==
  ASSUME NEW u \in Seq(CodeUnits), Emit(u),
         seen \in Seq(Chars), \E rest \in Seq(Chars) : log = Bytes(seen \o rest)
  PROVE  \E rest \in Seq(Chars) : log' = Bytes(seen \o rest)
<1> DEFINE t == FromUnits(u)
<1>0. t \in Seq(Chars) /\ log' = log \o Bytes(t)
  BY FromUnitsType DEF Emit
<1> HIDE DEF t
<1>1. PICK rest \in Seq(Chars) : log = Bytes(seen \o rest)
  OBVIOUS
<1>2. rest \o t \in Seq(Chars) /\ seen \o rest \in Seq(Chars)
  BY <1>0, ConcatProperties
<1>3. (seen \o rest) \o t = seen \o (rest \o t)
  BY <1>0, ConcatAssociative
<1>4. Bytes((seen \o rest) \o t) = Bytes(seen \o rest) \o Bytes(t)
  BY <1>0, <1>2, BytesConcat
<1> QED BY <1>0, <1>1, <1>2, <1>3, <1>4

(* A chunk of the output has the bytes of characters.                      *)
LEMMA PushedIs ==
  ASSUME LogInv, NEW n \in 1..(Len(output) - sent)
  PROVE  SubSeq(output, sent + 1, sent + n) \in Seq(Code)
<1>1. Len(output) \in Nat
  BY LenProperties DEF LogInv
<1>2. /\ sent + 1 \in Int /\ sent + n \in Int
      /\ \A i \in (sent + 1)..(sent + n) : i \in 1..Len(output)
  BY <1>1 DEF LogInv
<1>3. \A i \in (sent + 1)..(sent + n) : output[i] \in Code
  BY <1>2, ElementOfSeq DEF LogInv
<1> QED BY <1>2, <1>3, SubSeqProperties

(* What is written and what is held back of a redacted text x: whatever    *)
(* comes after it, the log is what it would be of one text.                *)
Written(r) == SubSeq(r, 1, Len(r) - HoldCount(r))
HeldBack(r) == SubSeq(r, (Len(r) - HoldCount(r)) + 1, Len(r))

LEMMA WrittenIs ==
  ASSUME NEW r \in Seq(CodeUnits)
  PROVE  /\ Written(r) \in Seq(CodeUnits) /\ HeldBack(r) \in Seq(CodeUnits) /\ r = Written(r) \o HeldBack(r)
         /\ Len(HeldBack(r)) = HoldCount(r) /\ Len(Written(r)) = Len(r) - HoldCount(r)
<1> DEFINE n == HoldCount(r)
           k == Len(r) - n
           p == SubSeq(r, 1, k)
           q == SubSeq(r, k + 1, Len(r))
<1>1. n \in 0..Len(r) /\ Len(r) \in Nat
  BY HoldCountType
<1> HIDE DEF n
<1>2. k \in 0..Len(r) /\ k \in Nat
  BY <1>1
<1> HIDE DEF k
<1>3. p \in Seq(CodeUnits) /\ q \in Seq(CodeUnits) /\ r = p \o q
  BY <1>2, SplitAt
<1>4. Len(p) = k
  BY <1>2, FirstOf
<1> HIDE DEF p, q
<1>5. Len(q) \in Nat /\ Len(r) = Len(p) + Len(q)
  BY <1>3, LenProperties, ConcatProperties
<1>6. Len(q) = n
  BY <1>1, <1>4, <1>5 DEF k
<1> QED BY <1>3, <1>4, <1>6, Zenon DEF Written, HeldBack, p, q, k, n

(* What a chunk does: t is what it is decoded to, r what that and what was *)
(* held back are redacted to.                                              *)
PushedAs(t, r) ==
  /\ t \in Seq(CodeUnits) /\ r = RedactOnce(buffer \o t) /\ r \in Seq(CodeUnits)
  /\ Emit(Written(r)) /\ buffer' = HeldBack(r) /\ text' = text \o t

LEMMA PushIs ==
  ASSUME LogInv, NEW n \in 1..(Len(output) - sent), Push(n)
  PROVE  \E t, r : PushedAs(t, r)
<1>1. PICK t \in {Units(Decode(SubSeq(output, sent + 1, sent + n)))} :
        \E redacted \in {RedactOnce(buffer \o t)} :
          LET emitted == Len(redacted) - HoldCount(redacted) IN
          /\ Emit(SubSeq(redacted, 1, emitted))
          /\ buffer' = SubSeq(redacted, emitted + 1, Len(redacted))
          /\ text' = text \o t
  BY Zenon DEF Push
<1>2. PICK r \in {RedactOnce(buffer \o t)} :
          LET emitted == Len(r) - HoldCount(r) IN
          /\ Emit(SubSeq(r, 1, emitted))
          /\ buffer' = SubSeq(r, emitted + 1, Len(r))
          /\ text' = text \o t
  BY <1>1, Zenon
<1>3. t \in Seq(CodeUnits)
  <2> DEFINE chunk == SubSeq(output, sent + 1, sent + n)
  <2>1. chunk \in Seq(Code)
    BY PushedIs
  <2> HIDE DEF chunk
  <2>2. Units(Decode(chunk)) \in Seq(CodeUnits)
    BY <2>1, DecodeType, UnitsType
  <2> QED BY <2>2 DEF chunk
<1>4. r \in Seq(CodeUnits)
  <2>1. buffer \o t \in Seq(CodeUnits)
    BY <1>3, ConcatProperties DEF LogInv
  <2> QED BY <1>2, <2>1, RedactOnceType
<1>5. Emit(Written(r)) /\ buffer' = HeldBack(r) /\ text' = text \o t /\ r = RedactOnce(buffer \o t)
  BY <1>2, Zenon DEF Written, HeldBack
<1>6. PushedAs(t, r)
  BY <1>3, <1>4, <1>5, Zenon DEF PushedAs
<1> QED BY <1>6

LEMMA LogInvPush ==
  ASSUME LogInv, NEW n \in 1..(Len(output) - sent), Push(n)
  PROVE  LogInv'
<1>1. PICK t, r : PushedAs(t, r)
  BY PushIs
<1>2. /\ t \in Seq(CodeUnits) /\ r \in Seq(CodeUnits)
      /\ Emit(Written(r)) /\ buffer' = HeldBack(r) /\ text' = text \o t
  BY <1>1, Zenon DEF PushedAs
<1>3. Written(r) \in Seq(CodeUnits) /\ HeldBack(r) \in Seq(CodeUnits)
  BY <1>2, WrittenIs
<1>4. Len(output) \in Nat
  BY LenProperties DEF LogInv
<1>5. UNCHANGED <<output, limits, cursor, seen>> /\ sent' = sent + n
  BY DEF Push
<1>6. buffer' \in Seq(CodeUnits) /\ text' \in Seq(CodeUnits)
  <2>1. text \in Seq(CodeUnits)
    BY DEF LogInv
  <2> QED BY <1>2, <1>3, <2>1, ConcatProperties
<1>7. sent' \in 0..Len(output')
  BY <1>4, <1>5 DEF LogInv
<1>8. \E rest \in Seq(Chars) : log' = Bytes(seen' \o rest)
  <2>1. seen \in Seq(Chars) /\ \E rest \in Seq(Chars) : log = Bytes(seen \o rest)
    BY DEF LogInv
  <2>2. \E rest \in Seq(Chars) : log' = Bytes(seen \o rest)
    BY <1>2, <1>3, <2>1, LogAdded
  <2> QED BY <1>5, <2>2
<1>9. output' \in Seq(Code) /\ limits' \in Limits /\ seen' \in Seq(Chars) /\ cursor' = Len(Bytes(seen'))
  BY <1>5 DEF LogInv
<1> QED BY <1>6, <1>7, <1>8, <1>9 DEF LogInv

LEMMA LogInvFinalize == ASSUME LogInv, Finalize PROVE LogInv'
<1>1. PICK redacted \in {RedactOnce(buffer)} : Emit(redacted)
  BY Zenon DEF Finalize
<1>2. redacted \in Seq(CodeUnits)
  BY <1>1, RedactOnceType DEF LogInv
<1>3. UNCHANGED <<output, sent, text, limits, cursor, seen>> /\ buffer' = <<>>
  BY DEF Finalize
<1>4. \E rest \in Seq(Chars) : log' = Bytes(seen' \o rest)
  <2>1. seen \in Seq(Chars) /\ \E rest \in Seq(Chars) : log = Bytes(seen \o rest)
    BY DEF LogInv
  <2>2. \E rest \in Seq(Chars) : log' = Bytes(seen \o rest)
    BY <1>1, <1>2, <2>1, LogAdded
  <2> QED BY <1>3, <2>2
<1>5. buffer' \in Seq(CodeUnits)
  BY <1>3, EmptySeq
<1> QED BY <1>3, <1>4, <1>5 DEF LogInv

LEMMA LogInvRead == ASSUME LogInv, ReadDevelopmentTaskLogs PROVE LogInv'
<1> DEFINE size == Len(log)
           requested == Least({cursor, size})
           upto == requested + Least({limits[1], size - requested})
<1>1. PICK rest \in Seq(Chars) : log = Bytes(seen \o rest)
  BY DEF LogInv
<1>2. /\ seen \in Seq(Chars) /\ cursor = Len(Bytes(seen))
      /\ limits[1] \in Nat /\ limits[2] \in Nat /\ limits[2] # 0
  BY LogTypes DEF LogInv
<1>3. /\ Bytes(seen) \in Seq(Code) /\ Bytes(rest) \in Seq(Code) /\ log = Bytes(seen) \o Bytes(rest)
      /\ cursor \in Nat /\ Len(Bytes(rest)) \in Nat /\ size = cursor + Len(Bytes(rest))
  <2> DEFINE a == Bytes(seen)
             b == Bytes(rest)
  <2>1. a \in Seq(Code) /\ b \in Seq(Code) /\ log = a \o b
    BY <1>1, <1>2, BytesAre, BytesConcat
  <2>2. cursor = Len(a)
    BY <1>2
  <2> HIDE DEF a, b
  <2>3. Len(a) \in Nat /\ Len(b) \in Nat /\ Len(log) = Len(a) + Len(b)
    BY <2>1, LenProperties, ConcatProperties
  <2> QED BY <2>1, <2>2, <2>3 DEF a, b
<1>4. requested = cursor
  <2> HIDE DEF size
  <2>1. {cursor, size} \in SUBSET Nat /\ cursor \in {cursor, size} /\ \A n \in {cursor, size} : cursor <= n
    BY <1>3
  <2> QED BY <2>1, LeastIs
<1> DEFINE u == Least({limits[1], size - cursor})
<1>5. u \in 0..Len(Bytes(rest)) /\ upto = cursor + u
  <2> DEFINE left == size - cursor
  <2>1. left = Len(Bytes(rest)) /\ left \in Nat
    BY <1>3
  <2>2. upto = cursor + Least({limits[1], left})
    BY <1>4
  <2> HIDE DEF left
  <2> DEFINE S == {limits[1], left}
  <2>3. S \in SUBSET Nat /\ S # {} /\ left \in S
    BY <1>2, <2>1
  <2> HIDE DEF S
  <2>4. Least(S) \in Nat /\ Least(S) <= left
    BY <2>1, <2>3, LeastIn
  <2>5. u = Least(S)
    BY DEF S, left
  <2>6. Least(S) = Least({limits[1], left})
    BY DEF S
  <2> HIDE DEF u, upto
  <2> QED BY <2>1, <2>2, <2>4, <2>5, <2>6
<1>6. PICK bytes \in {SubSeq(log, requested + 1, upto)} :
        \E slice \in {Slice(bytes, upto = size, limits[2])} :
          /\ cursor' = requested + slice.consumed
          /\ seen' = seen \o slice.text
  BY Zenon DEF ReadDevelopmentTaskLogs
<1>7. PICK slice \in {Slice(bytes, upto = size, limits[2])} :
          /\ cursor' = requested + slice.consumed
          /\ seen' = seen \o slice.text
  BY <1>6, Zenon
<1> HIDE DEF u, upto, requested, size
<1>8. bytes = SubSeq(Bytes(rest), 1, u)
  <2> DEFINE a == Bytes(seen)
             b == Bytes(rest)
             x == SubSeq(log, cursor + 1, cursor + u)
             y == SubSeq(b, 1, u)
  <2>1. a \in Seq(Code) /\ b \in Seq(Code) /\ log = a \o b /\ cursor = Len(a) /\ u \in 0..Len(b)
    BY <1>2, <1>3, <1>5
  <2>2. y \in Seq(Code) /\ Len(y) = u /\ \A i \in 1..u : y[i] = b[i]
    BY <2>1, FirstOf
  <2>3. cursor \in Nat /\ Len(b) \in Nat /\ u \in Nat
    BY <1>3, <1>5
  <2> HIDE DEF a, b
  <2>4. log \in Seq(Code) /\ Len(log) = cursor + Len(b) /\ \A i \in 1..u : log[cursor + i] = b[i]
    <3>1. /\ log \in Seq(Code) /\ Len(log) = Len(a) + Len(b)
          /\ \A i \in 1..(Len(a) + Len(b)) : log[i] = IF i <= Len(a) THEN a[i] ELSE b[i - Len(a)]
      BY <2>1, ConcatProperties
    <3>2. ASSUME NEW i \in 1..u PROVE log[cursor + i] = b[i]
      <4>1. cursor + i \in 1..(Len(a) + Len(b)) /\ ~(cursor + i <= Len(a)) /\ (cursor + i) - Len(a) = i
        BY <2>1, <2>3
      <4> QED BY <3>1, <4>1
    <3> QED BY <2>1, <3>1, <3>2
  <2>5. /\ x \in Seq(Code) /\ Len(x) = u
        /\ \A i \in 1..u : x[i] = log[cursor + i]
    <3>1. cursor + 1 \in Int /\ cursor + u \in Int /\ \A i \in (cursor + 1)..(cursor + u) : log[i] \in Code
      <4>1. \A i \in (cursor + 1)..(cursor + u) : i \in 1..Len(log)
        BY <2>1, <2>3, <2>4
      <4> QED BY <2>3, <2>4, <4>1, ElementOfSeq
    <3>2. /\ x \in Seq(Code)
          /\ Len(x) = IF cursor + 1 <= cursor + u THEN (cursor + u) - (cursor + 1) + 1 ELSE 0
          /\ \A i \in 1..((cursor + u) - (cursor + 1) + 1) : x[i] = log[(cursor + 1) + i - 1]
      BY <3>1, SubSeqProperties
    <3>3. (cursor + u) - (cursor + 1) + 1 = u /\ \A i \in 1..u : (cursor + 1) + i - 1 = cursor + i
      BY <2>3
    <3> HIDE DEF x
    <3>4. Len(x) = u
      BY <2>3, <3>2, <3>3
    <3> QED BY <3>2, <3>3, <3>4
  <2> HIDE DEF x, y
  <2>6. x = y
    BY <2>2, <2>4, <2>5, SeqEqual
  <2>7. bytes = x
    BY <1>4, <1>5, <1>6 DEF x
  <2> QED BY <2>6, <2>7 DEF y, b
<1>9. (upto = size) <=> u = Len(Bytes(rest))
  <2> DEFINE full == Len(Bytes(rest))
  <2>1. cursor \in Nat /\ full \in Nat /\ u \in Nat /\ size = cursor + full /\ upto = cursor + u
    BY <1>3, <1>5
  <2> HIDE DEF full
  <2>2. upto = size => u = full
    BY <2>1
  <2>3. u = full => upto = size
    BY <2>1
  <2> QED BY <2>2, <2>3 DEF full
<1>10. PICK k \in 0..Len(rest) : slice.text = SubSeq(rest, 1, k) /\ slice.consumed = Offset(rest, k)
  <2> DEFINE n == limits[2]
             full == Len(Bytes(rest))
  <2>1. n \in Nat \ {0} /\ u \in 0..Len(Bytes(rest))
    BY <1>2, <1>5
  <2>2. slice = Slice(bytes, u = full, n)
    <3>1. slice = Slice(bytes, upto = size, n)
      BY <1>7
    <3>2. (upto = size) <=> (u = full)
      BY <1>9
    <3> HIDE DEF n, full
    <3>3. Slice(bytes, upto = size, n) = Slice(bytes, u = full, n)
      BY <3>2, Zenon DEF Slice
    <3> QED BY <3>1, <3>3
  <2> HIDE DEF n
  <2>3. slice = Slice(SubSeq(Bytes(rest), 1, u), u = Len(Bytes(rest)), n)
    BY <1>8, <2>2
  <2> DEFINE given == Slice(SubSeq(Bytes(rest), 1, u), u = Len(Bytes(rest)), n)
  <2>4. \E k \in 0..Len(rest) : given.text = SubSeq(rest, 1, k) /\ given.consumed = Offset(rest, k)
    BY ONLY <2>1, SliceIs, Zenon
  <2>5. slice = given
    BY <2>3
  <2> HIDE DEF given
  <2> QED BY <2>4, <2>5
<1> DEFINE q == SubSeq(rest, 1, k)
           r == SubSeq(rest, k + 1, Len(rest))
<1>11. q \in Seq(Chars) /\ r \in Seq(Chars) /\ rest = q \o r
  BY BytesSplit
<1>12. seen' = seen \o q /\ cursor' = cursor + Len(Bytes(q))
  BY <1>4, <1>7, <1>10 DEF Offset
<1>13. UNCHANGED <<output, sent, text, buffer, log, limits>>
  BY DEF ReadDevelopmentTaskLogs, pipe
<1> HIDE DEF q, r
<1>14. seen' \in Seq(Chars) /\ log' = Bytes(seen' \o r)
  <2>1. seen \o q \in Seq(Chars) /\ Associate(seen, q, r)
    BY <1>2, <1>11, ConcatProperties, TextsAssociate
  <2>2. (seen \o q) \o r = seen \o (q \o r)
    BY <2>1, Zenon DEF Associate
  <2> QED BY <1>1, <1>11, <1>12, <1>13, <2>1, <2>2
<1>15. cursor' = Len(Bytes(seen'))
  <2> DEFINE a == Bytes(seen)
             b == Bytes(q)
  <2>1. a \in Seq(Code) /\ b \in Seq(Code) /\ Bytes(seen \o q) = a \o b
    BY <1>2, <1>11, BytesAre, BytesConcat
  <2>2. cursor' = Len(a) + Len(b)
    BY <1>2, <1>12
  <2> HIDE DEF a, b
  <2>3. Len(a \o b) = Len(a) + Len(b)
    BY <2>1, ConcatProperties
  <2> QED BY <1>12, <2>1, <2>2, <2>3
<1> QED BY <1>11, <1>13, <1>14, <1>15 DEF LogInv

LEMMA LogInvNext == LogInv /\ [LogNext]_logVars => LogInv'
<1> SUFFICES ASSUME LogInv, [LogNext]_logVars PROVE LogInv'
  OBVIOUS
<1>1. CASE Pushes
  BY <1>1, LogInvPush DEF Pushes
<1>2. CASE Finalize
  BY <1>2, LogInvFinalize
<1>3. CASE ReadDevelopmentTaskLogs
  BY <1>3, LogInvRead
<1>4. CASE UNCHANGED logVars
  BY <1>4 DEF logVars, pipe, LogInv
<1> QED BY <1>1, <1>2, <1>3, <1>4 DEF LogNext

LEMMA LogInvSeen == LogInv => SeenIsLog
<1> SUFFICES ASSUME LogInv PROVE SeenIsLog
  OBVIOUS
<1>1. PICK rest \in Seq(Chars) : log = Bytes(seen \o rest)
  BY DEF LogInv
<1> DEFINE t == seen \o rest
<1>2. seen \in Seq(Chars) /\ cursor = Len(Bytes(seen))
  BY DEF LogInv
<1>3. /\ t \in Seq(Chars) /\ Len(seen) \in 0..Len(t) /\ Len(seen) \in Nat
      /\ \A i \in 1..Len(seen) : t[i] = seen[i]
  <2>1. Len(seen) \in Nat /\ Len(rest) \in Nat
    BY <1>2, LenProperties
  <2> QED BY <1>2, <2>1, ConcatProperties
<1> HIDE DEF t
<1>4. SubSeq(t, 1, Len(seen)) = seen
  <2> DEFINE x == SubSeq(t, 1, Len(seen))
  <2>1. x \in Seq(Chars) /\ Len(x) = Len(seen) /\ \A i \in 1..Len(seen) : x[i] = t[i]
    BY <1>3, FirstOf
  <2> HIDE DEF x
  <2>2. x = seen
    BY <1>2, <1>3, <2>1, SeqEqual
  <2> QED BY <2>2 DEF x
<1>5. SubSeq(Bytes(t), 1, Offset(t, Len(seen))) = Bytes(SubSeq(t, 1, Len(seen)))
  BY <1>3, OffsetIs
<1>6. Offset(t, Len(seen)) = cursor
  BY <1>2, <1>4 DEF Offset
<1> QED BY <1>1, <1>4, <1>5, <1>6 DEF SeenIsLog, t

(* Whatever the child writes, however the pipe cuts it, whatever the       *)
(* secrets are and whatever limits the client gives: a client that passes  *)
(* each cursor on has been given just the characters of the log up to its  *)
(* cursor.                                                                 *)
THEOREM ReadOnWithoutGaps == LogSpec => []SeenIsLog
<1>1. LogSpec => []LogInv
  BY LogInvInit, LogInvNext, PTL DEF LogSpec
<1> QED BY <1>1, LogInvSeen, PTL

-----------------------------------------------------------------------------
(* What is replaced in a text that is put together.                        *)
LEMMA RestOnly ==
  ASSUME NEW t \in Seq(CodeUnits), NEW s \in Seq(CodeUnits) \ {<<>>},
         NEW f, IsRest(f, t, s, 1), NEW g, IsRest(g, t, s, 1)
  PROVE  f[1] = g[1]
<1> DEFINE l == Len(t) + 1
           Bad == {i \in 1..l : f[i] # g[i]}
<1>1. Len(t) \in Nat /\ l \in Nat
  BY LenProperties
<1>2. \A i \in 1..l : f[i] = Rest(f, t, s, i) /\ g[i] = Rest(g, t, s, i)
  BY DEF IsRest
<1>3. Bad = {}
  <2> SUFFICES ASSUME Bad # {} PROVE FALSE
    OBVIOUS
  <2>1. PICK m \in Bad : \A i \in Bad : i <= m
    <3>1. Bad \in SUBSET Nat /\ \A i \in Bad : i <= l
      BY <1>1
    <3> HIDE DEF Bad, l
    <3> QED BY <1>1, <3>1, GreatestNumber
  <2>2. m \in 1..(Len(t) + 1) /\ f[m] # g[m]
    BY <2>1
  <2>3. \A j \in (m + 1)..(Len(t) + 1) : f[j] = g[j]
    <3> SUFFICES ASSUME NEW j \in (m + 1)..(Len(t) + 1) PROVE f[j] = g[j]
      OBVIOUS
    <3>1. j \in 1..l /\ ~(j <= m)
      BY <1>1, <2>2
    <3> QED BY <2>1, <3>1
  <2> HIDE DEF Bad
  <2>4. Rest(f, t, s, m) = Rest(g, t, s, m)
    <3>1. SameAfter(f, g, m, Len(t) + 1)
      BY <2>3 DEF SameAfter
    <3> QED BY <2>2, <3>1, RestSame
  <2> QED BY <1>2, <2>2, <2>4
<1>4. 1 \in 1..l
  BY <1>1
<1> QED BY <1>3, <1>4

LEMMA ReplaceIs ==
  ASSUME NEW t \in Seq(CodeUnits), NEW s \in Seq(CodeUnits) \ {<<>>}, NEW f, IsRest(f, t, s, 1)
  PROVE  Replace(t, s) = f[1]
<1> DEFINE Is(h) == IsRest(h, t, s, 1)
           g == CHOOSE h : Is(h)
<1>1. Is(g)
  BY Zenon
<1>2. Replace(t, s) = g[1]
  BY Zenon DEF Replace, IsRest, Rest
<1> HIDE DEF g
<1>3. f[1] = g[1]
  BY <1>1, RestOnly
<1> QED BY <1>2, <1>3

(* What follows from k + 1 on is what is replaced in the rest of the text. *)
LEMMA RestShift ==
  ASSUME NEW a \in Seq(CodeUnits), NEW u \in Seq(CodeUnits), NEW s \in Seq(CodeUnits) \ {<<>>},
         NEW f, IsRest(f, a \o u, s, 1)
  PROVE  Replace(u, s) = f[Len(a) + 1]
<1> DEFINE t == a \o u
           k == Len(a)
           l == Len(u)
           g == [i \in 1..(l + 1) |-> f[k + i]]
<1>1. /\ t \in Seq(CodeUnits) /\ k \in Nat /\ l \in Nat /\ Len(t) = k + l
      /\ \A i \in 1..l : t[k + i] = u[i]
  <2>1. k \in Nat /\ l \in Nat
    BY LenProperties
  <2>2. /\ t \in Seq(CodeUnits) /\ Len(t) = k + l
        /\ \A i \in 1..(k + l) : t[i] = IF i <= k THEN a[i] ELSE u[i - k]
    BY ConcatProperties
  <2> HIDE DEF t, k, l
  <2>3. ASSUME NEW i \in 1..l PROVE t[k + i] = u[i]
    <3>1. k + i \in 1..(k + l) /\ ~(k + i <= k) /\ (k + i) - k = i
      BY <2>1
    <3> QED BY <2>2, <3>1
  <2> QED BY <2>1, <2>2, <2>3
<1>2. Len(s) \in Nat /\ Len(s) # 0
  BY LenProperties, EmptySeq
<1>3. IsRest(f, t, s, 1)
  OBVIOUS
<1> HIDE DEF t, k, l
<1>4. ASSUME NEW i \in 1..(l + 1) PROVE g[i] = Rest(g, u, s, i)
  <2> DEFINE j == k + i
  <2>1. j \in 1..(Len(t) + 1) /\ g[i] = f[j]
    BY <1>1
  <2>2. f[j] = Rest(f, t, s, j)
    BY <1>3, <2>1 DEF IsRest
  <2>3. (i > l) <=> (j > Len(t))
    BY <1>1
  <2>4. CASE i > l
    <3> HIDE DEF g, j
    <3>0. j > Len(t)
      BY <2>3, <2>4
    <3>1. Rest(f, t, s, j) = <<>>
      BY <1>1, <1>2, <2>1, <3>0 DEF Rest
    <3>2. Rest(g, u, s, i) = <<>>
      BY <2>4 DEF Rest, l
    <3> QED BY <2>1, <2>2, <3>1, <3>2
  <2>5. CASE ~(i > l)
    <3>1. i \in 1..l /\ t[j] = u[i]
      BY <1>1, <2>5
    <3>2. (i + Len(s) - 1 <= l) <=> (j + Len(s) - 1 <= Len(t))
      BY <1>1, <1>2
    <3>3. ASSUME i + Len(s) - 1 <= l
          PROVE  SubSeq(u, i, i + Len(s) - 1) = SubSeq(t, j, j + Len(s) - 1) /\ g[i + Len(s)] = f[j + Len(s)]
      <4> DEFINE n == Len(s)
                 x == SubSeq(u, i, i + n - 1)
                 y == SubSeq(t, j, j + n - 1)
      <4>0. n \in Nat /\ n # 0 /\ i + n - 1 <= l
        BY <1>2, <3>3
      <4>1. g[i + n] = f[j + n]
        <5>1. i + n \in 1..(l + 1) /\ k + (i + n) = j + n
          BY <1>1, <4>0
        <5> QED BY <5>1
      <4> HIDE DEF n
      <4>2. /\ i \in Int /\ i + n - 1 \in Int /\ \A d \in i..(i + n - 1) : d \in 1..l
            /\ j \in Int /\ j + n - 1 \in Int /\ \A d \in j..(j + n - 1) : d \in 1..Len(t)
        BY <1>1, <3>1, <4>0
      <4>3. \A d \in i..(i + n - 1) : u[d] \in CodeUnits
        BY <4>2, ElementOfSeq DEF l
      <4>4. \A d \in j..(j + n - 1) : t[d] \in CodeUnits
        BY <1>1, <4>2, ElementOfSeq
      <4>5. (i + n - 1) - i + 1 = n /\ (j + n - 1) - j + 1 = n /\ i <= i + n - 1 /\ j <= j + n - 1
        BY <1>1, <4>0
      <4>6. x \in Seq(CodeUnits) /\ Len(x) = n /\ \A d \in 1..n : x[d] = u[i + d - 1]
        <5>1. /\ x \in Seq(CodeUnits)
              /\ Len(x) = IF i <= i + n - 1 THEN (i + n - 1) - i + 1 ELSE 0
              /\ \A d \in 1..((i + n - 1) - i + 1) : x[d] = u[i + d - 1]
          BY <4>2, <4>3, SubSeqProperties
        <5> HIDE DEF x
        <5> QED BY <4>5, <5>1
      <4>7. y \in Seq(CodeUnits) /\ Len(y) = n /\ \A d \in 1..n : y[d] = t[j + d - 1]
        <5> HIDE DEF j
        <5>1. /\ y \in Seq(CodeUnits)
              /\ Len(y) = IF j <= j + n - 1 THEN (j + n - 1) - j + 1 ELSE 0
              /\ \A d \in 1..((j + n - 1) - j + 1) : y[d] = t[j + d - 1]
          BY <4>2, <4>4, SubSeqProperties
        <5> HIDE DEF y
        <5> QED BY <4>5, <5>1
      <4>8. \A d \in 1..n : u[i + d - 1] = t[j + d - 1]
        <5> SUFFICES ASSUME NEW d \in 1..n PROVE u[i + d - 1] = t[j + d - 1]
          OBVIOUS
        <5>1. i + d - 1 \in 1..l /\ k + (i + d - 1) = j + d - 1
          BY <1>1, <3>1, <4>0
        <5>2. t[k + (i + d - 1)] = u[i + d - 1]
          BY <1>1, <5>1
        <5> QED BY <5>1, <5>2
      <4> HIDE DEF x, y, j
      <4>9. x = y
        BY <4>6, <4>7, <4>8, SeqEqual
      <4> QED BY <4>1, <4>9 DEF x, y, n
    <3>4. g[i + 1] = f[j + 1]
      <4>1. i + 1 \in 1..(l + 1) /\ k + (i + 1) = j + 1
        BY <1>1, <3>1
      <4> QED BY <4>1
    <3> HIDE DEF g, j
    <3>5. CASE i + Len(s) - 1 <= l /\ SubSeq(u, i, i + Len(s) - 1) = s
      <4>1. Rest(g, u, s, i) = Replacement \o g[i + Len(s)]
        BY <2>5, <3>5 DEF Rest, l
      <4>2. Rest(f, t, s, j) = Replacement \o f[j + Len(s)]
        BY <2>3, <2>5, <3>2, <3>3, <3>5 DEF Rest
      <4> QED BY <2>1, <2>2, <3>3, <3>5, <4>1, <4>2
    <3>6. CASE ~(i + Len(s) - 1 <= l /\ SubSeq(u, i, i + Len(s) - 1) = s)
      <4>1. Rest(g, u, s, i) = <<u[i]>> \o g[i + 1]
        BY <2>5, <3>6 DEF Rest, l
      <4>2. Rest(f, t, s, j) = <<t[j]>> \o f[j + 1]
        BY <2>3, <2>5, <3>2, <3>3, <3>6 DEF Rest
      <4> QED BY <2>1, <2>2, <3>1, <3>4, <4>1, <4>2
    <3> QED BY <3>5, <3>6
  <2> QED BY <2>4, <2>5
<1>5. g = [i \in 1..(l + 1) |-> g[i]] /\ g[1] = f[k + 1]
  BY <1>1
<1> HIDE DEF g
<1>6. IsRest(g, u, s, 1)
  BY <1>4, <1>5 DEF IsRest, l
<1> QED BY <1>5, <1>6, ReplaceIs DEF k

LEMMA ReplaceSteps ==
  ASSUME NEW s \in Seq(CodeUnits) \ {<<>>}
  PROVE  /\ Replace(<<>>, s) = <<>>
         /\ \A u \in Seq(CodeUnits) : Replace(s \o u, s) = Replacement \o Replace(u, s)
         /\ \A u \in Seq(CodeUnits), c \in CodeUnits :
              ~Begins(s, <<c>> \o u) => Replace(<<c>> \o u, s) = <<c>> \o Replace(u, s)
<1>1. Len(s) \in Nat /\ Len(s) # 0 /\ s \in Seq(CodeUnits)
  BY LenProperties, EmptySeq
<1>2. Replace(<<>>, s) = <<>>
  <2>1. <<>> \in Seq(CodeUnits) /\ Len(<<>>) = 0
    BY EmptySeq
  <2>2. PICK f : IsRest(f, <<>>, s, 1)
    BY <2>1, RestExists
  <2>3. f[1] = Rest(f, <<>>, s, 1)
    BY <2>1, <2>2 DEF IsRest
  <2>4. Rest(f, <<>>, s, 1) = <<>>
    <3>1. 1 > Len(<<>>) /\ ~(1 + Len(s) - 1 <= Len(<<>>))
      BY <1>1, <2>1
    <3> QED BY <3>1 DEF Rest
  <2> QED BY <2>1, <2>2, <2>3, <2>4, ReplaceIs
<1>3. ASSUME NEW u \in Seq(CodeUnits)
      PROVE  Replace(s \o u, s) = Replacement \o Replace(u, s)
  <2> DEFINE t == s \o u
             n == Len(s)
  <2>1. Len(u) \in Nat
    BY LenProperties
  <2>2. t \in Seq(CodeUnits) /\ Len(t) = n + Len(u) /\ \A i \in 1..n : t[i] = s[i]
    BY <1>1, <2>1, ConcatProperties
  <2>3. PICK f : IsRest(f, t, s, 1)
    BY <2>2, RestExists
  <2>4. Replace(t, s) = f[1] /\ Replace(u, s) = f[n + 1]
    BY <1>1, <2>2, <2>3, ReplaceIs, RestShift
  <2> HIDE DEF t
  <2>5. f[1] = Rest(f, t, s, 1)
    <3>1. 1 \in 1..(Len(t) + 1)
      BY <1>1, <2>1, <2>2
    <3> QED BY <2>3, <3>1 DEF IsRest
  <2>6. SubSeq(t, 1, n) = s
    <3> DEFINE x == SubSeq(t, 1, n)
    <3>1. n \in 0..Len(t)
      BY <1>1, <2>1, <2>2
    <3>2. x \in Seq(CodeUnits) /\ Len(x) = n /\ \A i \in 1..n : x[i] = t[i]
      BY <2>2, <3>1, FirstOf
    <3> HIDE DEF x
    <3>3. x = s
      BY <1>1, <2>2, <3>2, SeqEqual
    <3> QED BY <3>3 DEF x
  <2>7. Rest(f, t, s, 1) = Replacement \o f[n + 1]
    <3>1. 1 + n - 1 = n /\ ~(1 > Len(t)) /\ 1 + n - 1 <= Len(t) /\ 1 + n = n + 1
      BY <1>1, <2>1, <2>2
    <3> QED BY <2>6, <3>1 DEF Rest
  <2> QED BY <2>4, <2>5, <2>7 DEF t
<1>4. ASSUME NEW u \in Seq(CodeUnits), NEW c \in CodeUnits, ~Begins(s, <<c>> \o u)
      PROVE  Replace(<<c>> \o u, s) = <<c>> \o Replace(u, s)
  <2> DEFINE t == <<c>> \o u
             n == Len(s)
  <2>1. Len(u) \in Nat /\ <<c>> \in Seq(CodeUnits) /\ Len(<<c>>) = 1 /\ <<c>>[1] = c
    BY LenProperties
  <2>2. t \in Seq(CodeUnits) /\ Len(t) = 1 + Len(u) /\ t[1] = c
    BY <2>1, ConcatProperties
  <2>3. PICK f : IsRest(f, t, s, 1)
    BY <2>2, RestExists
  <2>4. Replace(t, s) = f[1] /\ Replace(u, s) = f[1 + 1]
    <3>1. Replace(t, s) = f[1]
      BY <2>2, <2>3, ReplaceIs
    <3>2. Replace(u, s) = f[Len(<<c>>) + 1]
      BY <2>1, <2>3, RestShift
    <3> QED BY <2>1, <3>1, <3>2
  <2>5. ~Begins(s, t)
    BY <1>4
  <2> HIDE DEF t
  <2>6. f[1] = Rest(f, t, s, 1)
    <3>1. 1 \in 1..(Len(t) + 1)
      BY <2>1, <2>2
    <3> QED BY <2>3, <3>1 DEF IsRest
  <2>7. ASSUME n <= Len(t), SubSeq(t, 1, n) = s PROVE FALSE
    <3>1. n \in 0..Len(t)
      BY <1>1, <2>1, <2>2, <2>7
    <3>2. \A i \in 1..n : SubSeq(t, 1, n)[i] = t[i]
      BY <2>2, <3>1, FirstOf
    <3>3. \A i \in 1..n : t[i] = s[i]
      BY <2>7, <3>2
    <3> QED BY <2>5, <2>7, <3>3 DEF Begins
  <2>8. Rest(f, t, s, 1) = <<c>> \o f[1 + 1]
    <3>1. 1 + n - 1 = n /\ ~(1 > Len(t))
      BY <1>1, <2>1, <2>2
    <3> QED BY <2>2, <2>7, <3>1 DEF Rest
  <2> QED BY <2>4, <2>6, <2>8 DEF t
<1> QED BY <1>2, <1>3, <1>4

(* One character, then a text.                                             *)
LEMMA ConsIs ==
  ASSUME NEW c \in CodeUnits, NEW u \in Seq(CodeUnits)
  PROVE  /\ <<c>> \in Seq(CodeUnits) /\ <<c>> \o u \in Seq(CodeUnits) /\ Len(u) \in Nat
         /\ Len(<<c>> \o u) = Len(u) + 1 /\ (<<c>> \o u)[1] = c
         /\ \A j \in 1..Len(u) : (<<c>> \o u)[j + 1] = u[j]
<1> DEFINE t == <<c>> \o u
<1>1. Len(u) \in Nat /\ <<c>> \in Seq(CodeUnits) /\ Len(<<c>>) = 1 /\ <<c>>[1] = c
  BY LenProperties
<1>2. /\ t \in Seq(CodeUnits) /\ Len(t) = 1 + Len(u)
      /\ \A i \in 1..(1 + Len(u)) : t[i] = IF i <= 1 THEN c ELSE u[i - 1]
  BY <1>1, ConcatProperties
<1> HIDE DEF t
<1>3. t[1] = c
  BY <1>1, <1>2
<1>4. ASSUME NEW j \in 1..Len(u) PROVE t[j + 1] = u[j]
  <2>1. j + 1 \in 1..(1 + Len(u)) /\ ~(j + 1 <= 1) /\ (j + 1) - 1 = j
    BY <1>1
  <2> QED BY <1>2, <2>1
<1>5. Len(t) = Len(u) + 1
  BY <1>1, <1>2
<1> QED BY <1>1, <1>2, <1>3, <1>4, <1>5 DEF t

(* A text begins with the secret, or with a character.                     *)
SecretFirst(s, t) ==
  \E u \in Seq(CodeUnits) : t = s \o u /\ Len(u) < Len(t) /\ Len(u) \in Nat /\ Len(t) = Len(s) + Len(u)
OtherFirst(s, t) ==
  ~Begins(s, t) /\ \E u \in Seq(CodeUnits), c \in CodeUnits : t = <<c>> \o u /\ Len(t) = Len(u) + 1 /\ Len(u) \in Nat

LEMMA TextCases ==
  ASSUME NEW s \in Seq(CodeUnits) \ {<<>>}, NEW t \in Seq(CodeUnits)
  PROVE  t = <<>> \/ SecretFirst(s, t) \/ OtherFirst(s, t)
<1>1. Len(s) \in Nat /\ Len(s) # 0 /\ s \in Seq(CodeUnits) /\ Len(t) \in Nat
  BY LenProperties, EmptySeq
<1>2. CASE Begins(s, t)
  <2> DEFINE x == SubSeq(t, 1, Len(s))
             u == SubSeq(t, Len(s) + 1, Len(t))
  <2>1. Len(s) \in 0..Len(t) /\ \A i \in 1..Len(s) : t[i] = s[i]
    BY <1>1, <1>2 DEF Begins
  <2>2. x \in Seq(CodeUnits) /\ Len(x) = Len(s) /\ \A i \in 1..Len(s) : x[i] = t[i]
    BY <2>1, FirstOf
  <2>3. u \in Seq(CodeUnits) /\ t = x \o u
    BY <2>1, SplitAt
  <2> HIDE DEF x, u
  <2>4. x = s
    BY <1>1, <2>1, <2>2, SeqEqual
  <2>5. Len(u) \in Nat /\ Len(t) = Len(s) + Len(u)
    BY <1>1, <2>3, <2>4, LenProperties, ConcatProperties
  <2> QED BY <1>1, <2>3, <2>4, <2>5 DEF SecretFirst
<1>3. CASE ~Begins(s, t) /\ t # <<>>
  <2> DEFINE u == SubSeq(t, 1 + 1, Len(t))
             c == t[1]
  <2>1. Len(t) # 0
    BY <1>3, EmptySeq
  <2>2. 1 \in 0..Len(t) /\ 1 \in 1..Len(t)
    BY <1>1, <2>1
  <2>3. u \in Seq(CodeUnits) /\ c \in CodeUnits /\ t = SubSeq(t, 1, 1) \o u
    BY <2>2, SplitAt, ElementOfSeq
  <2>4. SubSeq(t, 1, 1) = <<c>>
    <3> DEFINE x == SubSeq(t, 1, 1)
    <3>1. x \in Seq(CodeUnits) /\ Len(x) = 1 /\ x[1] = c
      BY <2>2, FirstOf
    <3>2. <<c>> \in Seq(CodeUnits) /\ Len(<<c>>) = 1 /\ <<c>>[1] = c
      BY <2>3
    <3> HIDE DEF x, c
    <3>3. x = <<c>>
      BY <3>1, <3>2, SeqEqual
    <3> QED BY <3>3 DEF x
  <2> HIDE DEF u, c
  <2>5. Len(u) \in Nat /\ Len(t) = Len(u) + 1
    <3>1. <<c>> \in Seq(CodeUnits) /\ Len(<<c>>) = 1
      BY <2>3
    <3>2. Len(u) \in Nat /\ Len(<<c>> \o u) = 1 + Len(u)
      BY <2>3, <3>1, LenProperties, ConcatProperties
    <3> QED BY <2>3, <2>4, <3>2
  <2> QED BY <1>3, <2>3, <2>4, <2>5 DEF OtherFirst
<1> QED BY <1>2, <1>3

(* The secret s and what replaces it cannot be mistaken for one another:   *)
(* neither has the character the other begins with.                        *)
Apart(s) ==
  /\ s \in Seq(CodeUnits) \ {<<>>} /\ Replacement # <<>>
  /\ \A i \in 1..Len(Replacement) : Replacement[i] # s[1]
  /\ \A i \in 1..Len(s) : s[i] # Replacement[1]

(* Where nothing has been replaced in the first m characters of r they are *)
(* those of t; all of them where nothing has been replaced at all, as in a *)
(* text shorter than the secret.                                           *)
Replaced(r, m) == \E j \in 1..m : r[j] = Replacement[1]
Shown(s, t, r) ==
  /\ \A m \in 0..Len(r) : Replaced(r, m) \/ (m <= Len(t) /\ \A j \in 1..m : r[j] = t[j])
  /\ r = t \/ Replaced(r, Len(r))
  /\ Len(t) < Len(s) => r = t

LEMMA ApartTypes ==
  ASSUME NEW s, Apart(s)
  PROVE  /\ s \in Seq(CodeUnits) /\ s \in Seq(CodeUnits) \ {<<>>} /\ Len(s) \in Nat /\ Len(s) # 0
         /\ Replacement \in Seq(CodeUnits) /\ Len(Replacement) \in Nat /\ Len(Replacement) # 0
BY LogTypes, LenProperties, EmptySeq DEF Apart

LEMMA ReplaceShows ==
  ASSUME NEW s, Apart(s), NEW t \in Seq(CodeUnits)
  PROVE  Shown(s, t, Replace(t, s))
<1> DEFINE Bad == {n \in Nat : \E x \in Seq(CodeUnits) : Len(x) = n /\ ~Shown(s, x, Replace(x, s))}
<1>1. Bad = {}
  <2> SUFFICES ASSUME Bad # {} PROVE FALSE
    OBVIOUS
  <2>1. PICK m \in Bad : \A n \in Bad : m <= n
    <3>1. Bad \in SUBSET Nat
      OBVIOUS
    <3> HIDE DEF Bad
    <3> QED BY <3>1, LeastNumber
  <2>2. PICK x \in Seq(CodeUnits) : Len(x) = m /\ ~Shown(s, x, Replace(x, s))
    BY <2>1
  <2>3. ASSUME NEW u \in Seq(CodeUnits), Len(u) \in Nat, Len(u) < m PROVE Shown(s, u, Replace(u, s))
    BY <2>1, <2>3
  <2> HIDE DEF Bad
  <2>4. s \in Seq(CodeUnits) \ {<<>>} /\ Len(s) \in Nat /\ Len(s) # 0 /\ m \in Nat
    BY <2>2, ApartTypes, LenProperties
  <2>5. CASE x = <<>>
    <3>1. Replace(x, s) = x /\ Len(x) = 0
      BY <2>4, <2>5, ReplaceSteps, EmptySeq
    <3>2. Shown(s, x, x)
      BY <3>1 DEF Shown
    <3> QED BY <2>2, <3>1, <3>2
  <2>6. ASSUME NEW u \in Seq(CodeUnits), x = s \o u, Len(x) = Len(s) + Len(u), Len(u) \in Nat PROVE FALSE
    <3> DEFINE r == Replace(u, s)
               y == Replace(x, s)
    <3>1. y = Replacement \o r /\ r \in Seq(CodeUnits)
      BY <2>4, <2>6, ReplaceSteps, ReplaceType
    <3>2. Replacement \in Seq(CodeUnits) /\ Len(Replacement) \in Nat /\ Len(Replacement) # 0
      BY ApartTypes
    <3> HIDE DEF r, y
    <3>3. y[1] = Replacement[1] /\ Len(y) \in Nat /\ Len(y) # 0
      <4>1. Len(r) \in Nat /\ 1 \in 1..(Len(Replacement) + Len(r)) /\ 1 <= Len(Replacement)
        BY <3>1, <3>2, LenProperties
      <4> QED BY <3>1, <3>2, <4>1, ConcatProperties
    <3>4. ASSUME NEW n \in 0..Len(y), n # 0 PROVE Replaced(y, n)
      <4>1. 1 \in 1..n
        BY <3>4
      <4> QED BY <3>3, <4>1 DEF Replaced
    <3>5. ASSUME NEW n \in 0..Len(y), n = 0 PROVE n <= Len(x) /\ \A j \in 1..n : y[j] = x[j]
      BY <2>2, <2>4, <3>5
    <3>6. Replaced(y, Len(y))
      <4>1. Len(y) \in 0..Len(y)
        BY <3>3
      <4> QED BY <3>3, <3>4, <4>1
    <3>7. ~(Len(x) < Len(s))
      BY <2>4, <2>6
    <3>8. Shown(s, x, y)
      BY <3>4, <3>5, <3>6, <3>7 DEF Shown
    <3> QED BY <2>2, <3>8 DEF y
  <2>7. ASSUME NEW u \in Seq(CodeUnits), NEW c \in CodeUnits, x = <<c>> \o u, ~Begins(s, x),
               Len(x) = Len(u) + 1, Len(u) \in Nat
        PROVE  FALSE
    <3> DEFINE r == Replace(u, s)
               y == Replace(x, s)
    <3>1. y = <<c>> \o r /\ r \in Seq(CodeUnits)
      BY <2>4, <2>7, ReplaceSteps, ReplaceType
    <3>2. Shown(s, u, r)
      BY <2>2, <2>3, <2>7
    <3> HIDE DEF r, y
    <3>3. Len(r) \in Nat /\ Len(y) = Len(r) + 1 /\ y[1] = c /\ \A j \in 1..Len(r) : y[j + 1] = r[j]
      BY <3>1, ConsIs
    <3>4. x[1] = c /\ \A j \in 1..Len(u) : x[j + 1] = u[j]
      BY <2>7, ConsIs
    <3>5. ASSUME NEW n \in 0..Len(y)
          PROVE  Replaced(y, n) \/ (n <= Len(x) /\ \A j \in 1..n : y[j] = x[j])
      <4>1. CASE n = 0
        BY <2>2, <2>4, <4>1
      <4>2. CASE n # 0
        <5>1. n - 1 \in 0..Len(r)
          BY <3>3, <4>2
        <5>2. CASE Replaced(r, n - 1)
          <6>1. PICK j \in 1..(n - 1) : r[j] = Replacement[1]
            BY <5>2 DEF Replaced
          <6>2. j \in 1..Len(r) /\ j + 1 \in 1..n
            BY <3>3, <5>1
          <6>3. y[j + 1] = Replacement[1]
            BY <3>3, <6>1, <6>2
          <6> QED BY <6>2, <6>3 DEF Replaced
        <5>3. CASE ~Replaced(r, n - 1)
          <6>1. n - 1 <= Len(u) /\ \A j \in 1..(n - 1) : r[j] = u[j]
            BY <3>2, <5>1, <5>3 DEF Shown
          <6>2. ASSUME NEW j \in 1..n PROVE y[j] = x[j]
            <7>1. CASE j = 1
              BY <3>3, <3>4, <7>1
            <7>2. CASE j # 1
              <8>1. j - 1 \in 1..(n - 1) /\ j - 1 \in 1..Len(r) /\ j - 1 \in 1..Len(u) /\ (j - 1) + 1 = j
                BY <2>7, <3>3, <5>1, <6>1, <7>2
              <8>2. y[(j - 1) + 1] = r[j - 1] /\ x[(j - 1) + 1] = u[j - 1] /\ r[j - 1] = u[j - 1]
                BY <3>3, <3>4, <6>1, <8>1
              <8> QED BY <8>1, <8>2
            <7> QED BY <7>1, <7>2
          <6>3. n <= Len(x)
            BY <2>7, <3>3, <5>1, <6>1
          <6> QED BY <6>2, <6>3
        <5> QED BY <5>2, <5>3
      <4> QED BY <4>1, <4>2
    <3>6. y = x \/ Replaced(y, Len(y))
      <4>1. CASE r = u
        BY <2>7, <3>1, <4>1
      <4>2. CASE r # u
        <5>1. PICK j \in 1..Len(r) : r[j] = Replacement[1]
          BY <3>2, <4>2 DEF Shown, Replaced
        <5>2. j + 1 \in 1..Len(y) /\ y[j + 1] = Replacement[1]
          BY <3>3, <5>1
        <5> QED BY <5>2 DEF Replaced
      <4> QED BY <4>1, <4>2
    <3>7. ASSUME Len(x) < Len(s) PROVE y = x
      <4>1. Len(u) < Len(s)
        BY <2>4, <2>7, <3>7
      <4> QED BY <2>7, <3>1, <3>2, <4>1 DEF Shown
    <3>8. Shown(s, x, y)
      BY <3>5, <3>6, <3>7 DEF Shown
    <3> QED BY <2>2, <3>8 DEF y
  <2>8. x = <<>> \/ SecretFirst(s, x) \/ OtherFirst(s, x)
    BY <2>4, TextCases
  <2> QED BY ONLY <2>5, <2>6, <2>7, <2>8, Zenon DEF SecretFirst, OtherFirst
<1>2. Len(t) \in Nat
  BY LenProperties
<1> QED BY <1>1, <1>2

(* Of two texts that put together are the same, the longer start begins    *)
(* with the other.                                                         *)
GoesOn(a, b, c, d) == \E e \in Seq(CodeUnits) : a = c \o e /\ d = e \o b

LEMMA ConcatSplit ==
  ASSUME NEW a \in Seq(CodeUnits), NEW b \in Seq(CodeUnits), NEW c \in Seq(CodeUnits), NEW d \in Seq(CodeUnits),
         a \o b = c \o d, Len(c) <= Len(a)
  PROVE  GoesOn(a, b, c, d)
<1> DEFINE x == SubSeq(a, 1, Len(c))
           e == SubSeq(a, Len(c) + 1, Len(a))
           ab == a \o b
           cd == c \o d
<1>1. Len(a) \in Nat /\ Len(b) \in Nat /\ Len(c) \in Nat /\ Len(d) \in Nat /\ Len(c) \in 0..Len(a)
  BY LenProperties
<1>2. x \in Seq(CodeUnits) /\ e \in Seq(CodeUnits) /\ a = x \o e
  BY <1>1, SplitAt
<1>3. Len(x) = Len(c) /\ \A i \in 1..Len(c) : x[i] = a[i]
  BY <1>1, FirstOf
<1>4. \A i \in 1..Len(c) : ab[i] = a[i] /\ cd[i] = c[i]
  BY <1>1, ConcatProperties
<1>5. ab = cd
  OBVIOUS
<1> HIDE DEF x, e, ab, cd
<1>6. x = c
  BY <1>2, <1>3, <1>4, <1>5, SeqEqual
<1>7. e \o b \in Seq(CodeUnits) /\ (c \o e) \o b = c \o (e \o b)
  <2>1. e \o b \in Seq(CodeUnits)
    BY <1>2, ConcatProperties
  <2>2. Associate(c, e, b)
    BY <1>2, Associates
  <2> QED BY <2>1, <2>2, Zenon DEF Associate
<1>8. c \o (e \o b) = c \o d
  BY <1>2, <1>5, <1>6, <1>7 DEF ab, cd
<1>9. e \o b = d
  BY <1>7, <1>8, ConcatSimplifications
<1> QED BY <1>2, <1>6, <1>9, Zenon DEF GoesOn

(* Nothing is replaced where the secret cannot begin.                      *)
LEMMA NothingToReplace ==
  ASSUME NEW s, Apart(s), NEW a \in Seq(CodeUnits), \A i \in 1..Len(a) : a[i] # s[1], NEW v \in Seq(CodeUnits)
  PROVE  Replace(a \o v, s) = a \o Replace(v, s)
<1> DEFINE Clear(x) == \A i \in 1..Len(x) : x[i] # s[1]
           Bad == {n \in Nat : \E x \in Seq(CodeUnits) : /\ Len(x) = n /\ Clear(x)
                                                     /\ Replace(x \o v, s) # x \o Replace(v, s)}
<1>1. Bad = {}
  <2> SUFFICES ASSUME Bad # {} PROVE FALSE
    OBVIOUS
  <2>1. PICK m \in Bad : \A n \in Bad : m <= n
    <3>1. Bad \in SUBSET Nat
      OBVIOUS
    <3> HIDE DEF Bad
    <3> QED BY <3>1, LeastNumber
  <2>2. PICK x \in Seq(CodeUnits) : Len(x) = m /\ Clear(x) /\ Replace(x \o v, s) # x \o Replace(v, s)
    BY <2>1
  <2>3. ASSUME NEW u \in Seq(CodeUnits), Len(u) \in Nat, Len(u) < m, Clear(u)
        PROVE  Replace(u \o v, s) = u \o Replace(v, s)
    <3>1. Len(u) \notin Bad
      BY <2>1, <2>3
    <3> QED BY <2>3, <3>1
  <2> HIDE DEF Bad
  <2>4. s \in Seq(CodeUnits) \ {<<>>} /\ Len(s) \in Nat /\ Len(s) # 0 /\ m \in Nat /\ Replace(v, s) \in Seq(CodeUnits)
    <3>1. s \in Seq(CodeUnits) \ {<<>>} /\ Len(s) \in Nat /\ Len(s) # 0
      BY ApartTypes
    <3> QED BY <2>2, <3>1, ReplaceType, LenProperties
  <2>5. CASE x = <<>>
    <3>1. x \o v = v /\ x \o Replace(v, s) = Replace(v, s)
      BY <2>4, <2>5, ConcatEmptySeq
    <3> QED BY <2>2, <3>1
  <2>6. ASSUME NEW u \in Seq(CodeUnits), NEW c \in CodeUnits, x = <<c>> \o u PROVE FALSE
    <3>1. /\ Len(x) = Len(u) + 1 /\ Len(u) \in Nat /\ x[1] = c /\ <<c>> \in Seq(CodeUnits)
          /\ \A j \in 1..Len(u) : x[j + 1] = u[j]
      BY <2>6, ConsIs
    <3>2. Clear(u)
      <4> SUFFICES ASSUME NEW j \in 1..Len(u) PROVE u[j] # s[1]
        OBVIOUS
      <4>1. j + 1 \in 1..Len(x)
        BY <3>1
      <4> QED BY <2>2, <3>1, <4>1
    <3>3. c # s[1]
      <4>1. 1 \in 1..Len(x)
        BY <3>1
      <4> QED BY <2>2, <3>1, <4>1
    <3> HIDE DEF Clear
    <3>4. Replace(u \o v, s) = u \o Replace(v, s)
      BY <2>2, <2>3, <3>1, <3>2
    <3>5. u \o v \in Seq(CodeUnits)
      BY ConcatProperties
    <3> DEFINE w == u \o v
    <3>6. ~Begins(s, <<c>> \o w)
      <4>1. (<<c>> \o w)[1] = c
        BY <3>5, ConsIs
      <4>2. 1 \in 1..Len(s)
        BY <2>4
      <4> QED BY <3>3, <4>1, <4>2 DEF Begins
    <3>7. Replace(<<c>> \o w, s) = <<c>> \o Replace(w, s)
      <4> HIDE DEF w
      <4>1. w \in Seq(CodeUnits)
        BY <3>5 DEF w
      <4> QED BY <2>4, <3>6, <4>1, ReplaceSteps
    <3>8. (<<c>> \o u) \o v = <<c>> \o w /\ (<<c>> \o u) \o Replace(v, s) = <<c>> \o (u \o Replace(v, s))
      <4> DEFINE h == <<c>>
                 y == Replace(v, s)
      <4>1. h \in Seq(CodeUnits) /\ y \in Seq(CodeUnits)
        BY <2>4, <3>1
      <4> HIDE DEF h, y
      <4>2. Associate(h, u, v) /\ Associate(h, u, y)
        BY <4>1, Associates
      <4> QED BY <4>2, Zenon DEF Associate, h, y, w
    <3> QED BY <2>2, <2>6, <3>4, <3>7, <3>8
  <2>7. x = <<>> \/ \E u \in Seq(CodeUnits), c \in CodeUnits : x = <<c>> \o u
    <3>1. x = <<>> \/ SecretFirst(s, x) \/ OtherFirst(s, x)
      BY <2>4, TextCases
    <3>2. ~SecretFirst(s, x)
      <4> SUFFICES ASSUME NEW u \in Seq(CodeUnits), x = s \o u, Len(u) \in Nat, Len(x) = Len(s) + Len(u) PROVE FALSE
        BY Zenon DEF SecretFirst
      <4>1. 1 \in 1..Len(x) /\ 1 \in 1..(Len(s) + Len(u)) /\ 1 <= Len(s) /\ s \in Seq(CodeUnits)
        BY <2>4
      <4>2. x[1] = s[1]
        BY <4>1, ConcatProperties
      <4> QED BY <2>2, <4>1, <4>2
    <3> QED BY <3>1, <3>2, Zenon DEF OtherFirst
  <2> QED BY <2>5, <2>6, <2>7
<1>2. Len(a) \in Nat
  BY LenProperties
<1> QED BY <1>1, <1>2

(* What more characters change at the start of a text.                     *)
LEMMA BeginsMore ==
  ASSUME NEW s \in Seq(CodeUnits), NEW t \in Seq(CodeUnits), NEW more \in Seq(CodeUnits),
         Begins(s, t \o more)
  PROVE  \A i \in 1..Len(s) : i <= Len(t) => t[i] = s[i]
<1> DEFINE z == t \o more
<1>1. Len(s) \in Nat /\ Len(t) \in Nat /\ Len(more) \in Nat
  BY LenProperties
<1>2. Len(z) = Len(t) + Len(more) /\ \A i \in 1..(Len(t) + Len(more)) : i <= Len(t) => z[i] = t[i]
  BY <1>1, ConcatProperties
<1>3. Begins(s, z)
  OBVIOUS
<1> HIDE DEF z
<1> SUFFICES ASSUME NEW i \in 1..Len(s), i <= Len(t) PROVE t[i] = s[i]
  OBVIOUS
<1>4. i \in 1..(Len(t) + Len(more))
  BY <1>1
<1>5. z[i] = s[i]
  BY <1>3 DEF Begins
<1> QED BY <1>2, <1>4, <1>5

LEMMA NoBeginning ==
  ASSUME NEW s, Apart(s), NEW t \in Seq(CodeUnits), NEW more \in Seq(CodeUnits),
         ~Begins(s, t), Len(s) <= Len(t)
  PROVE  ~Begins(s, t \o more)
<1> SUFFICES ASSUME Begins(s, t \o more) PROVE FALSE
  OBVIOUS
<1>1. Len(s) \in Nat /\ Len(t) \in Nat /\ s \in Seq(CodeUnits)
  BY ApartTypes, LenProperties
<1>2. \A i \in 1..Len(s) : i <= Len(t) => t[i] = s[i]
  BY <1>1, BeginsMore
<1>3. \A i \in 1..Len(s) : t[i] = s[i]
  BY <1>1, <1>2
<1> QED BY <1>3 DEF Begins

LEMMA NoBeginningShown ==
  ASSUME NEW s, Apart(s), NEW t \in Seq(CodeUnits), NEW r \in Seq(CodeUnits), NEW more \in Seq(CodeUnits),
         Shown(s, t, r), r # t, ~Begins(s, t)
  PROVE  ~Begins(s, r \o more)
<1> SUFFICES ASSUME Begins(s, r \o more) PROVE FALSE
  OBVIOUS
<1>1. Len(s) \in Nat /\ Len(t) \in Nat /\ Len(r) \in Nat /\ s \in Seq(CodeUnits)
  BY ApartTypes, LenProperties
<1>2. \A i \in 1..Len(s) : i <= Len(r) => r[i] = s[i]
  BY <1>1, BeginsMore
<1>3. \A i \in 1..Len(s) : s[i] # Replacement[1]
  BY DEF Apart
<1>4. CASE Len(s) <= Len(r)
  <2>1. Len(s) \in 0..Len(r)
    BY <1>1, <1>4
  <2>2. ~Replaced(r, Len(s))
    <3> SUFFICES ASSUME NEW j \in 1..Len(s), r[j] = Replacement[1] PROVE FALSE
      BY DEF Replaced
    <3>1. j <= Len(r)
      BY <1>1, <1>4
    <3> QED BY <1>2, <1>3, <3>1
  <2>3. Len(s) <= Len(t) /\ \A j \in 1..Len(s) : r[j] = t[j]
    BY <2>1, <2>2 DEF Shown
  <2>4. \A j \in 1..Len(s) : t[j] = s[j]
    BY <1>1, <1>2, <1>4, <2>3
  <2> QED BY <2>3, <2>4 DEF Begins
<1>5. CASE ~(Len(s) <= Len(r))
  <2>1. PICK j \in 1..Len(r) : r[j] = Replacement[1]
    BY DEF Shown, Replaced
  <2>2. j \in 1..Len(s) /\ j <= Len(r)
    BY <1>1, <1>5
  <2> QED BY <1>2, <1>3, <2>1, <2>2
<1> QED BY <1>4, <1>5

(* Where a redacted text is cut into p and q, and q has all the characters *)
(* of a secret but one, more characters change nothing of p, and what they *)
(* make of q is what they make of the text that q comes from.              *)
Keeps(s, x) ==
  \A p, q, more \in Seq(CodeUnits) :
    Replace(x, s) = p \o q /\ (p # <<>> => Len(s) <= Len(q) + 1)
      => Replace(x \o more, s) = p \o Replace(q \o more, s)

LEMMA KeepsWhole ==
  ASSUME NEW s, Apart(s), NEW u \in Seq(CodeUnits), Keeps(s, u), NEW more \in Seq(CodeUnits)
  PROVE  Replace(u \o more, s) = Replace(Replace(u, s) \o more, s)
<1> DEFINE r == Replace(u, s)
           n == <<>>
           w == Replace(r \o more, s)
<1>1. r \in Seq(CodeUnits)
  BY ApartTypes, ReplaceType
<1> HIDE DEF r
<1>2. w \in Seq(CodeUnits)
  BY <1>1, ApartTypes, ConcatProperties, ReplaceType
<1> HIDE DEF w
<1>3. n \in Seq(CodeUnits) /\ n = <<>> /\ n \o r = r /\ n \o w = w
  BY <1>1, <1>2, ConcatEmptySeq
<1> HIDE DEF n
<1>4. Replace(u, s) = n \o r
  BY <1>3 DEF r
<1>5. Replace(u \o more, s) = n \o w
  BY <1>1, <1>3, <1>4, Zenon DEF Keeps, w
<1> QED BY <1>3, <1>5 DEF r, w

LEMMA KeepsSecret ==
  ASSUME NEW s, Apart(s), NEW u \in Seq(CodeUnits), Keeps(s, u)
  PROVE  Keeps(s, s \o u)
<1> SUFFICES ASSUME NEW p \in Seq(CodeUnits), NEW q \in Seq(CodeUnits), NEW more \in Seq(CodeUnits),
                    Replace(s \o u, s) = p \o q, p # <<>> => Len(s) <= Len(q) + 1
             PROVE  Replace((s \o u) \o more, s) = p \o Replace(q \o more, s)
  BY DEF Keeps
<1> DEFINE v == u \o more
           r == Replace(u, s)
           w == Replace(v, s)
           z == Replace(q \o more, s)
<1>1. /\ s \in Seq(CodeUnits) /\ s \in Seq(CodeUnits) \ {<<>>} /\ Len(s) \in Nat
      /\ Replacement \in Seq(CodeUnits) /\ Len(Replacement) \in Nat /\ Len(Replacement) # 0
  BY ApartTypes
<1>2. v \in Seq(CodeUnits) /\ r \in Seq(CodeUnits) /\ z \in Seq(CodeUnits)
  BY <1>1, ConcatProperties, ReplaceType
<1>3. (s \o u) \o more = s \o v
  <2>1. Associate(s, u, more)
    BY <1>1, Associates
  <2> QED BY <2>1, Zenon DEF Associate
<1>4. p \o q = Replacement \o r
  BY <1>1, ReplaceSteps
<1>5. Replace(s \o v, s) = Replacement \o w /\ w \in Seq(CodeUnits)
  <2> HIDE DEF v
  <2> QED BY <1>1, <1>2, ReplaceSteps, ReplaceType
<1>6. Len(p) \in Nat
  BY LenProperties
<1>7. CASE Len(Replacement) <= Len(p)
  <2>1. PICK e \in Seq(CodeUnits) : p = Replacement \o e /\ r = e \o q
    <3> HIDE DEF r
    <3>1. GoesOn(p, q, Replacement, r)
      BY <1>1, <1>2, <1>4, <1>7, ConcatSplit
    <3> QED BY <3>1, Zenon DEF GoesOn
  <2>2. p # <<>>
    BY <1>1, <1>6, <1>7, EmptySeq
  <2>3. w = e \o z
    BY <2>1, <2>2, Zenon DEF Keeps
  <2>4. Associate(Replacement, e, z)
    <3> HIDE DEF z
    <3> QED BY <1>1, <1>2, Associates
  <2> HIDE DEF v, w, z
  <2>5. Replacement \o w = p \o z
    BY <2>1, <2>3, <2>4, Zenon DEF Associate
  <2> QED BY <1>3, <1>5, <2>5, Zenon DEF z
<1>8. CASE ~(Len(Replacement) <= Len(p))
  <2>1. Len(p) <= Len(Replacement)
    BY <1>1, <1>6, <1>8
  <2>2. PICK e \in Seq(CodeUnits) : Replacement = p \o e /\ q = e \o r
    <3> HIDE DEF r
    <3>1. GoesOn(Replacement, r, p, q)
      BY <1>1, <1>2, <1>4, <2>1, ConcatSplit
    <3> QED BY <3>1, Zenon DEF GoesOn
  <2>3. w = Replace(r \o more, s)
    BY KeepsWhole
  <2>4. \A i \in 1..Len(e) : e[i] # s[1]
    <3> SUFFICES ASSUME NEW i \in 1..Len(e) PROVE e[i] # s[1]
      OBVIOUS
    <3>1. Len(e) \in Nat
      BY LenProperties
    <3>2. /\ Len(Replacement) = Len(p) + Len(e)
          /\ \A j \in 1..(Len(p) + Len(e)) : Replacement[j] = IF j <= Len(p) THEN p[j] ELSE e[j - Len(p)]
      BY <2>2, ConcatProperties
    <3>3. Len(p) + i \in 1..Len(Replacement) /\ Len(p) + i \in 1..(Len(p) + Len(e))
          /\ ~(Len(p) + i <= Len(p)) /\ (Len(p) + i) - Len(p) = i
      BY <1>6, <3>1, <3>2
    <3>4. Replacement[Len(p) + i] = e[i]
      BY <3>2, <3>3
    <3>5. Replacement[Len(p) + i] # s[1]
      BY <3>3 DEF Apart
    <3> QED BY <3>4, <3>5
  <2> DEFINE k == r \o more
  <2>5. k \in Seq(CodeUnits)
    <3> HIDE DEF r
    <3> QED BY <1>2, ConcatProperties
  <2>6. Associate(e, r, more) /\ Associate(p, e, w)
    <3> HIDE DEF r, w
    <3> QED BY <1>2, <1>5, Associates
  <2>7. w = Replace(k, s)
    BY <2>3
  <2> HIDE DEF r, k, w, v
  <2>8. q \o more = e \o k
    BY <2>2, <2>6, Zenon DEF Associate, k
  <2>9. Replace(e \o k, s) = e \o Replace(k, s)
    BY <2>4, <2>5, NothingToReplace
  <2>10. Replacement \o w = p \o (e \o w)
    BY <2>2, <2>6, Zenon DEF Associate
  <2> QED BY <1>3, <1>5, <2>7, <2>8, <2>9, <2>10, Zenon
<1> QED BY <1>7, <1>8

LEMMA KeepsOther ==
  ASSUME NEW s, Apart(s), NEW u \in Seq(CodeUnits), NEW c \in CodeUnits, Keeps(s, u), ~Begins(s, <<c>> \o u)
  PROVE  Keeps(s, <<c>> \o u)
<1> DEFINE h == <<c>>
           x == h \o u
           r == Replace(u, s)
           y == Replace(x, s)
<1> SUFFICES ASSUME NEW p \in Seq(CodeUnits), NEW q \in Seq(CodeUnits), NEW more \in Seq(CodeUnits),
                    y = p \o q, p # <<>> => Len(s) <= Len(q) + 1
             PROVE  Replace(x \o more, s) = p \o Replace(q \o more, s)
  BY DEF Keeps
<1> DEFINE v == u \o more
           w == Replace(v, s)
           z == Replace(q \o more, s)
<1>1. s \in Seq(CodeUnits) /\ s \in Seq(CodeUnits) \ {<<>>} /\ Len(s) \in Nat
  BY ApartTypes
<1>2. v \in Seq(CodeUnits) /\ r \in Seq(CodeUnits) /\ z \in Seq(CodeUnits)
  BY <1>1, ConcatProperties, ReplaceType
<1>3. w \in Seq(CodeUnits)
  <2> HIDE DEF v
  <2> QED BY <1>1, <1>2, ReplaceType
<1>4. h \in Seq(CodeUnits) /\ Len(h) = 1 /\ x \in Seq(CodeUnits) /\ Len(u) \in Nat /\ Len(x) = Len(u) + 1
  BY ConsIs
<1>5. x \o more = h \o v
  <2>1. Associate(h, u, more)
    <3> HIDE DEF h
    <3> QED BY <1>4, Associates
  <2> QED BY <2>1, Zenon DEF Associate
<1>6. y = h \o r
  BY <1>1, ReplaceSteps
<1>7. Shown(s, x, y) /\ Shown(s, u, r) /\ y \in Seq(CodeUnits)
  <2> HIDE DEF x
  <2> QED BY <1>1, <1>4, ReplaceShows, ReplaceType
<1>8. ~Begins(s, x)
  OBVIOUS
<1>9. ASSUME NEW k \in Seq(CodeUnits), ~Begins(s, h \o k) PROVE Replace(h \o k, s) = h \o Replace(k, s)
  BY <1>1, <1>9, ReplaceSteps
<1> HIDE DEF h, x, y
<1>10. ASSUME Len(s) <= Len(x) PROVE Replace(x \o more, s) = h \o w
  <2>1. ~Begins(s, x \o more)
    BY <1>4, <1>8, <1>10, NoBeginning
  <2> HIDE DEF v
  <2> QED BY <1>2, <1>5, <1>9, <2>1
<1>11. CASE p # <<>>
  <2>1. PICK e \in Seq(CodeUnits) : p = h \o e /\ r = e \o q
    <3>1. Len(p) \in Nat /\ Len(p) # 0
      BY <1>11, LenProperties, EmptySeq
    <3>2. Len(h) <= Len(p)
      BY <1>4, <3>1
    <3> HIDE DEF r
    <3>3. p \o q = h \o r
      BY <1>6
    <3>4. GoesOn(p, q, h, r)
      BY <1>2, <1>4, <3>2, <3>3, ConcatSplit
    <3> QED BY <3>4, Zenon DEF GoesOn
  <2>2. w = e \o z
    BY <1>11, <2>1, Zenon DEF Keeps
  <2>3. Len(s) <= Len(x)
    <3> SUFFICES ASSUME Len(x) < Len(s) PROVE FALSE
      BY <1>1, <1>4
    <3>1. r = u
      <4>1. Len(u) < Len(s)
        BY <1>1, <1>4
      <4> QED BY <1>7, <4>1 DEF Shown
    <3> HIDE DEF r
    <3>2. Len(e) \in Nat /\ Len(q) \in Nat /\ Len(r) = Len(e) + Len(q)
      BY <2>1, LenProperties, ConcatProperties
    <3> QED BY <1>1, <1>4, <1>11, <3>1, <3>2
  <2>4. Associate(h, e, z)
    <3> HIDE DEF z
    <3> QED BY <1>2, <1>4, Associates
  <2>5. Replace(x \o more, s) = h \o w
    BY <1>10, <2>3
  <2> HIDE DEF v, w, z
  <2>6. h \o w = p \o z
    BY <2>1, <2>2, <2>4, Zenon DEF Associate
  <2> QED BY <2>5, <2>6, Zenon DEF z
<1>12. CASE p = <<>>
  <2>1. q = y
    BY <1>12, ConcatEmptySeq
  <2>2. p \o z = z
    <3> HIDE DEF z
    <3> QED BY <1>2, <1>12, ConcatEmptySeq
  <2>3. CASE y = x
    BY <2>1, <2>2, <2>3
  <2>4. CASE y # x
    <3>1. Len(s) <= Len(x)
      <4>1. ~(Len(x) < Len(s))
        BY <1>7, <2>4 DEF Shown
      <4> QED BY <1>1, <1>4, <4>1
    <3> DEFINE k == r \o more
    <3>2. k \in Seq(CodeUnits)
      <4> HIDE DEF r
      <4> QED BY <1>2, ConcatProperties
    <3>3. w = Replace(k, s)
      BY KeepsWhole
    <3>4. ~Begins(s, y \o more)
      BY <1>4, <1>7, <1>8, <2>4, NoBeginningShown
    <3>5. Associate(h, r, more)
      <4> HIDE DEF r
      <4> QED BY <1>2, <1>4, Associates
    <3> HIDE DEF r, w, v
    <3>6. y \o more = h \o k
      BY <1>6, <3>5, Zenon DEF Associate
    <3> HIDE DEF k
    <3>7. Replace(h \o k, s) = h \o Replace(k, s)
      BY <1>9, <3>2, <3>4, <3>6, Zenon
    <3>8. Replace(x \o more, s) = h \o w
      BY <1>10, <3>1
    <3> QED BY <2>1, <2>2, <3>3, <3>6, <3>7, <3>8, Zenon
  <2> QED BY <2>3, <2>4
<1> QED BY <1>11, <1>12

LEMMA KeepsEmpty == ASSUME NEW s, Apart(s) PROVE Keeps(s, <<>>)
<1> DEFINE n == <<>>
<1>1. s \in Seq(CodeUnits) \ {<<>>} /\ n \in Seq(CodeUnits) /\ Replace(n, s) = n /\ Len(n) = 0
  BY ApartTypes, ReplaceSteps, EmptySeq
<1>2. \A t \in Seq(CodeUnits) : n \o t = t /\ (Len(t) = 0 => t = n)
  BY ConcatEmptySeq, EmptySeq
<1> HIDE DEF n
<1>3. Keeps(s, n)
  <2> SUFFICES ASSUME NEW p \in Seq(CodeUnits), NEW q \in Seq(CodeUnits), NEW more \in Seq(CodeUnits), Replace(n, s) = p \o q
               PROVE  Replace(n \o more, s) = p \o Replace(q \o more, s)
    BY DEF Keeps
  <2> DEFINE z == p \o q
  <2>1. Len(p) \in Nat /\ Len(q) \in Nat /\ Len(z) = Len(p) + Len(q)
    BY LenProperties, ConcatProperties
  <2>2. z = n
    BY <1>1
  <2> HIDE DEF z
  <2>3. p = n /\ q = n
    <3>1. Len(z) = 0
      BY <1>1, <2>2
    <3>2. Len(p) = 0 /\ Len(q) = 0
      <4> DEFINE l == Len(p)
                 m == Len(q)
      <4>1. l \in Nat /\ m \in Nat /\ l + m = 0
        BY <2>1, <3>1
      <4> HIDE DEF l, m
      <4>2. l = 0 /\ m = 0
        BY <4>1
      <4> QED BY <4>2 DEF l, m
    <3> QED BY <1>2, <3>2, Zenon
  <2>4. n \o more = more /\ n \o Replace(more, s) = Replace(more, s)
    BY <1>1, <1>2, ReplaceType
  <2>5. Replace(n \o more, s) = p \o Replace(q \o more, s)
    <3> SUFFICES Replace(n \o more, s) = n \o Replace(n \o more, s)
      BY <2>3
    <3> QED BY <2>4
  <2> QED BY <2>5
<1> QED BY <1>3 DEF n

LEMMA KeepsAlways ==
  ASSUME NEW s, Apart(s), NEW t \in Seq(CodeUnits)
  PROVE  Keeps(s, t)
<1> DEFINE Bad == {n \in Nat : \E x \in Seq(CodeUnits) : Len(x) = n /\ ~Keeps(s, x)}
<1>1. Bad = {}
  <2> SUFFICES ASSUME Bad # {} PROVE FALSE
    OBVIOUS
  <2>1. PICK m \in Bad : \A n \in Bad : m <= n
    <3>1. Bad \in SUBSET Nat
      OBVIOUS
    <3> HIDE DEF Bad
    <3> QED BY <3>1, LeastNumber
  <2>2. PICK x \in Seq(CodeUnits) : Len(x) = m /\ ~Keeps(s, x)
    BY <2>1
  <2>3. ASSUME NEW u \in Seq(CodeUnits), Len(u) \in Nat, Len(u) < m PROVE Keeps(s, u)
    BY <2>1, <2>3
  <2> HIDE DEF Bad
  <2>4. s \in Seq(CodeUnits) \ {<<>>} /\ Len(s) \in Nat /\ Len(s) # 0
    BY ApartTypes
  <2>5. x # <<>>
    BY <2>2, KeepsEmpty
  <2>6. ASSUME NEW u \in Seq(CodeUnits), x = s \o u, Len(u) \in Nat, Len(u) < Len(x) PROVE FALSE
    BY <2>2, <2>3, <2>6, KeepsSecret
  <2>7. ASSUME NEW u \in Seq(CodeUnits), NEW c \in CodeUnits, x = <<c>> \o u, ~Begins(s, x),
               Len(x) = Len(u) + 1, Len(u) \in Nat
        PROVE  FALSE
    <3>1. Len(u) < m
      BY <2>2, <2>7
    <3> QED BY <2>2, <2>3, <2>7, <3>1, KeepsOther
  <2>8. x = <<>> \/ SecretFirst(s, x) \/ OtherFirst(s, x)
    BY <2>4, TextCases
  <2> QED BY ONLY <2>5, <2>6, <2>7, <2>8, Zenon DEF SecretFirst, OtherFirst
<1>2. Len(t) \in Nat
  BY LenProperties
<1> QED BY <1>1, <1>2

-----------------------------------------------------------------------------
(* A task with at most one secret, that is not longer than what can be     *)
(* held back and has nothing to do with what replaces it.                  *)
AtMostOneSecret ==
  Secrets = <<>> \/ (Len(Secrets) = 1 /\ Apart(Secrets[1]) /\ Len(Secrets[1]) <= TailCap + 1)

LEMMA RedactNone == Secrets = <<>> => \A t : RedactOnce(t) = t
<1> SUFFICES ASSUME Secrets = <<>>, NEW t PROVE RedactOnce(t) = t
  OBVIOUS
<1> DEFINE l == Len(Secrets)
           Is(h) == IsRedacted(h, t, l)
           f == CHOOSE h : Is(h)
<1>1. l = 0
  OBVIOUS
<1>2. Is(f)
  <2>1. \E h : Is(h)
    <3> HIDE DEF l
    <3>1. l \in Nat
      BY <1>1
    <3> QED BY <3>1, RedactedExists
  <2> HIDE DEF Is
  <2> QED BY <2>1, Zenon
<1>3. RedactOnce(t) = f[l]
  BY Zenon DEF RedactOnce, IsRedacted, Redacted
<1> HIDE DEF f, l
<1>4. f[0] = Redacted(f, t, 0)
  BY <1>1, <1>2 DEF IsRedacted
<1> QED BY <1>1, <1>3, <1>4 DEF Redacted

LEMMA RedactOne == Len(Secrets) = 1 => \A t : RedactOnce(t) = Replace(t, Secrets[1])
<1> SUFFICES ASSUME Len(Secrets) = 1, NEW t PROVE RedactOnce(t) = Replace(t, Secrets[1])
  OBVIOUS
<1> DEFINE l == Len(Secrets)
           Is(h) == IsRedacted(h, t, l)
           f == CHOOSE h : Is(h)
<1>1. l = 1
  OBVIOUS
<1>2. Is(f)
  <2>1. \E h : Is(h)
    <3> HIDE DEF l
    <3>1. l \in Nat
      BY <1>1
    <3> QED BY <3>1, RedactedExists
  <2> HIDE DEF Is
  <2> QED BY <2>1, Zenon
<1>3. RedactOnce(t) = f[l]
  BY Zenon DEF RedactOnce, IsRedacted, Redacted
<1> HIDE DEF f, l
<1>4. f[0] = Redacted(f, t, 0) /\ f[1] = Redacted(f, t, 1)
  BY <1>1, <1>2 DEF IsRedacted
<1>5. f[0] = t
  BY <1>4 DEF Redacted
<1>6. f[1] = Replace(f[0], Secrets[1])
  <2>1. 1 - 1 = 0 /\ 1 # 0
    OBVIOUS
  <2> QED BY <1>4, <2>1 DEF Redacted
<1> QED BY <1>1, <1>3, <1>5, <1>6

(* As much of a text is held back as a secret has characters but one, or   *)
(* all of it.                                                              *)
LEMMA HoldOne ==
  ASSUME Len(Secrets) = 1, Apart(Secrets[1]), Len(Secrets[1]) <= TailCap + 1, NEW t \in Seq(CodeUnits)
  PROVE  HoldCount(t) = Len(t) \/ Len(Secrets[1]) <= HoldCount(t) + 1
<1> DEFINE n == Len(Secrets[1])
           D == {DOMAIN s : s \in ToSet(Secrets)}
<1>1. n \in Nat /\ n # 0 /\ DOMAIN Secrets[1] = 1..n /\ TailCap \in Nat /\ Len(t) \in Nat
  BY ApartTypes, LenProperties, LogTypes
<1>2. ToSet(Secrets) = {Secrets[1]}
  <2>1. DOMAIN Secrets = 1..1
    BY LogTypes, LenProperties
  <2>2. \A i \in 1..1 : i = 1
    OBVIOUS
  <2>3. 1 \in 1..1
    OBVIOUS
  <2> QED BY <2>1, <2>2, <2>3, Zenon DEF ToSet
<1>3. MaxSecretLength = n
  <2>1. {1} \cup UNION D = 1..n
    <3>1. D = {1..n}
      BY <1>1, <1>2, Zenon
    <3>2. 1 \in 1..n
      BY <1>1
    <3> HIDE DEF D, n
    <3>3. UNION D = 1..n
      BY <3>1, Zenon
    <3> QED BY <3>2, <3>3, Zenon
  <2>2. MaxSecretLength = Cardinality({1} \cup UNION D)
    BY Zenon DEF MaxSecretLength
  <2> HIDE DEF D, n
  <2>3. Cardinality(1..n) = n
    <3>1. 1 \in Int /\ n \in Int /\ ~(1 > n) /\ n - 1 + 1 = n
      BY <1>1
    <3> QED BY <3>1, FS_Interval
  <2> QED BY <2>1, <2>2, <2>3
<1> DEFINE S == {Len(t), n - 1, TailCap}
<1>4. HoldCount(t) = Least(S)
  BY <1>3, Zenon DEF HoldCount
<1> HIDE DEF n
<1>5. S \in SUBSET Nat /\ S # {}
  BY <1>1
<1>6. Least(S) \in S
  <2> HIDE DEF S
  <2> QED BY <1>5, LeastIn
<1>7. n <= TailCap + 1
  BY DEF n
<1>8. HoldCount(t) = Len(t) \/ HoldCount(t) = n - 1 \/ HoldCount(t) = TailCap
  BY <1>4, <1>6
<1>9. HoldCount(t) = Len(t) \/ n <= HoldCount(t) + 1
  BY <1>1, <1>7, <1>8
<1> QED BY <1>9 DEF n

LEMMA HoldsEnough ==
  ASSUME AtMostOneSecret, NEW x \in Seq(CodeUnits), NEW r, r = RedactOnce(x), NEW more \in Seq(CodeUnits)
  PROVE  RedactOnce(x \o more) = Written(r) \o RedactOnce(HeldBack(r) \o more)
<1> DEFINE p == Written(r)
           q == HeldBack(r)
<1>1. r \in Seq(CodeUnits)
  BY RedactOnceType
<1>2. /\ p \in Seq(CodeUnits) /\ q \in Seq(CodeUnits) /\ r = p \o q
      /\ Len(q) = HoldCount(r) /\ Len(p) = Len(r) - HoldCount(r)
  BY <1>1, WrittenIs
<1> HIDE DEF p, q
<1>3. CASE Secrets = <<>>
  <2>1. r = x /\ RedactOnce(x \o more) = x \o more /\ RedactOnce(q \o more) = q \o more
    BY <1>3, RedactNone
  <2>2. Associate(p, q, more)
    BY <1>2, Associates
  <2> QED BY <1>2, <2>1, <2>2, Zenon DEF Associate, p, q
<1>4. CASE Len(Secrets) = 1 /\ Apart(Secrets[1]) /\ Len(Secrets[1]) <= TailCap + 1
  <2> DEFINE s == Secrets[1]
  <2>1. Apart(s) /\ Len(s) \in Nat
    BY <1>4, ApartTypes
  <2>2. HoldCount(r) = Len(r) \/ Len(s) <= HoldCount(r) + 1
    BY <1>1, <1>4, HoldOne
  <2>3. \A t : RedactOnce(t) = Replace(t, s)
    BY <1>4, RedactOne
  <2> HIDE DEF s
  <2>4. p # <<>> => Len(s) <= Len(q) + 1
    <3>1. Len(r) \in Nat
      BY <1>1, LenProperties
    <3>2. HoldCount(r) = Len(r) => Len(p) = 0
      BY <1>2, <3>1
    <3>3. HoldCount(r) = Len(r) => p = <<>>
      BY <1>2, <3>2, EmptySeq
    <3> QED BY <1>2, <2>2, <3>3
  <2>5. Keeps(s, x)
    BY <2>1, KeepsAlways
  <2>6. Replace(x, s) = p \o q
    BY <1>2, <2>3
  <2>7. Replace(x \o more, s) = p \o Replace(q \o more, s)
    BY <1>2, <2>4, <2>5, <2>6, Zenon DEF Keeps
  <2> QED BY <2>3, <2>7, Zenon DEF p, q
<1> QED BY <1>3, <1>4 DEF AtMostOneSecret

(* What the redactor has let go, with what is still held back and all that *)
(* may come, redacted, is what the whole of the text would be.             *)
OutInv ==
  /\ written \in Seq(CodeUnits)
  /\ closed => written = RedactOnce(text)
  /\ ~closed => \A more \in Seq(CodeUnits) :
                  RedactOnce(text \o more) = written \o RedactOnce(buffer \o more)

(* The log holds it, as long as no pair has been cut in two.               *)
PairsInv == ~split => log = Bytes(FromUnits(written)) /\ ~EndsWithin(written)

(* Nothing is added to a text by the text without code units; a sequence   *)
(* begins with its first part.                                             *)
LEMMA WholeText ==
  ASSUME LogInv, OutInv, ~closed
  PROVE  RedactOnce(buffer) \in Seq(CodeUnits) /\ RedactOnce(text) = written \o RedactOnce(buffer)
<1> DEFINE n == <<>>
<1>1. text \in Seq(CodeUnits) /\ buffer \in Seq(CodeUnits)
  BY DEF LogInv
<1>2. n \in Seq(CodeUnits) /\ text \o n = text /\ buffer \o n = buffer
  BY <1>1, EmptySeq, ConcatEmptySeq
<1> HIDE DEF n
<1>3. RedactOnce(text \o n) = written \o RedactOnce(buffer \o n)
  BY <1>2, Zenon DEF OutInv
<1>4. RedactOnce(buffer) \in Seq(CodeUnits)
  BY <1>1, RedactOnceType
<1> QED BY <1>2, <1>3, <1>4

LEMMA StartOfConcat ==
  ASSUME NEW S, NEW a \in Seq(S), NEW b \in Seq(S)
  PROVE  IsPrefix(a, a \o b)
<1> DEFINE c == a \o b
           x == SubSeq(a, 1, Len(a))
           y == SubSeq(c, 1, Len(a))
<1>1. Len(a) \in Nat /\ Len(b) \in Nat
  BY LenProperties
<1>2. c \in Seq(S) /\ Len(c) = Len(a) + Len(b) /\ \A i \in 1..Len(a) : c[i] = a[i]
  BY <1>1, ConcatProperties
<1> HIDE DEF c
<1>3. Len(a) \in 0..Len(a) /\ Len(a) \in 0..Len(c)
  BY <1>1, <1>2
<1>4. /\ x \in Seq(S) /\ Len(x) = Len(a) /\ \A i \in 1..Len(a) : x[i] = a[i]
      /\ y \in Seq(S) /\ Len(y) = Len(a) /\ \A i \in 1..Len(a) : y[i] = c[i]
  BY <1>2, <1>3, FirstOf
<1> HIDE DEF x, y
<1>5. x = y
  BY <1>2, <1>4, SeqEqual
<1>6. Len(a) <= Len(c)
  BY <1>1, <1>2
<1> QED BY <1>5, <1>6 DEF IsPrefix, x, y, c

(* Units that end no pair in two leave none in two.                        *)
LEMMA WholeConcat ==
  ASSUME NEW u \in Seq(CodeUnits), NEW v \in Seq(CodeUnits), ~EndsWithin(u), ~EndsWithin(v)
  PROVE  ~EndsWithin(u \o v)
<1> DEFINE w == u \o v
<1>1. CASE v = <<>>
  <2>1. w = u
    BY <1>1, ConcatEmptySeq
  <2> QED BY <2>1
<1>2. CASE v # <<>>
  <2>1. Len(u) \in Nat /\ Len(v) \in Nat /\ Len(v) # 0
    BY <1>2, LenProperties, EmptySeq
  <2>2. Len(w) = Len(u) + Len(v) /\ \A i \in 1..Len(v) : w[Len(u) + i] = v[i]
    BY <2>1, ConcatProperties
  <2> HIDE DEF w
  <2>3. w[Len(w)] = v[Len(v)]
    BY <2>1, <2>2
  <2>4. ~EndsWithin(w)
    BY <1>2, <2>3 DEF EndsWithin
  <2> QED BY <2>4 DEF w
<1> QED BY <1>1, <1>2

LEMMA PairsInvEmit ==
  ASSUME OutInv, PairsInv, NEW u \in Seq(CodeUnits), Emit(u)
  PROVE  PairsInv' /\ written' \in Seq(CodeUnits)
<1>1. written \in Seq(CodeUnits)
  BY DEF OutInv
<1>2. /\ written' = written \o u /\ log' = log \o Bytes(FromUnits(u))
      /\ split' = (split \/ EndsWithin(u))
  BY DEF Emit
<1>3. ASSUME ~split' PROVE log' = Bytes(FromUnits(written')) /\ ~EndsWithin(written')
  <2>1. ~split /\ ~EndsWithin(u)
    BY <1>2, <1>3
  <2>2. log = Bytes(FromUnits(written)) /\ ~EndsWithin(written)
    BY <2>1 DEF PairsInv
  <2>3. FromUnits(written \o u) = FromUnits(written) \o FromUnits(u)
    BY <1>1, <2>2, FromUnitsConcat
  <2>4. Bytes(FromUnits(written) \o FromUnits(u)) = Bytes(FromUnits(written)) \o Bytes(FromUnits(u))
    BY <1>1, FromUnitsType, BytesConcat
  <2>5. ~EndsWithin(written \o u)
    BY <1>1, <2>1, <2>2, WholeConcat
  <2> QED BY <1>2, <2>2, <2>3, <2>4, <2>5, Zenon
<1>4. written' \in Seq(CodeUnits)
  BY <1>1, <1>2, ConcatProperties
<1> QED BY <1>3, <1>4 DEF PairsInv

LEMMA OutInvInit == LogInit => OutInv /\ PairsInv
<1> SUFFICES ASSUME LogInit PROVE OutInv /\ PairsInv
  OBVIOUS
<1> DEFINE n == <<>>
<1>1. ~closed /\ log = n /\ written = n /\ text = n /\ buffer = n
  BY DEF LogInit
<1>2. /\ n \in Seq(CodeUnits) /\ \A t \in Seq(CodeUnits) : n \o t = t
  BY EmptySeq, ConcatEmptySeq
<1>3. Bytes(FromUnits(n)) = n /\ ~EndsWithin(n)
  <2>1. Len(OfUnits(n)) = 0 /\ OfUnits(n) \in Seq(Seq(Chars))
    BY <1>2, OfUnitsAre, EmptySeq
  <2>2. OfUnits(n) = <<>>
    BY <2>1, EmptySeq
  <2>3. FromUnits(n) = <<>>
    <3>1. FlattenSeq(<<>>) = <<>>
      BY DEF FlattenSeq
    <3> QED BY <2>2, <3>1 DEF FromUnits, OfUnits
  <2> QED BY <2>3, BytesAre DEF EndsWithin
<1> HIDE DEF n
<1>4. \A more \in Seq(CodeUnits) : RedactOnce(n \o more) = n \o RedactOnce(n \o more)
  <2> SUFFICES ASSUME NEW more \in Seq(CodeUnits) PROVE RedactOnce(n \o more) = n \o RedactOnce(n \o more)
    OBVIOUS
  <2> DEFINE r == RedactOnce(n \o more)
  <2>1. r \in Seq(CodeUnits)
    BY <1>2, RedactOnceType
  <2> HIDE DEF r
  <2>2. n \o r = r
    BY <1>2, <2>1
  <2> QED BY <2>2 DEF r
<1>5. OutInv
  BY <1>1, <1>2, <1>4, Zenon DEF OutInv
<1>6. PairsInv
  BY <1>1, <1>3 DEF PairsInv
<1> QED BY <1>5, <1>6

LEMMA OutInvPush ==
  ASSUME AtMostOneSecret, LogInv, OutInv, PairsInv, NEW n \in 1..(Len(output) - sent), Push(n)
  PROVE  OutInv' /\ PairsInv'
<1>1. PICK t, r : PushedAs(t, r)
  BY PushIs
<1> DEFINE p == Written(r)
           q == HeldBack(r)
           x == buffer \o t
<1>2. /\ t \in Seq(CodeUnits) /\ r \in Seq(CodeUnits) /\ r = RedactOnce(x)
      /\ Emit(p) /\ buffer' = q /\ text' = text \o t
  BY <1>1, Zenon DEF PushedAs
<1>3. p \in Seq(CodeUnits) /\ q \in Seq(CodeUnits)
  BY <1>2, WrittenIs
<1>4. text \in Seq(CodeUnits) /\ buffer \in Seq(CodeUnits) /\ written \in Seq(CodeUnits)
  BY DEF LogInv, OutInv
<1>5. ~closed /\ closed' = closed
  BY DEF Push
<1>6. PairsInv' /\ written' \in Seq(CodeUnits) /\ written' = written \o p
  BY <1>2, <1>3, PairsInvEmit DEF Emit
<1>7. x \in Seq(CodeUnits)
  BY <1>2, <1>4, ConcatProperties
<1>8. ASSUME NEW more \in Seq(CodeUnits)
      PROVE  RedactOnce((text \o t) \o more) = (written \o p) \o RedactOnce(q \o more)
  <2> DEFINE y == t \o more
             z == RedactOnce(q \o more)
  <2>1. y \in Seq(CodeUnits)
    BY <1>2, ConcatProperties
  <2>2. z \in Seq(CodeUnits)
    BY <1>3, ConcatProperties, RedactOnceType
  <2>3. (text \o t) \o more = text \o y /\ x \o more = buffer \o y
    <3>1. Associate(text, t, more) /\ Associate(buffer, t, more)
      BY <1>2, <1>4, Associates
    <3> QED BY <3>1, Zenon DEF Associate
  <2>4. RedactOnce(text \o y) = written \o RedactOnce(buffer \o y)
    <3> HIDE DEF y
    <3> QED BY <1>5, <2>1, Zenon DEF OutInv
  <2>5. RedactOnce(x \o more) = p \o z
    <3> HIDE DEF x
    <3> QED BY <1>2, <1>7, HoldsEnough
  <2> HIDE DEF x, y, z, p
  <2>6. (written \o p) \o z = written \o (p \o z)
    <3>1. Associate(written, p, z)
      BY <1>3, <1>4, <2>2, Associates
    <3> QED BY <3>1, Zenon DEF Associate
  <2>7. RedactOnce((text \o t) \o more) = (written \o p) \o z
    BY <2>3, <2>4, <2>5, <2>6, Zenon
  <2> QED BY <2>7, Zenon DEF p, z
<1> HIDE DEF q, p, x
<1>9. \A more \in Seq(CodeUnits) : RedactOnce(text' \o more) = written' \o RedactOnce(buffer' \o more)
  BY <1>2, <1>6, <1>8, Zenon
<1>10. OutInv'
  BY <1>5, <1>6, <1>9, Zenon DEF OutInv
<1> QED BY <1>6, <1>10

LEMMA OutInvFinalize ==
  ASSUME LogInv, OutInv, PairsInv, Finalize
  PROVE  OutInv' /\ PairsInv'
<1>1. PICK r \in {RedactOnce(buffer)} : Emit(r)
  BY Zenon DEF Finalize
<1>2. ~closed /\ closed' = TRUE /\ text' = text
  BY DEF Finalize
<1>3. r \in Seq(CodeUnits) /\ RedactOnce(text) = written \o r
  BY <1>1, <1>2, WholeText
<1>4. PairsInv' /\ written' \in Seq(CodeUnits) /\ written' = written \o r
  BY <1>1, <1>3, PairsInvEmit DEF Emit
<1>5. written' = RedactOnce(text')
  BY <1>2, <1>3, <1>4
<1> QED BY <1>2, <1>4, <1>5 DEF OutInv

LEMMA OutInvNext ==
  ASSUME AtMostOneSecret, LogInv, OutInv, PairsInv, [LogNext]_logVars
  PROVE  OutInv' /\ PairsInv'
<1>1. CASE Pushes
  BY <1>1, OutInvPush DEF Pushes
<1>2. CASE Finalize
  BY <1>2, OutInvFinalize
<1>3. CASE UNCHANGED <<closed, written, split, log, text, buffer>>
  BY <1>3, Zenon DEF OutInv, PairsInv
<1>4. CASE ReadDevelopmentTaskLogs
  BY <1>3, <1>4 DEF ReadDevelopmentTaskLogs, pipe
<1>5. CASE UNCHANGED logVars
  BY <1>3, <1>5 DEF logVars, pipe
<1> QED BY <1>1, <1>2, <1>4, <1>5 DEF LogNext

LEMMA OutInvOutput == LogInv /\ OutInv /\ PairsInv => LogIsOutput
<1> SUFFICES ASSUME LogInv, OutInv, PairsInv PROVE LogIsOutput
  OBVIOUS
<1>1. written \in Seq(CodeUnits)
  BY DEF OutInv
<1>2. IsPrefix(written, RedactOnce(text))
  <2>1. CASE closed
    <3>1. IsPrefix(written, written)
      BY <1>1, LenProperties DEF IsPrefix
    <3> QED BY <2>1, <3>1 DEF OutInv
  <2>2. CASE ~closed
    <3> DEFINE r == RedactOnce(buffer)
    <3>1. r \in Seq(CodeUnits) /\ RedactOnce(text) = written \o r
      BY <2>2, WholeText
    <3> HIDE DEF r
    <3>2. IsPrefix(written, written \o r)
      BY <1>1, <3>1, StartOfConcat
    <3> QED BY <3>1, <3>2
  <2> QED BY <2>1, <2>2
<1> QED BY <1>2 DEF OutInv, PairsInv, LogIsOutput

(* With at most one secret, whatever it is and however the pipe cuts the   *)
(* output, also within the secret: what the redactor lets go is the text   *)
(* that has arrived, redacted as a whole, up to what is held back, and all *)
(* of it once the log is closed; and the log holds it, unless a pair of    *)
(* code units has been cut in two.                                         *)
THEOREM SplitSecretMatched == AtMostOneSecret => (LogSpec => []LogIsOutput)
<1> SUFFICES ASSUME AtMostOneSecret PROVE LogSpec => []LogIsOutput
  OBVIOUS
<1>1. LogInit => LogInv /\ OutInv /\ PairsInv
  BY LogInvInit, OutInvInit
<1>2. LogInv /\ OutInv /\ PairsInv /\ [LogNext]_logVars => (LogInv /\ OutInv /\ PairsInv)'
  <2>1. LogInv /\ [LogNext]_logVars => LogInv'
    BY LogInvNext
  <2> QED BY <2>1, OutInvNext
<1>3. LogInv /\ OutInv /\ PairsInv => LogIsOutput
  BY OutInvOutput
<1> QED BY <1>1, <1>2, <1>3, PTL DEF LogSpec
=============================================================================
