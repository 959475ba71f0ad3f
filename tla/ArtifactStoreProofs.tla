------------------------ MODULE ArtifactStoreProofs -------------------------
(***************************************************************************)
(* Proofs about ArtifactStore, for every artifact, any number of uploads   *)
(* and downloads, all limits and all scenarios.                            *)
(***************************************************************************)
EXTENDS ArtifactStore, BasicLemmas

(* What the steps of a call may rely on: the client's claims, the session  *)
(* the call is about, and that no download goes on in its directory.       *)
OfId == {"begin", "import", "append", "commit"}

Asked ==
  /\ at.step = "idle" => at = Idle
  /\ at.op \in OfId => at.id \in used /\ at.id \notin DOMAIN importing
  /\ at.op = "begin" => at.arg \in scenario.declared
  /\ at.op = "begin" => at.step \in {"stage", "content", "session", "discard"}
  /\ at.op = "import" => session[at.id] = None
  /\ at.step \in {"stage", "content"} /\ at.op # "begin" => at.op = "import" /\ at.arg \in scenario.imports
  /\ at.step \in {"stage", "content", "session"} => at.op \in OfId /\ session[at.id] = None
  /\ at.step \in {"content", "session"} => at.id \in dirs
  /\ at.step = "session" => at.op = "begin" /\ content[at.id] = <<>>

Uploads ==
  /\ at.step \in {"bytes", "count"} =>
       /\ at.op = "append" /\ session[at.id] # None /\ ~session[at.id].committed
       /\ session[at.id].next < Len(Pieces)
       /\ at.arg \in scenario.strays \cup {Pieces[session[at.id].next + 1]}
       /\ session[at.id].written + Len(at.arg) <= session[at.id].claim.size
  /\ at.step = "mark" => at.op = "commit"
  /\ at.step \in {"promote", "object", "move", "describe"} => at.op \in {"import", "commit"}
  /\ at.step = "discard" => at.op \in OfId
  /\ at.op = "commit" =>
       /\ session[at.id] # None /\ session[at.id].written = session[at.id].claim.size
       /\ at.step \in {"mark", "promote"} => at.arg = session[at.id].claim
       /\ at.step # "mark" => session[at.id].committed

Downloads ==
  \A id \in DOMAIN importing :
    session[id] = None /\ importing[id] \in [claim : scenario.imports, received : Nat]

(* What is promoted is in the store before it is described, and what is    *)
(* copied into a project is in the store.                                  *)
InStore ==
  /\ at.step \in {"object", "move"} => content[at.id] # None
  /\ at.step = "move" => content[at.id] \in DOMAIN objects
  /\ at.step = "describe" => at.arg \in DOMAIN objects /\ objects[at.arg] = at.arg
  /\ at.step \in {"copy", "backup", "place"} =>
       at.op = "materialize" /\ at.arg \in DOMAIN objects /\ Complete(at.arg)
  /\ at.step = "place" => target = None

StagingInv == TypeOK /\ Asked /\ Uploads /\ Downloads /\ InStore

(* A staging directory belongs to a session, to a download or to the call. *)
Quiet == scenario.faults \subseteq {"torn", "short"}

Belongs(id) ==
  session[id] # None \/ id \in DOMAIN importing \/ (at.id = id /\ at.op \in {"begin", "import"})

Owned == Quiet => \A id \in dirs : Belongs(id)

(* Where the client keeps the order, the content of a session is longer    *)
(* than what has been counted, or it is what has been counted.             *)
Honest ==
  /\ scenario.strays = {} /\ \A d \in scenario.declared : d.size = Len(Artifact)
  /\ scenario.faults \subseteq {"crash", "error", "torn"}

Holds(c, n) == Len(c) >= Len(Upto[n]) /\ (Len(c) = Len(Upto[n]) => c = Upto[n])

Matches(id) ==
  /\ session[id].claim \in scenario.declared
  /\ session[id].written = Len(Upto[session[id].next])
  /\ content[id] = None => session[id].committed
  /\ content[id] # None => Holds(content[id], session[id].next)

Counted ==
  /\ \A id \in Ids : session[id] # None => Matches(id)
  /\ at.step = "count" => Holds(content[at.id], session[at.id].next + 1)
  /\ at.op = "commit" /\ at.step \in {"object", "move"} => content[at.id] = Artifact
  /\ at.op = "commit" /\ at.step = "describe" => at.arg = Artifact

HonestInv == Honest => Counted /\ \A x \in stored : x.op = "commit" => x.digest = Artifact

-----------------------------------------------------------------------------
(* Where the process stands is a record; a step goes to another or ends.   *)
Shape(a) == a = [step |-> a.step, op |-> a.op, id |-> a.id, arg |-> a.arg]

AtType(a) == a \in [step : Steps, op : Ops, id : used \cup {None}, arg : {a.arg}]

Going(s) == at'.step = s /\ at'.op = at.op /\ at'.id = at.id /\ at'.arg = at.arg /\ Shape(at')

LEMMA Goes ==
  ASSUME Shape(at), NEW s, s # "idle", Goto(s)
  PROVE  Going(s)
<1>1. at' = [at EXCEPT !.step = s]
  BY DEF Goto
<1>2. at' = [step |-> s, op |-> at.op, id |-> at.id, arg |-> at.arg]
  BY <1>1 DEF Shape
<1> QED BY <1>2 DEF Going, Shape

LEMMA AtTyped == ASSUME NEW a, Shape(a), a.step \in Steps, a.op \in Ops, a.id \in used \cup {None} PROVE AtType(a)
BY DEF Shape, AtType

LEMMA TypedAt == ASSUME NEW a, AtType(a) PROVE Shape(a) /\ a.step \in Steps /\ a.op \in Ops /\ a.id \in used \cup {None}
BY DEF Shape, AtType

LEMMA IdleAt == /\ Shape(Idle) /\ Idle.step = "idle" /\ Idle.op = "none" /\ Idle.id = None /\ Idle.arg = None
                /\ Idle.step \in Steps /\ Idle.op \in Ops
BY DEF Shape, Idle, Steps, Ops

-----------------------------------------------------------------------------
(* The parts of the type invariant.                                        *)
StagingTyped ==
  /\ dirs \subseteq used /\ used \subseteq Ids /\ late \subseteq used
  /\ content \in [Ids -> Seq(Nat) \cup {None}] /\ session \in [Ids -> SessionRecord \cup {None}]
  /\ \A id \in Ids :
       /\ content[id] # None \/ session[id] # None => id \in dirs
       /\ session[id] # None => session[id].written <= session[id].claim.size

Arrived ==
  \A id \in DOMAIN importing : id \in dirs /\ importing[id].received \in 0 .. Limit(importing[id].claim)

StoreTyped ==
  /\ \A d \in DOMAIN objects : d \in Seq(Nat) /\ objects[d] \in {None, d}
  /\ described \subseteq DOMAIN objects

ProjectTyped == target \in Seq(Nat) \cup {None} /\ trash \subseteq Seq(Nat)

FaultsTyped == scenario \in Scenarios /\ faults \in 0 .. scenario.max

LEMMA TypeParts ==
  TypeOK <=> StagingTyped /\ Arrived /\ StoreTyped /\ ProjectTyped /\ FaultsTyped /\ AtType(at)
BY DEF TypeOK, StagingTyped, Arrived, StoreTyped, ProjectTyped, FaultsTyped, AtType

LEMMA ScenarioTyped ==
  ASSUME FaultsTyped
  PROVE  /\ scenario.ids \subseteq Ids /\ scenario.strays \subseteq Seq(Nat) /\ scenario.max \in Nat
         /\ \A d \in scenario.declared :
              d.size \in Nat \ {0} /\ d.digest \in Seq(Nat) \cup {None}
         /\ \A d \in scenario.imports :
              d.size \in (Nat \ {0}) \cup {None} /\ d.digest \in Seq(Nat) \cup {None}
         /\ \A i \in 0 .. Len(Pieces) - 1 :
              \A c \in scenario.strays \cup {Pieces[i + 1]} : c \in Seq(Nat)
<1>1. scenario \in Scenarios
  BY DEF FaultsTyped
<1>2. /\ scenario.ids \subseteq Ids /\ scenario.strays \subseteq Seq(Nat) /\ scenario.max \in Nat
      /\ \A d \in scenario.declared :
           d.size \in Nat \ {0} /\ d.digest \in Seq(Nat) \cup {None}
      /\ \A d \in scenario.imports :
           d.size \in (Nat \ {0}) \cup {None} /\ d.digest \in Seq(Nat) \cup {None}
  BY <1>1, StoreAssumption, Zenon
<1>3. ASSUME NEW i \in 0 .. Len(Pieces) - 1, NEW c \in scenario.strays \cup {Pieces[i + 1]}
      PROVE  c \in Seq(Nat)
  <2>1. Pieces \in Seq(Seq(Nat)) /\ i + 1 \in 1 .. Len(Pieces)
    BY StoreAssumption
  <2>2. Pieces[i + 1] \in Seq(Nat)
    BY <2>1
  <2> QED BY <1>2, <2>2
<1> QED BY <1>2, <1>3

LEMMA SessionTyped ==
  ASSUME StagingTyped, FaultsTyped, NEW id \in Ids, session[id] # None
  PROVE  /\ session[id] \in SessionRecord /\ session[id].claim.size \in Nat \ {0}
         /\ session[id].claim.digest \in Seq(Nat) \cup {None}
         /\ session[id].next \in 0 .. Len(Pieces) /\ session[id].written \in Nat
         /\ session[id].committed \in BOOLEAN
         /\ session[id].claim \in UNION {x.declared : x \in Scenarios}
<1>1. session[id] \in SessionRecord
  BY DEF StagingTyped
<1>2. /\ session[id].next \in 0 .. Len(Pieces) /\ session[id].written \in Nat
      /\ session[id].committed \in BOOLEAN
      /\ session[id].claim \in UNION {x.declared : x \in Scenarios}
  BY <1>1 DEF SessionRecord
<1>3. PICK x \in Scenarios : session[id].claim \in x.declared
  BY <1>2
<1> QED BY <1>1, <1>2, <1>3, StoreAssumption, Zenon

LEMMA FaultCounted ==
  ASSUME FaultsTyped, NEW f, Fault(f) \/ NoFault, UNCHANGED scenario
  PROVE  FaultsTyped'
<1>1. scenario.max \in Nat
  BY ScenarioTyped
<1> QED BY <1>1 DEF FaultsTyped, Fault, NoFault

(* Most steps leave most of it alone.                                      *)
LEMMA KeepStaging == StagingTyped /\ UNCHANGED <<staging, late, used>> => StagingTyped'
BY DEF StagingTyped, staging

LEMMA KeepArrived == Arrived /\ UNCHANGED <<dirs, importing>> => Arrived'
BY DEF Arrived, Limit

LEMMA KeepStore == StoreTyped /\ UNCHANGED store => StoreTyped'
BY DEF StoreTyped, store

LEMMA KeepProject == ProjectTyped /\ UNCHANGED project => ProjectTyped'
BY DEF ProjectTyped, project

LEMMA KeepFaults == FaultsTyped /\ UNCHANGED <<scenario, faults>> => FaultsTyped'
BY DEF FaultsTyped

LEMMA KeepDownloads == Downloads /\ UNCHANGED <<session, importing, scenario>> => Downloads'
BY DEF Downloads

LEMMA AfterDone == ASSUME at' = Idle PROVE Asked' /\ Uploads' /\ InStore' /\ AtType(at)'
<1>1. /\ at'.step = "idle" /\ at'.op = "none"
      /\ Shape(Idle) /\ at'.id = None
  BY IdleAt
<1>2. AtType(at)'
  BY <1>1, IdleAt DEF AtType, Shape
<1> QED BY <1>1, <1>2 DEF Asked, Uploads, InStore, OfId

(* A step that only goes on keeps the invariant when what it goes on to    *)
(* may rely on the same things.                                            *)
Others == UNCHANGED <<staging, store, project, importing, scenario, late, used>>

LEMMA OnlyAt ==
  ASSUME StagingInv, Others, FaultsTyped', AtType(at)', Asked', Uploads', InStore'
  PROVE  StagingInv'
<1>1. StagingTyped' /\ Arrived' /\ StoreTyped' /\ ProjectTyped' /\ Downloads'
  <2>1. StagingTyped /\ Arrived /\ StoreTyped /\ ProjectTyped /\ Downloads
    BY TypeParts DEF StagingInv
  <2> QED BY <2>1, KeepStaging, KeepArrived, KeepStore, KeepProject, KeepDownloads DEF Others, staging
<1>2. TypeOK'
  <2>1. (TypeOK <=> StagingTyped /\ Arrived /\ StoreTyped /\ ProjectTyped /\ FaultsTyped /\ AtType(at))'
    BY TypeParts, PTL
  <2> QED BY <1>1, <2>1
<1> QED BY <1>1, <1>2 DEF StagingInv

-----------------------------------------------------------------------------
(* One lemma for each action or two.                                       *)
LEMMA Parts ==
  ASSUME StagingInv
  PROVE  /\ StagingTyped /\ Arrived /\ StoreTyped /\ ProjectTyped /\ FaultsTyped /\ AtType(at)
         /\ Shape(at) /\ Asked /\ Uploads /\ Downloads /\ InStore
         /\ at.op \in OfId => at.id \in used /\ at.id \in Ids
<1>1. /\ StagingTyped /\ Arrived /\ StoreTyped /\ ProjectTyped /\ FaultsTyped /\ AtType(at)
      /\ Asked /\ Uploads /\ Downloads /\ InStore
  BY TypeParts DEF StagingInv
<1> QED BY <1>1, TypedAt DEF Asked, StagingTyped

LEMMA Whole ==
  ASSUME StagingTyped', Arrived', StoreTyped', ProjectTyped', FaultsTyped', AtType(at)',
         Asked', Uploads', InStore', Downloads'
  PROVE  StagingInv'
<1>1. (TypeOK <=> StagingTyped /\ Arrived /\ StoreTyped /\ ProjectTyped /\ FaultsTyped /\ AtType(at))'
  BY TypeParts, PTL
<1> QED BY <1>1 DEF StagingInv

(* A call begins: at is a record of a step, an operation, ...              *)
LEMMA AtNext ==
  ASSUME NEW s \in Steps, NEW o \in Ops, NEW i \in used' \cup {None}, NEW g,
         at' = [step |-> s, op |-> o, id |-> i, arg |-> g]
  PROVE  AtType(at)' /\ at'.step = s /\ at'.op = o /\ at'.id = i /\ at'.arg = g
BY DEF AtType

LEMMA StagingInvNew ==
  ASSUME StagingInv, NEW op \in {"begin", "import"}, NEW id, NEW claim,
         New(op, id, claim),
         op = "begin" => claim \in scenario.declared, op = "import" => claim \in scenario.imports
  PROVE  StagingInv'
<1>1. /\ at' = [step |-> "stage", op |-> op, id |-> id, arg |-> claim] /\ id \notin used
      /\ used' = used \cup {id} /\ id \in scenario.ids /\ id \in used'
      /\ UNCHANGED <<dirs, content, session, staging, store, project, importing, scenario, late, stored, faults>>
  BY DEF New, staging, given
<1>2. AtType(at)' /\ at'.step = "stage" /\ at'.op = op /\ at'.id = id /\ at'.arg = claim
  <2>1. "stage" \in Steps /\ op \in Ops
    BY DEF Steps, Ops
  <2> QED BY <1>1, <2>1, AtNext
<1>3. /\ StagingTyped /\ Arrived /\ StoreTyped /\ ProjectTyped /\ FaultsTyped /\ Downloads
      /\ id \in Ids
  BY <1>1, Parts, ScenarioTyped
<1>4. StagingTyped' /\ session[id] = None /\ id \notin DOMAIN importing
  BY <1>1, <1>3 DEF StagingTyped, Arrived
<1>5. Asked' /\ Uploads' /\ InStore'
  BY <1>1, <1>2, <1>4 DEF Asked, Uploads, InStore, OfId
<1> QED BY <1>1, <1>2, <1>3, <1>4, <1>5, Whole, KeepArrived, KeepStore, KeepProject, KeepFaults, KeepDownloads

LEMMA StagingInvCreateDirectory ==
  ASSUME StagingInv, CreateDirectory
  PROVE  StagingInv'
<1>1. /\ at.step = "stage" /\ dirs' = dirs \cup {at.id} /\ Goto("content")
      /\ UNCHANGED <<content, session, store, project, importing, scenario, late, used, faults>>
  BY DEF CreateDirectory, At, given
<1>2. /\ StagingTyped /\ Arrived /\ StoreTyped /\ ProjectTyped /\ FaultsTyped /\ Shape(at) /\ AtType(at)
      /\ Asked /\ Uploads /\ Downloads
  BY Parts
<1>3. Going("content")
  BY <1>1, <1>2, Goes
<1>4. AtType(at)'
  BY <1>1, <1>2, <1>3 DEF Going, AtType, Shape, Steps
<1>5. at.id \in used /\ at.id \in dirs'
  BY <1>1, <1>2 DEF Asked
<1>6. StagingTyped' /\ Arrived'
  BY <1>1, <1>2, <1>5 DEF StagingTyped, Arrived, Limit
<1>7. Asked' /\ Uploads' /\ InStore'
  BY <1>1, <1>2, <1>3, <1>5 DEF Asked, Uploads, InStore, OfId, Going
<1> QED BY <1>1, <1>2, <1>4, <1>6, <1>7, Whole, KeepStore, KeepProject, KeepFaults, KeepDownloads

LEMMA StagingInvCreateContent ==
  ASSUME StagingInv, CreateContent
  PROVE  StagingInv'
<1>1. /\ at.step = "content"
      /\ UNCHANGED <<dirs, session, store, project, scenario, late, used>>
  BY DEF CreateContent, At, given
<1>2. /\ StagingTyped /\ Arrived /\ StoreTyped /\ ProjectTyped /\ FaultsTyped /\ Shape(at) /\ AtType(at)
      /\ Asked /\ Uploads /\ Downloads
  BY Parts
<1>3. /\ at.id \in dirs /\ at.id \in used /\ at.id \in Ids /\ at.op \in {"begin", "import"}
      /\ session[at.id] = None /\ at.id \notin DOMAIN importing
      /\ at.op = "begin" => at.arg \in scenario.declared
      /\ at.op = "import" => at.arg \in scenario.imports
  BY <1>1, <1>2 DEF Asked, OfId, StagingTyped
<1>4. StoreTyped' /\ ProjectTyped'
  BY <1>1, <1>2, KeepStore, KeepProject
<1>5. CASE Fault("error") /\ Goto("discard") /\ UNCHANGED <<content, importing>>
  <2>1. Going("discard")
    BY <1>2, <1>5, Goes
  <2>2. AtType(at)'
    BY <1>1, <1>2, <2>1 DEF Going, AtType, Shape, Steps
  <2>3. Asked' /\ Uploads' /\ InStore'
    BY <1>1, <1>2, <1>3, <1>5, <2>1 DEF Asked, Uploads, InStore, OfId, Going
  <2>4. StagingTyped' /\ Arrived' /\ Downloads' /\ FaultsTyped'
    BY <1>1, <1>2, <1>5, KeepStaging, KeepArrived, KeepDownloads, FaultCounted DEF staging
  <2> QED BY <1>4, <2>2, <2>3, <2>4, Whole
<1>6. CASE /\ NoFault /\ content' = [content EXCEPT ![at.id] = <<>>]
           /\ IF at.op = "begin" THEN Goto("session") /\ UNCHANGED importing
              ELSE Done /\ importing' = Also(importing, at.id, [claim |-> at.arg, received |-> 0])
  <2>1. StagingTyped' /\ FaultsTyped'
    <3>1. FaultsTyped'
      BY <1>1, <1>2, <1>6, FaultCounted
    <3>2. content' \in [Ids -> Seq(Nat) \cup {None}]
      <4>1. <<>> \in Seq(Nat) \cup {None}
        BY EmptySeq
      <4> QED BY <1>2, <1>6, <4>1 DEF StagingTyped
    <3>3. \A id \in Ids : content'[id] # None => id \in dirs
      BY <1>2, <1>3, <1>6 DEF StagingTyped
    <3> QED BY <1>1, <1>2, <3>1, <3>2, <3>3 DEF StagingTyped
  <2>2. content'[at.id] = <<>>
    BY <1>2, <1>3, <1>6 DEF StagingTyped
  <2>3. CASE at.op = "begin"
    <3>1. Goto("session") /\ UNCHANGED importing
      BY <1>6, <2>3
    <3>2. Going("session")
      BY <1>2, <3>1, Goes
    <3>3. AtType(at)'
      BY <1>1, <1>2, <3>2 DEF Going, AtType, Shape, Steps
    <3>4. Asked' /\ Uploads' /\ InStore'
      BY <1>1, <1>2, <1>3, <2>2, <2>3, <3>1, <3>2 DEF Asked, Uploads, InStore, OfId, Going
    <3>5. Arrived' /\ Downloads'
      BY <1>1, <1>2, <3>1, KeepArrived, KeepDownloads
    <3> QED BY <1>4, <2>1, <3>3, <3>4, <3>5, Whole
  <2>4. CASE at.op = "import"
    <3>1. Done /\ importing' = Also(importing, at.id, [claim |-> at.arg, received |-> 0])
      BY <1>6, <2>4
    <3>2. Asked' /\ Uploads' /\ InStore' /\ AtType(at)'
      BY <3>1, AfterDone DEF Done
    <3>3. /\ DOMAIN importing' = DOMAIN importing \cup {at.id}
          /\ importing'[at.id] = [claim |-> at.arg, received |-> 0]
          /\ \A id \in DOMAIN importing : importing'[id] = importing[id]
      BY <1>3, <3>1 DEF Also
    <3>4. Arrived'
      <4>1. 0 \in 0 .. Limit(at.arg)
        BY <1>2, <1>3, <2>4, ScenarioTyped, StoreAssumption DEF Limit
      <4> QED BY <1>1, <1>2, <1>3, <3>3, <4>1 DEF Arrived, Limit
    <3>5. Downloads'
      BY <1>1, <1>2, <1>3, <2>4, <3>3 DEF Downloads
    <3> QED BY <1>4, <2>1, <3>2, <3>4, <3>5, Whole
  <2> QED BY <1>3, <2>3, <2>4
<1> QED BY <1>5, <1>6 DEF CreateContent

LEMMA StagingInvCreateSession ==
  ASSUME StagingInv, CreateSession
  PROVE  StagingInv'
<1> DEFINE new == [claim |-> at.arg, next |-> 0, written |-> 0, committed |-> FALSE]
<1>1. /\ at.step = "session" /\ session' = [session EXCEPT ![at.id] = new] /\ at' = Idle
      /\ UNCHANGED <<dirs, content, store, project, importing, scenario, late, used, faults>>
  BY DEF CreateSession, At, given, Done
<1>2. /\ StagingTyped /\ Arrived /\ StoreTyped /\ ProjectTyped /\ FaultsTyped
      /\ Asked /\ Downloads
  BY Parts
<1>3. /\ at.id \in dirs /\ at.id \in used /\ at.id \in Ids /\ at.arg \in scenario.declared
      /\ at.id \notin DOMAIN importing
  BY <1>1, <1>2 DEF Asked, OfId, StagingTyped
<1>4. new \in SessionRecord /\ new.written <= new.claim.size
  <2>1. at.arg \in UNION {x.declared : x \in Scenarios} /\ at.arg.size \in Nat
    BY <1>2, <1>3, ScenarioTyped DEF FaultsTyped
  <2>2. 0 \in 0 .. Len(Pieces)
    BY StoreAssumption
  <2> QED BY <2>1, <2>2 DEF SessionRecord
<1>5. StagingTyped'
  <2> HIDE DEF new
  <2>1. session' \in [Ids -> SessionRecord \cup {None}]
    BY <1>1, <1>2, <1>4 DEF StagingTyped
  <2> QED BY <1>1, <1>2, <1>3, <1>4, <2>1 DEF StagingTyped
<1>6. Downloads'
  <2> HIDE DEF new
  <2>1. \A id \in DOMAIN importing : session'[id] = session[id]
    BY <1>1, <1>2, <1>3 DEF StagingTyped, Arrived
  <2> QED BY <1>1, <1>2, <2>1 DEF Downloads
<1> QED BY <1>1, <1>2, <1>5, <1>6, AfterDone, Whole, KeepArrived, KeepStore, KeepProject, KeepFaults

LEMMA StagingInvAppendChunk ==
  ASSUME StagingInv, NEW id \in Ids, NEW i \in 0 .. Len(Pieces) - 1, NEW c \in Sent(i),
         AppendChunk(id, i, c)
  PROVE  StagingInv'
<1>1. /\ session[id] # None /\ ~session[id].committed /\ i = session[id].next
      /\ session[id].written + Len(c) <= session[id].claim.size
      /\ at' = [step |-> "bytes", op |-> "append", id |-> id, arg |-> c]
      /\ UNCHANGED <<staging, store, project, importing, scenario, late, used, faults>>
  BY DEF AppendChunk, Usable, Accepts, given
<1>2. /\ StagingTyped /\ FaultsTyped /\ Downloads
  BY Parts
<1>3. id \in used /\ id \notin DOMAIN importing
  BY <1>1, <1>2 DEF StagingTyped, Downloads
<1>4. AtType(at)' /\ at'.step = "bytes" /\ at'.op = "append" /\ at'.id = id /\ at'.arg = c
  <2>1. "bytes" \in Steps /\ "append" \in Ops /\ id \in used'
    BY <1>1, <1>3 DEF Steps, Ops
  <2> QED BY <1>1, <2>1, AtNext
<1>5. Asked' /\ InStore'
  BY <1>1, <1>3, <1>4 DEF Asked, InStore, OfId
<1>6. Uploads'
  <2>1. c \in scenario'.strays \cup {Pieces[session'[id].next + 1]} /\ i < Len(Pieces) /\ session' = session
    BY <1>1, StoreAssumption DEF Sent, staging
  <2> QED BY <1>1, <1>3, <1>4, <2>1 DEF Uploads, OfId
<1> QED BY <1>1, <1>2, <1>4, <1>5, <1>6, OnlyAt, KeepFaults DEF Others

(* What a write adds, whole or cut short, are bytes.                       *)
Had(c) == IF c = None THEN <<>> ELSE c

LEMMA Written ==
  ASSUME StagingTyped, NEW id \in Ids, NEW b \in Seq(Nat), Write(id, b)
  PROVE  /\ id \in dirs /\ content'[id] = Had(content[id]) \o b
         /\ content' \in [Ids -> Seq(Nat) \cup {None}] /\ content'[id] # None
         /\ \A j \in Ids : j # id => content'[j] = content[j]
<1>1. id \in dirs /\ content' = [content EXCEPT ![id] = Had(content[id]) \o b]
  BY DEF Write, Had
<1>2. Had(content[id]) \o b \in Seq(Nat)
  <2>1. Had(content[id]) \in Seq(Nat)
    BY EmptySeq DEF Had, StagingTyped
  <2> HIDE DEF Had
  <2> QED BY <2>1, ConcatProperties
<1>3. None \notin Seq(Nat)
  BY StoreAssumption
<1> DEFINE new == Had(content[id]) \o b
<1> HIDE DEF new
<1> QED BY <1>1, <1>2, <1>3 DEF StagingTyped, new

LEMMA CutsTyped ==
  ASSUME NEW b \in Seq(Nat)
  PROVE  Cuts(b) \subseteq Seq(Nat)
<1> SUFFICES ASSUME NEW n \in 0 .. Len(b) - 1 PROVE SubSeq(b, 1, n) \in Seq(Nat)
  BY DEF Cuts
<1>1. \A i \in 1 .. n : b[i] \in Nat
  BY LenProperties
<1> QED BY <1>1, LenProperties, SubSeqProperties

LEMMA WriteTyped ==
  ASSUME StagingTyped, NEW id \in Ids, NEW b \in Seq(Nat), Write(id, b),
         UNCHANGED <<dirs, session, late, used>>
  PROVE  StagingTyped'
<1>1. content' \in [Ids -> Seq(Nat) \cup {None}]
  BY Written
<1>2. \A j \in Ids : content'[j] # None => j \in dirs
  BY Written DEF StagingTyped
<1> QED BY <1>1, <1>2 DEF StagingTyped

LEMMA StagingInvAppendBytes ==
  ASSUME StagingInv, AppendBytes
  PROVE  StagingInv'
<1>1. /\ at.step = "bytes"
      /\ UNCHANGED <<dirs, session, store, project, importing, scenario, late, used>>
  BY DEF AppendBytes, At, given
<1>2. /\ StagingTyped /\ Arrived /\ StoreTyped /\ ProjectTyped /\ FaultsTyped /\ Shape(at) /\ AtType(at)
      /\ Asked /\ Uploads /\ Downloads
  BY Parts
<1>3. /\ at.id \in Ids /\ at.id \in used /\ session[at.id] # None /\ at.op = "append"
      /\ at.arg \in Seq(Nat)
  <2>1. /\ at.op = "append" /\ session[at.id] # None /\ session[at.id].next < Len(Pieces)
        /\ at.arg \in scenario.strays \cup {Pieces[session[at.id].next + 1]}
    BY <1>1, <1>2 DEF Uploads
  <2>2. at.id \in Ids /\ at.id \in used
    BY <2>1, Parts DEF OfId
  <2>3. session[at.id].next \in 0 .. Len(Pieces) - 1
    BY <1>2, <2>1, <2>2, SessionTyped, StoreAssumption
  <2> QED BY <1>2, <2>1, <2>2, <2>3, ScenarioTyped
<1>4. PICK b \in Seq(Nat) :
        Write(at.id, b) /\ (Done \/ Goto("count")) /\ \E f : Fault(f) \/ NoFault
  BY <1>3, CutsTyped DEF AppendBytes
<1>5. StagingTyped' /\ FaultsTyped'
  BY <1>1, <1>2, <1>3, <1>4, WriteTyped, FaultCounted
<1>6. Asked' /\ Uploads' /\ InStore' /\ AtType(at)'
  <2>1. CASE Done
    BY <2>1, AfterDone DEF Done
  <2>2. CASE Goto("count")
    <3>1. Going("count")
      BY <1>2, <2>2, Goes
    <3> QED BY <1>1, <1>2, <1>3, <3>1 DEF Going, AtType, Shape, Steps, Asked, Uploads, InStore, OfId
  <2> QED BY <1>4, <2>1, <2>2
<1> QED BY <1>1, <1>2, <1>5, <1>6, Whole, KeepArrived, KeepStore, KeepProject, KeepDownloads

(* Where a session is saved.                                               *)
LEMMA Saved ==
  ASSUME StagingInv, at.id \in Ids, session[at.id] # None,
         NEW value \in SessionRecord, value.written <= value.claim.size,
         NEW then, then # "idle", Save(value, then) \/ Save(value, "idle"),
         UNCHANGED <<dirs, content, store, project, importing, scenario, late, used>>
  PROVE  /\ StagingTyped' /\ Arrived' /\ StoreTyped' /\ ProjectTyped' /\ FaultsTyped' /\ Downloads'
         /\ session'[at.id] = value /\ session'[at.id] # None
         /\ at' = Idle \/ Going(then)
<1>1. /\ StagingTyped /\ Arrived /\ StoreTyped /\ ProjectTyped /\ FaultsTyped /\ Shape(at)
      /\ Downloads
  BY Parts
<1>2. /\ session' = [session EXCEPT ![at.id] = value] /\ \E f : Fault(f) \/ NoFault
      /\ at' = Idle \/ Goto(then)
  BY DEF Save, Done, Goto
<1>3. session'[at.id] = value /\ value # None
  BY <1>1, <1>2, StoreAssumption DEF StagingTyped
<1>4. StagingTyped'
  <2>1. session' \in [Ids -> SessionRecord \cup {None}]
    BY <1>1, <1>2 DEF StagingTyped
  <2> QED BY <1>1, <1>2, <1>3, <2>1 DEF StagingTyped
<1>5. Downloads'
  <2>1. at.id \notin DOMAIN importing
    BY <1>1 DEF Downloads
  <2>2. \A id \in DOMAIN importing : session'[id] = session[id]
    BY <1>1, <1>2, <2>1 DEF StagingTyped, Arrived
  <2> QED BY <1>1, <2>2 DEF Downloads
<1> QED BY <1>1, <1>2, <1>3, <1>4, <1>5, Goes, KeepArrived, KeepStore, KeepProject, FaultCounted

LEMMA Updated ==
  ASSUME NEW r \in SessionRecord, NEW m
  PROVE  /\ [r EXCEPT !.next = @ + 1, !.written = @ + m] =
              [claim |-> r.claim, next |-> r.next + 1, written |-> r.written + m,
               committed |-> r.committed]
         /\ [r EXCEPT !.committed = TRUE] =
              [claim |-> r.claim, next |-> r.next, written |-> r.written, committed |-> TRUE]
<1>1. r = [claim |-> r.claim, next |-> r.next, written |-> r.written, committed |-> r.committed]
  BY DEF SessionRecord
<1>2. PICK c, n, w, k : r = [claim |-> c, next |-> n, written |-> w, committed |-> k]
  BY <1>1
<1>3. r.claim = c /\ r.next = n /\ r.written = w /\ r.committed = k
  BY ONLY <1>2
<1>4. /\ [r EXCEPT !.next = @ + 1, !.written = @ + m] =
           [claim |-> c, next |-> n + 1, written |-> w + m, committed |-> k]
  <2>1. PICK i, j, q : i = r.next + 1 /\ j = r.written + m /\ q = [r EXCEPT !.next = i]
    OBVIOUS
  <2>2. q = [claim |-> c, next |-> i, written |-> w, committed |-> k]
    BY ONLY <1>2, <2>1
  <2>3. [q EXCEPT !.written = j] = [claim |-> c, next |-> i, written |-> j, committed |-> k]
    BY ONLY <2>2
  <2>4. [r EXCEPT !.next = @ + 1, !.written = @ + m] = [q EXCEPT !.written = j]
    BY <2>1
  <2> QED BY <1>3, <2>1, <2>3, <2>4
<1>5. [r EXCEPT !.committed = TRUE] = [claim |-> c, next |-> n, written |-> w, committed |-> TRUE]
  <2>1. PICK b : b = TRUE
    OBVIOUS
  <2>2. [r EXCEPT !.committed = b] = [claim |-> c, next |-> n, written |-> w, committed |-> b]
    BY ONLY <1>2
  <2> QED BY <2>1, <2>2
<1> QED BY <1>3, <1>4, <1>5

LEMMA Counts ==
  ASSUME StagingInv, CountBytes
  PROVE  LET value == [Ses EXCEPT !.next = @ + 1, !.written = @ + Len(at.arg)] IN
         /\ at.id \in Ids /\ session[at.id] # None /\ at.op = "append" /\ at.step = "count"
         /\ value \in SessionRecord /\ value.written <= value.claim.size
         /\ value = [claim |-> Ses.claim, next |-> Ses.next + 1, written |-> Ses.written + Len(at.arg),
                     committed |-> Ses.committed]
         /\ session' = [session EXCEPT ![at.id] = value]
<1> DEFINE value == [Ses EXCEPT !.next = @ + 1, !.written = @ + Len(at.arg)]
<1>1. /\ at.step = "count" /\ Save(value, "idle")
      /\ UNCHANGED <<dirs, content, store, project, importing, scenario, late, used>>
  BY DEF CountBytes, At, given
<1>2. /\ StagingTyped /\ FaultsTyped /\ Uploads
      /\ at.op \in OfId => at.id \in Ids
  BY Parts
<1>3. /\ session[at.id] # None /\ session[at.id].next < Len(Pieces) /\ at.id \in Ids
      /\ at.arg \in scenario.strays \cup {Pieces[session[at.id].next + 1]}
      /\ session[at.id].written + Len(at.arg) <= session[at.id].claim.size
  BY <1>1, <1>2 DEF Uploads, OfId
<1>4. /\ session[at.id] \in SessionRecord /\ session[at.id].next \in 0 .. Len(Pieces)
      /\ session[at.id].written \in Nat
  BY <1>2, <1>3, SessionTyped
<1>5. Len(at.arg) \in Nat
  <2>1. session[at.id].next \in 0 .. Len(Pieces) - 1
    BY <1>3, <1>4, StoreAssumption
  <2> QED BY <1>2, <1>3, <2>1, ScenarioTyped, LenProperties
<1>6. value = [claim |-> Ses.claim, next |-> Ses.next + 1, written |-> Ses.written + Len(at.arg),
               committed |-> Ses.committed]
  BY <1>4, Updated DEF Ses
<1>7. value \in SessionRecord /\ value.written <= value.claim.size
  <2>2. /\ Ses.next + 1 \in 0 .. Len(Pieces) /\ Ses.written + Len(at.arg) \in Nat
        /\ Ses.claim \in UNION {x.declared : x \in Scenarios} /\ Ses.committed \in BOOLEAN
    <3>1. PICK a, b, c, d : a = Ses.next /\ b = Ses.written /\ c = Len(at.arg) /\ d = Len(Pieces)
      OBVIOUS
    <3>2. a \in Nat /\ b \in Nat /\ c \in Nat /\ d \in Nat /\ a < d
      BY <1>3, <1>4, <1>5, <3>1, StoreAssumption DEF Ses
    <3>3. a + 1 \in 0 .. d /\ b + c \in Nat
      BY <3>2
    <3>4. Ses.claim \in UNION {x.declared : x \in Scenarios} /\ Ses.committed \in BOOLEAN
      BY <1>2, <1>3, SessionTyped DEF Ses
    <3> QED BY <3>1, <3>3, <3>4
  <2> HIDE DEF value
  <2> QED BY <1>3, <1>6, <2>2 DEF SessionRecord, Ses
<1>8. at.op = "append" /\ session' = [session EXCEPT ![at.id] = value]
  BY <1>1, <1>2 DEF Uploads, Save
<1> HIDE DEF value
<1> QED BY <1>1, <1>3, <1>6, <1>7, <1>8 DEF value

LEMMA StagingInvCountBytes ==
  ASSUME StagingInv, CountBytes
  PROVE  StagingInv'
<1> DEFINE value == [Ses EXCEPT !.next = @ + 1, !.written = @ + Len(at.arg)]
<1>1. /\ at.step = "count" /\ Save(value, "idle")
      /\ UNCHANGED <<dirs, content, store, project, importing, scenario, late, used>>
  BY DEF CountBytes, At, given
<1>2. /\ at.id \in Ids /\ session[at.id] # None
      /\ value \in SessionRecord /\ value.written <= value.claim.size
  BY Counts
<1>3. at' = Idle
  BY <1>1 DEF Save, Goto, Done
<1> HIDE DEF value
<1> QED BY <1>1, <1>2, <1>3, Saved, Whole, AfterDone

LEMMA StagingInvCommit ==
  ASSUME StagingInv, NEW id \in Ids, Commit(id)
  PROVE  StagingInv'
<1>1. /\ session[id] # None /\ session[id].written = session[id].claim.size
      /\ at' = [step |-> "mark", op |-> "commit", id |-> id, arg |-> session[id].claim]
      /\ UNCHANGED <<staging, store, project, importing, scenario, late, used, faults>>
  BY DEF Commit, Usable, given
<1>2. /\ StagingTyped /\ FaultsTyped /\ Downloads
  BY Parts
<1>3. id \in used /\ id \notin DOMAIN importing /\ session' = session
  BY <1>1, <1>2 DEF StagingTyped, Downloads, staging
<1>4. AtType(at)' /\ at'.step = "mark" /\ at'.op = "commit" /\ at'.id = id /\ at'.arg = session[id].claim
  <2>1. "mark" \in Steps /\ "commit" \in Ops /\ id \in used'
    BY <1>1, <1>3 DEF Steps, Ops
  <2> QED BY <1>1, <2>1, AtNext
<1>5. Asked' /\ Uploads' /\ InStore'
  BY <1>1, <1>3, <1>4 DEF Asked, OfId, Uploads, InStore
<1> QED BY <1>1, <1>2, <1>4, <1>5, OnlyAt, KeepFaults DEF Others

LEMMA Marks ==
  ASSUME StagingInv, MarkCommitted
  PROVE  LET value == [Ses EXCEPT !.committed = TRUE] IN
         /\ at.id \in Ids /\ session[at.id] # None /\ at.op = "commit" /\ at.step = "mark"
         /\ value \in SessionRecord
         /\ value = [claim |-> Ses.claim, next |-> Ses.next, written |-> Ses.written, committed |-> TRUE]
         /\ session' = [session EXCEPT ![at.id] = value]
<1> DEFINE value == [Ses EXCEPT !.committed = TRUE]
<1>1. at.step = "mark" /\ Save(value, "promote")
  BY DEF MarkCommitted, At
<1>2. session[at.id] # None /\ at.id \in Ids /\ at.op = "commit"
  BY <1>1, Parts DEF Uploads, OfId
<1>3. session[at.id] \in SessionRecord
  BY <1>2, Parts, SessionTyped
<1>4. value = [claim |-> Ses.claim, next |-> Ses.next, written |-> Ses.written, committed |-> TRUE]
  BY <1>3, Updated DEF Ses
<1>5. value \in SessionRecord
  <2>1. /\ Ses.next \in 0 .. Len(Pieces) /\ Ses.written \in Nat
        /\ Ses.claim \in UNION {x.declared : x \in Scenarios}
    BY <1>2, Parts, SessionTyped DEF Ses
  <2> HIDE DEF value
  <2> QED BY <1>4, <2>1 DEF SessionRecord
<1>6. session' = [session EXCEPT ![at.id] = value]
  BY <1>1 DEF Save
<1> HIDE DEF value
<1> QED BY <1>1, <1>2, <1>4, <1>5, <1>6 DEF value

LEMMA StagingInvMarkCommitted ==
  ASSUME StagingInv, MarkCommitted
  PROVE  StagingInv'
<1> DEFINE value == [Ses EXCEPT !.committed = TRUE]
<1>1. /\ at.step = "mark" /\ Save(value, "promote")
      /\ UNCHANGED <<dirs, content, store, project, importing, scenario, late, used>>
  BY DEF MarkCommitted, At, given
<1>2. /\ StagingTyped /\ FaultsTyped /\ Uploads /\ Asked /\ Shape(at) /\ AtType(at)
      /\ at.op \in OfId => at.id \in Ids
  BY Parts
<1>3. /\ session[at.id] # None /\ at.id \in Ids /\ at.op = "commit" /\ at.id \in used
      /\ session[at.id].written = session[at.id].claim.size /\ at.arg = session[at.id].claim
      /\ at.id \notin DOMAIN importing
  BY <1>1, <1>2 DEF Uploads, OfId, Asked
<1>4. session[at.id] \in SessionRecord
  BY <1>2, <1>3, SessionTyped
<1>5. /\ value \in SessionRecord /\ value.written <= value.claim.size
      /\ value.committed /\ value.claim = at.arg /\ value.written = value.claim.size
  <2>1. /\ value \in SessionRecord
        /\ value = [claim |-> Ses.claim, next |-> Ses.next, written |-> Ses.written, committed |-> TRUE]
    BY Marks
  <2>2. Ses.written \in Nat
    BY <1>2, <1>3, SessionTyped DEF Ses
  <2> HIDE DEF value
  <2> QED BY <1>3, <2>1, <2>2 DEF Ses
<1> HIDE DEF value
<1>6. /\ StagingTyped' /\ Arrived' /\ StoreTyped' /\ ProjectTyped' /\ FaultsTyped' /\ Downloads'
      /\ session'[at.id] = value /\ session'[at.id] # None
      /\ at' = Idle \/ Going("promote")
  BY <1>1, <1>3, <1>5, Saved
<1>7. Asked' /\ Uploads' /\ InStore' /\ AtType(at)'
  <2>1. CASE Going("promote")
    BY <1>1, <1>2, <1>3, <1>5, <1>6, <2>1 DEF Going, AtType, Shape, Steps, Asked, Uploads, InStore, OfId
  <2> QED BY <1>6, <2>1, AfterDone
<1> QED BY <1>6, <1>7, Whole

LEMMA SessionKept ==
  ASSUME StagingInv, CountBytes \/ MarkCommitted
  PROVE  /\ at.id \in Ids /\ session[at.id] # None /\ session'[at.id] # None
         /\ session'[at.id].claim = Ses.claim
         /\ \A id \in Ids : id # at.id => session'[id] = session[id]
         /\ MarkCommitted => session'[at.id].next = Ses.next /\ session'[at.id].written = Ses.written
                             /\ session'[at.id].committed
         /\ CountBytes => /\ session'[at.id].next = Ses.next + 1
                          /\ session'[at.id].written = Ses.written + Len(at.arg)
<1>1. /\ session \in [Ids -> SessionRecord \cup {None}] /\ None \notin SessionRecord
      /\ (CountBytes => at.step = "count") /\ (MarkCommitted => at.step = "mark")
  BY Parts, StoreAssumption DEF StagingTyped, CountBytes, MarkCommitted, At
<1>2. CASE CountBytes
  <2>1. PICK v : /\ v \in SessionRecord /\ session' = [session EXCEPT ![at.id] = v]
                 /\ at.id \in Ids /\ session[at.id] # None /\ at.step = "count"
                 /\ v = [claim |-> Ses.claim, next |-> Ses.next + 1, written |-> Ses.written + Len(at.arg),
                         committed |-> Ses.committed]
    BY <1>2, Counts
  <2>2. session'[at.id] = v /\ \A id \in Ids : id # at.id => session'[id] = session[id]
    BY <1>1, <2>1
  <2>3. v.claim = Ses.claim /\ v.next = Ses.next + 1 /\ v.written = Ses.written + Len(at.arg)
    BY <2>1
  <2>4. ~MarkCommitted
    BY <2>1 DEF MarkCommitted, At
  <2> QED BY <1>1, <2>1, <2>2, <2>3, <2>4
<1>3. CASE MarkCommitted
  <2>1. PICK v : /\ v \in SessionRecord /\ session' = [session EXCEPT ![at.id] = v]
                 /\ at.id \in Ids /\ session[at.id] # None /\ at.step = "mark"
                 /\ v = [claim |-> Ses.claim, next |-> Ses.next, written |-> Ses.written, committed |-> TRUE]
    BY <1>3, Marks
  <2>2. session'[at.id] = v /\ \A id \in Ids : id # at.id => session'[id] = session[id]
    BY <1>1, <2>1
  <2>3. v.claim = Ses.claim /\ v.next = Ses.next /\ v.written = Ses.written /\ v.committed
    BY <2>1
  <2>4. ~CountBytes
    BY <2>1 DEF CountBytes, At
  <2> QED BY <1>1, <2>1, <2>2, <2>3, <2>4
<1> QED BY <1>2, <1>3

(* A download that leaves the others as they are, and is discarded.        *)
LEMMA Left ==
  ASSUME StagingInv, NEW id \in DOMAIN importing, Leave(id), UNCHANGED <<dirs, session, scenario>>
  PROVE  /\ Arrived' /\ Downloads' /\ DOMAIN importing' = DOMAIN importing \ {id}
         /\ id \in used /\ id \in Ids /\ session[id] = None /\ importing[id].claim \in scenario.imports
         /\ importing[id].received \in Nat /\ id \in dirs
<1>1. StagingTyped /\ Arrived /\ Downloads
  BY Parts
<1>2. /\ id \in dirs /\ id \in used /\ id \in Ids /\ session[id] = None
      /\ importing[id].claim \in scenario.imports /\ importing[id].received \in Nat
  BY <1>1 DEF StagingTyped, Arrived, Downloads
<1>3. /\ DOMAIN importing' = DOMAIN importing \ {id}
      /\ \A j \in DOMAIN importing' : j \in DOMAIN importing /\ importing'[j] = importing[j]
  BY DEF Leave
<1> QED BY <1>1, <1>2, <1>3 DEF Arrived, Downloads, Limit

LEMMA Discards ==
  ASSUME NEW id \in used, Discarding(id), UNCHANGED <<used, session>>, session[id] = None,
         id \notin DOMAIN importing'
  PROVE  Asked' /\ Uploads' /\ InStore' /\ AtType(at)' /\ at'.step = "discard" /\ at'.op = "import" /\ at'.id = id
<1>1. AtType(at)' /\ at'.step = "discard" /\ at'.op = "import" /\ at'.id = id
  <2>1. "discard" \in Steps /\ "import" \in Ops /\ id \in used'
    BY DEF Steps, Ops
  <2> QED BY <2>1, AtNext DEF Discarding
<1> QED BY <1>1 DEF Asked, Uploads, InStore, OfId

LEMMA StagingInvImportData ==
  ASSUME StagingInv, NEW id \in Ids, NEW i \in 0 .. Len(Pieces) - 1, NEW c \in Sent(i),
         id \in DOMAIN importing, ImportData(id, c)
  PROVE  StagingInv'
<1>1. at = Idle /\ UNCHANGED <<dirs, session, store, project, scenario, late, used>>
  BY DEF ImportData, given, Free
<1>2. /\ StagingTyped /\ Arrived /\ StoreTyped /\ ProjectTyped /\ FaultsTyped /\ Downloads /\ AtType(at)
      /\ c \in Seq(Nat)
  BY Parts, ScenarioTyped DEF Sent
<1>3. StoreTyped' /\ ProjectTyped'
  BY <1>1, <1>2, KeepStore, KeepProject
<1> DEFINE received == importing[id].received + Len(c)
<1>4. CASE /\ Leave(id) /\ Discarding(id)
           /\ UNCHANGED content \/ \E b \in Cuts(c) : Write(id, b)
           /\ NoFault \/ Fault("torn")
  <2>1. StagingTyped' /\ FaultsTyped'
    <3>1. CASE UNCHANGED content
      BY <1>1, <1>2, <1>4, <3>1, KeepStaging, FaultCounted DEF staging
    <3>2. CASE \E b \in Cuts(c) : Write(id, b)
      BY <1>1, <1>2, <1>4, <3>2, CutsTyped, WriteTyped, FaultCounted
    <3> QED BY <1>4, <3>1, <3>2
  <2>2. Arrived' /\ Downloads' /\ id \notin DOMAIN importing' /\ id \in used /\ session[id] = None
    BY <1>1, <1>4, Left
  <2>3. Asked' /\ Uploads' /\ InStore' /\ AtType(at)'
    BY <1>1, <1>4, <2>2, Discards
  <2> QED BY <1>3, <2>1, <2>2, <2>3, Whole
<1>5. CASE /\ received <= Limit(importing[id].claim)
           /\ importing' = [importing EXCEPT ![id].received = received]
           /\ UNCHANGED at
           /\ Write(id, c) \/ \E b \in Cuts(c) : Write(id, b)
           /\ NoFault \/ Fault("short")
  <2>1. StagingTyped' /\ FaultsTyped'
    BY <1>1, <1>2, <1>5, CutsTyped, WriteTyped, FaultCounted
  <2>2. Asked' /\ Uploads' /\ InStore' /\ AtType(at)'
    BY <1>1, <1>5, AfterDone
  <2>3. /\ received \in Nat /\ importing[id].claim \in scenario.imports
        /\ Limit(importing[id].claim) \in Nat
    <3>1. importing[id].received \in Nat /\ importing[id].claim \in scenario.imports
      BY <1>2 DEF Downloads
    <3>2. Len(c) \in Nat
      BY <1>2, LenProperties
    <3> QED BY <1>2, <3>1, <3>2, ScenarioTyped, StoreAssumption DEF Limit
  <2>4. PICK n : n = received
    OBVIOUS
  <2>5. /\ DOMAIN importing' = DOMAIN importing
        /\ \A j \in DOMAIN importing : j # id => importing'[j] = importing[j]
        /\ importing'[id] = [importing[id] EXCEPT !.received = n]
    <3> HIDE DEF received
    <3> QED BY <1>5, <2>4
  <2>6. importing'[id].claim = importing[id].claim /\ importing'[id].received = n
    <3>1. importing[id] \in [claim : {importing[id].claim}, received : Nat]
      BY <1>2 DEF Downloads
    <3> QED BY <2>5, <3>1
  <2>7. Downloads'
    BY <1>1, <1>2, <2>3, <2>4, <2>5, <2>6 DEF Downloads
  <2>8. Arrived'
    BY <1>1, <1>2, <1>5, <2>3, <2>4, <2>5, <2>6 DEF Arrived, Limit
  <2> QED BY <1>3, <2>1, <2>2, <2>7, <2>8, Whole
<1> QED BY <1>4, <1>5 DEF ImportData

LEMMA StagingInvImportEnds ==
  ASSUME StagingInv, NEW id \in Ids, id \in DOMAIN importing, ImportEnds(id) \/ ImportFails(id)
  PROVE  StagingInv'
<1>1. /\ Leave(id)
      /\ UNCHANGED <<dirs, session, staging, store, project, scenario, late, used, faults>>
  BY DEF ImportEnds, ImportFails, given, staging
<1>2. /\ Arrived' /\ Downloads' /\ id \notin DOMAIN importing' /\ id \in used /\ session[id] = None
  BY <1>1, Left
<1>3. CASE Discarding(id)
  <2>1. Asked' /\ Uploads' /\ InStore' /\ AtType(at)'
    BY <1>1, <1>2, <1>3, Discards
  <2> QED BY <1>1, <1>2, <2>1, Parts, Whole, KeepStaging, KeepStore, KeepProject, KeepFaults
<1>4. CASE \E g : at' = [step |-> "promote", op |-> "import", id |-> id, arg |-> g]
  <2>1. "promote" \in Steps /\ "import" \in Ops /\ id \in used'
    BY <1>1, <1>2 DEF Steps, Ops
  <2>2. AtType(at)' /\ at'.step = "promote" /\ at'.op = "import" /\ at'.id = id
    BY <1>4, <2>1, AtNext
  <2>3. Asked' /\ Uploads' /\ InStore'
    BY <1>1, <1>2, <2>2 DEF Asked, Uploads, InStore, OfId
  <2> QED BY <1>1, <1>2, <2>2, <2>3, Parts, Whole, KeepStaging, KeepStore, KeepProject, KeepFaults
<1> QED BY <1>3, <1>4 DEF ImportEnds, ImportFails

(* From the promotion on, a call goes on, is over, or removes what it      *)
(* staged; nothing it may rely on has changed.                             *)
LEMMA Promoting ==
  ASSUME StagingInv, at.step \in {"promote", "object", "move", "describe"},
         UNCHANGED <<session, importing, scenario, used>>,
         \/ at' = Idle
         \/ at'.step \in {"object", "move", "describe", "discard"} /\ at'.op = at.op /\ at'.id = at.id /\ Shape(at')
  PROVE  Asked' /\ Uploads' /\ AtType(at)'
<1>1. CASE at' = Idle
  BY <1>1, AfterDone
<1>2. CASE at'.step \in {"object", "move", "describe", "discard"} /\ at'.op = at.op /\ at'.id = at.id /\ Shape(at')
  <2>1. Asked /\ Uploads /\ AtType(at)
    BY Parts
  <2>2. at.op \in Ops /\ at.id \in used \cup {None} /\ at'.step \in Steps
    BY <1>2, <2>1, TypedAt DEF Steps
  <2>3. AtType(at)'
    BY <1>2, <2>2 DEF AtType, Shape
  <2>4. Asked' /\ Uploads'
    BY <1>2, <2>1 DEF Asked, Uploads, OfId
  <2> QED BY <2>3, <2>4
<1> QED BY <1>1, <1>2

LEMMA RejectedTo ==
  ASSUME Shape(at), Rejected
  PROVE  at' = Idle \/ Going("discard")
BY Goes DEF Rejected, Done

LEMMA StagingInvPromote ==
  ASSUME StagingInv, Promote
  PROVE  StagingInv'
<1>1. /\ at.step = "promote" /\ (Goto("object") \/ Rejected)
      /\ UNCHANGED <<staging, session, store, project, importing, scenario, late, used, faults>>
  BY DEF Promote, At, given, staging
<1>2. Shape(at) /\ FaultsTyped
  BY Parts
<1>3. at' = Idle \/ Going("object") \/ Going("discard")
  BY <1>1, <1>2, Goes, RejectedTo
<1>4. Asked' /\ Uploads' /\ AtType(at)'
  BY <1>1, <1>3, Promoting DEF Going
<1>5. InStore'
  <2>1. CASE Going("object") /\ Genuine
    BY <1>1, <2>1 DEF InStore, Going, Genuine, staging
  <2>2. CASE at' = Idle \/ Going("discard")
    BY <2>2, IdleAt DEF InStore, Going
  <2>3. (Going("object") /\ Genuine) \/ at' = Idle \/ Going("discard")
    BY <1>2, Goes, RejectedTo DEF Promote
  <2> QED BY <2>1, <2>2, <2>3
<1> QED BY <1>1, <1>2, <1>4, <1>5, OnlyAt, KeepFaults DEF Others

LEMMA StagingInvCreateObject ==
  ASSUME StagingInv, CreateObject
  PROVE  StagingInv'
<1>1. /\ at.step = "object"
      /\ UNCHANGED <<staging, dirs, session, described, project, importing, scenario, late, used, faults>>
      /\ \/ /\ content[at.id] \notin DOMAIN objects /\ Goto("move")
            /\ objects' = Also(objects, content[at.id], None)
         \/ UNCHANGED objects /\ (Rejected \/ Goto("discard"))
  BY DEF CreateObject, At, given, staging, Success
<1>2. /\ StagingTyped /\ Arrived /\ StoreTyped /\ ProjectTyped /\ FaultsTyped /\ Downloads /\ Shape(at)
  BY Parts
<1>3. \/ Going("move") /\ objects' = Also(objects, content[at.id], None)
      \/ at' = Idle \/ Going("discard")
  BY <1>1, <1>2, Goes, RejectedTo
<1>4. Asked' /\ Uploads' /\ AtType(at)'
  BY <1>1, <1>3, Promoting DEF Going
<1>5. StoreTyped' /\ InStore'
  <2>1. content[at.id] # None /\ content' = content
    BY <1>1, Parts DEF InStore, staging
  <2>2. content[at.id] \in Seq(Nat)
    <3>1. at.id \in Ids
      BY <1>1, Parts DEF Uploads, OfId
    <3> QED BY <1>2, <2>1, <3>1 DEF StagingTyped
  <2>3. StoreTyped'
    BY <1>1, <1>2, <2>2 DEF StoreTyped, Also
  <2>4. CASE Going("move") /\ objects' = Also(objects, content[at.id], None)
    <3>1. content[at.id] \in DOMAIN objects'
      BY <2>4 DEF Also
    <3> QED BY <2>1, <2>3, <2>4, <3>1 DEF InStore, Going
  <2>5. CASE at' = Idle \/ Going("discard")
    BY <2>3, <2>5, IdleAt DEF InStore, Going
  <2> QED BY <1>3, <2>4, <2>5
<1> QED BY <1>1, <1>2, <1>4, <1>5, Whole, KeepStaging, KeepArrived, KeepProject, KeepFaults, KeepDownloads

LEMMA StagingInvMoveContent ==
  ASSUME StagingInv, MoveContent
  PROVE  StagingInv'
<1> DEFINE d == content[at.id]
<1>1. /\ at.step = "move"
      /\ objects' = [objects EXCEPT ![d] = d]
      /\ content' = [content EXCEPT ![at.id] = None]
      /\ at' = [at EXCEPT !.step = "describe", !.arg = d]
      /\ UNCHANGED <<dirs, session, described, project, importing, scenario, late, used, faults>>
  BY DEF MoveContent, At, given
<1>2. /\ StagingTyped /\ Arrived /\ StoreTyped /\ ProjectTyped /\ FaultsTyped /\ Downloads /\ Shape(at)
      /\ InStore /\ Uploads
  BY Parts
<1>3. d \in DOMAIN objects
  BY <1>1, <1>2 DEF InStore
<1> HIDE DEF d
<1>4. at'.step = "describe" /\ at'.op = at.op /\ at'.id = at.id /\ at'.arg = d /\ Shape(at')
  <2>1. at' = [step |-> "describe", op |-> at.op, id |-> at.id, arg |-> d]
    BY <1>1, <1>2 DEF Shape
  <2> QED BY <2>1 DEF Shape
<1>5. Asked' /\ Uploads' /\ AtType(at)'
  BY <1>1, <1>4, Promoting
<1>6. StoreTyped' /\ InStore'
  <2>1. /\ DOMAIN objects' = DOMAIN objects /\ objects'[d] = d
        /\ \A x \in DOMAIN objects : x # d => objects'[x] = objects[x]
    BY <1>1, <1>3
  <2>2. StoreTyped'
    BY <1>1, <1>2, <2>1 DEF StoreTyped
  <2> QED BY <1>3, <1>4, <2>1, <2>2 DEF InStore
<1>7. StagingTyped'
  <2>1. content' \in [Ids -> Seq(Nat) \cup {None}] /\ \A id \in Ids : content'[id] # None => content[id] # None
    BY <1>1, <1>2 DEF StagingTyped
  <2> QED BY <1>1, <1>2, <2>1 DEF StagingTyped
<1> QED BY <1>1, <1>2, <1>5, <1>6, <1>7, Whole, KeepArrived, KeepProject, KeepFaults, KeepDownloads

LEMMA StagingInvDescribe ==
  ASSUME StagingInv, Describe
  PROVE  StagingInv'
<1>1. /\ at.step = "describe" /\ described' = described \cup {at.arg} /\ Goto("discard")
      /\ UNCHANGED <<staging, dirs, session, objects, project, importing, scenario, late, used, faults>>
  BY DEF Describe, At, given, staging, Success
<1>2. /\ StagingTyped /\ Arrived /\ StoreTyped /\ ProjectTyped /\ FaultsTyped /\ Downloads /\ Shape(at)
      /\ InStore
  BY Parts
<1>3. Going("discard")
  BY <1>1, <1>2, Goes
<1>4. Asked' /\ Uploads' /\ AtType(at)' /\ InStore'
  BY <1>1, <1>3, Promoting DEF Going, InStore
<1>5. StoreTyped'
  BY <1>1, <1>2 DEF StoreTyped, InStore
<1> QED BY <1>1, <1>2, <1>4, <1>5, Whole, KeepStaging, KeepArrived, KeepProject, KeepFaults, KeepDownloads

LEMMA StagingInvDiscard ==
  ASSUME StagingInv, Discard
  PROVE  StagingInv'
<1>1. /\ at.step = "discard" /\ at' = Idle /\ \E f : Fault(f) \/ NoFault
      /\ UNCHANGED <<store, project, importing, scenario, late, used>>
  BY DEF Discard, At, given, Done
<1>2. /\ StagingTyped /\ Arrived /\ StoreTyped /\ ProjectTyped /\ FaultsTyped /\ Downloads
      /\ at.id \in used /\ at.id \in Ids /\ at.id \notin DOMAIN importing
  <2>1. at.op \in OfId
    BY <1>1, Parts DEF Uploads
  <2> QED BY <2>1, Parts DEF Asked
<1>3. Asked' /\ Uploads' /\ InStore' /\ AtType(at)'
  BY <1>1, AfterDone
<1>4. StagingTyped' /\ Arrived' /\ Downloads'
  <2>1. CASE UNCHANGED staging
    BY <1>1, <1>2, <2>1, KeepStaging, KeepArrived, KeepDownloads DEF staging
  <2>2. CASE /\ dirs' = dirs \ {at.id}
             /\ content' = [content EXCEPT ![at.id] = None]
             /\ session' = [session EXCEPT ![at.id] = None]
    <3>1. /\ content' \in [Ids -> Seq(Nat) \cup {None}] /\ session' \in [Ids -> SessionRecord \cup {None}]
          /\ content'[at.id] = None /\ session'[at.id] = None
          /\ \A id \in Ids : id # at.id => content'[id] = content[id] /\ session'[id] = session[id]
      BY <1>2, <2>2 DEF StagingTyped
    <3>2. StagingTyped'
      BY <1>1, <1>2, <2>2, <3>1 DEF StagingTyped
    <3>3. \A id \in DOMAIN importing : id \in Ids /\ id # at.id
      BY <1>2 DEF Arrived, StagingTyped
    <3> QED BY <1>1, <1>2, <2>2, <3>1, <3>2, <3>3 DEF Arrived, Downloads, Limit
  <2> QED BY <2>1, <2>2 DEF Discard
<1> QED BY <1>1, <1>2, <1>3, <1>4, Whole, KeepStore, KeepProject, FaultCounted

(* Between the staging and the project there is only the store.            *)
LEMMA StagingInvMaterialize ==
  ASSUME StagingInv, NEW d \in DOMAIN objects, NEW replace, Materialize(d, replace)
  PROVE  StagingInv'
<1>1. /\ at' = [step |-> "copy", op |-> "materialize", id |-> None, arg |-> d] /\ Complete(d)
      /\ UNCHANGED <<staging, store, project, importing, scenario, late, used, faults>>
  BY DEF Materialize, given
<1>2. AtType(at)' /\ at'.step = "copy" /\ at'.op = "materialize" /\ at'.id = None /\ at'.arg = d
  <2>1. "copy" \in Steps /\ "materialize" \in Ops /\ None \in used' \cup {None}
    BY DEF Steps, Ops
  <2> QED BY <1>1, <2>1, AtNext
<1>3. Asked' /\ Uploads' /\ InStore'
  BY <1>1, <1>2 DEF Asked, Uploads, InStore, OfId, Complete, store
<1> QED BY <1>1, <1>2, <1>3, Parts, OnlyAt, KeepFaults DEF Others

LEMMA Copying ==
  ASSUME StagingInv, at.step \in {"copy", "backup", "place"}, NEW s \in {"backup", "place"},
         Going(s), UNCHANGED <<used, store>>, s = "place" => target' = None
  PROVE  Asked' /\ Uploads' /\ InStore' /\ AtType(at)'
<1>1. /\ AtType(at) /\ at.op = "materialize" /\ at.arg \in DOMAIN objects /\ Complete(at.arg)
      /\ at.op \in Ops /\ at.id \in used \cup {None}
  BY Parts, TypedAt DEF InStore
<1>2. AtType(at)'
  <2>1. s \in Steps
    BY DEF Steps
  <2> QED BY <1>1, <2>1 DEF Going, AtType, Shape
<1>3. Asked' /\ Uploads'
  BY <1>1 DEF Asked, Uploads, OfId, Going
<1>4. InStore'
  BY <1>1 DEF InStore, Going, Complete, store
<1> QED BY <1>2, <1>3, <1>4

LEMMA StagingInvCopy ==
  ASSUME StagingInv, Copy
  PROVE  StagingInv'
<1>1. /\ at.step = "copy" /\ (Goto("backup") \/ at' = Idle) /\ \E f : Fault(f) \/ NoFault
      /\ UNCHANGED <<staging, store, project, importing, scenario, late, used>>
  BY DEF Copy, At, given, Done
<1>2. Shape(at) /\ FaultsTyped
  BY Parts
<1>3. Asked' /\ Uploads' /\ InStore' /\ AtType(at)'
  BY <1>1, <1>2, Goes, Copying, AfterDone
<1> QED BY <1>1, <1>2, <1>3, OnlyAt, FaultCounted DEF Others

LEMMA StagingInvBackup ==
  ASSUME StagingInv, Backup
  PROVE  StagingInv'
<1>1. /\ at.step = "backup" /\ Goto("place") /\ target' = None
      /\ trash' = trash \cup ({target} \ {None})
      /\ UNCHANGED <<staging, dirs, session, store, importing, scenario, late, used, faults>>
  BY DEF Backup, At, given, staging
<1>2. /\ StagingTyped /\ Arrived /\ StoreTyped /\ ProjectTyped /\ FaultsTyped /\ Downloads /\ Shape(at)
  BY Parts
<1>3. Asked' /\ Uploads' /\ InStore' /\ AtType(at)'
  BY <1>1, <1>2, Goes, Copying
<1>4. ProjectTyped'
  BY <1>1, <1>2 DEF ProjectTyped
<1> QED BY <1>1, <1>2, <1>3, <1>4, Whole, KeepStaging, KeepArrived, KeepStore, KeepFaults, KeepDownloads

LEMMA StagingInvPlace ==
  ASSUME StagingInv, Place
  PROVE  StagingInv'
<1>1. /\ at.step = "place" /\ at' = Idle /\ target' = at.arg
      /\ UNCHANGED <<staging, dirs, session, store, trash, importing, scenario, late, used, faults>>
  BY DEF Place, At, given, staging, Done
<1>2. /\ StagingTyped /\ Arrived /\ StoreTyped /\ ProjectTyped /\ FaultsTyped /\ Downloads /\ InStore
  BY Parts
<1>3. ProjectTyped'
  BY <1>1, <1>2 DEF ProjectTyped, InStore, StoreTyped
<1> QED BY <1>1, <1>2, <1>3, AfterDone, Whole, KeepStaging, KeepArrived, KeepStore, KeepFaults, KeepDownloads

LEMMA StagingInvFails ==
  ASSUME StagingInv, Fails
  PROVE  StagingInv'
<1>1. /\ UNCHANGED <<staging, session, store, project, importing, scenario, late, used>> /\ Fault("error")
      /\ at' = Idle \/ (at.step \in {"object", "move", "describe"} /\ Rejected)
  BY DEF Fails, given, staging, Done
<1>2. Shape(at) /\ FaultsTyped
  BY Parts
<1>3. at' = Idle \/ (at.step \in {"object", "move", "describe"} /\ Going("discard"))
  BY <1>1, <1>2, RejectedTo
<1>4. Asked' /\ Uploads' /\ InStore' /\ AtType(at)'
  <2>1. CASE at' = Idle
    BY <2>1, AfterDone
  <2>2. CASE at.step \in {"object", "move", "describe"} /\ Going("discard")
    <3>1. Asked' /\ Uploads' /\ AtType(at)'
      BY <1>1, <2>2, Promoting DEF Going
    <3> QED BY <2>2, <3>1 DEF InStore, Going
  <2> QED BY <1>3, <2>1, <2>2
<1> QED BY <1>1, <1>2, <1>4, OnlyAt, FaultCounted DEF Others

LEMMA StagingInvCrash ==
  ASSUME StagingInv, Crash
  PROVE  StagingInv'
<1>1. /\ at' = Idle /\ DOMAIN importing' = {} /\ Fault("crash")
      /\ UNCHANGED <<staging, store, project, scenario, late, used>>
  BY DEF Crash, given, Done
<1>2. Arrived' /\ Downloads'
  BY <1>1 DEF Arrived, Downloads
<1> QED BY <1>1, <1>2, Parts, AfterDone, Whole, KeepStaging, KeepStore, KeepProject, FaultCounted

LEMMA StagingInvExpire ==
  ASSUME StagingInv, NEW id \in Ids, Expire(id)
  PROVE  StagingInv'
<1>1. /\ session[id] # None /\ late' = late \cup {id}
      /\ UNCHANGED <<scenario, dirs, content, session, staging, store, objects, described, project, target,
                     at, importing, used, faults>>
  BY DEF Expire, staging, store, project
<1>2. /\ StagingTyped /\ Arrived /\ StoreTyped /\ ProjectTyped /\ FaultsTyped /\ Downloads
      /\ AtType(at) /\ Asked /\ Uploads /\ InStore
  BY Parts
<1>3. StagingTyped'
  BY <1>1, <1>2 DEF StagingTyped
<1>4. AtType(at)' /\ Asked' /\ Uploads' /\ InStore'
  BY <1>1, <1>2 DEF AtType, Asked, Uploads, InStore, OfId, Complete
<1> QED BY <1>1, <1>2, <1>3, <1>4, Whole, KeepArrived, KeepStore, KeepProject, KeepFaults, KeepDownloads

LEMMA StagingInvStutter == StagingInv /\ UNCHANGED vars => StagingInv'
<1> SUFFICES ASSUME StagingInv, UNCHANGED vars PROVE StagingInv'
  OBVIOUS
<1>1. /\ UNCHANGED <<scenario, staging, store, project, importing, late, used, faults>>
      /\ UNCHANGED <<dirs, content, session, objects, described, target, at>>
  BY DEF vars, staging, store, project
<1>2. AtType(at)' /\ Asked' /\ Uploads' /\ InStore'
  BY <1>1, Parts DEF AtType, Asked, Uploads, InStore, OfId, Complete
<1> QED BY <1>1, <1>2, Parts, OnlyAt, KeepFaults DEF Others

LEMMA StagingInvNext == StagingInv /\ [Next]_vars => StagingInv'
<1> SUFFICES ASSUME StagingInv, [Next]_vars PROVE StagingInv'
  OBVIOUS
<1>1. ASSUME NEW id \in Ids, Uploading(id) PROVE StagingInv'
  <2>1. ASSUME NEW d \in scenario.declared, Begin(id, d) PROVE StagingInv'
    BY <2>1, StagingInvNew DEF Begin
  <2> QED BY <1>1, <2>1, StagingInvAppendChunk, StagingInvCommit, StagingInvExpire DEF Uploading
<1>2. ASSUME NEW id \in Ids, Downloading(id) PROVE StagingInv'
  <2>1. ASSUME NEW d \in scenario.imports, Import(id, d) PROVE StagingInv'
    BY <2>1, StagingInvNew DEF Import
  <2> QED BY <1>2, <2>1, StagingInvImportData, StagingInvImportEnds DEF Downloading
<1>3. ASSUME NEW d \in DOMAIN objects, NEW replace \in BOOLEAN, Materialize(d, replace) PROVE StagingInv'
  BY <1>3, StagingInvMaterialize
<1>4. ASSUME Step PROVE StagingInv'
  BY <1>4, StagingInvCreateDirectory, StagingInvCreateContent, StagingInvCreateSession,
     StagingInvAppendBytes, StagingInvCountBytes, StagingInvMarkCommitted, StagingInvPromote,
     StagingInvCreateObject, StagingInvMoveContent, StagingInvDescribe, StagingInvDiscard,
     StagingInvCopy, StagingInvBackup, StagingInvPlace DEF Step
<1> QED BY <1>1, <1>2, <1>3, <1>4, StagingInvFails, StagingInvCrash, StagingInvStutter DEF Next

(* At first there is nothing.                                              *)
LEMMA StagingInvInit == Init => StagingInv
<1> SUFFICES ASSUME Init PROVE StagingInv
  OBVIOUS
<1>1. scenario \in Scenarios /\ scenario.max \in Nat
  BY StoreAssumption DEF Init
<1>2. AtType(at)
  BY IdleAt, AtTyped DEF Init
<1>3. DOMAIN objects = {} /\ DOMAIN importing = {}
  BY DEF Init
<1>4. TypeOK
  <2>1. target \in Seq(Nat) \cup {None}
    BY StoreAssumption DEF Init
  <2>2. content \in [Ids -> Seq(Nat) \cup {None}] /\ session \in [Ids -> SessionRecord \cup {None}]
    BY DEF Init
  <2>3. /\ \A id \in Ids : content[id] = None /\ session[id] = None
        /\ dirs = {} /\ used = {} /\ late = {} /\ described = {} /\ trash = {} /\ faults = 0
    BY DEF Init
  <2> QED BY <1>1, <1>2, <1>3, <2>1, <2>2, <2>3 DEF TypeOK, AtType
<1>5. Asked /\ Uploads /\ InStore
  BY IdleAt DEF Init, Asked, Uploads, InStore, OfId
<1>6. Downloads
  BY <1>3 DEF Downloads
<1> QED BY <1>4, <1>5, <1>6 DEF StagingInv

LEMMA StagingAlways == Spec => []StagingInv
BY StagingInvInit, StagingInvNext, PTL DEF Spec

(* Every variable keeps its type, a session never counts more than was     *)
(* declared, and a download never takes in more than is allowed (append,   *)
(* uploads.ts 104-121; requestOnce, urlImport.ts 93-104).                  *)
THEOREM TypeCorrect == Spec => []TypeOK
<1>1. StagingInv => TypeOK
  BY DEF StagingInv
<1> QED BY <1>1, StagingAlways, PTL

-----------------------------------------------------------------------------
(* What is complete in the store stays complete.                           *)
LEMMA StoreGrows ==
  ASSUME StagingInv, [Next]_vars, NEW x \in DOMAIN objects, Complete(x)
  PROVE  x \in DOMAIN objects' /\ Complete(x)'
<1>1. CASE UNCHANGED store
  BY <1>1 DEF Complete, store
<1>2. CASE CreateObject
  BY <1>2 DEF CreateObject, Also, Complete
<1>3. CASE MoveContent
  BY <1>3 DEF MoveContent, Complete
<1>4. CASE Describe
  BY <1>4 DEF Describe, Complete
<1>5. UNCHANGED store \/ CreateObject \/ MoveContent \/ Describe
  <2>1. ASSUME NEW id \in Ids, Uploading(id) PROVE UNCHANGED store
    BY <2>1 DEF Uploading, Begin, New, AppendChunk, Commit, Expire, store
  <2>2. ASSUME NEW id \in Ids, Downloading(id) PROVE UNCHANGED store
    BY <2>2 DEF Downloading, Import, New, ImportData, ImportEnds, ImportFails, store
  <2>3. ASSUME NEW d \in DOMAIN objects, NEW replace \in BOOLEAN, Materialize(d, replace) PROVE UNCHANGED store
    BY <2>3 DEF Materialize, store
  <2>4. ASSUME Step PROVE UNCHANGED store \/ CreateObject \/ MoveContent \/ Describe
    BY <2>4 DEF Step, CreateDirectory, CreateContent, CreateSession, AppendBytes, CountBytes, MarkCommitted,
       Promote, Discard, Copy, Backup, Place
  <2>5. ASSUME Fails \/ Crash \/ UNCHANGED vars PROVE UNCHANGED store
    BY <2>5 DEF Fails, Crash, vars
  <2> QED BY <2>1, <2>2, <2>3, <2>4, <2>5 DEF Next
<1> QED BY <1>1, <1>2, <1>3, <1>4, <1>5

(* Only a promotion that succeeds adds to what is stored.                  *)
LEMMA StoredBy ==
  ASSUME StagingInv, [Next]_vars
  PROVE  \/ UNCHANGED stored
         \/ /\ CreateObject /\ content[at.id] \in DOMAIN objects /\ Complete(content[at.id])
            /\ UNCHANGED objects /\ UNCHANGED described
            /\ stored' = stored \cup {[op |-> at.op, digest |-> content[at.id]]}
         \/ Describe /\ stored' = stored \cup {[op |-> at.op, digest |-> at.arg]}
<1>1. ASSUME NEW id \in Ids, Uploading(id) PROVE UNCHANGED stored
  BY <1>1 DEF Uploading, Begin, New, AppendChunk, Commit, Expire
<1>2. ASSUME NEW id \in Ids, Downloading(id) PROVE UNCHANGED stored
  BY <1>2 DEF Downloading, Import, New, ImportData, ImportEnds, ImportFails
<1>3. ASSUME NEW d \in DOMAIN objects, NEW replace \in BOOLEAN, Materialize(d, replace) PROVE UNCHANGED stored
  BY <1>3 DEF Materialize
<1>4. ASSUME Step PROVE UNCHANGED stored \/ CreateObject \/ Describe
  BY <1>4 DEF Step, CreateDirectory, CreateContent, CreateSession, AppendBytes, CountBytes, MarkCommitted,
     Promote, MoveContent, Discard, Copy, Backup, Place
<1>5. ASSUME Fails \/ Crash \/ UNCHANGED vars PROVE UNCHANGED stored
  BY <1>5 DEF Fails, Crash, vars
<1>6. UNCHANGED stored \/ CreateObject \/ Describe
  BY <1>1, <1>2, <1>3, <1>4, <1>5 DEF Next
<1> QED BY <1>6 DEF CreateObject, Describe, Success

LEMMA StoredReadableNext == StagingInv /\ StoredReadable /\ [Next]_vars => StoredReadable'
<1> SUFFICES ASSUME StagingInv, StoredReadable, [Next]_vars PROVE StoredReadable'
  OBVIOUS
<1>1. \A x \in stored : x.digest \in DOMAIN objects' /\ Complete(x.digest)'
  BY StoreGrows DEF StoredReadable
<1>2. CASE UNCHANGED stored
  BY <1>1, <1>2 DEF StoredReadable, Complete
<1>3. CASE /\ content[at.id] \in DOMAIN objects /\ Complete(content[at.id])
           /\ UNCHANGED objects /\ UNCHANGED described
           /\ stored' = stored \cup {[op |-> at.op, digest |-> content[at.id]]}
  BY <1>1, <1>3 DEF StoredReadable, Complete
<1>4. CASE Describe /\ stored' = stored \cup {[op |-> at.op, digest |-> at.arg]}
  <2>1. PICK d : d = at.arg
    OBVIOUS
  <2>2. d \in DOMAIN objects' /\ Complete(d)'
    BY <1>4, <2>1, Parts DEF InStore, Describe, At, Complete
  <2> QED BY <1>1, <1>4, <2>1, <2>2 DEF StoredReadable, Complete
<1> QED BY <1>2, <1>3, <1>4, StoredBy

(* What an upload or a download was told is stored is in the store with    *)
(* its content and its metadata, and stays there, whatever fails and       *)
(* whenever the process dies (promoteStaging, store.ts 118-135).           *)
THEOREM StoredReadableAlways == Spec => []StoredReadable
<1>1. Init => StoredReadable
  BY DEF Init, StoredReadable
<1> QED BY <1>1, StoredReadableNext, StagingAlways, PTL DEF Spec

(* A materialization takes the destination away, and puts an artifact of   *)
(* the store in its place only where nothing is; no other step, fault or   *)
(* crash touches it (materializeArtifact, materialize.ts 44-51).           *)
THEOREM TargetAlwaysIntact == Spec => TargetIntact
<1>1. StagingInv /\ [Next]_vars =>
        [target' # target =>
           target' = None \/ (target = None /\ target' \in DOMAIN objects /\ Complete(target'))]_vars
  <2> SUFFICES ASSUME StagingInv, [Next]_vars, target' # target
               PROVE  target' = None \/ (target = None /\ target' \in DOMAIN objects /\ Complete(target'))
    OBVIOUS
  <2>1. CASE Backup
    BY <2>1 DEF Backup
  <2>2. CASE Place
    BY <2>2, Parts DEF Place, InStore, At
  <2>3. ASSUME NEW id \in Ids, Uploading(id) PROVE UNCHANGED target
    BY <2>3 DEF Uploading, Begin, New, AppendChunk, Commit, Expire, project
  <2>4. ASSUME NEW id \in Ids, Downloading(id) PROVE UNCHANGED target
    BY <2>4 DEF Downloading, Import, New, ImportData, ImportEnds, ImportFails, project
  <2>5. ASSUME NEW d \in DOMAIN objects, NEW replace \in BOOLEAN, Materialize(d, replace) PROVE UNCHANGED target
    BY <2>5 DEF Materialize, project
  <2>6. ASSUME Step PROVE UNCHANGED target \/ Backup \/ Place
    BY <2>6 DEF Step, CreateDirectory, CreateContent, CreateSession, AppendBytes, CountBytes, MarkCommitted,
       Promote, CreateObject, MoveContent, Describe, Discard, Copy, project
  <2>7. ASSUME Fails \/ Crash \/ UNCHANGED vars PROVE UNCHANGED target
    BY <2>7 DEF Fails, Crash, vars, project
  <2> QED BY <2>1, <2>2, <2>3, <2>4, <2>5, <2>6, <2>7 DEF Next
<1> QED BY <1>1, StagingAlways, PTL DEF Spec, TargetIntact

-----------------------------------------------------------------------------
(* Directories change hands only from a call to a session or a download,   *)
(* and back to the call that removes them.                                 *)
LEMMA OwnedKept ==
  ASSUME Owned, Quiet, UNCHANGED <<scenario, dirs>>, DOMAIN importing \subseteq DOMAIN importing',
         \A id \in dirs : session[id] # None => session'[id] # None,
         at.op \notin {"begin", "import"} \/ (at'.op = at.op /\ at'.id = at.id)
  PROVE  Owned'
BY DEF Owned, Quiet, Belongs

LEMMA OwnedByStep ==
  ASSUME StagingInv, Owned, Quiet, Step
  PROVE  Owned'
<1>1. /\ Shape(at) /\ Asked /\ Uploads /\ StagingTyped /\ InStore
      /\ at.op \in OfId => at.id \in used /\ at.id \in Ids
  BY Parts
<1>2. CASE CreateDirectory
  <2>1. dirs' = dirs \cup {at.id} /\ Goto("content") /\ UNCHANGED <<scenario, session, importing>> /\ at.step = "stage"
    BY <1>2 DEF CreateDirectory, At, given
  <2>2. Going("content") /\ at.op \in {"begin", "import"}
    BY <1>1, <2>1, Goes DEF Asked
  <2> QED BY <2>1, <2>2 DEF Owned, Quiet, Belongs, Going
<1>3. CASE CreateContent
  <2>1. UNCHANGED <<scenario, session, dirs>> /\ ~Fault("error") /\ at.step = "content"
    BY <1>3 DEF CreateContent, At, given, Fault, Quiet
  <2>2. \/ Goto("session") /\ UNCHANGED importing
        \/ Done /\ importing' = Also(importing, at.id, [claim |-> at.arg, received |-> 0])
    BY <1>3, <2>1 DEF CreateContent
  <2>3. CASE Goto("session") /\ UNCHANGED importing
    <3>1. Going("session")
      BY <1>1, <2>3, Goes
    <3> QED BY <2>1, <2>3, <3>1, OwnedKept DEF Going
  <2>4. CASE Done /\ importing' = Also(importing, at.id, [claim |-> at.arg, received |-> 0])
    <3>1. DOMAIN importing' = DOMAIN importing \cup {at.id}
      BY <2>4 DEF Also
    <3> QED BY <2>1, <3>1 DEF Owned, Quiet, Belongs
  <2> QED BY <2>2, <2>3, <2>4
<1>4. CASE CreateSession
  <2> DEFINE new == [claim |-> at.arg, next |-> 0, written |-> 0, committed |-> FALSE]
  <2>1. UNCHANGED <<scenario, importing, dirs>> /\ session' = [session EXCEPT ![at.id] = new] /\ at.step = "session"
    BY <1>4 DEF CreateSession, At, given
  <2>2. new # None
    <3>1. at.arg \in UNION {x.declared : x \in Scenarios}
      BY <1>1, <2>1, Parts DEF Asked, FaultsTyped
    <3>2. new \in SessionRecord
      BY <3>1, StoreAssumption DEF SessionRecord
    <3> QED BY <3>2, StoreAssumption
  <2> HIDE DEF new
  <2>3. at.id \in Ids /\ session'[at.id] # None /\ \A id \in Ids : id # at.id => session'[id] = session[id]
    BY <1>1, <2>1, <2>2 DEF Asked, OfId, StagingTyped
  <2>4. dirs \subseteq Ids
    BY <1>1 DEF StagingTyped
  <2> QED BY <2>1, <2>3, <2>4 DEF Owned, Quiet, Belongs
<1>5. CASE AppendBytes
  <2>1. UNCHANGED <<scenario, dirs, session, importing>> /\ at.op = "append"
    BY <1>1, <1>5 DEF AppendBytes, At, given, Uploads
  <2> QED BY <2>1, OwnedKept
<1>6. CASE CountBytes \/ MarkCommitted
  <2>1. /\ UNCHANGED <<scenario, dirs, importing>> /\ at.step \in {"count", "mark"}
        /\ \E v : session' = [session EXCEPT ![at.id] = v]
    BY <1>6 DEF CountBytes, MarkCommitted, Save, At, given
  <2>2. at.op \in {"append", "commit"} /\ session[at.id] # None /\ at.id \in Ids
    BY <1>1, <2>1 DEF Uploads, OfId
  <2>3. \A id \in dirs : session[id] # None => session'[id] # None
    <3>1. session'[at.id] # None
      BY <1>6, SessionKept
    <3> QED BY <1>1, <2>1, <3>1 DEF StagingTyped
  <2> QED BY <2>1, <2>2, <2>3, OwnedKept
<1>7. CASE Promote \/ CreateObject \/ Describe
  <2>1. /\ UNCHANGED <<scenario, dirs, session, importing>> /\ at.step \in {"promote", "object", "describe"}
        /\ Goto("object") \/ Goto("move") \/ Goto("discard") \/ Rejected
    BY <1>7 DEF Promote, CreateObject, Describe, Success, At, given, staging
  <2>2. at.op \in {"import", "commit"}
    BY <1>1, <2>1 DEF Uploads
  <2>3. at.op # "import" \/ Going("object") \/ Going("move") \/ Going("discard")
    BY <1>1, <2>1, Goes DEF Rejected
  <2> QED BY <2>1, <2>2, <2>3, OwnedKept DEF Going
<1>8. CASE MoveContent
  <2>1. /\ UNCHANGED <<scenario, dirs, session, importing>>
        /\ at' = [at EXCEPT !.step = "describe", !.arg = content[at.id]]
    BY <1>8 DEF MoveContent, given
  <2>2. at'.op = at.op /\ at'.id = at.id
    <3>1. PICK c : c = content[at.id]
      OBVIOUS
    <3>2. at' = [step |-> "describe", op |-> at.op, id |-> at.id, arg |-> c]
      BY <1>1, <2>1, <3>1 DEF Shape
    <3> QED BY <3>2
  <2> QED BY <2>1, <2>2, OwnedKept
<1>9. CASE Discard
  <2>1. /\ UNCHANGED <<scenario, importing>> /\ ~Fault("error") /\ at.step = "discard"
    BY <1>9 DEF Discard, At, given, Fault, Quiet
  <2>2. dirs' = dirs \ {at.id} /\ session' = [session EXCEPT ![at.id] = None]
    BY <1>9, <2>1 DEF Discard
  <2>3. \A id \in Ids : id # at.id => session'[id] = session[id]
    BY <1>1, <2>2 DEF StagingTyped
  <2>4. dirs \subseteq Ids
    BY <1>1 DEF StagingTyped
  <2> QED BY <2>1, <2>2, <2>3, <2>4 DEF Owned, Quiet, Belongs
<1>10. CASE Copy \/ Backup \/ Place
  <2>1. UNCHANGED <<scenario, dirs, session, importing>> /\ at.step \in {"copy", "backup", "place"}
    BY <1>10 DEF Copy, Backup, Place, At, given, staging
  <2>2. at.op = "materialize"
    BY <1>1, <2>1 DEF InStore
  <2> QED BY <2>1, <2>2, OwnedKept
<1> QED BY <1>2, <1>3, <1>4, <1>5, <1>6, <1>7, <1>8, <1>9, <1>10 DEF Step

LEMMA SameScenario == [Next]_vars => UNCHANGED scenario
<1> SUFFICES ASSUME [Next]_vars PROVE UNCHANGED scenario
  OBVIOUS
<1>1. ASSUME NEW id \in Ids, Uploading(id) PROVE UNCHANGED scenario
  BY <1>1 DEF Uploading, Begin, New, AppendChunk, Commit, Expire, given
<1>2. ASSUME NEW id \in Ids, Downloading(id) PROVE UNCHANGED scenario
  BY <1>2 DEF Downloading, Import, New, ImportData, ImportEnds, ImportFails, given
<1>3. ASSUME NEW d \in DOMAIN objects, NEW replace \in BOOLEAN, Materialize(d, replace) PROVE UNCHANGED scenario
  BY <1>3 DEF Materialize, given
<1>4. ASSUME Step PROVE UNCHANGED scenario
  BY <1>4 DEF Step, CreateDirectory, CreateContent, CreateSession, AppendBytes, CountBytes, MarkCommitted,
     Promote, CreateObject, MoveContent, Describe, Discard, Copy, Backup, Place, given
<1>5. ASSUME Fails \/ Crash \/ UNCHANGED vars PROVE UNCHANGED scenario
  BY <1>5 DEF Fails, Crash, vars, given
<1> QED BY <1>1, <1>2, <1>3, <1>4, <1>5 DEF Next

LEMMA OwnedNext == StagingInv /\ Owned /\ [Next]_vars => Owned'
<1> SUFFICES ASSUME StagingInv, Owned, [Next]_vars, Quiet PROVE Owned'
  BY SameScenario DEF Owned, Quiet
<1>1. ASSUME NEW id \in Ids, Uploading(id) PROVE Owned'
  <2>1. CASE Expire(id)
    BY <2>1 DEF Expire, staging, Owned, Belongs
  <2>2. CASE (\E d \in scenario.declared : Begin(id, d)) \/ Commit(id)
             \/ \E i \in 0 .. Len(Pieces) - 1 : \E c \in Sent(i) : AppendChunk(id, i, c)
    <3>1. UNCHANGED <<scenario, dirs, session, importing>> /\ at.op = "none"
      BY <2>2, IdleAt DEF Begin, New, Commit, AppendChunk, Free, staging, given
    <3> QED BY <3>1, OwnedKept
  <2> QED BY <1>1, <2>1, <2>2 DEF Uploading
<1>2. ASSUME NEW id \in Ids, Downloading(id) PROVE Owned'
  <2>1. at.op = "none" /\ UNCHANGED <<scenario, dirs, session>>
    BY <1>2, IdleAt DEF Downloading, Import, New, ImportData, ImportEnds, ImportFails, Free, staging, given
  <2>2. CASE DOMAIN importing \subseteq DOMAIN importing'
    BY <2>1, <2>2, OwnedKept
  <2>3. CASE Leave(id) /\ at'.id = id /\ at'.op = "import"
    BY <2>1, <2>3 DEF Leave, Owned, Belongs
  <2>4. DOMAIN importing \subseteq DOMAIN importing' \/ (Leave(id) /\ at'.id = id /\ at'.op = "import")
    BY <1>2 DEF Downloading, Import, New, ImportData, ImportEnds, ImportFails, Discarding
  <2> QED BY <2>2, <2>3, <2>4
<1>3. ASSUME NEW d \in DOMAIN objects, NEW replace \in BOOLEAN, Materialize(d, replace) PROVE Owned'
  <2>1. UNCHANGED <<scenario, dirs, session, importing>> /\ at.op = "none"
    BY <1>3, IdleAt DEF Materialize, Free, staging, given
  <2> QED BY <2>1, OwnedKept
<1>4. ~(Fails \/ Crash)
  BY DEF Fails, Crash, Fault, Quiet
<1>5. CASE UNCHANGED vars
  BY <1>5 DEF vars, staging, Owned, Belongs
<1> QED BY <1>1, <1>2, <1>3, <1>4, <1>5, OwnedByStep DEF Next

(* Where files do not fail and the process lives, a download leaves no     *)
(* staging directory behind when it is over, however it ended: refused,    *)
(* cut off, too long, not what was claimed, or stored                      *)
(* (importArtifactUrl, urlImport.ts 155-158).                              *)
THEOREM ImportsAlwaysLeaveNothing == Spec => []ImportsLeaveNothing
<1>1. Init => Owned
  BY DEF Init, Owned
<1>2. StagingInv /\ Owned => ImportsLeaveNothing
  BY IdleAt DEF Owned, ImportsLeaveNothing, Free, Quiet, Belongs
<1> QED BY <1>1, <1>2, OwnedNext, StagingAlways, PTL DEF Spec

-----------------------------------------------------------------------------
(* What the client has sent so far, and what a session holds of it.        *)
LEMMA UptoJoins ==
  /\ Upto[0] = <<>>
  /\ \A n \in 0 .. Len(Pieces) : Upto[n] \in Seq(Nat) /\ Len(Upto[n]) \in Nat
  /\ \A n \in 1 .. Len(Pieces) : Pieces[n] \in Seq(Nat) /\ Upto[n] = Upto[n - 1] \o Pieces[n]
  /\ \A n \in 0 .. Len(Pieces) : Len(Upto[n]) = Len(Artifact) => Upto[n] = Artifact
<1>1. Len(Pieces) \in Nat /\ \A n \in 1 .. Len(Pieces) : Pieces[n] \in Seq(Nat)
  BY StoreAssumption, ElementOfSeq, LenProperties
<1>2. IsJoin(Upto, Pieces, Len(Pieces))
  <2>1. \E f : f = [n \in 0 .. Len(Pieces) |-> IF n = 0 THEN <<>> ELSE f[n - 1] \o Pieces[n]]
    BY <1>1, JoinExists DEF IsJoin, Joined
  <2> QED BY <2>1, Zenon DEF Upto, IsJoin, Joined
<1>3. Joins(Upto, Pieces, Len(Pieces), Nat)
  BY <1>1, <1>2, JoinGrows
<1>4. \A n \in 0 .. Len(Pieces) : Upto[n] \in Seq(Nat)
  BY <1>3, Zenon DEF Joins
<1>5. \A n \in 0 .. Len(Pieces) : Len(Upto[n]) = Len(Artifact) => Upto[n] = Artifact
  <2> SUFFICES ASSUME NEW n \in 0 .. Len(Pieces), Len(Upto[n]) = Len(Upto[Len(Pieces)])
               PROVE  Upto[n] = Upto[Len(Pieces)]
    BY Zenon DEF Artifact
  <2>1. Len(Pieces) \in n .. Len(Pieces)
    BY <1>1
  <2>2. PICK f, l : f = Upto /\ l = Len(Pieces)
    OBVIOUS
  <2>3. l \in Nat /\ Joins(f, Pieces, l, Nat) /\ n \in 0 .. l /\ l \in n .. l
    BY <1>1, <1>3, <2>1, <2>2, Zenon
  <2>4. Len(f[n]) = Len(f[l]) => f[n] = f[l]
    BY ONLY <2>3, JoinSame
  <2> QED BY <2>2, <2>4
<1> QED BY <1>1, <1>3, <1>4, <1>5, LenProperties, Zenon DEF Joins

LEMMA HoldsMore ==
  ASSUME NEW c \in Seq(Nat), NEW b \in Seq(Nat), NEW n \in 0 .. Len(Pieces), Holds(c, n)
  PROVE  Holds(c \o b, n)
<1>1. PICK u, d : u = Upto[n] /\ d = c \o b
  OBVIOUS
<1>2. /\ d \in Seq(Nat) /\ Len(d) = Len(c) + Len(b) /\ Len(c) \in Nat /\ Len(b) \in Nat
      /\ \A i \in 1 .. Len(c) : d[i] = c[i]
  <2>1. /\ d \in Seq(Nat) /\ Len(d) = Len(c) + Len(b) /\ Len(c) \in Nat /\ Len(b) \in Nat
        /\ \A i \in 1 .. Len(c) + Len(b) : d[i] = IF i <= Len(c) THEN c[i] ELSE b[i - Len(c)]
    BY ONLY <1>1, c \in Seq(Nat), b \in Seq(Nat), ConcatProperties, LenProperties
  <2> QED BY <2>1
<1>3. u \in Seq(Nat) /\ Len(u) \in Nat /\ Len(c) >= Len(u) /\ (Len(c) = Len(u) => c = u)
  BY <1>1, UptoJoins DEF Holds
<1>4. Len(d) >= Len(u)
  BY <1>2, <1>3
<1>5. ASSUME Len(d) = Len(u) PROVE d = u
  <2>1. Len(d) = Len(c) /\ c = u
    BY <1>2, <1>3, <1>5
  <2> QED BY <1>2, <2>1, SeqEqual
<1> QED BY <1>1, <1>4, <1>5 DEF Holds

LEMMA HoldsNext ==
  ASSUME NEW c \in Seq(Nat), NEW n \in 0 .. Len(Pieces) - 1, Holds(c, n)
  PROVE  Holds(c \o Pieces[n + 1], n + 1)
<1>1. n \in 0 .. Len(Pieces) /\ n + 1 \in 1 .. Len(Pieces) /\ (n + 1) - 1 = n
  BY StoreAssumption
<1>2. PICK u, v, p : u = Upto[n] /\ v = Upto[n + 1] /\ p = Pieces[n + 1]
  OBVIOUS
<1>3. u \in Seq(Nat) /\ p \in Seq(Nat) /\ v = u \o p
  BY <1>1, <1>2, UptoJoins
<1>4. Len(c \o p) = Len(c) + Len(p) /\ Len(v) = Len(u) + Len(p)
  BY ONLY <1>3, c \in Seq(Nat), ConcatProperties
<1>5. Len(c) \in Nat /\ Len(u) \in Nat /\ Len(p) \in Nat
  BY <1>3, LenProperties
<1>6. Len(c) >= Len(u) /\ (Len(c) = Len(u) => c = u)
  BY <1>2 DEF Holds
<1>7. Len(c \o p) >= Len(v)
  BY <1>4, <1>5, <1>6
<1>8. Len(c \o p) = Len(v) => c \o p = v
  <2>1. Len(c \o p) = Len(v) => Len(c) = Len(u)
    BY <1>4, <1>5
  <2> QED BY <1>3, <1>6, <2>1
<1> QED BY <1>2, <1>7, <1>8 DEF Holds

(* Steps that leave the sessions and what they hold as they are.           *)
LEMMA CountedKept ==
  ASSUME Counted, UNCHANGED scenario,
         \A id \in Ids : session'[id] # None => session'[id] = session[id] /\ content'[id] = content[id],
         at'.step # "count", at'.op # "commit" \/ at'.step \notin {"object", "move", "describe"}
  PROVE  Counted'
BY DEF Counted, Matches, Holds

LEMMA CountedCreateSession ==
  ASSUME StagingInv, Counted, CreateSession
  PROVE  Counted'
<1> DEFINE new == [claim |-> at.arg, next |-> 0, written |-> 0, committed |-> FALSE]
<1>1. /\ session' = [session EXCEPT ![at.id] = new] /\ at' = Idle
      /\ UNCHANGED <<content, scenario>> /\ at.step = "session"
  BY DEF CreateSession, At, given, Done
<1>2. at.id \in Ids /\ at.arg \in scenario.declared /\ content[at.id] = <<>>
  BY <1>1, Parts DEF Asked, OfId
<1>3. /\ new.claim = at.arg /\ new.next = 0 /\ new.written = 0
  OBVIOUS
<1> HIDE DEF new
<1>4. session'[at.id] = new /\ \A id \in Ids : id # at.id => session'[id] = session[id]
  BY <1>1, <1>2, Parts DEF StagingTyped
<1>5. Len(Upto[0]) = 0 /\ Holds(<<>>, 0) /\ <<>> # None
  BY UptoJoins, EmptySeq, StoreAssumption DEF Holds
<1>6. \A id \in Ids : session'[id] # None => Matches(id)'
  <2> SUFFICES ASSUME NEW id \in Ids, session'[id] # None PROVE Matches(id)'
    OBVIOUS
  <2>1. CASE id = at.id
    <3>1. /\ session'[id].claim \in scenario'.declared /\ session'[id].next = 0 /\ session'[id].written = 0
          /\ content'[id] = <<>>
      BY <1>1, <1>2, <1>3, <1>4, <2>1
    <3> QED BY <1>5, <3>1 DEF Matches
  <2>2. CASE id # at.id
    BY <1>1, <1>4, <2>2 DEF Counted, Matches
  <2> QED BY <2>1, <2>2
<1> QED BY <1>1, <1>6, IdleAt DEF Counted

LEMMA CountedAppendBytes ==
  ASSUME StagingInv, Honest, Counted, AppendBytes
  PROVE  Counted'
<1>1. at.step = "bytes" /\ UNCHANGED <<session, scenario>>
  BY DEF AppendBytes, At, given
<1>2. /\ at.op = "append" /\ session[at.id] # None /\ ~session[at.id].committed
      /\ session[at.id].next < Len(Pieces) /\ at.id \in Ids
      /\ at.arg = Pieces[session[at.id].next + 1]
  BY <1>1, Parts DEF Uploads, Honest, OfId
<1>3. PICK c, n, b, i : c = content[at.id] /\ n = session[at.id].next /\ b = at.arg /\ i = at.id
  OBVIOUS
<1>4. n \in 0 .. Len(Pieces) - 1 /\ n \in 0 .. Len(Pieces) /\ b = Pieces[n + 1]
  BY <1>2, <1>3, Parts, SessionTyped, StoreAssumption
<1>5. b \in Seq(Nat)
  BY <1>4, Parts, ScenarioTyped
<1>6. c \in Seq(Nat) /\ c # None /\ Holds(c, n)
  <2>1. c # None /\ Holds(c, n)
    BY <1>2, <1>3 DEF Counted, Matches
  <2> QED BY <1>2, <1>3, <2>1, Parts DEF StagingTyped
<1>7. PICK w \in Seq(Nat) : Write(i, w) /\ (at' = Idle \/ (w = b /\ Goto("count")))
  BY <1>3, <1>5, CutsTyped DEF AppendBytes, Done, Honest, Fault
<1>8. /\ content'[i] = c \o w /\ content'[i] # None
      /\ \A j \in Ids : j # i => content'[j] = content[j]
  <2>1. content'[i] = Had(content[i]) \o w /\ content'[i] # None /\ \A j \in Ids : j # i => content'[j] = content[j]
    BY <1>2, <1>3, <1>7, Parts, Written
  <2>2. Had(content[i]) = c
    BY <1>3, <1>6 DEF Had
  <2> QED BY <2>1, <2>2
<1>9. Holds(c \o w, n) /\ (w = b => Holds(c \o w, n + 1))
  BY <1>4, <1>6, <1>7, HoldsMore, HoldsNext
<1>10. \A id \in Ids : session'[id] # None => Matches(id)'
  <2> SUFFICES ASSUME NEW id \in Ids, session'[id] # None PROVE Matches(id)'
    OBVIOUS
  <2>1. session[id] # None /\ session' = session /\ scenario' = scenario /\ Matches(id)
    BY <1>1 DEF Counted
  <2>2. CASE id = i
    <3>1. Holds(content'[id], session'[id].next) /\ content'[id] # None
      BY <1>3, <1>8, <1>9, <2>1, <2>2
    <3> QED BY <2>1, <3>1 DEF Matches
  <2>3. CASE id # i
    BY <1>8, <2>1, <2>3 DEF Matches
  <2> QED BY <2>2, <2>3
<1>11. CASE at' = Idle
  BY <1>10, <1>11, IdleAt DEF Counted
<1>12. CASE w = b /\ Goto("count")
  <2>1. Going("count")
    BY <1>12, Parts, Goes
  <2>2. content'[at'.id] = c \o w /\ session'[at'.id].next = n /\ at'.step = "count" /\ at'.op = "append"
    BY <1>1, <1>2, <1>3, <1>8, <2>1 DEF Going
  <2> QED BY <1>9, <1>10, <1>12, <2>2 DEF Counted
<1> QED BY <1>7, <1>11, <1>12

LEMMA CountedCount ==
  ASSUME StagingInv, Honest, Counted, CountBytes \/ MarkCommitted
  PROVE  Counted'
<1>1. /\ UNCHANGED <<content, scenario>> /\ at.id \in Ids
      /\ \A id \in Ids : id # at.id => session'[id] = session[id]
      /\ session[at.id] # None /\ session'[at.id].claim = Ses.claim
  BY SessionKept DEF CountBytes, MarkCommitted, given
<1>2. Matches(at.id)
  BY <1>1 DEF Counted
<1>3. CASE CountBytes
  <2>1. /\ at.step = "count" /\ at' = Idle /\ session'[at.id].next = Ses.next + 1
        /\ session'[at.id].written = Ses.written + Len(at.arg)
    BY <1>3, SessionKept DEF CountBytes, Save, At, Goto, Done
  <2>2. PICK n, i : n = Ses.next /\ i = at.id
    OBVIOUS
  <2>3. at.arg = Pieces[n + 1] /\ n + 1 \in 1 .. Len(Pieces) /\ (n + 1) - 1 = n /\ n \in 0 .. Len(Pieces)
    <3>1. n < Len(Pieces) /\ at.arg = Pieces[n + 1]
      BY <2>1, <2>2, Parts DEF Uploads, Honest, Ses
    <3>2. n \in 0 .. Len(Pieces)
      BY <1>1, <2>2, Parts, SessionTyped DEF Ses
    <3>3. PICK l \in Nat : l = Len(Pieces)
      BY StoreAssumption, LenProperties
    <3>4. n + 1 \in 1 .. l /\ (n + 1) - 1 = n
      BY <3>1, <3>2, <3>3
    <3> QED BY <3>1, <3>2, <3>3, <3>4
  <2>4. Ses.written + Len(at.arg) = Len(Upto[n + 1])
    <3>1. PICK u, v, b : u = Upto[n] /\ v = Upto[n + 1] /\ b = Pieces[n + 1]
      OBVIOUS
    <3>2. u \in Seq(Nat) /\ b \in Seq(Nat) /\ v = u \o b
      BY <2>3, <3>1, UptoJoins
    <3>3. Len(v) = Len(u) + Len(b)
      BY ONLY <3>2, ConcatProperties
    <3>4. Ses.written = Len(u)
      BY <1>2, <2>2, <3>1 DEF Matches, Ses
    <3> QED BY <2>3, <3>1, <3>3, <3>4
  <2>5. Holds(content[i], n + 1) /\ (content[i] = None => session[i].committed)
    BY <1>2, <2>1, <2>2 DEF Counted, Matches, Ses
  <2>6. content[i] # None
    <3>1. ~session[i].committed
      BY <2>1, <2>2, Parts DEF Uploads
    <3> QED BY <2>5, <3>1
  <2>7. ASSUME NEW id \in Ids, session'[id] # None PROVE Matches(id)'
    <3>1. CASE id = i
      <4>1. /\ session'[id].claim \in scenario'.declared /\ session'[id].next = n + 1
            /\ session'[id].written = Len(Upto[n + 1]) /\ content'[id] = content[i]
        BY <1>1, <1>2, <2>1, <2>2, <2>4, <3>1 DEF Matches, Ses
      <4> QED BY <2>5, <2>6, <4>1 DEF Matches
    <3>2. CASE id # i
      BY <1>1, <2>2, <2>7, <3>2 DEF Counted, Matches
    <3> QED BY <3>1, <3>2
  <2> QED BY <2>1, <2>7, IdleAt DEF Counted
<1>4. CASE MarkCommitted
  <2>1. /\ at.step = "mark" /\ (at' = Idle \/ Goto("promote")) /\ session'[at.id].next = Ses.next
        /\ session'[at.id].written = Ses.written /\ session'[at.id].committed
    BY <1>4, SessionKept DEF MarkCommitted, Save, At, Goto, Done
  <2>2. ASSUME NEW id \in Ids, session'[id] # None PROVE Matches(id)'
    <3>1. CASE id = at.id
      BY <1>1, <1>2, <2>1, <3>1 DEF Matches, Ses
    <3>2. CASE id # at.id
      BY <1>1, <2>2, <3>2 DEF Counted, Matches
    <3> QED BY <3>1, <3>2
  <2>3. at'.step \in {"idle", "promote"}
    BY <2>1, Parts, Goes, IdleAt DEF Going
  <2> QED BY <2>2, <2>3 DEF Counted
<1> QED BY <1>3, <1>4

(* A content of the size that was declared is the artifact: as many bytes  *)
(* as were counted, all of which the client has declared.                  *)
LEMMA CountedPromote ==
  ASSUME StagingInv, Honest, Counted, Promote
  PROVE  Counted'
<1>1. at.step = "promote" /\ UNCHANGED <<content, session, scenario>> /\ ((Genuine /\ Goto("object")) \/ Rejected)
  BY DEF Promote, At, staging, given
<1>2. CASE Genuine /\ Goto("object")
  <2>1. Going("object")
    BY <1>2, Parts, Goes
  <2>2. at.op = "commit" => content[at.id] = Artifact
    <3> SUFFICES ASSUME at.op = "commit" PROVE content[at.id] = Artifact
      OBVIOUS
    <3>1. /\ session[at.id] # None /\ session[at.id].written = session[at.id].claim.size
          /\ at.arg = session[at.id].claim /\ at.id \in Ids
      BY <1>1, Parts DEF Uploads, OfId
    <3>2. PICK c, n : c = content[at.id] /\ n = session[at.id].next
      OBVIOUS
    <3>3. c # None /\ Len(c) = Len(Artifact) /\ Len(Artifact) = Len(Upto[n]) /\ Holds(c, n)
      <4>1. Matches(at.id) /\ c # None /\ Len(c) = session[at.id].claim.size
        BY <1>2, <3>1, <3>2 DEF Counted, Genuine
      <4> QED BY <3>1, <3>2, <4>1 DEF Matches, Honest
    <3>4. n \in 0 .. Len(Pieces)
      BY <3>1, <3>2, Parts, SessionTyped
    <3>5. Upto[n] = Artifact
      BY <3>3, <3>4, UptoJoins
    <3> QED BY <3>2, <3>3, <3>5 DEF Holds
  <2>3. at'.step = "object" /\ at'.op = at.op /\ at'.id = at.id
    BY <2>1 DEF Going
  <2> QED BY <1>1, <2>2, <2>3 DEF Counted, Matches
<1>3. CASE Rejected
  <2>1. at'.step \in {"idle", "discard"}
    BY <1>3, Parts, RejectedTo, IdleAt DEF Going
  <2> QED BY <1>1, <2>1, CountedKept
<1> QED BY <1>1, <1>2, <1>3

LEMMA CountedCreateObject ==
  ASSUME StagingInv, Counted, CreateObject \/ Describe \/ Fails
  PROVE  Counted'
<1>1. /\ UNCHANGED <<content, session, scenario>>
      /\ at' = Idle \/ Goto("discard") \/ Rejected \/ (at.step = "object" /\ Goto("move"))
  BY DEF CreateObject, Describe, Fails, At, staging, given, Success, Done
<1>2. CASE at.step = "object" /\ Goto("move")
  <2>1. Going("move")
    BY <1>2, Parts, Goes
  <2> QED BY <1>1, <1>2, <2>1 DEF Going, Counted, Matches
<1>3. CASE at' = Idle \/ Goto("discard") \/ Rejected
  <2>1. at'.step \in {"idle", "discard"}
    BY <1>3, Parts, Goes, RejectedTo, IdleAt DEF Going
  <2> QED BY <1>1, <2>1, CountedKept
<1> QED BY <1>1, <1>2, <1>3

LEMMA CountedMoveContent ==
  ASSUME StagingInv, Counted, MoveContent
  PROVE  Counted'
<1>1. /\ at.step = "move" /\ UNCHANGED <<session, scenario>>
      /\ content' = [content EXCEPT ![at.id] = None]
      /\ at' = [at EXCEPT !.step = "describe", !.arg = content[at.id]]
  BY DEF MoveContent, At, given
<1>2. at.op \in {"import", "commit"} /\ at.id \in Ids
  BY <1>1, Parts DEF Uploads, OfId
<1>3. at'.step = "describe" /\ at'.op = at.op /\ at'.arg = content[at.id]
  <2>1. PICK c : c = content[at.id]
    OBVIOUS
  <2>2. at' = [step |-> "describe", op |-> at.op, id |-> at.id, arg |-> c]
    BY <1>1, <2>1, Parts DEF Shape
  <2> QED BY <2>1, <2>2
<1>4. content'[at.id] = None /\ \A id \in Ids : id # at.id => content'[id] = content[id]
  BY <1>1, <1>2, Parts DEF StagingTyped
<1>5. session[at.id] # None => session[at.id].committed
  BY <1>1, <1>2, Parts DEF Uploads, Asked
<1>6. \A id \in Ids : session'[id] # None => Matches(id)'
  BY <1>1, <1>4, <1>5 DEF Counted, Matches
<1> QED BY <1>1, <1>3, <1>6 DEF Counted

(* The steps of downloads, of the project and of the removal.              *)
LEMMA CountedElse ==
  ASSUME StagingInv, Counted,
         CreateDirectory \/ CreateContent \/ Discard \/ Copy \/ Backup \/ Place \/ Crash
  PROVE  Counted'
<1>1. CASE CreateDirectory
  <2>1. UNCHANGED <<content, session, scenario>> /\ Goto("content")
    BY <1>1 DEF CreateDirectory, given
  <2>2. at'.step = "content"
    BY <2>1, Parts, Goes DEF Going
  <2> QED BY <2>1, <2>2, CountedKept
<1>2. CASE CreateContent
  <2>1. /\ UNCHANGED <<session, scenario>> /\ at.step = "content"
        /\ UNCHANGED content \/ content' = [content EXCEPT ![at.id] = <<>>]
        /\ at' = Idle \/ Goto("session") \/ Goto("discard")
    BY <1>2 DEF CreateContent, At, given, Done
  <2>2. session[at.id] = None
    BY <2>1, Parts DEF Asked
  <2>3. \A id \in Ids : id # at.id => content'[id] = content[id]
    BY <2>1, Parts DEF StagingTyped
  <2>4. at'.step \in {"idle", "session", "discard"}
    BY <2>1, Parts, Goes, IdleAt DEF Going
  <2> QED BY <2>1, <2>2, <2>3, <2>4, CountedKept
<1>3. CASE Discard
  <2>1. /\ UNCHANGED scenario /\ at' = Idle /\ at.step = "discard"
        /\ \/ UNCHANGED staging
           \/ /\ content' = [content EXCEPT ![at.id] = None]
              /\ session' = [session EXCEPT ![at.id] = None]
    BY <1>3 DEF Discard, At, given, Done
  <2>2. at.id \in Ids
    BY <2>1, Parts DEF Uploads
  <2>3. \A id \in Ids : session'[id] # None => session'[id] = session[id] /\ content'[id] = content[id]
    BY <2>1, <2>2, Parts DEF StagingTyped, staging
  <2> QED BY <2>1, <2>3, IdleAt, CountedKept
<1>4. CASE Copy \/ Backup \/ Place \/ Crash
  <2>1. /\ UNCHANGED <<content, session, scenario>>
        /\ at' = Idle \/ Goto("backup") \/ Goto("place")
    BY <1>4 DEF Copy, Backup, Place, Crash, staging, given, Done
  <2>2. at'.step \in {"idle", "backup", "place"}
    BY <2>1, Parts, Goes, IdleAt DEF Going
  <2> QED BY <2>1, <2>2, CountedKept
<1> QED BY <1>1, <1>2, <1>3, <1>4

LEMMA CountedOutside ==
  ASSUME StagingInv, Counted, NEW id \in Ids, Uploading(id) \/ Downloading(id)
  PROVE  Counted'
<1>1. CASE Expire(id) 
  BY <1>1 DEF Expire, staging, Counted, Matches
<1>2. CASE \/ \E d : Begin(id, d) \/ Import(id, d)
           \/ Commit(id) \/ (\E i, c : AppendChunk(id, i, c)) \/ ImportEnds(id) \/ ImportFails(id)
  <2>1. /\ UNCHANGED <<content, session, scenario>>
        /\ at'.step \in {"stage", "bytes", "mark", "promote", "discard"}
    BY <1>2 DEF Begin, Import, New, Commit, AppendChunk, ImportEnds, ImportFails, Discarding, staging, given
  <2> QED BY <2>1, CountedKept
<1>3. ASSUME NEW i \in 0 .. Len(Pieces) - 1, NEW c \in Sent(i), id \in DOMAIN importing, ImportData(id, c)
      PROVE  Counted'
  <2>1. /\ UNCHANGED <<session, scenario>> /\ at = Idle
        /\ UNCHANGED content \/ \E b : Write(id, b)
        /\ UNCHANGED at \/ Discarding(id)
    BY <1>3 DEF ImportData, given, Free
  <2>2. session[id] = None
    BY <1>3, Parts DEF Downloads
  <2>3. \A j \in Ids : j # id => content'[j] = content[j]
    BY <2>1, Parts DEF Write, StagingTyped
  <2>4. at'.step \in {"idle", "discard"}
    BY <2>1, IdleAt DEF Discarding
  <2> QED BY <2>1, <2>2, <2>3, <2>4, CountedKept
<1> QED BY <1>1, <1>2, <1>3 DEF Uploading, Downloading

LEMMA CountedNext ==
  ASSUME StagingInv, Honest, Counted, [Next]_vars
  PROVE  Counted'
<1>1. ASSUME NEW d \in DOMAIN objects, NEW replace \in BOOLEAN, Materialize(d, replace) PROVE Counted'
  <2>1. UNCHANGED <<content, session, scenario>> /\ at'.step = "copy"
    BY <1>1 DEF Materialize, staging, given
  <2> QED BY <2>1, CountedKept
<1>2. CASE UNCHANGED vars
  BY <1>2 DEF vars, staging, Counted, Matches
<1>3. CASE Step
  BY <1>3, CountedCreateSession, CountedAppendBytes, CountedCount, CountedPromote, CountedCreateObject,
     CountedMoveContent, CountedElse DEF Step
<1> QED BY <1>1, <1>2, <1>3, CountedOutside, CountedCreateObject, CountedElse DEF Next

LEMMA HonestInvNext == StagingInv /\ HonestInv /\ [Next]_vars => HonestInv'
<1> SUFFICES ASSUME StagingInv, HonestInv, [Next]_vars, Honest
             PROVE  Counted' /\ \A x \in stored' : x.op = "commit" => x.digest = Artifact
  BY SameScenario DEF HonestInv, Honest
<1>1. Counted /\ \A x \in stored : x.op = "commit" => x.digest = Artifact
  BY DEF HonestInv
<1>2. Counted'
  BY <1>1, CountedNext
<1>3. CASE UNCHANGED stored
  BY <1>1, <1>2, <1>3
<1>4. CASE CreateObject /\ stored' = stored \cup {[op |-> at.op, digest |-> content[at.id]]}
  <2>1. at.op = "commit" => content[at.id] = Artifact
    BY <1>1, <1>4 DEF CreateObject, At, Counted
  <2> QED BY <1>1, <1>2, <1>4, <2>1
<1>5. CASE Describe /\ stored' = stored \cup {[op |-> at.op, digest |-> at.arg]}
  <2>1. at.op = "commit" => at.arg = Artifact
    BY <1>1, <1>5 DEF Describe, At, Counted
  <2> QED BY <1>1, <1>2, <1>5, <2>1
<1> QED BY <1>3, <1>4, <1>5, StoredBy

(* A client that declares the size of its artifact, sends the chunks in    *)
(* their order and repeats what was not acknowledged is told "stored" of   *)
(* nothing but its artifact, though a crash or a failed write may have     *)
(* left chunks, or parts of them, in the content twice                     *)
(* (append 94-115, commit 117-125; promoteStaging, store.ts 77-102).       *)
THEOREM StoresOnlyTheArtifact == Spec => []StoresTheArtifact
<1>1. Init => HonestInv
  BY IdleAt DEF Init, HonestInv, Counted
<1>2. HonestInv => StoresTheArtifact
  BY DEF HonestInv, Honest, StoresTheArtifact
<1> QED BY <1>1, <1>2, HonestInvNext, StagingAlways, PTL DEF Spec

=============================================================================
