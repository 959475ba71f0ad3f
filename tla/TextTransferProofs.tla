------------------------- MODULE TextTransferProofs -------------------------
(***************************************************************************)
(* Proofs about TextTransfer, for every text and every way to cut it, any  *)
(* number of sessions, all limits and all scenarios.                       *)
(***************************************************************************)
EXTENDS TextTransfer, BasicLemmas

(* The steps of one call follow each other: what is done at each step, and *)
(* that the session a call is about is there while it is needed.           *)
Beginning  == {"sweep", "room", "stage", "first"}
Adding     == {"receipt", "fill", "bytes", "count"}
Placing    == {"verify", "mark", "temp", "trash", "replace", "restore"}

Calls ==
  /\ at.step = "idle" => at = Idle
  /\ at.step # "idle" => at.s \in Sessions
  /\ at.step \in Beginning => at.op = "begin"
  /\ at.op = "begin" => at.step \in Beginning \cup {"remove"}
  /\ at.step \in {"open", "repair", "repaired"} => at.op \in DOMAIN After
  /\ at.step \in Adding \cup {"check", "appended"} => at.op = "append"
  /\ at.step = "guard" => at.op = "commit"
  /\ at.step \in Placing => at.op = "verify"
  /\ at.step \notin Beginning \cup {"idle", "remove"} => session[at.s] # None

(* An identifier is used once: a session that begins finds nothing.        *)
Nothing(s) == session[s] = None /\ \A i \in Indexes : receipts[s][i] = None

Fresh ==
  /\ at.op = "begin" => at.s \in begun /\ Nothing(at.s) /\ \A a \in acked : a[1] # at.s
  /\ at.step = "first" => content[at.s] = <<>>

(* What is added was next, and fits.                                       *)
Fitting ==
  /\ at.step \in Adding =>
       ~Ses.verified /\ at.arg.index = Ses.next /\ Ses.written + Len(at.arg.chunk) <= Ses.bytes
  /\ at.step = "repair" => Readable

StepInv == Calls /\ Fresh /\ Fitting

(* A receipt is for a chunk that was counted, or for the next, which fits. *)
Covers(ses, rs) ==
  /\ \A i \in Indexes : rs[i] # None => i <= ses.next /\ i < Len(Pieces)
  /\ rs[ses.next] \in Seq(Nat) => ses.written + Len(rs[ses.next]) <= ses.bytes

StateInv ==
  /\ \A s \in Sessions \ begun : Nothing(s) /\ content[s] = None
  /\ \A s \in Sessions : session[s] # None => Covers(session[s], receipts[s])
  /\ \A a \in acked : a[1] \in begun

BaseInv == TypeOK /\ StepInv /\ StateInv

(* What takes the place of the destination is what was declared.           *)
Verified ==
  /\ VerifiedAsDeclared
  /\ at.step \in {"mark", "temp", "trash", "replace"} => content[at.s] # None /\ content[at.s] = Ses.digest
  /\ at.step \in {"temp", "trash", "replace", "restore"} => Ses.verified

Kept ==
  /\ past \subseteq Seq(Nat) /\ NothingLost
  /\ at.step \in {"replace", "restore"} => target = None
  /\ at.step = "restore" => at.arg # None

(* Where the client keeps the order, a session holds what it has counted,  *)
(* or that and the chunk it has a receipt of (l: the sessions out of time).*)
GivenUp(s, ses, l) == s \in l \/ ses.verified

Holds(s, ses, c, rs, l) ==
  \/ c = Upto[ses.next]
  \/ /\ ses.next < Len(Pieces) /\ c = Upto[ses.next + 1]
     /\ rs[ses.next] = Pieces[ses.next + 1] \/ GivenUp(s, ses, l)

Ordered(s, ses, c, rs, l) ==
  /\ \A i \in 0 .. Len(Pieces) - 1 : rs[i] \in Seq(Nat) => rs[i] = Pieces[i + 1]
  /\ c # None => \E n \in Indexes : c = Upto[n]
  /\ ses # None => /\ ses.written = Len(Upto[ses.next])
                   /\ IF c = None THEN GivenUp(s, ses, l) ELSE Holds(s, ses, c, rs, l)

InOrder == \A s \in Sessions : Ordered(s, session[s], content[s], receipts[s], late)

Underway ==
  /\ at.op = "append" => at.arg.chunk = Pieces[at.arg.index + 1]
  /\ at.step = "remove" => session[at.s] = None \/ GivenUp(at.s, Ses, late)
  /\ at.step = "repair" => content[at.s] = Upto[Ses.next + 1]
  /\ at.step \in {"repaired", "check"} => content[at.s] = Upto[Ses.next] \/ Ses.verified
  /\ at.step \in {"receipt", "fill", "bytes"} => content[at.s] = Upto[Ses.next]
  /\ at.step = "count" => content[at.s] = Upto[Ses.next + 1]
  /\ at.step \in {"bytes", "count"} => receipts[at.s][Ses.next] = Pieces[Ses.next + 1]
  /\ at.step = "appended" => Ses.next = at.arg.index + 1

Acked ==
  \A a \in acked :
    /\ a[1] \in Sessions /\ a[2] \in 0 .. Len(Pieces) - 1
    /\ session[a[1]] # None => session[a[1]].next > a[2]

Sent == InOrder /\ Underway /\ Acked

SentInv == Sequential => Sent

-----------------------------------------------------------------------------
(* Where the process stands is a record; a step goes to another or ends.   *)
Shape(a) == a = [step |-> a.step, op |-> a.op, s |-> a.s, arg |-> a.arg]

Going(x) == at'.step = x /\ at'.op = at.op /\ at'.s = at.s /\ at'.arg = at.arg /\ Shape(at')

LEMMA Goes ==
  ASSUME Shape(at), NEW x, Goto(x)
  PROVE  Going(x)
<1>1. at' = [step |-> x, op |-> at.op, s |-> at.s, arg |-> at.arg]
  BY DEF Goto, Shape
<1> QED BY <1>1 DEF Going, Shape

LEMMA IdleAt ==
  Shape(Idle) /\ Idle.step = "idle" /\ Idle.op = "none" /\ Idle.s = None /\ Idle.arg = None
BY DEF Shape, Idle

Called == {"append", "inspect", "commit", "verify"}

LEMMA AfterIs ==
  /\ DOMAIN After = Called
  /\ After["append"] = "check" /\ After["inspect"] = "idle"
  /\ After["commit"] = "guard" /\ After["verify"] = "verify"
BY DEF After, Called

(* The parts of the type invariant.                                        *)
SessionsTyped ==
  /\ session \in [Sessions -> SessionRecord \cup {None}]
  /\ \A s \in Sessions : session[s] # None => session[s].written <= session[s].bytes

ContentTyped == content \in [Sessions -> Seq(Nat) \cup {None}]

ReceiptsTyped == receipts \in [Sessions -> [Indexes -> Seq(Nat) \cup {None, Torn}]]

PlaceTyped == target \in Seq(Nat) \cup {None} /\ trash \subseteq Seq(Nat)

AtTyped ==
  /\ Shape(at) /\ at.step \in Steps /\ at.op \in {"none", "begin"} \cup Called
  /\ at.s \in Sessions \cup {None}
  /\ at.op = "begin" => at.arg \in scenario.declarations
  /\ at.op = "append" => at.arg \in AppendArg
  /\ at.op \notin {"begin", "append"} => at.arg \in Seq(Nat) \cup {None}

RestTyped ==
  /\ scenario \in Scenarios /\ late \subseteq Sessions /\ approving \subseteq Sessions
  /\ begun \subseteq Sessions /\ faults \in Nat

LEMMA TypeParts ==
  TypeOK <=> SessionsTyped /\ ContentTyped /\ ReceiptsTyped /\ PlaceTyped /\ AtTyped /\ RestTyped
<1>1. at \in [step : Steps, op : {"none", "begin"} \cup Called, s : Sessions \cup {None}, arg : {at.arg}]
        <=> /\ Shape(at) /\ at.step \in Steps /\ at.op \in {"none", "begin"} \cup Called
            /\ at.s \in Sessions \cup {None}
  BY DEF Shape
<1>2. DOMAIN After = Called
  BY AfterIs
<1> HIDE DEF Called
<1> QED BY <1>1, <1>2 DEF TypeOK, SessionsTyped, ContentTyped, ReceiptsTyped, PlaceTyped, AtTyped, RestTyped

LEMMA BaseParts ==
  ASSUME BaseInv
  PROVE  /\ SessionsTyped /\ ContentTyped /\ ReceiptsTyped /\ PlaceTyped /\ AtTyped /\ RestTyped
         /\ Shape(at) /\ Calls /\ Fresh /\ Fitting /\ StateInv
BY TypeParts DEF BaseInv, StepInv, AtTyped

LEMMA Whole ==
  ASSUME SessionsTyped', ContentTyped', ReceiptsTyped', PlaceTyped', AtTyped', RestTyped', StepInv', StateInv'
  PROVE  BaseInv'
<1>1. (TypeOK <=> SessionsTyped /\ ContentTyped /\ ReceiptsTyped /\ PlaceTyped /\ AtTyped /\ RestTyped)'
  BY TypeParts, PTL
<1> QED BY <1>1 DEF BaseInv

LEMMA SessionTyped ==
  ASSUME SessionsTyped, NEW s \in Sessions, session[s] # None
  PROVE  /\ session[s] \in SessionRecord /\ session[s].bytes \in Nat /\ session[s].digest \in Seq(Nat)
         /\ session[s].next \in Indexes /\ session[s].written \in Nat
         /\ session[s].verified \in BOOLEAN /\ session[s].written <= session[s].bytes
<1>1. session[s] \in SessionRecord /\ session[s].written <= session[s].bytes
  BY DEF SessionsTyped
<1>2. /\ session[s].bytes \in Nat /\ session[s].digest \in Seq(Nat) /\ session[s].next \in Indexes
      /\ session[s].written \in Nat /\ session[s].verified \in BOOLEAN
  BY <1>1 DEF SessionRecord
<1> QED BY <1>1, <1>2

LEMMA FaultCounted ==
  ASSUME RestTyped, NEW f, Fault(f) \/ NoFault, UNCHANGED <<given, begun>>, approving' \subseteq Sessions
  PROVE  RestTyped'
BY DEF RestTyped, Fault, NoFault, given

LEMMA AfterDone == ASSUME at' = Idle PROVE AtTyped' /\ StepInv'
<1>1. at'.step = "idle" /\ at'.op = "none" /\ Shape(at') /\ at'.s = None /\ at'.arg = None
  BY IdleAt
<1> QED BY <1>1 DEF AtTyped, StepInv, Calls, Fresh, Fitting, Steps, Beginning, Adding, Placing, Called

(* Most steps leave what is staged alone.                                  *)
LEMMA KeepStaging ==
  ASSUME BaseInv, UNCHANGED <<staging, begun, acked>>
  PROVE  SessionsTyped' /\ ContentTyped' /\ ReceiptsTyped' /\ StateInv'
<1>1. /\ UNCHANGED <<session, content, receipts, begun, acked>>
      /\ SessionsTyped /\ ContentTyped /\ ReceiptsTyped /\ StateInv
  BY BaseParts DEF staging
<1> QED BY <1>1 DEF SessionsTyped, ContentTyped, ReceiptsTyped, StateInv, Nothing

(* What follows when a session has been opened.                            *)
LEMMA OpenedTo ==
  ASSUME BaseInv, at.step \in {"open", "repaired"}, Opened
  PROVE  \/ at' = Idle
         \/ Going("remove") /\ at.s \in late /\ ~Ses.verified
         \/ /\ at.s \notin late \/ Ses.verified
            /\ \/ Going("check") /\ at.op = "append"
               \/ Going("guard") /\ at.op = "commit"
               \/ Going("verify") /\ at.op = "verify"
<1>1. Shape(at) /\ at.op \in Called
  BY BaseParts, AfterIs DEF Calls
<1> QED BY <1>1, AfterIs, Goes DEF Opened, Done, Called

-----------------------------------------------------------------------------
(* Beginning, and removal.                                                 *)
LEMMA ScenarioTyped ==
  ASSUME RestTyped
  PROVE  /\ scenario.sessions \subseteq Sessions /\ scenario.strays \subseteq Seq(Nat)
         /\ scenario.declarations \subseteq [bytes : Nat, digest : Seq(Nat)]
         /\ \A i \in 0 .. Len(Pieces) - 1 : Pieces[i + 1] \in Seq(Nat)
         /\ \A i \in 0 .. Len(Pieces) - 1 : \A c \in Chunk(i) : c \in Seq(Nat)
<1>1. /\ scenario.sessions \subseteq Sessions /\ scenario.strays \subseteq Seq(Nat)
      /\ scenario.declarations \subseteq [bytes : Nat, digest : Seq(Nat)]
  BY TransferAssumption DEF RestTyped
<1>2. ASSUME NEW i \in 0 .. Len(Pieces) - 1 PROVE Pieces[i + 1] \in Seq(Nat)
  <2>1. Pieces \in Seq(Seq(Nat)) /\ i + 1 \in 1 .. Len(Pieces)
    BY TransferAssumption
  <2> QED BY <2>1
<1> QED BY <1>1, <1>2 DEF Chunk

LEMMA BaseBegin ==
  ASSUME BaseInv, NEW s \in Sessions, NEW d \in scenario.declarations, Begin(s, d)
  PROVE  BaseInv'
<1>1. /\ s \notin begun /\ begun' = begun \cup {s}
      /\ at' = [step |-> "sweep", op |-> "begin", s |-> s, arg |-> d]
      /\ UNCHANGED <<scenario, late, staging, session, content, receipts, target, trash, approving, faults, acked>>
  BY DEF Begin, files, staging, given
<1>2. at'.step = "sweep" /\ at'.op = "begin" /\ at'.s = s /\ at'.arg = d /\ Shape(at')
  BY <1>1 DEF Shape
<1>3. Nothing(s) /\ content[s] = None /\ \A a \in acked : a[1] # s
  BY <1>1, BaseParts DEF StateInv
<1>4. AtTyped' /\ Calls' /\ Fitting'
  BY <1>1, <1>2 DEF AtTyped, Steps, Calls, Fitting, Beginning, Adding, Placing
<1>5. Fresh'
  BY <1>1, <1>2, <1>3 DEF Fresh, Nothing
<1>6. SessionsTyped' /\ ContentTyped' /\ ReceiptsTyped' /\ PlaceTyped' /\ RestTyped'
  BY <1>1, BaseParts DEF SessionsTyped, ContentTyped, ReceiptsTyped, PlaceTyped, RestTyped
<1>7. StateInv'
  BY <1>1, BaseParts DEF StateInv, Nothing
<1> QED BY <1>4, <1>5, <1>6, <1>7, Whole DEF StepInv

Removes(s) ==
  /\ session'[s] = session[s] \/ session'[s] = None
  /\ content'[s] = content[s] \/ content'[s] = None
  /\ receipts'[s] = receipts[s] \/ \A i \in Indexes : receipts'[s][i] = None

LEMMA Removed ==
  ASSUME BaseInv, NEW S, NEW parts, Remove(S, parts), UNCHANGED <<begun, acked>>
  PROVE  /\ SessionsTyped' /\ ContentTyped' /\ ReceiptsTyped' /\ StateInv'
         /\ \A s \in Sessions : Removes(s)
         /\ \A s \in Sessions \ S : session'[s] = session[s] /\ content'[s] = content[s] /\ receipts'[s] = receipts[s]
<1>1. /\ SessionsTyped /\ ContentTyped /\ ReceiptsTyped /\ StateInv
  BY BaseParts
<1>2. \A s \in Sessions : Removes(s)
  BY DEF Remove, Removes, NoReceipts
<1>3. \A s \in Sessions \ S : session'[s] = session[s] /\ content'[s] = content[s] /\ receipts'[s] = receipts[s]
  BY DEF Remove
<1>4. SessionsTyped' /\ ContentTyped'
  BY <1>1 DEF Remove, SessionsTyped, ContentTyped
<1>5. ReceiptsTyped'
  <2>1. NoReceipts \in [Indexes -> Seq(Nat) \cup {None, Torn}]
    BY DEF NoReceipts
  <2> HIDE DEF NoReceipts
  <2> QED BY <1>1, <2>1 DEF Remove, ReceiptsTyped
<1>6. ASSUME NEW s \in Sessions, session'[s] # None PROVE Covers(session'[s], receipts'[s])
  <2>1. session'[s] = session[s] /\ Covers(session[s], receipts[s])
    BY <1>1, <1>2, <1>6 DEF Removes, StateInv
  <2>2. session[s].next \in Indexes
    BY <1>1, <1>6, <2>1, SessionTyped
  <2>3. CASE receipts'[s] = receipts[s]
    BY <2>1, <2>3 DEF Covers
  <2>4. CASE \A i \in Indexes : receipts'[s][i] = None
    BY <2>1, <2>2, <2>4, TransferAssumption DEF Covers
  <2> QED BY <1>2, <2>3, <2>4 DEF Removes
<1>7. \A s \in Sessions \ begun : Nothing(s)' /\ content'[s] = None
  BY <1>1, <1>2 DEF Removes, StateInv, Nothing
<1>8. StateInv'
  BY <1>1, <1>6, <1>7 DEF StateInv
<1> QED BY <1>2, <1>3, <1>4, <1>5, <1>8

LEMMA BaseRemovePart ==
  ASSUME BaseInv, RemovePart
  PROVE  BaseInv'
<1>1. /\ at.step \in {"remove", "sweep"} /\ \E S, parts : Remove(S, parts)
      /\ UNCHANGED <<at, target, trash, given, scenario, late, approving, faults, begun, acked>>
  BY DEF RemovePart, At, given, ghosts
<1>2. /\ SessionsTyped' /\ ContentTyped' /\ ReceiptsTyped' /\ StateInv'
      /\ \A s \in Sessions : Removes(s)
  BY <1>1, Removed
<1>3. PlaceTyped' /\ RestTyped' /\ AtTyped'
  BY <1>1, BaseParts DEF PlaceTyped, RestTyped, AtTyped
<1>4. Calls /\ Fresh /\ at.s \in Sessions
  BY <1>1, BaseParts DEF Calls
<1>5. Calls' /\ Fitting'
  BY <1>1, <1>4 DEF Calls, Fitting, Beginning, Adding, Placing
<1>6. Fresh'
  BY <1>1, <1>2, <1>4 DEF Fresh, Nothing, Removes
<1> QED BY <1>2, <1>3, <1>5, <1>6, Whole DEF StepInv

LEMMA BaseRemoveStaging ==
  ASSUME BaseInv, RemoveStaging
  PROVE  BaseInv'
<1>1. /\ (UNCHANGED staging) \/ (\E S, parts : Remove(S, parts))
      /\ at' = Idle /\ (\E f : Fault(f) \/ NoFault)
      /\ UNCHANGED <<target, trash, given, approving, begun, acked>>
  BY DEF RemoveStaging, ghosts, Done
<1>2. SessionsTyped' /\ ContentTyped' /\ ReceiptsTyped' /\ StateInv'
  BY <1>1, Removed, KeepStaging
<1>3. PlaceTyped' /\ RestTyped'
  BY <1>1, BaseParts, FaultCounted DEF PlaceTyped, RestTyped
<1> QED BY <1>1, <1>2, <1>3, AfterDone, Whole

(* A step within a call that keeps to the same session.                    *)
LEMMA BaseSweep ==
  ASSUME BaseInv, Sweep
  PROVE  BaseInv'
<1>1. /\ at.step = "sweep" /\ ((UNCHANGED staging) \/ (\E S, parts : Remove(S, parts)))
      /\ Goto("room") /\ (\E f : Fault(f) \/ NoFault)
      /\ UNCHANGED <<target, trash, given, scenario, approving, begun, acked>>
  BY DEF Sweep, At, ghosts, given
<1>2. /\ SessionsTyped' /\ ContentTyped' /\ ReceiptsTyped' /\ StateInv'
      /\ (UNCHANGED staging) \/ (\A s \in Sessions : Removes(s))
  BY <1>1, Removed, KeepStaging
<1>3. PlaceTyped' /\ RestTyped'
  BY <1>1, BaseParts, FaultCounted DEF PlaceTyped, RestTyped
<1>4. Going("room") /\ at.op = "begin" /\ at.s \in Sessions
  BY <1>1, BaseParts, Goes DEF Calls, Beginning
<1>5. AtTyped' /\ Calls' /\ Fitting'
  BY <1>1, <1>4, BaseParts DEF Going, AtTyped, Steps, Calls, Fitting, Beginning, Adding, Placing
<1>6. Fresh'
  <2>1. at.s \in begun /\ Nothing(at.s) /\ \A a \in acked : a[1] # at.s
    BY <1>4, BaseParts DEF Fresh
  <2>2. session'[at.s] = None /\ \A i \in Indexes : receipts'[at.s][i] = None
    BY <1>2, <1>4, <2>1 DEF Nothing, Removes, staging
  <2> QED BY <1>1, <1>4, <2>1, <2>2 DEF Going, Fresh, Nothing
<1> QED BY <1>2, <1>3, <1>5, <1>6, Whole DEF StepInv

LEMMA BaseStage ==
  ASSUME BaseInv, Stage
  PROVE  BaseInv'
<1>1. /\ at.step = "stage" /\ content' = [content EXCEPT ![at.s] = <<>>] /\ Goto("first")
      /\ UNCHANGED <<session, receipts, target, trash, scenario, late, approving, faults, begun, acked>>
  BY DEF Stage, At, ghosts, given
<1>2. /\ at.op = "begin" /\ at.s \in Sessions /\ at.s \in begun /\ Nothing(at.s)
      /\ \A a \in acked : a[1] # at.s
  BY <1>1, BaseParts DEF Calls, Fresh, Beginning
<1>3. Going("first")
  BY <1>1, BaseParts, Goes
<1>4. AtTyped' /\ Calls' /\ Fitting'
  BY <1>1, <1>2, <1>3, BaseParts DEF Going, AtTyped, Steps, Calls, Fitting, Beginning, Adding, Placing
<1>5. content'[at.s] = <<>> /\ \A s \in Sessions : s # at.s => content'[s] = content[s]
  BY <1>1, <1>2, BaseParts DEF ContentTyped
<1>6. Fresh'
  BY <1>1, <1>2, <1>3, <1>5 DEF Fresh, Going, Nothing
<1>7. ContentTyped'
  BY <1>1, <1>2, BaseParts, EmptySeq DEF ContentTyped
<1>8. SessionsTyped' /\ ReceiptsTyped' /\ PlaceTyped' /\ RestTyped'
  BY <1>1, BaseParts DEF SessionsTyped, ReceiptsTyped, PlaceTyped, RestTyped
<1>9. StateInv'
  BY <1>1, <1>2, <1>5, BaseParts DEF StateInv, Nothing
<1> QED BY <1>4, <1>6, <1>7, <1>8, <1>9, Whole DEF StepInv

(* A call changes what is staged for its own session only.                 *)
Elsewhere(s) ==
  \A r \in Sessions : r # s => session'[r] = session[r] /\ content'[r] = content[r] /\ receipts'[r] = receipts[r]

LEMMA OneChanged ==
  ASSUME BaseInv, NEW s \in Sessions, s \in begun, Elsewhere(s), UNCHANGED begun,
         session'[s] # None => Covers(session'[s], receipts'[s]),
         \A a \in acked' : a \in acked \/ a[1] = s
  PROVE  StateInv'
BY BaseParts DEF StateInv, Elsewhere, Nothing

LEMMA BaseFirstSession ==
  ASSUME BaseInv, FirstSession
  PROVE  BaseInv'
<1> DEFINE new == [bytes |-> at.arg.bytes, digest |-> at.arg.digest,
                   next |-> 0, written |-> 0, verified |-> FALSE]
<1>1. /\ at.step = "first" /\ (\E f : Fault(f) \/ NoFault)
      /\ \/ at' = Idle /\ session' = [session EXCEPT ![at.s] = new]
         \/ Goto("remove") /\ UNCHANGED session
      /\ UNCHANGED <<content, receipts, target, trash, given, scenario, approving, begun, acked>>
  BY DEF FirstSession, At, ghosts, given, Done
<1>2. /\ at.op = "begin" /\ at.s \in Sessions /\ at.s \in begun /\ Nothing(at.s)
      /\ \A a \in acked : a[1] # at.s
  BY <1>1, BaseParts DEF Calls, Fresh, Beginning
<1>3. ContentTyped' /\ ReceiptsTyped' /\ PlaceTyped' /\ RestTyped'
  BY <1>1, BaseParts, FaultCounted DEF ContentTyped, ReceiptsTyped, PlaceTyped, RestTyped
<1>4. CASE at' = Idle /\ session' = [session EXCEPT ![at.s] = new]
  <2>1. new \in SessionRecord /\ new.next = 0 /\ new.written = 0 /\ new.bytes \in Nat
    <3>1. at.arg \in [bytes : Nat, digest : Seq(Nat)]
      BY <1>2, BaseParts, ScenarioTyped DEF AtTyped
    <3>2. 0 \in Indexes
      BY TransferAssumption DEF Indexes
    <3> QED BY <3>1, <3>2 DEF SessionRecord
  <2> HIDE DEF new
  <2>2. session'[at.s] = new /\ \A s \in Sessions : s # at.s => session'[s] = session[s]
    BY <1>2, <1>4, BaseParts DEF SessionsTyped
  <2>3. SessionsTyped'
    <3>1. session' \in [Sessions -> SessionRecord \cup {None}]
      BY <1>2, <1>4, <2>1, BaseParts DEF SessionsTyped
    <3> QED BY <2>1, <2>2, <3>1, BaseParts DEF SessionsTyped
  <2>4. Covers(new, receipts'[at.s])
    <3>1. \A i \in Indexes : receipts'[at.s][i] = None
      BY <1>1, <1>2 DEF Nothing
    <3>2. 0 \in Indexes /\ None \notin Seq(Nat)
      BY TransferAssumption DEF Indexes
    <3> QED BY <2>1, <3>1, <3>2 DEF Covers
  <2>5. StateInv'
    <3>1. Elsewhere(at.s)
      BY <1>1, <2>2 DEF Elsewhere
    <3> QED BY <1>1, <1>2, <2>2, <2>4, <3>1, OneChanged
  <2> QED BY <1>3, <1>4, <2>3, <2>5, AfterDone, Whole
<1>5. CASE Goto("remove") /\ UNCHANGED session
  <2>1. Going("remove")
    BY <1>5, BaseParts, Goes
  <2>2. AtTyped' /\ Calls' /\ Fitting' /\ Fresh'
    BY <1>1, <1>2, <1>5, <2>1, BaseParts
       DEF Going, AtTyped, Steps, Calls, Fitting, Fresh, Nothing, Beginning, Adding, Placing
  <2>3. SessionsTyped' /\ StateInv'
    BY <1>1, <1>5, KeepStaging DEF staging
  <2> QED BY <1>3, <2>2, <2>3, Whole DEF StepInv
<1> QED BY <1>1, <1>4, <1>5
-----------------------------------------------------------------------------
(* What the other calls have in common: a step that leaves the files alone *)
(* and where a call may go from a session that is there.                   *)
Faulted == \E f : Fault(f) \/ NoFault

LEMMA FilesKept ==
  ASSUME BaseInv, UNCHANGED <<files, scenario, begun, acked>>, late' \subseteq Sessions,
         approving' \subseteq Sessions, Faulted, AtTyped', StepInv'
  PROVE  BaseInv'
<1>1. UNCHANGED staging /\ PlaceTyped' /\ RestTyped'
  BY BaseParts DEF files, PlaceTyped, RestTyped, Faulted, Fault, NoFault
<1> QED BY <1>1, KeepStaging, Whole

Leads(x) ==
  \/ x \in {"open", "repair", "repaired", "remove"}
  \/ x \in Adding \cup {"check", "appended"} /\ at.op = "append"
  \/ x = "guard" /\ at.op = "commit"
  \/ x \in Placing /\ at.op = "verify"

LEMMA Proceeds ==
  ASSUME AtTyped, NEW x, Going(x), Leads(x), at.op \in Called, at.s \in Sessions,
         UNCHANGED scenario, session'[at.s] # None, x \in Adding \cup {"repair"} => Fitting'
  PROVE  AtTyped' /\ StepInv'
<1>1. AtTyped'
  BY DEF AtTyped, Going, Leads, Steps, Called, Adding, Placing
<1>2. Calls'
  BY AfterIs DEF Calls, Going, Leads, Called, Beginning, Adding, Placing
<1>3. Fresh'
  BY DEF Fresh, Going, Leads, Called, Adding, Placing
<1>4. Fitting'
  BY DEF Fitting, Going
<1> QED BY <1>1, <1>2, <1>3, <1>4 DEF StepInv

(* The session of a call that goes on.                                     *)
LEMMA OfCall ==
  ASSUME BaseInv, at.step \notin Beginning \cup {"idle", "remove"}
  PROVE  /\ at.s \in Sessions /\ at.s \in begun /\ session[at.s] # None /\ at.op \in Called
         /\ Covers(Ses, receipts[at.s])
         /\ Ses \in SessionRecord /\ Ses.bytes \in Nat /\ Ses.digest \in Seq(Nat) /\ Ses.next \in Indexes
         /\ Ses.written \in Nat /\ Ses.verified \in BOOLEAN /\ Ses.written <= Ses.bytes
<1>1. at.s \in Sessions /\ session[at.s] # None /\ at.op \in Called
  BY BaseParts, AfterIs DEF Calls, AtTyped, Called, Beginning, Adding, Placing, Steps
<1>2. at.s \in begun /\ Covers(Ses, receipts[at.s])
  BY <1>1, BaseParts DEF StateInv, Nothing, Ses
<1>3. SessionsTyped
  BY BaseParts
<1> QED BY <1>1, <1>2, <1>3, SessionTyped DEF Ses

LEMMA ChunkOfCall ==
  ASSUME BaseInv, at.op = "append"
  PROVE  at.arg.index \in Indexes /\ at.arg.index < Len(Pieces) /\ at.arg.chunk \in Seq(Nat)
<1>1. at.arg \in AppendArg /\ Len(Pieces) \in Nat
  BY BaseParts, TransferAssumption DEF AtTyped
<1> QED BY <1>1 DEF AppendArg, Indexes

LEMMA CountedIs ==
  ASSUME Ses \in SessionRecord, NEW n \in Nat, Ses.next < Len(Pieces)
  PROVE  /\ Counted(n) \in SessionRecord
         /\ Counted(n).next = Ses.next + 1 /\ Counted(n).written = Ses.written + n
         /\ Counted(n).bytes = Ses.bytes /\ Counted(n).digest = Ses.digest
         /\ Counted(n).verified = Ses.verified
<1>1. PICK b, d, x, w, v : Ses = [bytes |-> b, digest |-> d, next |-> x, written |-> w, verified |-> v]
  BY DEF SessionRecord
<1>2. /\ b \in Nat /\ d \in Seq(Nat) /\ x \in Indexes /\ w \in Nat /\ v \in BOOLEAN
      /\ Ses.bytes = b /\ Ses.digest = d /\ Ses.next = x /\ Ses.written = w /\ Ses.verified = v
  BY <1>1 DEF SessionRecord
<1>3. [Ses EXCEPT !.next = @ + 1] = [bytes |-> b, digest |-> d, next |-> x + 1, written |-> w, verified |-> v]
  BY <1>1
<1>4. Counted(n) = [[Ses EXCEPT !.next = @ + 1] EXCEPT !.written = w + n]
  BY <1>1, <1>2 DEF Counted
<1>5. Counted(n) = [bytes |-> b, digest |-> d, next |-> x + 1, written |-> w + n, verified |-> v]
  BY <1>3, <1>4
<1>6. x + 1 \in Indexes /\ w + n \in Nat
  BY <1>2, TransferAssumption DEF Indexes
<1> HIDE DEF Counted, Ses
<1> QED BY <1>2, <1>5, <1>6 DEF SessionRecord

LEMMA Saved ==
  ASSUME BaseInv, at.step \notin Beginning \cup {"idle", "remove"}, NEW new \in SessionRecord,
         NEW then, Save(new, then), new.written <= new.bytes, Covers(new, receipts[at.s]),
         UNCHANGED <<content, receipts, begun, acked>>
  PROVE  /\ session'[at.s] = new /\ Elsewhere(at.s) /\ SessionsTyped' /\ StateInv'
         /\ ContentTyped' /\ ReceiptsTyped'
         /\ at' = Idle \/ Going(then)
         /\ Faulted
<1>1. /\ at.s \in Sessions /\ at.s \in begun /\ SessionsTyped /\ ContentTyped /\ ReceiptsTyped /\ Shape(at)
  BY OfCall, BaseParts
<1>2. session'[at.s] = new /\ \A r \in Sessions : r # at.s => session'[r] = session[r]
  BY <1>1 DEF Save, SessionsTyped
<1>3. session' \in [Sessions -> SessionRecord \cup {None}]
  BY <1>1 DEF Save, SessionsTyped
<1>4. SessionsTyped'
  BY <1>1, <1>2, <1>3 DEF SessionsTyped
<1>5. Elsewhere(at.s)
  BY <1>2 DEF Elsewhere
<1>6. StateInv'
  BY <1>1, <1>2, <1>5, OneChanged
<1>7. (at' = Idle \/ Going(then)) /\ Faulted
  BY <1>1, Goes DEF Save, Done, Faulted
<1> QED BY <1>1, <1>2, <1>4, <1>5, <1>6, <1>7 DEF ContentTyped, ReceiptsTyped

(* Dropping a receipt takes away what may be there and adds nothing.       *)
LEMMA Dropped ==
  ASSUME BaseInv, at.s \in Sessions, at.s \in begun, session[at.s] # None, NEW i, Drop(i),
         UNCHANGED <<session, content, begun>>, \A a \in acked' : a \in acked \/ a[1] = at.s
  PROVE  /\ SessionsTyped' /\ ContentTyped' /\ ReceiptsTyped' /\ StateInv' /\ Elsewhere(at.s) /\ Faulted
         /\ \A j \in Indexes : receipts'[at.s][j] = receipts[at.s][j] \/ receipts'[at.s][j] = None
<1>1. SessionsTyped /\ ContentTyped /\ ReceiptsTyped /\ StateInv
  BY BaseParts
<1>2. /\ ReceiptsTyped' /\ \A r \in Sessions : r # at.s => receipts'[r] = receipts[r]
      /\ \A j \in Indexes : receipts'[at.s][j] = receipts[at.s][j] \/ receipts'[at.s][j] = None
  BY <1>1 DEF Drop, ReceiptsTyped
<1>3. Elsewhere(at.s)
  BY <1>2 DEF Elsewhere
<1>4. Covers(session'[at.s], receipts'[at.s])
  <2>1. Covers(session[at.s], receipts[at.s]) /\ session[at.s].next \in Indexes /\ None \notin Seq(Nat)
    BY <1>1, SessionTyped, TransferAssumption DEF StateInv
  <2> QED BY <1>2, <2>1 DEF Covers
<1>5. StateInv'
  BY <1>3, <1>4, OneChanged
<1>6. Faulted
  BY DEF Drop, Faulted
<1> QED BY <1>1, <1>2, <1>3, <1>5, <1>6 DEF SessionsTyped, ContentTyped

(* A call that leaves the files alone, and one that only ends.             *)
LEMMA GoesOn ==
  ASSUME BaseInv, at.step \notin Beginning \cup {"idle", "remove"}, NEW x, Goto(x), Leads(x),
         UNCHANGED <<files, given, approving, begun, acked>>, Faulted,
         x \in Adding \cup {"repair"} => Fitting'
  PROVE  BaseInv'
<1>1. /\ at.s \in Sessions /\ session[at.s] # None /\ at.op \in Called /\ Going(x) /\ AtTyped
      /\ late \subseteq Sessions /\ approving \subseteq Sessions
  BY OfCall, BaseParts, Goes DEF RestTyped
<1>2. session'[at.s] # None /\ UNCHANGED <<scenario, late>>
  BY <1>1 DEF files, staging, given
<1>3. AtTyped' /\ StepInv'
  BY <1>1, <1>2, Proceeds
<1> QED BY <1>1, <1>2, <1>3, FilesKept

LEMMA Ends ==
  ASSUME BaseInv, at' = Idle, UNCHANGED <<files, given, begun, acked>>, approving' \subseteq Sessions, Faulted
  PROVE  BaseInv'
<1>1. late' \subseteq Sessions /\ UNCHANGED scenario
  BY BaseParts DEF RestTyped, given
<1> QED BY <1>1, AfterDone, FilesKept

LEMMA Unfaulted == ASSUME NoFault PROVE Faulted
BY DEF Faulted

LEMMA BaseRoom ==
  ASSUME BaseInv, Room
  PROVE  BaseInv'
<1>1. /\ at.step = "room" /\ (Goto("stage") \/ at' = Idle)
      /\ UNCHANGED <<files, given, scenario, late, approving, begun, acked>> /\ Faulted
  BY Unfaulted DEF Room, At, ghosts, given, Done, NoFault
<1>2. /\ at.op = "begin" /\ at.s \in Sessions /\ late' \subseteq Sessions /\ approving' \subseteq Sessions
      /\ Fresh /\ AtTyped /\ Shape(at)
  BY <1>1, BaseParts DEF Calls, Beginning, RestTyped
<1>3. CASE Goto("stage")
  <2>1. Going("stage")
    BY <1>2, <1>3, Goes
  <2>2. AtTyped' /\ Calls' /\ Fitting'
    BY <1>1, <1>2, <2>1 DEF Going, AtTyped, Steps, Calls, Fitting, Beginning, Adding, Placing
  <2>3. Fresh'
    BY <1>1, <1>2, <2>1 DEF Going, Fresh, Nothing, files, staging
  <2> QED BY <1>1, <1>2, <2>2, <2>3, FilesKept DEF StepInv
<1>4. CASE at' = Idle
  BY <1>1, <1>2, <1>4, Ends
<1> QED BY <1>1, <1>3, <1>4

-----------------------------------------------------------------------------
(* The calls on a session, up to the point where it is open.               *)
LEMMA BaseCall ==
  ASSUME BaseInv, NEW s \in Sessions, NEW op \in Called, NEW arg, Call(op, s, arg),
         op = "append" => arg \in AppendArg, op # "append" => arg = None, approving' \subseteq Sessions
  PROVE  BaseInv'
<1>1. /\ session[s] # None /\ at' = [step |-> "open", op |-> op, s |-> s, arg |-> arg]
      /\ UNCHANGED <<files, given, scenario, late, session, faults, begun, acked>>
  BY DEF Call, files, staging, given, ghosts
<1>2. at'.step = "open" /\ at'.op = op /\ at'.s = s /\ at'.arg = arg /\ Shape(at')
  BY <1>1 DEF Shape
<1>3. AtTyped'
  BY <1>2 DEF AtTyped, Steps, Called
<1>4. StepInv'
  BY <1>1, <1>2, AfterIs DEF StepInv, Calls, Fresh, Fitting, Called, Beginning, Adding, Placing
<1>5. Faulted /\ late' \subseteq Sessions
  BY <1>1, BaseParts DEF Faulted, NoFault, RestTyped
<1> QED BY <1>1, <1>3, <1>4, <1>5, FilesKept

LEMMA BaseRequests ==
  ASSUME BaseInv, NEW s \in Sessions, Requests(s)
  PROVE  BaseInv'
<1>1. approving \subseteq Sessions /\ RestTyped
  BY BaseParts DEF RestTyped
<1>2. ASSUME NEW d \in scenario.declarations, Begin(s, d) PROVE BaseInv'
  BY <1>2, BaseBegin
<1>3. ASSUME NEW i \in Indexes, NEW c \in Chunk(i), i < Len(Pieces), AppendChunk(s, i, c) PROVE BaseInv'
  <2>1. i \in 0 .. Len(Pieces) - 1 /\ Len(Pieces) \in Nat
    BY <1>3, TransferAssumption DEF Indexes
  <2>2. [index |-> i, chunk |-> c] \in AppendArg
    BY <1>1, <1>3, <2>1, ScenarioTyped DEF AppendArg
  <2> QED BY <1>1, <1>3, <2>2, BaseCall DEF AppendChunk, Called
<1>4. CASE Inspect(s)
  BY <1>1, <1>4, BaseCall DEF Inspect, Called
<1>5. CASE Commit(s)
  BY <1>1, <1>5, BaseCall DEF Commit, Called
<1>6. CASE ResumeCommit(s)
  BY <1>1, <1>6, BaseCall DEF ResumeCommit, Called
<1> QED BY <1>2, <1>3, <1>4, <1>5, <1>6 DEF Requests

LEMMA BaseExpire ==
  ASSUME BaseInv, NEW s \in Sessions, Expire(s)
  PROVE  BaseInv'
<1>1. /\ late' \subseteq Sessions /\ Faulted /\ approving' \subseteq Sessions /\ AtTyped /\ StepInv
      /\ UNCHANGED <<files, at, scenario, session, content, receipts, begun, acked>>
  BY BaseParts DEF Expire, RestTyped, Faulted, NoFault, ghosts, files, staging, BaseInv
<1>2. AtTyped' /\ StepInv'
  BY <1>1 DEF AtTyped, StepInv, Calls, Fresh, Nothing, Fitting, Ses, Readable, Pending
<1> QED BY <1>1, <1>2, FilesKept

LEMMA OpenedBase ==
  ASSUME BaseInv, at.step \in {"open", "repaired"}, Opened, session'[at.s] # None, UNCHANGED scenario
  PROVE  AtTyped' /\ StepInv'
<1>1. at.s \in Sessions /\ at.op \in Called /\ AtTyped
  BY OfCall, BaseParts DEF Beginning
<1>2. at' = Idle \/ (\E x \in {"remove", "check", "guard", "verify"} : Going(x) /\ Leads(x))
  BY OpenedTo DEF Leads, Placing
<1> QED BY <1>1, <1>2, AfterDone, Proceeds DEF Adding

LEMMA BaseOpenNoReceipt ==
  ASSUME BaseInv, OpenNoReceipt
  PROVE  BaseInv'
<1>1. /\ at.step = "open" /\ Opened /\ Faulted
      /\ UNCHANGED <<files, session, given, scenario, late, approving, begun, acked>>
  BY Unfaulted DEF OpenNoReceipt, At, ghosts, given, files, staging, NoFault
<1>2. session[at.s] # None /\ late' \subseteq Sessions /\ approving' \subseteq Sessions
  BY <1>1, OfCall, BaseParts DEF RestTyped, Beginning
<1> QED BY <1>1, <1>2, OpenedBase, FilesKept

LEMMA BaseDrops ==
  ASSUME BaseInv, at.step \in {"open", "repaired"}, NEW i, Drop(i), Opened,
         UNCHANGED <<session, content, target, trash, given, approving, ghosts>>
  PROVE  BaseInv'
<1>1. at.s \in Sessions /\ at.s \in begun /\ session[at.s] # None
  BY OfCall DEF Beginning
<1>2. UNCHANGED <<scenario, late, begun, acked>>
  BY DEF given, ghosts
<1>3. /\ SessionsTyped' /\ ContentTyped' /\ ReceiptsTyped' /\ StateInv' /\ Faulted
  BY <1>1, <1>2, Dropped
<1>4. PlaceTyped' /\ RestTyped'
  BY <1>2, <1>3, BaseParts DEF PlaceTyped, RestTyped, Faulted, Fault, NoFault
<1> QED BY <1>1, <1>2, <1>3, <1>4, OpenedBase, Whole

LEMMA BaseOpenNotAppended ==
  ASSUME BaseInv, OpenNotAppended
  PROVE  BaseInv'
<1>1. at.step = "open" /\ Drop(Ses.next) /\ Opened
  BY DEF OpenNotAppended, At
<1>2. Ses.next \in Indexes
  BY <1>1, OfCall DEF Beginning
<1> QED BY <1>1, <1>2, BaseDrops DEF OpenNotAppended

LEMMA BaseOpenAppended ==
  ASSUME BaseInv, OpenAppended
  PROVE  BaseInv'
<1>1. /\ at.step = "open" /\ (Goto("repair") \/ Goto("remove"))
      /\ Readable /\ Faulted
      /\ UNCHANGED <<files, session, receipts, given, approving, begun, acked>>
  BY DEF OpenAppended, At, ghosts, files, staging, Faulted
<1>2. ASSUME Goto("repair") PROVE Fitting'
  <2>1. Going("repair")
    BY <1>2, BaseParts, Goes
  <2> QED BY <1>1, <2>1 DEF Going, Fitting, Adding, Readable, Pending, Ses
<1> QED BY <1>1, <1>2, GoesOn DEF Leads, Beginning, Adding

LEMMA BaseOpenNoContent ==
  ASSUME BaseInv, OpenNoContent
  PROVE  BaseInv'
<1>1. /\ at' = Idle /\ Faulted /\ approving' \subseteq Sessions
      /\ UNCHANGED <<files, given, begun, acked>>
  BY BaseParts, Unfaulted DEF OpenNoContent, ghosts, Done, RestTyped, NoFault
<1> QED BY <1>1, Ends

LEMMA PendingIs ==
  ASSUME BaseInv, at.step \notin Beginning \cup {"idle", "remove"}, Readable
  PROVE  /\ Pending \in Seq(Nat) /\ Ses.next < Len(Pieces)
         /\ Ses.written + Len(Pending) <= Ses.bytes
<1>1. /\ at.s \in Sessions /\ Ses.next \in Indexes /\ Covers(Ses, receipts[at.s]) /\ ReceiptsTyped
  BY OfCall, BaseParts
<1>2. receipts[at.s][Ses.next] \in Seq(Nat)
  BY <1>1 DEF ReceiptsTyped, Readable, Pending
<1> QED BY <1>1, <1>2, TransferAssumption DEF Covers, Pending, Readable

(* The counters go on by one chunk, which fits.                            *)
LEMMA CountsOn ==
  ASSUME BaseInv, at.step \notin Beginning \cup {"idle", "remove"}, NEW n \in Nat,
         Ses.next < Len(Pieces), Ses.written + n <= Ses.bytes
  PROVE  /\ Counted(n) \in SessionRecord /\ Counted(n).written <= Counted(n).bytes
         /\ Covers(Counted(n), receipts[at.s])
<1>1. /\ Ses \in SessionRecord /\ Ses.next \in Indexes /\ Covers(Ses, receipts[at.s])
  BY OfCall
<1>2. /\ Counted(n) \in SessionRecord
      /\ Counted(n).next = Ses.next + 1 /\ Counted(n).written = Ses.written + n
      /\ Counted(n).bytes = Ses.bytes
  BY <1>1, CountedIs
<1>3. /\ \A i \in Indexes : receipts[at.s][i] # None => i <= Ses.next /\ i < Len(Pieces)
      /\ Ses.next + 1 \in Indexes /\ Ses.next \in Int /\ None \notin Seq(Nat)
  BY <1>1, TransferAssumption DEF Covers, Indexes
<1>4. /\ \A i \in Indexes : receipts[at.s][i] # None => i <= Ses.next + 1 /\ i < Len(Pieces)
      /\ receipts[at.s][Ses.next + 1] = None
  BY <1>3 DEF Indexes
<1>5. Covers(Counted(n), receipts[at.s])
  BY <1>2, <1>3, <1>4 DEF Covers
<1> QED BY <1>2, <1>5

LEMMA BaseSave ==
  ASSUME BaseInv, at.step \notin Beginning \cup {"idle", "remove"}, NEW new \in SessionRecord,
         NEW then, Save(new, then), new.written <= new.bytes, Covers(new, receipts[at.s]),
         Leads(then), then \notin Adding \cup {"repair"},
         UNCHANGED <<content, receipts, target, trash, given, approving, ghosts>>
  PROVE  BaseInv'
<1>1. UNCHANGED <<scenario, late, begun, acked>>
  BY DEF given, ghosts
<1>2. /\ session'[at.s] = new /\ SessionsTyped' /\ StateInv' /\ ContentTyped' /\ ReceiptsTyped'
      /\ at' = Idle \/ Going(then)
      /\ Faulted
  BY <1>1, Saved
<1>3. PlaceTyped' /\ RestTyped'
  BY <1>1, <1>2, BaseParts DEF PlaceTyped, RestTyped, Faulted, Fault, NoFault
<1>4. new # None /\ at.s \in Sessions /\ at.op \in Called /\ AtTyped
  BY OfCall, BaseParts, TransferAssumption
<1>5. AtTyped' /\ StepInv'
  BY <1>1, <1>2, <1>4, AfterDone, Proceeds
<1> QED BY <1>2, <1>3, <1>5, Whole

LEMMA BaseRepair ==
  ASSUME BaseInv, Repair
  PROVE  BaseInv'
<1>1. at.step = "repair" /\ Readable
  BY BaseParts DEF Repair, At, Fitting
<1>2. /\ Pending \in Seq(Nat) /\ Ses.next < Len(Pieces) /\ Ses.written + Len(Pending) <= Ses.bytes
      /\ Len(Pending) \in Nat
  BY <1>1, PendingIs DEF Beginning
<1>3. /\ Counted(Len(Pending)) \in SessionRecord /\ Covers(Counted(Len(Pending)), receipts[at.s])
      /\ Counted(Len(Pending)).written <= Counted(Len(Pending)).bytes
  BY <1>1, <1>2, CountsOn DEF Beginning
<1> HIDE DEF Counted, Pending, Ses
<1> QED BY <1>1, <1>3, BaseSave DEF Repair, Leads, Beginning, Adding

LEMMA BaseRepaired ==
  ASSUME BaseInv, Repaired
  PROVE  BaseInv'
<1>1. at.step = "repaired" /\ Drop(Ses.next - 1) /\ Opened
  BY DEF Repaired, At
<1> QED BY <1>1, BaseDrops DEF Repaired

-----------------------------------------------------------------------------
(* append().                                                               *)
LEMMA BaseCheck ==
  ASSUME BaseInv, Check
  PROVE  BaseInv'
<1>1. /\ at.step = "check" /\ at.op = "append" /\ Faulted
      /\ UNCHANGED <<files, session, given, approving, begun, acked>>
  BY BaseParts, Unfaulted DEF Check, At, ghosts, files, staging, NoFault, Calls
<1>2. CASE Accepted /\ Goto("receipt")
  <2>1. Going("receipt")
    BY <1>2, BaseParts, Goes
  <2>2. Fitting'
    BY <1>1, <1>2, <2>1 DEF Going, Fitting, Adding, Accepted, Fits, Ses
  <2> QED BY <1>1, <1>2, <2>2, GoesOn DEF Leads, Beginning, Adding
<1>3. CASE at' = Idle
  BY <1>1, <1>3, BaseParts, Ends DEF RestTyped
<1> QED BY <1>2, <1>3 DEF Check, Done

(* A step that writes a receipt, of the chunk to be added.                 *)
LEMMA BaseWriteReceipt ==
  ASSUME BaseInv, at.step \in {"receipt", "fill"}, NEW r \in {Torn, at.arg.chunk}, NEW x \in {"fill", "bytes"},
         Goto(x), receipts' = [receipts EXCEPT ![at.s][at.arg.index] = r],
         UNCHANGED <<session, content, target, trash, given, approving, faults, ghosts>>
  PROVE  BaseInv'
<1>1. UNCHANGED <<scenario, late, begun, acked>> /\ Going(x)
  BY BaseParts, Goes DEF given, ghosts
<1>2. /\ at.op = "append" /\ at.s \in Sessions /\ at.s \in begun /\ session[at.s] # None /\ at.op \in Called
      /\ ~Ses.verified /\ at.arg.index = Ses.next /\ Ses.written + Len(at.arg.chunk) <= Ses.bytes
      /\ Ses.next \in Indexes /\ Ses.next < Len(Pieces) /\ at.arg.chunk \in Seq(Nat)
      /\ Covers(Ses, receipts[at.s])
      /\ SessionsTyped /\ ContentTyped /\ ReceiptsTyped /\ PlaceTyped /\ RestTyped /\ AtTyped
  BY OfCall, BaseParts, ChunkOfCall DEF Calls, Fitting, Adding, Beginning
<1>3. /\ receipts'[at.s][Ses.next] = r
      /\ \A i \in Indexes : i # Ses.next => receipts'[at.s][i] = receipts[at.s][i]
      /\ \A q \in Sessions : q # at.s => receipts'[q] = receipts[q]
      /\ ReceiptsTyped'
  BY <1>2 DEF ReceiptsTyped
<1>4. Covers(session'[at.s], receipts'[at.s])
  <2>1. Torn \notin Seq(Nat) /\ session'[at.s] = Ses
    BY TransferAssumption DEF Ses
  <2> QED BY <1>2, <1>3, <2>1 DEF Covers, Indexes
<1>5. StateInv'
  BY <1>1, <1>2, <1>3, <1>4, OneChanged DEF Elsewhere
<1>6. SessionsTyped' /\ ContentTyped' /\ PlaceTyped' /\ RestTyped'
  BY <1>1, <1>2 DEF SessionsTyped, ContentTyped, PlaceTyped, RestTyped
<1>7. Fitting'
  BY <1>1, <1>2 DEF Going, Fitting, Adding, Ses
<1>8. AtTyped' /\ StepInv'
  BY <1>1, <1>2, <1>7, Proceeds DEF Leads, Adding
<1> QED BY <1>3, <1>5, <1>6, <1>8, Whole

LEMMA BaseCreateReceipt ==
  ASSUME BaseInv, CreateReceipt
  PROVE  BaseInv'
<1>1. at.step = "receipt"
  BY DEF CreateReceipt, At
<1>2. CASE receipts' = [receipts EXCEPT ![at.s][at.arg.index] = Torn] /\ Goto("fill")
  BY <1>1, <1>2, BaseWriteReceipt DEF CreateReceipt
<1>3. CASE at' = Idle /\ UNCHANGED receipts
  <2>1. Faulted /\ UNCHANGED <<files, given, begun, acked>> /\ approving' \subseteq Sessions
    BY <1>3, BaseParts, Unfaulted DEF CreateReceipt, files, staging, ghosts, RestTyped, NoFault
  <2> QED BY <1>3, <2>1, Ends
<1> QED BY <1>2, <1>3 DEF CreateReceipt, Done

LEMMA BaseFillReceipt ==
  ASSUME BaseInv, FillReceipt
  PROVE  BaseInv'
<1>1. at.step = "fill"
  BY DEF FillReceipt, At
<1> QED BY <1>1, BaseWriteReceipt DEF FillReceipt

(* What a write, whole or cut short, makes of the content.                 *)
Before == IF content[at.s] = None THEN <<>> ELSE content[at.s]

LEMMA WrittenIs ==
  ASSUME BaseInv, at.s \in Sessions, NEW b \in Seq(Nat), Written(b)
  PROVE  /\ ContentTyped' /\ Before \in Seq(Nat) /\ content'[at.s] = Before \o b
         /\ \A r \in Sessions : r # at.s => content'[r] = content[r]
<1>1. ContentTyped /\ <<>> \in Seq(Nat)
  BY BaseParts, EmptySeq
<1>2. Before \in Seq(Nat)
  BY <1>1 DEF ContentTyped, Before
<1>3. content' = [content EXCEPT ![at.s] = Before \o b]
  BY <1>1 DEF Written, Before, ContentTyped
<1>4. Before \o b \in Seq(Nat)
  BY <1>2, ConcatProperties
<1> HIDE DEF Before
<1> QED BY <1>1, <1>2, <1>3, <1>4 DEF ContentTyped

LEMMA CutTyped ==
  ASSUME NEW b \in Seq(Nat), NEW n \in 0 .. Len(b) - 1
  PROVE  SubSeq(b, 1, n) \in Seq(Nat)
OBVIOUS

LEMMA BaseAppendBytes ==
  ASSUME BaseInv, AppendBytes
  PROVE  BaseInv'
<1>1. at.step = "bytes"
  BY DEF AppendBytes, At
<1>2. /\ at.op = "append" /\ at.s \in Sessions /\ at.s \in begun /\ session[at.s] # None /\ at.op \in Called
      /\ ~Ses.verified /\ at.arg.index = Ses.next /\ Ses.written + Len(at.arg.chunk) <= Ses.bytes
      /\ at.arg.chunk \in Seq(Nat) /\ Covers(Ses, receipts[at.s])
      /\ SessionsTyped /\ ReceiptsTyped /\ PlaceTyped /\ RestTyped /\ AtTyped
  BY <1>1, OfCall, BaseParts, ChunkOfCall DEF Calls, Fitting, Adding, Beginning
<1>3. /\ \E b \in Seq(Nat) : Written(b)
      /\ Goto("count") \/ at' = Idle
      /\ Faulted
      /\ UNCHANGED <<session, receipts, target, trash, given, scenario, late, approving, begun, acked>>
  BY <1>2, CutTyped DEF AppendBytes, Done, Faulted, given, ghosts
<1>4. ContentTyped' /\ \A r \in Sessions : r # at.s => content'[r] = content[r]
  BY <1>2, <1>3, WrittenIs
<1>5. Covers(session'[at.s], receipts'[at.s]) /\ Elsewhere(at.s)
  BY <1>2, <1>3, <1>4 DEF Ses, Elsewhere
<1>6. StateInv'
  BY <1>2, <1>3, <1>5, OneChanged
<1>7. SessionsTyped' /\ ReceiptsTyped' /\ PlaceTyped' /\ RestTyped'
  BY <1>2, <1>3 DEF SessionsTyped, ReceiptsTyped, PlaceTyped, RestTyped, Faulted, Fault, NoFault
<1>8. AtTyped' /\ StepInv'
  <2>1. CASE Goto("count")
    <3>1. Going("count")
      BY <2>1, BaseParts, Goes
    <3>2. Fitting'
      BY <1>2, <1>3, <3>1 DEF Going, Fitting, Adding, Ses
    <3> QED BY <1>2, <1>3, <3>1, <3>2, Proceeds DEF Leads, Adding
  <2> QED BY <1>3, <2>1, AfterDone
<1> QED BY <1>4, <1>6, <1>7, <1>8, Whole

LEMMA BaseCountBytes ==
  ASSUME BaseInv, CountBytes
  PROVE  BaseInv'
<1>1. at.step = "count"
  BY DEF CountBytes, At
<1>2. /\ Ses.next < Len(Pieces) /\ Ses.written + Len(at.arg.chunk) <= Ses.bytes
      /\ Len(at.arg.chunk) \in Nat /\ at.op = "append"
  BY <1>1, BaseParts, ChunkOfCall DEF Calls, Fitting, Adding
<1>3. /\ Counted(Len(at.arg.chunk)) \in SessionRecord /\ Covers(Counted(Len(at.arg.chunk)), receipts[at.s])
      /\ Counted(Len(at.arg.chunk)).written <= Counted(Len(at.arg.chunk)).bytes
  BY <1>1, <1>2, CountsOn DEF Beginning
<1> HIDE DEF Counted, Ses
<1> QED BY <1>1, <1>2, <1>3, BaseSave DEF CountBytes, Leads, Beginning, Adding

LEMMA BaseAppended ==
  ASSUME BaseInv, Appended
  PROVE  BaseInv'
<1>1. /\ at.step = "appended" /\ Drop(at.arg.index) /\ at' = Idle /\ acked' = acked \cup {<<at.s, at.arg.index>>}
      /\ UNCHANGED <<session, content, target, trash, scenario, late, approving, begun>>
  BY DEF Appended, At, Done, given
<1>2. at.s \in Sessions /\ at.s \in begun /\ session[at.s] # None
  BY <1>1, OfCall DEF Beginning
<1>3. \A a \in acked' : a \in acked \/ a[1] = at.s
  BY <1>1
<1>4. SessionsTyped' /\ ContentTyped' /\ ReceiptsTyped' /\ StateInv' /\ Faulted
  BY <1>1, <1>2, <1>3, Dropped
<1>5. PlaceTyped' /\ RestTyped'
  BY <1>1, <1>4, BaseParts DEF PlaceTyped, RestTyped, Faulted, Fault, NoFault
<1> QED BY <1>1, <1>4, <1>5, AfterDone, Whole

-----------------------------------------------------------------------------
(* commit.                                                                 *)
LEMMA BaseAskGuard ==
  ASSUME BaseInv, AskGuard
  PROVE  BaseInv'
<1>1. /\ at' = Idle /\ Faulted /\ UNCHANGED <<files, given, begun, acked>>
      /\ at.step = "guard" /\ approving' = approving \cup {at.s}
  BY Unfaulted DEF AskGuard, At, ghosts, Done, NoFault
<1>2. approving' \subseteq Sessions
  BY <1>1, OfCall, BaseParts DEF RestTyped, Beginning
<1> QED BY <1>1, <1>2, Ends

LEMMA BaseVerify ==
  ASSUME BaseInv, Verify
  PROVE  BaseInv'
<1>1. /\ at.step = "verify" /\ at.op = "verify" /\ Faulted /\ approving' \subseteq Sessions
      /\ at' = Idle \/ Goto("temp") \/ Goto("mark")
      /\ UNCHANGED <<files, given, approving, begun, acked>>
  BY BaseParts, Unfaulted DEF Verify, At, ghosts, Done, NoFault, Calls, Placing, RestTyped
<1>2. CASE Goto("temp") \/ Goto("mark")
  BY <1>1, <1>2, GoesOn DEF Leads, Placing, Beginning, Adding
<1> QED BY <1>1, <1>2, Ends

LEMMA VerifiedIs ==
  ASSUME Ses \in SessionRecord
  PROVE  /\ [Ses EXCEPT !.verified = TRUE] \in SessionRecord
         /\ [Ses EXCEPT !.verified = TRUE].bytes = Ses.bytes
         /\ [Ses EXCEPT !.verified = TRUE].digest = Ses.digest
         /\ [Ses EXCEPT !.verified = TRUE].next = Ses.next
         /\ [Ses EXCEPT !.verified = TRUE].written = Ses.written
         /\ [Ses EXCEPT !.verified = TRUE].verified = TRUE
<1>1. PICK b, d, x, w, v : Ses = [bytes |-> b, digest |-> d, next |-> x, written |-> w, verified |-> v]
  BY DEF SessionRecord
<1>2. /\ b \in Nat /\ d \in Seq(Nat) /\ x \in Indexes /\ w \in Nat
      /\ Ses.bytes = b /\ Ses.digest = d /\ Ses.next = x /\ Ses.written = w
  BY <1>1 DEF SessionRecord
<1>3. PICK t : t = TRUE
  OBVIOUS
<1>4. [Ses EXCEPT !.verified = t] = [bytes |-> b, digest |-> d, next |-> x, written |-> w, verified |-> t]
  BY ONLY <1>1
<1>5. [Ses EXCEPT !.verified = TRUE] = [bytes |-> b, digest |-> d, next |-> x, written |-> w, verified |-> t]
  BY <1>3, <1>4
<1> QED BY <1>2, <1>3, <1>5 DEF SessionRecord

LEMMA BaseMarkVerified ==
  ASSUME BaseInv, MarkVerified
  PROVE  BaseInv'
<1> DEFINE new == [Ses EXCEPT !.verified = TRUE]
<1>1. /\ at.step = "mark" /\ at.op = "verify"
      /\ Ses \in SessionRecord /\ Ses.written <= Ses.bytes /\ Covers(Ses, receipts[at.s])
  BY BaseParts, OfCall DEF MarkVerified, At, Calls, Placing, Beginning
<1>2. new \in SessionRecord /\ new.next = Ses.next /\ new.written = Ses.written /\ new.bytes = Ses.bytes
  BY <1>1, VerifiedIs
<1> HIDE DEF new
<1>3. new.written <= new.bytes /\ Covers(new, receipts[at.s])
  BY <1>1, <1>2 DEF Covers
<1> QED BY <1>1, <1>2, <1>3, BaseSave DEF MarkVerified, Leads, Beginning, Adding, Placing, new

LEMMA BaseWriteTemp ==
  ASSUME BaseInv, WriteTemp
  PROVE  BaseInv'
<1>1. /\ at.step = "temp" /\ at.op = "verify" /\ Faulted /\ Goto("trash")
      /\ UNCHANGED <<files, given, approving, begun, acked>>
  BY BaseParts, Unfaulted DEF WriteTemp, At, ghosts, NoFault, Calls, Placing
<1> QED BY <1>1, GoesOn DEF Leads, Placing, Beginning, Adding

(* What is staged is left alone while the destination is replaced.         *)
LEMMA PlacesOn ==
  ASSUME BaseInv, at.step \in Placing, UNCHANGED <<staging, given, approving, faults, begun, acked>>,
         PlaceTyped', AtTyped',
         at' = Idle \/ (at'.op = "verify" /\ at'.s = at.s /\ at'.step \in Placing \cup {"remove"})
  PROVE  BaseInv'
<1>1. /\ at.s \in Sessions /\ session[at.s] # None /\ RestTyped
      /\ UNCHANGED <<session, scenario, late>>
  BY OfCall, BaseParts DEF Placing, Beginning, staging, given
<1>2. RestTyped'
  BY <1>1 DEF RestTyped
<1>3. ASSUME at'.op = "verify" /\ at'.s = at.s /\ at'.step \in Placing \cup {"remove"} PROVE StepInv'
  BY <1>1, <1>3, AfterIs DEF StepInv, Calls, Fresh, Fitting, Placing, Adding, Beginning, Called
<1>4. StepInv'
  BY <1>3, AfterDone
<1> QED BY <1>2, <1>4, KeepStaging, Whole

LEMMA BaseTrashTarget ==
  ASSUME BaseInv, TrashTarget
  PROVE  BaseInv'
<1>1. /\ at.step = "trash" /\ at.op = "verify" /\ Shape(at) /\ at.s \in Sessions
      /\ target \in Seq(Nat) \cup {None} /\ trash \subseteq Seq(Nat)
      /\ target' = None /\ trash' = trash \cup ({target} \ {None})
      /\ at' = [at EXCEPT !.step = "replace", !.arg = target]
      /\ UNCHANGED <<staging, given, scenario, approving, faults, begun, acked>>
  BY BaseParts, OfCall DEF TrashTarget, At, ghosts, given, Calls, Placing, Beginning, PlaceTyped
<1>2. at' = [step |-> "replace", op |-> at.op, s |-> at.s, arg |-> target]
  BY <1>1 DEF Shape
<1>3. /\ at'.step = "replace" /\ at'.op = "verify" /\ at'.s = at.s /\ at'.arg = target /\ Shape(at')
  BY <1>1, <1>2 DEF Shape
<1>4. PlaceTyped' /\ AtTyped'
  BY <1>1, <1>3 DEF PlaceTyped, AtTyped, Steps, Called
<1> QED BY <1>1, <1>3, <1>4, PlacesOn DEF Placing

LEMMA BaseReplace ==
  ASSUME BaseInv, Verified, Replace
  PROVE  BaseInv'
<1>1. /\ at.step = "replace" /\ at.op = "verify" /\ Going("remove") /\ at.s \in Sessions
      /\ target' = content[at.s] /\ content[at.s] \in Seq(Nat) /\ AtTyped /\ PlaceTyped
      /\ UNCHANGED <<staging, trash, given, scenario, approving, faults, begun, acked>>
  BY BaseParts, Goes, OfCall DEF Replace, At, given, Calls, Placing, Beginning, ContentTyped, Verified
<1>2. PlaceTyped' /\ AtTyped'
  BY <1>1 DEF PlaceTyped, AtTyped, Steps, Called, Going
<1> QED BY <1>1, <1>2, PlacesOn DEF Placing, Going

LEMMA BaseReplaceFails ==
  ASSUME BaseInv, ReplaceFails
  PROVE  BaseInv'
<1>1. /\ at.step = "replace" /\ at.op = "verify" /\ Faulted /\ approving' \subseteq Sessions
      /\ at' = Idle \/ Goto("restore")
      /\ UNCHANGED <<files, given, approving, begun, acked>>
  BY BaseParts DEF ReplaceFails, At, ghosts, Done, Faulted, Calls, Placing, RestTyped
<1>2. CASE Goto("restore")
  BY <1>1, <1>2, GoesOn DEF Leads, Placing, Beginning, Adding
<1> QED BY <1>1, <1>2, Ends

LEMMA BaseRestore ==
  ASSUME BaseInv, Restore
  PROVE  BaseInv'
<1>1. /\ at.step = "restore" /\ at.op = "verify" /\ at' = Idle /\ AtTyped /\ PlaceTyped
      /\ target' = at.arg /\ trash' = trash \ {at.arg}
      /\ UNCHANGED <<staging, given, approving, faults, begun, acked>>
  BY BaseParts DEF Restore, At, ghosts, Calls, Placing, Done
<1>2. PlaceTyped' /\ AtTyped'
  BY <1>1, AfterDone DEF PlaceTyped, AtTyped, Called
<1> QED BY <1>1, <1>2, PlacesOn DEF Placing

LEMMA BaseFaults ==
  ASSUME BaseInv, Fails \/ Crash
  PROVE  BaseInv'
<1>1. /\ at' = Idle /\ Faulted /\ approving' \subseteq Sessions
      /\ UNCHANGED <<files, given, begun, acked>>
  BY BaseParts DEF Fails, Crash, Done, ghosts, Faulted, RestTyped
<1> QED BY <1>1, Ends

LEMMA BaseInvNext ==
  ASSUME BaseInv, Verified, [Next]_vars
  PROVE  BaseInv'
<1>1. CASE UNCHANGED vars
  <2>1. /\ UNCHANGED <<files, staging, session, receipts, at, scenario, late, approving, faults, begun, acked>>
        /\ late \subseteq Sessions /\ approving \subseteq Sessions /\ AtTyped /\ StepInv
    BY <1>1, BaseParts DEF vars, files, staging, given, ghosts, RestTyped, BaseInv
  <2>2. AtTyped' /\ StepInv' /\ Faulted
    BY <2>1 DEF AtTyped, StepInv, Calls, Fresh, Nothing, Fitting, Ses, Readable, Pending, Faulted, NoFault, files, staging
  <2> QED BY <2>1, <2>2, FilesKept
<1>2. ASSUME NEW s \in Sessions, Requests(s) \/ Expire(s) PROVE BaseInv'
  BY <1>2, BaseRequests, BaseExpire
<1>3. CASE Sweep \/ Room \/ Stage \/ FirstSession \/ RemovePart \/ RemoveStaging
  BY <1>3, BaseSweep, BaseRoom, BaseStage, BaseFirstSession, BaseRemovePart, BaseRemoveStaging
<1>4. CASE Opening
  BY <1>4, BaseOpenNoReceipt, BaseOpenNotAppended, BaseOpenAppended, BaseOpenNoContent,
     BaseRepair, BaseRepaired DEF Opening
<1>5. CASE Appending
  BY <1>5, BaseCheck, BaseCreateReceipt, BaseFillReceipt, BaseAppendBytes, BaseCountBytes,
     BaseAppended DEF Appending
<1>6. CASE Committing
  BY <1>6, BaseAskGuard, BaseVerify, BaseMarkVerified, BaseWriteTemp, BaseTrashTarget, BaseReplace,
     BaseReplaceFails, BaseRestore DEF Committing
<1>7. CASE Fails \/ Crash
  BY <1>7, BaseFaults
<1> QED BY <1>1, <1>2, <1>3, <1>4, <1>5, <1>6, <1>7 DEF Next

LEMMA BaseInit ==
  ASSUME Init
  PROVE  BaseInv
<1>1. /\ scenario \in Scenarios
      /\ session = [s \in Sessions |-> None] /\ content = [s \in Sessions |-> None]
      /\ receipts = [s \in Sessions |-> NoReceipts] /\ NoReceipts = [i \in Indexes |-> None]
      /\ target \in Seq(Nat) \cup {None} /\ trash = {}
      /\ at = Idle /\ late = {} /\ approving = {} /\ faults = 0 /\ begun = {} /\ acked = {}
  BY TransferAssumption DEF Init, NoReceipts
<1>2. at.step = "idle" /\ at.op = "none" /\ Shape(at) /\ at.s = None /\ at.arg = None
  BY <1>1, IdleAt
<1>3. AtTyped /\ StepInv
  BY <1>1, <1>2 DEF AtTyped, StepInv, Calls, Fresh, Fitting, Steps, Beginning, Adding, Placing, Called
<1>4. SessionsTyped /\ ContentTyped /\ ReceiptsTyped
  BY <1>1 DEF SessionsTyped, ContentTyped, ReceiptsTyped
<1>5. PlaceTyped /\ RestTyped
  BY <1>1 DEF PlaceTyped, RestTyped
<1>6. StateInv
  BY <1>1 DEF StateInv, Nothing
<1> QED BY <1>3, <1>4, <1>5, <1>6, TypeParts DEF BaseInv

-----------------------------------------------------------------------------
(* What is placed is what was declared: how the session of a step differs  *)
(* from the one before.                                                    *)
Marked == {"mark", "temp", "trash", "replace", "restore"}

Unmarked(s) ==
  \/ session'[s] = None \/ content'[s] = None \/ session'[s].verified = FALSE
  \/ /\ session[s] # None /\ content'[s] = content[s]
     /\ session'[s].verified = session[s].verified /\ session'[s].digest = session[s].digest

LEMMA StillVerified ==
  ASSUME Verified, at'.step \notin Marked, \A s \in Sessions : Unmarked(s)
  PROVE  Verified'
BY DEF Verified, VerifiedAsDeclared, Unmarked, Marked

LEMMA SessionsKept ==
  ASSUME UNCHANGED <<session, content>>
  PROVE  \A s \in Sessions : Unmarked(s)
BY DEF Unmarked

LEMMA RemovedUnmarked ==
  ASSUME NEW S, NEW parts, Remove(S, parts)
  PROVE  \A s \in Sessions : Unmarked(s)
BY DEF Remove, Unmarked

LEMMA VerifiedBegin ==
  ASSUME BaseInv, Verified,
         (\E s \in Sessions : Requests(s) \/ Expire(s)) \/ Sweep \/ Room \/ Stage \/ FirstSession
           \/ RemovePart \/ RemoveStaging \/ Fails \/ Crash
  PROVE  Verified'
<1>1. Shape(at) /\ SessionsTyped /\ ContentTyped
  BY BaseParts
<1>2. ASSUME NEW s \in Sessions, Requests(s) PROVE Verified'
  <2>1. UNCHANGED <<session, content>> /\ at'.step \in {"sweep", "open"}
    BY <1>2 DEF Requests, Begin, AppendChunk, Inspect, Commit, ResumeCommit, Call, files, staging
  <2> QED BY <2>1, SessionsKept, StillVerified DEF Marked
<1>3. ASSUME NEW s \in Sessions, Expire(s) PROVE Verified'
  BY <1>3 DEF Expire, files, staging, Verified, VerifiedAsDeclared, Ses
<1>4. CASE Sweep
  <2>1. Going("room") /\ (UNCHANGED staging \/ \E S, parts : Remove(S, parts))
    BY <1>1, <1>4, Goes DEF Sweep
  <2> QED BY <2>1, SessionsKept, RemovedUnmarked, StillVerified DEF Marked, Going, staging
<1>5. CASE Room
  <2>1. (Going("stage") \/ at' = Idle) /\ UNCHANGED <<session, content>>
    BY <1>1, <1>5, Goes DEF Room, Done, files, staging
  <2> QED BY <2>1, IdleAt, SessionsKept, StillVerified DEF Marked, Going
<1>6. CASE Stage
  <2>1. /\ Going("first") /\ UNCHANGED session /\ content' = [content EXCEPT ![at.s] = <<>>]
        /\ at.s \in Sessions /\ session[at.s] = None
    BY <1>1, <1>6, BaseParts, Goes DEF Stage, At, Calls, Fresh, Nothing, Beginning
  <2>2. \A s \in Sessions : Unmarked(s)
    BY <1>1, <2>1 DEF Unmarked, ContentTyped
  <2> QED BY <2>1, <2>2, StillVerified DEF Marked, Going
<1>7. CASE FirstSession
  <2> DEFINE new == [bytes |-> at.arg.bytes, digest |-> at.arg.digest,
                     next |-> 0, written |-> 0, verified |-> FALSE]
  <2>1. (Going("remove") /\ UNCHANGED session) \/ (at' = Idle /\ session' = [session EXCEPT ![at.s] = new])
    BY <1>1, <1>7, Goes DEF FirstSession, Done
  <2>2. new.verified = FALSE /\ UNCHANGED content
    BY <1>7 DEF FirstSession
  <2> HIDE DEF new
  <2>3. \A s \in Sessions : Unmarked(s)
    BY <1>1, <2>1, <2>2 DEF Unmarked, SessionsTyped
  <2> QED BY <2>1, <2>3, IdleAt, StillVerified DEF Marked, Going
<1>8. CASE RemovePart
  <2>1. at'.step \in {"remove", "sweep"} /\ \E S, parts : Remove(S, parts)
    BY <1>8 DEF RemovePart, At
  <2> QED BY <2>1, RemovedUnmarked, StillVerified DEF Marked
<1>9. CASE RemoveStaging
  <2>1. at' = Idle /\ (UNCHANGED staging \/ \E S, parts : Remove(S, parts))
    BY <1>9 DEF RemoveStaging, Done
  <2> QED BY <2>1, IdleAt, SessionsKept, RemovedUnmarked, StillVerified DEF Marked, staging
<1>10. CASE Fails \/ Crash
  <2>1. at' = Idle /\ UNCHANGED <<session, content>>
    BY <1>10 DEF Fails, Crash, Done, files, staging
  <2> QED BY <2>1, IdleAt, SessionsKept, StillVerified DEF Marked
<1> QED BY <1>2, <1>3, <1>4, <1>5, <1>6, <1>7, <1>8, <1>9, <1>10

LEMMA CountedUnmarked ==
  ASSUME BaseInv, at.step \notin Beginning \cup {"idle", "remove"}, NEW n \in Nat, Ses.next < Len(Pieces),
         NEW then, Save(Counted(n), then), UNCHANGED content
  PROVE  (\A s \in Sessions : Unmarked(s)) /\ (at' = Idle \/ Going(then))
<1>1. at.s \in Sessions /\ Ses \in SessionRecord /\ session[at.s] # None /\ SessionsTyped /\ Shape(at)
  BY OfCall, BaseParts
<1>2. Counted(n).verified = session[at.s].verified /\ Counted(n).digest = session[at.s].digest
  BY <1>1, CountedIs DEF Ses
<1>3. session' = [session EXCEPT ![at.s] = Counted(n)] /\ (at' = Idle \/ Going(then))
  BY <1>1, Goes DEF Save, Done
<1> HIDE DEF Counted
<1>4. session'[at.s] = Counted(n) /\ \A s \in Sessions : s # at.s => session'[s] = session[s]
  BY <1>1, <1>3 DEF SessionsTyped
<1> QED BY <1>1, <1>2, <1>3, <1>4 DEF Unmarked

LEMMA VerifiedOpening ==
  ASSUME BaseInv, Verified, Opening
  PROVE  Verified'
<1>1. Shape(at) /\ SessionsTyped /\ ContentTyped
  BY BaseParts
<1>2. ASSUME at.step \in {"open", "repaired"}, Opened, UNCHANGED <<session, content>> PROVE Verified'
  <2>1. at'.step \notin Marked
    BY <1>2, OpenedTo, IdleAt DEF Marked, Going
  <2> QED BY <1>2, <2>1, SessionsKept, StillVerified
<1>3. CASE OpenNoReceipt \/ OpenNotAppended \/ Repaired
  BY <1>2, <1>3 DEF OpenNoReceipt, OpenNotAppended, Repaired, At, files, staging
<1>4. CASE OpenAppended \/ OpenNoContent
  <2>1. (Going("repair") \/ Going("remove") \/ at' = Idle) /\ UNCHANGED <<session, content>>
    BY <1>1, <1>4, Goes DEF OpenAppended, OpenNoContent, Done, files, staging
  <2> QED BY <2>1, IdleAt, SessionsKept, StillVerified DEF Marked, Going
<1>5. CASE Repair
  <2>1. at.step = "repair" /\ Readable /\ Save(Counted(Len(Pending)), "repaired") /\ UNCHANGED content
    BY <1>5, BaseParts DEF Repair, At, Fitting
  <2>2. Len(Pending) \in Nat /\ Ses.next < Len(Pieces)
    BY <2>1, PendingIs DEF Beginning
  <2>3. (\A s \in Sessions : Unmarked(s)) /\ (at' = Idle \/ Going("repaired"))
    BY <2>1, <2>2, CountedUnmarked DEF Beginning
  <2> QED BY <2>3, IdleAt, StillVerified DEF Marked, Going
<1> QED BY <1>3, <1>4, <1>5 DEF Opening

LEMMA VerifiedAppending ==
  ASSUME BaseInv, Verified, Appending
  PROVE  Verified'
<1>1. Shape(at) /\ SessionsTyped /\ ContentTyped
  BY BaseParts
<1>2. CASE Check \/ CreateReceipt \/ FillReceipt \/ Appended
  <2>1. (Going("receipt") \/ Going("fill") \/ Going("bytes") \/ at' = Idle) /\ UNCHANGED <<session, content>>
    BY <1>1, <1>2, Goes DEF Check, CreateReceipt, FillReceipt, Appended, Done, files, staging
  <2> QED BY <2>1, IdleAt, SessionsKept, StillVerified DEF Marked, Going
<1>3. CASE AppendBytes
  <2>1. /\ at.step = "bytes" /\ at.s \in Sessions /\ ~session[at.s].verified /\ at.arg.chunk \in Seq(Nat)
        /\ session[at.s].verified \in BOOLEAN /\ session[at.s] # None
    BY <1>3, BaseParts, OfCall, ChunkOfCall DEF AppendBytes, At, Calls, Fitting, Adding, Beginning, Ses
  <2>2. (\E b \in Seq(Nat) : Written(b)) /\ (Going("count") \/ at' = Idle) /\ UNCHANGED session
    BY <1>1, <1>3, <2>1, CutTyped, Goes DEF AppendBytes, Done
  <2>3. \A r \in Sessions : r # at.s => content'[r] = content[r]
    BY <2>1, <2>2, WrittenIs
  <2>4. \A s \in Sessions : Unmarked(s)
    BY <2>1, <2>2, <2>3 DEF Unmarked
  <2> QED BY <2>2, <2>4, IdleAt, StillVerified DEF Marked, Going
<1>4. CASE CountBytes
  <2>1. /\ at.step = "count" /\ Len(at.arg.chunk) \in Nat /\ Ses.next < Len(Pieces)
    BY <1>4, BaseParts, ChunkOfCall DEF CountBytes, At, Calls, Fitting, Adding
  <2>2. (\A s \in Sessions : Unmarked(s)) /\ (at' = Idle \/ Going("appended"))
    BY <1>4, <2>1, CountedUnmarked DEF CountBytes, Beginning
  <2> QED BY <2>2, IdleAt, StillVerified DEF Marked, Going
<1> QED BY <1>2, <1>3, <1>4 DEF Appending

LEMMA VerifiedCommitting ==
  ASSUME BaseInv, Verified, Committing
  PROVE  Verified'
<1>1. Shape(at) /\ SessionsTyped /\ ContentTyped
  BY BaseParts
<1>2. CASE AskGuard \/ Restore
  <2>1. at' = Idle /\ UNCHANGED <<session, content>>
    BY <1>2 DEF AskGuard, Restore, Done, files, staging
  <2> QED BY <2>1, IdleAt, SessionsKept, StillVerified DEF Marked
<1>3. CASE Verify
  <2>1. (at' = Idle \/ (Going("temp") /\ Ses.verified) \/ Going("mark")) /\ UNCHANGED <<session, content>>
    BY <1>1, <1>3, Goes DEF Verify, Done, files, staging
  <2>2. at' = Idle \/ (content[at.s] # None /\ content[at.s] = Ses.digest)
    BY <1>3 DEF Verify, Matches, Done
  <2> QED BY <2>1, <2>2, IdleAt DEF Verified, VerifiedAsDeclared, Going, Ses
<1>4. CASE MarkVerified
  <2> DEFINE new == [Ses EXCEPT !.verified = TRUE]
  <2>1. /\ at.step = "mark" /\ at.s \in Sessions /\ Ses \in SessionRecord /\ session[at.s] # None
        /\ content[at.s] # None /\ content[at.s] = Ses.digest /\ UNCHANGED content
        /\ session' = [session EXCEPT ![at.s] = new] /\ (at' = Idle \/ Going("temp"))
    BY <1>1, <1>4, OfCall, Goes DEF MarkVerified, At, Save, Done, Beginning, Verified
  <2>2. new.verified = TRUE /\ new.digest = Ses.digest
    BY <2>1, VerifiedIs
  <2> HIDE DEF new
  <2>3. session'[at.s] = new /\ \A s \in Sessions : s # at.s => session'[s] = session[s]
    BY <1>1, <2>1 DEF SessionsTyped
  <2> QED BY <2>1, <2>2, <2>3, IdleAt DEF Verified, VerifiedAsDeclared, Going, Ses
<1>5. CASE WriteTemp \/ ReplaceFails
  <2>1. /\ (at.step = "temp" /\ Going("trash")) \/ (at.step = "replace" /\ (Going("restore") \/ at' = Idle))
        /\ UNCHANGED <<session, content>>
    BY <1>1, <1>5, Goes DEF WriteTemp, ReplaceFails, At, Done, files, staging
  <2> QED BY <2>1, IdleAt DEF Verified, VerifiedAsDeclared, Going, Ses
<1>6. CASE TrashTarget
  <2>1. /\ at.step = "trash" /\ at'.step = "replace" /\ at'.s = at.s /\ UNCHANGED <<session, content>>
    BY <1>1, <1>6 DEF TrashTarget, At, Shape, staging
  <2> QED BY <2>1 DEF Verified, VerifiedAsDeclared, Ses
<1>7. CASE Replace
  <2>1. Going("remove") /\ UNCHANGED <<session, content>>
    BY <1>1, <1>7, Goes DEF Replace, staging
  <2> QED BY <2>1, SessionsKept, StillVerified DEF Marked, Going
<1> QED BY <1>2, <1>3, <1>4, <1>5, <1>6, <1>7 DEF Committing

LEMMA VerifiedNext ==
  ASSUME BaseInv, Verified, [Next]_vars
  PROVE  Verified'
<1>1. CASE UNCHANGED vars
  BY <1>1 DEF vars, files, staging, Verified, VerifiedAsDeclared, Ses
<1> QED BY <1>1, VerifiedBegin, VerifiedOpening, VerifiedAppending, VerifiedCommitting DEF Next

-----------------------------------------------------------------------------
(* The destination and the trash: only three steps touch them, and between *)
(* the two that replace the destination nothing else happens.              *)
Placed == TrashTarget \/ Replace \/ ReplaceFails \/ Restore

LEMMA Unplaced ==
  ASSUME BaseInv, [Next]_vars, ~Placed
  PROVE  /\ UNCHANGED <<target, trash, past>>
         /\ UNCHANGED at \/ at'.step \notin {"replace", "restore"}
<1>1. Shape(at)
  BY BaseParts
<1>2. CASE UNCHANGED vars
  BY <1>2 DEF vars, files, ghosts
<1>3. ASSUME NEW s \in Sessions, Requests(s) \/ Expire(s)
      PROVE  UNCHANGED <<target, trash, past>> /\ (UNCHANGED at \/ at'.step \notin {"replace", "restore"})
  BY <1>3 DEF Requests, Begin, AppendChunk, Inspect, Commit, ResumeCommit, Call, Expire, files, ghosts
<1>4. CASE Sweep \/ Room \/ Stage \/ FirstSession
  <2>1. /\ Going("room") \/ Going("stage") \/ Going("first") \/ Going("remove") \/ at' = Idle
        /\ UNCHANGED <<target, trash, past>>
    BY <1>1, <1>4, Goes DEF Sweep, Room, Stage, FirstSession, Done, files, ghosts
  <2> QED BY <2>1, IdleAt DEF Going
<1>5. CASE RemovePart \/ RemoveStaging \/ Fails \/ Crash
  BY <1>5, IdleAt DEF RemovePart, RemoveStaging, Fails, Crash, Done, files, ghosts
<1>6. CASE OpenNoReceipt \/ OpenNotAppended \/ Repaired
  <2>1. at.step \in {"open", "repaired"} /\ Opened /\ UNCHANGED <<target, trash, past>>
    BY <1>6 DEF OpenNoReceipt, OpenNotAppended, Repaired, At, files, ghosts
  <2> QED BY <2>1, OpenedTo, IdleAt DEF Going
<1>7. CASE OpenAppended \/ OpenNoContent \/ Repair
  <2>1. /\ Going("repair") \/ Going("remove") \/ Going("repaired") \/ at' = Idle
        /\ UNCHANGED <<target, trash, past>>
    BY <1>1, <1>7, Goes DEF OpenAppended, OpenNoContent, Repair, Save, Done, files, ghosts
  <2> QED BY <2>1, IdleAt DEF Going
<1>8. CASE Appending
  <2>1. /\ at' = Idle \/ \E x \in {"receipt", "fill", "bytes", "count", "appended"} : Going(x)
        /\ UNCHANGED <<target, trash, past>>
    BY <1>1, <1>8, Goes
       DEF Appending, Check, CreateReceipt, FillReceipt, AppendBytes, CountBytes, Appended, Save, Done, files, ghosts
  <2> QED BY <2>1, IdleAt DEF Going
<1>9. CASE AskGuard \/ Verify \/ MarkVerified \/ WriteTemp
  <2>1. /\ at' = Idle \/ \E x \in {"mark", "temp", "trash"} : Going(x)
        /\ UNCHANGED <<target, trash, past>>
    BY <1>1, <1>9, Goes DEF AskGuard, Verify, MarkVerified, WriteTemp, Save, Done, files, ghosts
  <2> QED BY <2>1, IdleAt DEF Going
<1> QED BY <1>2, <1>3, <1>4, <1>5, <1>6, <1>7, <1>8, <1>9 DEF Next, Opening, Committing, Placed

LEMMA KeptNext ==
  ASSUME BaseInv, Verified, Kept, [Next]_vars
  PROVE  Kept'
<1>1. /\ past \subseteq Seq(Nat) /\ past \subseteq trash \cup {target} /\ target \in Seq(Nat) \cup {None}
      /\ trash \subseteq Seq(Nat) /\ None \notin Seq(Nat) /\ Shape(at) /\ ContentTyped
  BY BaseParts, TransferAssumption DEF Kept, NothingLost, PlaceTyped
<1>2. CASE ~Placed
  BY <1>2, Unplaced DEF Kept, NothingLost
<1>3. CASE TrashTarget
  <2>1. /\ trash' = trash \cup ({target} \ {None}) /\ target' = None /\ UNCHANGED past
        /\ at' = [step |-> "replace", op |-> at.op, s |-> at.s, arg |-> target]
    BY <1>1, <1>3 DEF TrashTarget, ghosts, Shape
  <2> QED BY <1>1, <2>1 DEF Kept, NothingLost
<1>4. CASE Replace
  <2>1. /\ at.step = "replace" /\ at.s \in Sessions /\ content[at.s] # None
        /\ target' = content[at.s] /\ past' = past \cup {content[at.s]} /\ UNCHANGED trash /\ Going("remove")
    BY <1>1, <1>4, BaseParts, OfCall, Goes DEF Replace, At, Beginning, Verified
  <2> QED BY <1>1, <2>1 DEF Kept, NothingLost, ContentTyped, Going
<1>5. CASE ReplaceFails
  <2>1. /\ at.step = "replace" /\ UNCHANGED <<target, trash, past>>
        /\ at' = Idle \/ (Going("restore") /\ at.arg # None)
    BY <1>1, <1>5, Goes DEF ReplaceFails, At, Done, files, ghosts
  <2> QED BY <2>1, IdleAt DEF Kept, NothingLost, Going
<1>6. CASE Restore
  <2>1. /\ at.step = "restore" /\ target = None /\ target' = at.arg /\ trash' = trash \ {at.arg}
        /\ at' = Idle /\ UNCHANGED past
    BY <1>6 DEF Restore, At, Done, ghosts, Kept
  <2> QED BY <1>1, <2>1, IdleAt DEF Kept, NothingLost
<1> QED BY <1>2, <1>3, <1>4, <1>5, <1>6 DEF Placed

(* A change of the destination is one of the three.                        *)
LEMMA WritesNext ==
  ASSUME BaseInv, Verified, Kept, [Next]_vars, target' # target
  PROVE  target' = None \/ (target = None /\ target' \in {Ses.digest, at.arg})
<1>1. CASE ~Placed
  BY <1>1, Unplaced
<1>2. CASE TrashTarget
  BY <1>2 DEF TrashTarget
<1>3. CASE Replace
  BY <1>3 DEF Replace, At, Verified, Kept
<1>4. CASE ReplaceFails
  BY <1>4 DEF ReplaceFails, files
<1>5. CASE Restore
  BY <1>5 DEF Restore, At, Kept
<1> QED BY <1>1, <1>2, <1>3, <1>4, <1>5 DEF Placed

FilesInv == BaseInv /\ Verified /\ Kept

LEMMA FilesInit ==
  ASSUME Init
  PROVE  FilesInv
<1>1. BaseInv /\ at.step = "idle"
  BY BaseInit, IdleAt DEF Init
<1>2. Verified
  BY <1>1 DEF Init, Verified, VerifiedAsDeclared
<1>3. Kept
  BY <1>1, TransferAssumption DEF Init, Kept, NothingLost
<1> QED BY <1>1, <1>2, <1>3 DEF FilesInv

LEMMA FilesAlways == Spec => []FilesInv
<1>1. FilesInv /\ [Next]_vars => FilesInv'
  BY BaseInvNext, VerifiedNext, KeptNext DEF FilesInv
<1> QED BY <1>1, FilesInit, PTL DEF Spec

(* Every variable keeps its type, and no session ever counts more than was *)
(* declared for it, whatever calls, faults and crashes there are.          *)
THEOREM TypeCorrect == Spec => []TypeOK
<1>1. FilesInv => TypeOK
  BY DEF FilesInv, BaseInv
<1> QED BY <1>1, FilesAlways, PTL

(* Whatever faults happen, a text that the destination has held is there   *)
(* or in the trash (atomicWrite.ts 62-123).                                *)
THEOREM NothingEverLost == Spec => []NothingLost
<1>1. FilesInv => NothingLost
  BY DEF FilesInv, Kept
<1> QED BY <1>1, FilesAlways, PTL

(* A verified session holds the text whose digest was declared.            *)
THEOREM AlwaysVerifiedAsDeclared == Spec => []VerifiedAsDeclared
<1>1. FilesInv => VerifiedAsDeclared
  BY DEF FilesInv, Verified
<1> QED BY <1>1, FilesAlways, PTL

(* The destination only ever becomes what was declared when the transfer   *)
(* began, or nothing, or again what it was (commit 63-76).                 *)
THEOREM OnlyDeclaredIsWritten == Spec => CommitWritesDeclared
<1>1. FilesInv /\ [Next]_vars =>
        [target' # target => \/ target' = None
                             \/ target = None /\ target' \in {Ses.digest, at.arg}]_vars
  BY WritesNext DEF FilesInv
<1> QED BY <1>1, FilesAlways, PTL DEF Spec, CommitWritesDeclared

-----------------------------------------------------------------------------
(* The text, piece by piece.                                               *)
LEMMA UptoJoins == Joins(Upto, Pieces, Len(Pieces), Nat) /\ Len(Pieces) \in Nat
<1>1. Len(Pieces) \in Nat /\ \A n \in 1 .. Len(Pieces) : Pieces[n] \in Seq(Nat)
  BY TransferAssumption, ElementOfSeq, LenProperties
<1>2. IsJoin(Upto, Pieces, Len(Pieces))
  <2>1. \E f : f = [n \in 0 .. Len(Pieces) |-> IF n = 0 THEN <<>> ELSE f[n - 1] \o Pieces[n]]
    BY <1>1, JoinExists DEF IsJoin, Joined
  <2> QED BY <2>1, Zenon DEF Upto, IsJoin, Joined, Indexes
<1> QED BY <1>1, <1>2, JoinGrows

LEMMA UptoIs ==
  /\ 0 \in Indexes /\ Upto[0] = <<>> /\ Len(Upto[0]) = 0
  /\ \A n \in Indexes : Upto[n] \in Seq(Nat) /\ Len(Upto[n]) \in Nat /\ Upto[n] # None
<1>1. 0 \in Indexes /\ Upto[0] = <<>>
  BY UptoJoins DEF Joins, Indexes
<1>2. \A n \in Indexes : Upto[n] \in Seq(Nat)
  BY UptoJoins, Zenon DEF Joins, Indexes
<1> QED BY <1>1, <1>2, TransferAssumption, LenProperties

LEMMA NextPiece ==
  ASSUME NEW n \in Indexes, n < Len(Pieces)
  PROVE  /\ n + 1 \in Indexes /\ n \in 0 .. Len(Pieces) - 1 /\ Pieces[n + 1] \in Seq(Nat) /\ Len(Pieces[n + 1]) \in Nat
         /\ Upto[n + 1] = Upto[n] \o Pieces[n + 1]
         /\ Len(Upto[n + 1]) = Len(Upto[n]) + Len(Pieces[n + 1])
<1>1. n + 1 \in 1 .. Len(Pieces) /\ n + 1 \in Indexes /\ (n + 1) - 1 = n /\ n \in 0 .. Len(Pieces) - 1
  BY UptoJoins DEF Indexes
<1>2. Pieces[n + 1] \in Seq(Nat) /\ Upto[n + 1] = Upto[(n + 1) - 1] \o Pieces[n + 1]
  BY <1>1, UptoJoins, Zenon DEF Joins
<1>3. PICK a, b, c : a = Upto[n] /\ b = Pieces[n + 1] /\ c = Upto[n + 1]
  OBVIOUS
<1>4. a \in Seq(Nat) /\ b \in Seq(Nat) /\ c = a \o b
  <2>1. c = a \o b
    BY <1>1, <1>2, <1>3
  <2> QED BY <1>2, <1>3, <2>1, UptoIs
<1>5. Len(c) = Len(a) + Len(b) /\ Len(b) \in Nat
  BY ONLY <1>4, ConcatProperties, LenProperties
<1> QED BY <1>1, <1>3, <1>4, <1>5

LEMMA PieceTyped == \A n \in Indexes : n < Len(Pieces) => Pieces[n + 1] \in Seq(Nat)
BY NextPiece

LEMMA UptoBegins ==
  ASSUME NEW m \in Indexes, NEW n \in Indexes, m <= n
  PROVE  Prefix(Upto[n], Upto[m]) /\ (Len(Upto[m]) = Len(Upto[n]) => Upto[m] = Upto[n])
<1>1. m \in 0 .. Len(Pieces) /\ n \in m .. Len(Pieces)
  BY UptoJoins DEF Indexes
<1>2. Begins(Upto[m], Upto[n]) /\ (Len(Upto[m]) = Len(Upto[n]) => Upto[m] = Upto[n])
  <2>1. PICK f, l : f = Upto /\ l = Len(Pieces)
    OBVIOUS
  <2>2. l \in Nat /\ Joins(f, Pieces, l, Nat) /\ m \in 0 .. l /\ n \in m .. l
    BY <1>1, <2>1, UptoJoins, Zenon
  <2>3. Begins(f[m], f[n])
    BY ONLY <2>2, JoinBegins
  <2>4. Len(f[m]) = Len(f[n]) => f[m] = f[n]
    BY ONLY <2>2, JoinSame
  <2> QED BY <2>1, <2>3, <2>4
<1>3. PICK a, b : a = Upto[m] /\ b = Upto[n]
  OBVIOUS
<1>4. a \in Seq(Nat) /\ b \in Seq(Nat) /\ Begins(a, b)
  BY <1>2, <1>3, UptoIs
<1>5. Prefix(b, a)
  <2>1. /\ Len(a) \in Nat /\ Len(a) <= Len(b) /\ \A i \in 1 .. Len(a) : b[i] = a[i] /\ a[i] \in Nat
    BY <1>4, ElementOfSeq, LenProperties DEF Begins
  <2>2. /\ SubSeq(b, 1, Len(a)) \in Seq(Nat) /\ Len(SubSeq(b, 1, Len(a))) = Len(a)
        /\ \A i \in 1 .. Len(a) : SubSeq(b, 1, Len(a))[i] = b[i]
    <3>1. 1 \in Int /\ Len(a) \in Int /\ \A i \in 1 .. Len(a) : b[i] \in Nat
      BY <2>1
    <3>2. /\ SubSeq(b, 1, Len(a)) \in Seq(Nat)
          /\ Len(SubSeq(b, 1, Len(a))) = IF 1 <= Len(a) THEN Len(a) - 1 + 1 ELSE 0
          /\ \A i \in 1 .. Len(a) - 1 + 1 : SubSeq(b, 1, Len(a))[i] = b[1 + i - 1]
      BY <3>1, SubSeqProperties
    <3> QED BY <2>1, <3>2
  <2>3. SubSeq(b, 1, Len(a)) = a
    BY <1>4, <2>1, <2>2, SeqEqual
  <2> QED BY <2>1, <2>3 DEF Prefix
<1> QED BY <1>2, <1>3, <1>5

(* A text that ends with a chunk has it as a suffix.                       *)
LEMMA EndsWith ==
  ASSUME NEW a \in Seq(Nat), NEW b \in Seq(Nat), NEW c, c = a \o b
  PROVE  Suffix(c, b) /\ Len(c) = Len(a) + Len(b)
<1>1. Len(c) = Len(a) + Len(b) /\ Len(a) \in Nat /\ Len(b) \in Nat
  BY ConcatProperties, LenProperties
<1>2. CASE Len(b) = 0
  <2>1. b = <<>>
    BY <1>2, EmptySeq
  <2>2. SubSeq(c, Len(c) - Len(b) + 1, Len(c)) = <<>>
    BY <1>1, <1>2, SubSeqEmpty
  <2> QED BY <1>1, <1>2, <2>1, <2>2 DEF Suffix
<1>3. CASE Len(b) # 0
  <2>1. /\ Len(a) + 1 \in Len(a) + 1 .. Len(a) + Len(b) /\ Len(a) + Len(b) \in Len(a) + 1 .. Len(a) + Len(b)
        /\ (Len(a) + 1) - Len(a) = 1 /\ (Len(a) + Len(b)) - Len(a) = Len(b)
        /\ Len(c) - Len(b) + 1 = Len(a) + 1
    BY <1>1, <1>3
  <2>2. SubSeq(a \o b, Len(a) + 1, Len(a) + Len(b)) = SubSeq(b, (Len(a) + 1) - Len(a), (Len(a) + Len(b)) - Len(a))
    BY <2>1, SubSeqOfConcat2
  <2>3. SubSeq(b, 1, Len(b)) = b
    BY SubSeqFull
  <2>4. SubSeq(c, Len(c) - Len(b) + 1, Len(c)) = b
    <3>1. SubSeq(c, Len(a) + 1, Len(a) + Len(b)) = SubSeq(b, (Len(a) + 1) - Len(a), (Len(a) + Len(b)) - Len(a))
      BY <2>2, Zenon
    <3>2. PICK m, n, k, l : /\ m = Len(a) + 1 /\ n = Len(a) + Len(b)
                            /\ k = (Len(a) + 1) - Len(a) /\ l = (Len(a) + Len(b)) - Len(a)
      OBVIOUS
    <3>3. /\ SubSeq(c, m, n) = SubSeq(b, k, l) /\ k = 1 /\ l = Len(b)
          /\ Len(c) - Len(b) + 1 = m /\ Len(c) = n
      BY <1>1, <2>1, <3>1, <3>2
    <3> QED BY <2>3, <3>3
  <2> QED BY <1>1, <2>4 DEF Suffix
<1> QED BY <1>1, <1>2, <1>3

-----------------------------------------------------------------------------
(* A client that keeps the order.  What one step leaves as it is:          *)
LEMMA OrderKept ==
  ASSUME InOrder, UNCHANGED staging, late \subseteq late'
  PROVE  InOrder'
BY DEF InOrder, Ordered, Holds, GivenUp, staging

LEMMA OthersOrdered ==
  ASSUME InOrder, NEW s \in Sessions, Elsewhere(s), UNCHANGED late,
         Ordered(s, session'[s], content'[s], receipts'[s], late)
  PROVE  InOrder'
BY DEF InOrder, Elsewhere

LEMMA AckedKept ==
  ASSUME BaseInv, Acked, UNCHANGED acked,
         \A s \in Sessions : session'[s] # None =>
           session[s] # None /\ (session'[s].next = session[s].next \/ session'[s].next = session[s].next + 1)
  PROVE  Acked'
<1>1. \A s \in Sessions : session[s] # None => session[s].next \in Int
  BY BaseParts, SessionTyped, TransferAssumption DEF Indexes
<1> QED BY <1>1 DEF Acked

LEMMA UnderwayIdle == ASSUME at' = Idle PROVE Underway'
BY IdleAt DEF Underway

LEMMA RemovedOrdered ==
  ASSUME InOrder, NEW S, NEW parts, Remove(S, parts), UNCHANGED late,
         \A s \in Sessions : s \in S /\ session[s] # None => GivenUp(s, session[s], late)
  PROVE  InOrder'
<1>1. None \notin Seq(Nat)
  BY TransferAssumption
<1> SUFFICES ASSUME NEW s \in Sessions PROVE Ordered(s, session'[s], content'[s], receipts'[s], late)
  BY DEF InOrder
<1>2. Ordered(s, session[s], content[s], receipts[s], late)
  BY DEF InOrder
<1>3. CASE s \notin S
  <2>1. session'[s] = session[s] /\ content'[s] = content[s] /\ receipts'[s] = receipts[s]
    BY <1>3 DEF Remove
  <2> QED BY <1>2, <2>1
<1>4. CASE s \in S
  <2>1. /\ session'[s] = session[s] \/ session'[s] = None
        /\ content'[s] = content[s] \/ content'[s] = None
        /\ receipts'[s] = receipts[s] \/ receipts'[s] = NoReceipts
    BY DEF Remove
  <2>2. \A i \in 0 .. Len(Pieces) - 1 : receipts'[s][i] \in Seq(Nat) => receipts'[s][i] = Pieces[i + 1]
    <3>1. \A i \in 0 .. Len(Pieces) - 1 : NoReceipts[i] = None
      BY UptoJoins DEF NoReceipts, Indexes
    <3> QED BY <1>1, <1>2, <2>1, <3>1 DEF Ordered
  <2>3. content'[s] # None => \E n \in Indexes : content'[s] = Upto[n]
    BY <1>2, <2>1 DEF Ordered
  <2>4. ASSUME session'[s] # None
        PROVE  /\ session'[s].written = Len(Upto[session'[s].next])
               /\ IF content'[s] = None THEN GivenUp(s, session'[s], late)
                  ELSE Holds(s, session'[s], content'[s], receipts'[s], late)
    <3>1. /\ session'[s] = session[s] /\ GivenUp(s, session[s], late)
          /\ session[s].written = Len(Upto[session[s].next])
          /\ content[s] # None => Holds(s, session[s], content[s], receipts[s], late)
      BY <1>2, <1>4, <2>1, <2>4 DEF Ordered
    <3> QED BY <2>1, <3>1 DEF Holds
  <2> QED BY <2>2, <2>3, <2>4 DEF Ordered
<1> QED BY <1>3, <1>4

LEMMA OnlyTheseFaults ==
  ASSUME Sequential
  PROVE  ~Fault("unread") /\ ~Fault("torn") /\ ~Fault("short") /\ \A i \in Indexes : Chunk(i) \subseteq {Pieces[i + 1]}
BY DEF Sequential, Fault, Chunk

LEMMA SentRequests ==
  ASSUME BaseInv, Sequential, Sent, NEW s \in Sessions, Requests(s) \/ Expire(s)
  PROVE  Sent'
<1>1. /\ UNCHANGED <<staging, session, content, acked>> /\ late \subseteq late'
  BY DEF Requests, Begin, AppendChunk, Inspect, Commit, ResumeCommit, Call, Expire, files, staging, given, ghosts
<1>2. InOrder' /\ Acked'
  BY <1>1, OrderKept, AckedKept DEF Sent
<1>3. ASSUME NEW d, Begin(s, d) PROVE Underway'
  BY <1>3 DEF Begin, Underway
<1>4. ASSUME NEW i \in Indexes, NEW c \in Chunk(i), AppendChunk(s, i, c) PROVE Underway'
  <2>1. c = Pieces[i + 1]
    BY <1>4, OnlyTheseFaults
  <2>2. PICK a : a = [index |-> i, chunk |-> c]
    OBVIOUS
  <2>3. a.index = i /\ a.chunk = c /\ at' = [step |-> "open", op |-> "append", s |-> s, arg |-> a]
    BY <1>4, <2>2 DEF AppendChunk, Call
  <2> QED BY <2>1, <2>3 DEF Underway
<1>5. ASSUME Inspect(s) \/ Commit(s) \/ ResumeCommit(s) PROVE Underway'
  BY <1>5 DEF Inspect, Commit, ResumeCommit, Call, Underway
<1>6. ASSUME Expire(s) PROVE Underway'
  BY <1>1, <1>6 DEF Expire, Sent, Underway, GivenUp, Ses, staging
<1> QED BY <1>2, <1>3, <1>4, <1>5, <1>6 DEF Requests, Sent

LEMMA SentRemoving ==
  ASSUME BaseInv, Sequential, Sent, RemovePart \/ RemoveStaging \/ Sweep
  PROVE  Sent'
<1> DEFINE Given(S) == \A s \in Sessions : s \in S /\ session[s] # None => GivenUp(s, session[s], late)
<1>1. at.step = "remove" => Given({at.s})
  BY DEF Sent, Underway, Ses
<1>2. Given(Expired)
  BY DEF Expired, GivenUp
<1>3. /\ UNCHANGED late /\ UNCHANGED acked
      /\ UNCHANGED staging \/ \E S, parts : Remove(S, parts) /\ Given(S)
  BY <1>1, <1>2, OnlyTheseFaults DEF RemovePart, RemoveStaging, Sweep, At, given, ghosts
<1>4. InOrder'
  BY <1>3, OrderKept, RemovedOrdered DEF Sent
<1>5. \A s \in Sessions : session'[s] # None => session'[s] = session[s]
  BY <1>3 DEF Remove, staging
<1>6. Acked'
  BY <1>3, <1>5, AckedKept DEF Sent
<1>7. Underway'
  <2>1. CASE RemoveStaging
    BY <2>1, UnderwayIdle DEF RemoveStaging, Done
  <2>2. CASE Sweep
    <3>1. Going("room") /\ at.op = "begin"
      BY <2>2, BaseParts, Goes DEF Sweep, At, Calls, Beginning
    <3> QED BY <3>1 DEF Going, Underway
  <2>3. CASE RemovePart
    <3>1. at.step \in {"remove", "sweep"} /\ UNCHANGED at /\ at.s \in Sessions
      BY <2>3, BaseParts DEF RemovePart, At, Calls
    <3>2. session'[at.s] = session[at.s] \/ session'[at.s] = None
      BY <1>5, <3>1
    <3> QED BY <1>3, <3>1, <3>2 DEF Sent, Underway, Ses, GivenUp
  <2> QED BY <2>1, <2>2, <2>3
<1> QED BY <1>4, <1>6, <1>7 DEF Sent

LEMMA SentBeginning ==
  ASSUME BaseInv, Sent, Room \/ Stage \/ FirstSession
  PROVE  Sent'
<1>1. /\ at.op = "begin" /\ at.s \in Sessions /\ Nothing(at.s) /\ \A a \in acked : a[1] # at.s
      /\ Shape(at) /\ SessionsTyped /\ ContentTyped /\ ReceiptsTyped
  BY BaseParts DEF Room, Stage, FirstSession, At, Calls, Fresh, Beginning
<1>2. UNCHANGED <<late, acked>>
  BY DEF Room, Stage, FirstSession, given, ghosts
<1>3. None \notin Seq(Nat) /\ \A i \in 0 .. Len(Pieces) - 1 : receipts[at.s][i] = None
  BY <1>1, TransferAssumption, UptoJoins DEF Nothing, Indexes
<1>4. CASE Room
  <2>1. UNCHANGED <<staging, session>> /\ (Going("stage") \/ at' = Idle)
    BY <1>1, <1>4, Goes DEF Room, Done, files, staging
  <2>2. InOrder' /\ Acked'
    BY <1>2, <2>1, OrderKept, AckedKept DEF Sent
  <2>3. Underway'
    BY <1>1, <2>1, UnderwayIdle DEF Underway, Going
  <2> QED BY <2>2, <2>3 DEF Sent
<1>5. CASE Stage
  <2>1. /\ UNCHANGED <<session, receipts>> /\ Going("first")
        /\ content'[at.s] = <<>> /\ Elsewhere(at.s)
    BY <1>1, <1>5, Goes DEF Stage, ContentTyped, Elsewhere
  <2>2. Ordered(at.s, session'[at.s], content'[at.s], receipts'[at.s], late)
    BY <1>1, <1>3, <2>1, UptoIs DEF Ordered, Nothing
  <2>3. InOrder' /\ Acked'
    BY <1>1, <1>2, <2>1, <2>2, OthersOrdered, AckedKept DEF Sent
  <2>4. Underway'
    BY <1>1, <2>1 DEF Underway, Going
  <2> QED BY <2>3, <2>4 DEF Sent
<1>6. CASE FirstSession
  <2> DEFINE new == [bytes |-> at.arg.bytes, digest |-> at.arg.digest,
                     next |-> 0, written |-> 0, verified |-> FALSE]
  <2>1. /\ content[at.s] = <<>> /\ UNCHANGED <<content, receipts>>
        /\ (at' = Idle /\ session' = [session EXCEPT ![at.s] = new]) \/ (Going("remove") /\ UNCHANGED session)
    BY <1>1, <1>6, BaseParts, Goes DEF FirstSession, At, Done, Fresh
  <2>2. CASE Going("remove") /\ UNCHANGED session
    <3>1. InOrder' /\ Acked'
      BY <1>2, <2>1, <2>2, OrderKept, AckedKept DEF Sent, staging
    <3>2. Underway'
      BY <1>1, <2>2 DEF Underway, Going, Nothing, Ses
    <3> QED BY <3>1, <3>2 DEF Sent
  <2>3. CASE at' = Idle /\ session' = [session EXCEPT ![at.s] = new]
    <3>1. new.next = 0 /\ new.written = 0
      OBVIOUS
    <3> HIDE DEF new
    <3>2. session'[at.s] = new /\ \A s \in Sessions : s # at.s => session'[s] = session[s]
      BY <1>1, <2>3 DEF SessionsTyped
    <3>3. Elsewhere(at.s)
      BY <2>1, <3>2 DEF Elsewhere
    <3>4. Ordered(at.s, session'[at.s], content'[at.s], receipts'[at.s], late)
      BY <1>3, <2>1, <3>1, <3>2, UptoIs DEF Ordered, Holds
    <3>5. InOrder'
      BY <1>1, <1>2, <3>3, <3>4, OthersOrdered DEF Sent
    <3>6. Acked'
      BY <1>1, <1>2, <3>2 DEF Sent, Acked
    <3> QED BY <2>3, <3>5, <3>6, UnderwayIdle DEF Sent
  <2> QED BY <2>1, <2>2, <2>3
<1> QED BY <1>4, <1>5, <1>6

-----------------------------------------------------------------------------
(* Opening a session and mending it: what the call finds is in order.      *)
LEMMA Found ==
  ASSUME BaseInv, InOrder, at.step \notin Beginning \cup {"idle", "remove"}
  PROVE  /\ at.s \in Sessions /\ session[at.s] = Ses /\ session[at.s] # None
         /\ Ses.next \in Indexes /\ Ses.written = Len(Upto[Ses.next])
         /\ content[at.s] # None => \E n \in Indexes : content[at.s] = Upto[n]
         /\ IF content[at.s] = None THEN GivenUp(at.s, Ses, late)
            ELSE Holds(at.s, Ses, content[at.s], receipts[at.s], late)
         /\ \A i \in 0 .. Len(Pieces) - 1 : receipts[at.s][i] \in Seq(Nat) => receipts[at.s][i] = Pieces[i + 1]
<1>1. at.s \in Sessions /\ session[at.s] # None /\ Ses.next \in Indexes /\ session[at.s] = Ses
  BY OfCall DEF Ses
<1>2. Ordered(at.s, session[at.s], content[at.s], receipts[at.s], late)
  BY <1>1 DEF InOrder
<1> QED BY <1>1, <1>2 DEF Ordered

LEMMA UnderwayOpened ==
  ASSUME BaseInv, Sent, at.step \in {"open", "repaired"}, Opened, UNCHANGED <<session, content, late>>,
         content[at.s] = Upto[Ses.next] \/ GivenUp(at.s, Ses, late)
  PROVE  Underway'
<1>1. CASE at' = Idle
  BY <1>1, UnderwayIdle
<1>2. CASE Going("remove") /\ at.s \in late
  BY <1>2 DEF Sent, Underway, Going, GivenUp, Ses
<1>3. ASSUME NEW x \in {"check", "guard", "verify"}, Going(x), at.s \notin late \/ Ses.verified PROVE Underway'
  BY <1>3 DEF Sent, Underway, Going, GivenUp, Ses
<1> QED BY <1>1, <1>2, <1>3, OpenedTo

LEMMA DroppedOrdered ==
  ASSUME BaseInv, InOrder, at.step \notin Beginning \cup {"idle", "remove"}, NEW i, Drop(i),
         UNCHANGED <<session, content, late, begun>>, \A a \in acked' : a \in acked \/ a[1] = at.s,
         content[at.s] = Upto[Ses.next] \/ GivenUp(at.s, Ses, late) \/ i # Ses.next
  PROVE  InOrder'
<1>1. at.s \in Sessions /\ at.s \in begun /\ session[at.s] # None /\ session[at.s] = Ses /\ Ses.next \in Indexes
  BY OfCall DEF Ses
<1>2. /\ Elsewhere(at.s)
      /\ \A j \in Indexes : receipts'[at.s][j] = receipts[at.s][j] \/ receipts'[at.s][j] = None
  BY <1>1, Dropped
<1>3. i # Ses.next => receipts'[at.s][Ses.next] = receipts[at.s][Ses.next]
  BY <1>1, BaseParts DEF Drop, ReceiptsTyped
<1>4. \A j \in 0 .. Len(Pieces) - 1 : receipts'[at.s][j] \in Seq(Nat) => receipts'[at.s][j] = Pieces[j + 1]
  <2>1. \A j \in 0 .. Len(Pieces) - 1 : j \in Indexes
    BY UptoJoins DEF Indexes
  <2> QED BY <1>2, <2>1, Found, TransferAssumption
<1>5. Ordered(at.s, session'[at.s], content'[at.s], receipts'[at.s], late)
  BY <1>1, <1>3, <1>4, Found DEF Ordered, Holds
<1> QED BY <1>1, <1>2, <1>5, OthersOrdered

LEMMA CountedSent ==
  ASSUME BaseInv, InOrder, Acked, at.step \notin Beginning \cup {"idle", "remove"}, NEW n \in Nat, NEW then,
         Ses.next < Len(Pieces), n = Len(Pieces[Ses.next + 1]), content[at.s] = Upto[Ses.next + 1],
         Save(Counted(n), then), UNCHANGED <<content, receipts, late, acked>>
  PROVE  /\ InOrder' /\ Acked' /\ session'[at.s].next = Ses.next + 1
         /\ at' = Idle \/ Going(then)
<1>1. /\ at.s \in Sessions /\ Ses \in SessionRecord /\ session[at.s] = Ses /\ session[at.s] # None
      /\ Ses.next \in Indexes /\ SessionsTyped /\ Shape(at)
  BY OfCall, BaseParts DEF Ses
<1>2. Counted(n).next = Ses.next + 1 /\ Counted(n).written = Ses.written + n
  BY <1>1, CountedIs
<1>3. session' = [session EXCEPT ![at.s] = Counted(n)] /\ (at' = Idle \/ Going(then))
  BY <1>1, Goes DEF Save, Done
<1> HIDE DEF Counted
<1>4. session'[at.s] = Counted(n) /\ \A s \in Sessions : s # at.s => session'[s] = session[s]
  BY <1>1, <1>3 DEF SessionsTyped
<1>5. Len(Upto[Ses.next + 1]) = Len(Upto[Ses.next]) + n /\ Ses.next + 1 \in Indexes /\ Upto[Ses.next + 1] # None
  BY <1>1, NextPiece, UptoIs
<1>6. Ordered(at.s, session'[at.s], content'[at.s], receipts'[at.s], late)
  BY <1>1, <1>2, <1>4, <1>5, Found DEF Ordered, Holds
<1>7. InOrder'
  BY <1>1, <1>4, <1>6, OthersOrdered DEF Elsewhere
<1>8. Acked'
  BY <1>1, <1>2, <1>4, AckedKept
<1> QED BY <1>2, <1>3, <1>4, <1>7, <1>8

LEMMA SentOpened ==
  ASSUME BaseInv, Sent, OpenNoReceipt \/ OpenNotAppended \/ OpenNoContent
  PROVE  Sent'
<1>1. /\ at.step = "open" /\ UNCHANGED <<session, content, late, begun, acked>> /\ InOrder
  BY DEF Sent, OpenNoReceipt, OpenNotAppended, OpenNoContent, At, files, staging, given, ghosts
<1>2. Acked'
  BY <1>1, AckedKept DEF Sent
<1>3. CASE OpenNoContent
  <2>1. UNCHANGED staging /\ at' = Idle
    BY <1>3 DEF OpenNoContent, Done, files
  <2> QED BY <1>1, <1>2, <2>1, OrderKept, UnderwayIdle DEF Sent
<1>4. CASE OpenNoReceipt
  <2>1. UNCHANGED staging /\ Opened /\ receipts[at.s][Ses.next] \in {None, Torn}
    BY <1>4 DEF OpenNoReceipt, files, Readable, Pending
  <2>2. content[at.s] = Upto[Ses.next] \/ GivenUp(at.s, Ses, late)
    <3>1. CASE content[at.s] # None
      <4>1. Holds(at.s, Ses, content[at.s], receipts[at.s], late) /\ Ses.next \in Indexes
        BY <1>1, <3>1, Found DEF Beginning
      <4>2. Ses.next < Len(Pieces) => receipts[at.s][Ses.next] # Pieces[Ses.next + 1]
        BY <2>1, <4>1, PieceTyped, TransferAssumption
      <4> QED BY <4>1, <4>2 DEF Holds
    <3>2. CASE content[at.s] = None
      BY <1>1, <3>2, Found DEF Beginning
    <3> QED BY <3>1, <3>2
  <2> QED BY <1>1, <1>2, <2>1, <2>2, OrderKept, UnderwayOpened DEF Sent
<1>5. CASE OpenNotAppended
  <2>1. content[at.s] # None /\ Len(content[at.s]) = Ses.written /\ Drop(Ses.next) /\ Opened
    BY <1>5 DEF OpenNotAppended
  <2>2. content[at.s] = Upto[Ses.next]
    <3>1. /\ Ses.next \in Indexes /\ Len(content[at.s]) = Len(Upto[Ses.next])
          /\ Holds(at.s, Ses, content[at.s], receipts[at.s], late)
      BY <1>1, <2>1, Found DEF Beginning
    <3>2. CASE Ses.next < Len(Pieces) /\ content[at.s] = Upto[Ses.next + 1]
      <4>1. Ses.next + 1 \in Indexes /\ Ses.next <= Ses.next + 1
        BY <3>1, <3>2, NextPiece DEF Indexes
      <4> QED BY <3>1, <3>2, <4>1, UptoBegins
    <3> QED BY <3>1, <3>2 DEF Holds
  <2>3. InOrder'
    BY <1>1, <2>1, <2>2, DroppedOrdered DEF Beginning
  <2> QED BY <1>1, <1>2, <2>1, <2>2, <2>3, UnderwayOpened DEF Sent
<1> QED BY <1>3, <1>4, <1>5

LEMMA SentOpenAppended ==
  ASSUME BaseInv, Sequential, Sent, OpenAppended
  PROVE  Sent'
<1>1. /\ at.step = "open" /\ UNCHANGED <<staging, session, content, late, acked>> /\ Readable
      /\ content[at.s] # None /\ Len(content[at.s]) # Ses.written
      /\ Goto(IF Recoverable THEN "repair" ELSE "remove")
  BY OnlyTheseFaults DEF OpenAppended, At, files, staging, given, ghosts
<1>2. InOrder' /\ Acked'
  BY <1>1, OrderKept, AckedKept DEF Sent
<1>3. /\ Ses.next \in Indexes /\ Ses.written = Len(Upto[Ses.next])
      /\ Holds(at.s, Ses, content[at.s], receipts[at.s], late)
      /\ \A i \in 0 .. Len(Pieces) - 1 : receipts[at.s][i] \in Seq(Nat) => receipts[at.s][i] = Pieces[i + 1]
  BY <1>1, Found DEF Beginning, Sent
<1>4. Pending \in Seq(Nat) /\ Ses.next < Len(Pieces)
  BY <1>1, PendingIs DEF Beginning
<1>5. content[at.s] = Upto[Ses.next + 1] /\ Pending = Pieces[Ses.next + 1]
  BY <1>1, <1>3, <1>4, NextPiece DEF Holds, Pending
<1>6. Recoverable
  <2>1. PICK a, b, c : a = Upto[Ses.next] /\ b = Pieces[Ses.next + 1] /\ c = Upto[Ses.next + 1]
    OBVIOUS
  <2>2. a \in Seq(Nat) /\ b \in Seq(Nat) /\ c = a \o b
    <3>1. c = a \o b
      BY <1>3, <1>4, <2>1, NextPiece
    <3> QED BY <1>3, <1>4, <1>5, <2>1, <3>1, UptoIs
  <2>3. Suffix(c, b) /\ Len(c) = Len(a) + Len(b)
    BY <2>2, EndsWith
  <2> QED BY <1>3, <1>5, <2>1, <2>3 DEF Recoverable
<1>7. Going("repair")
  BY <1>1, <1>6, BaseParts, Goes
<1>8. Underway'
  BY <1>1, <1>5, <1>7 DEF Sent, Underway, Going, Ses
<1> QED BY <1>2, <1>8 DEF Sent

LEMMA SentMended ==
  ASSUME BaseInv, Sent, Repair \/ Repaired
  PROVE  Sent'
<1>1. CASE Repair
  <2>1. /\ at.step = "repair" /\ Readable /\ Save(Counted(Len(Pending)), "repaired")
        /\ UNCHANGED <<content, receipts, late, acked>> /\ content[at.s] = Upto[Ses.next + 1]
    BY <1>1, BaseParts DEF Repair, At, Fitting, given, ghosts, Sent, Underway
  <2>2. Len(Pending) \in Nat /\ Pending \in Seq(Nat) /\ Ses.next < Len(Pieces) /\ Ses.next \in Indexes
    BY <2>1, PendingIs, OfCall DEF Beginning
  <2>3. Pending = Pieces[Ses.next + 1]
    BY <2>1, <2>2, Found, NextPiece DEF Beginning, Sent, Pending
  <2>4. /\ InOrder' /\ Acked' /\ session'[at.s].next = Ses.next + 1
        /\ at' = Idle \/ Going("repaired")
    BY <2>1, <2>2, <2>3, CountedSent DEF Beginning, Sent
  <2>5. Underway'
    BY <2>1, <2>4, UnderwayIdle DEF Sent, Underway, Going, Ses
  <2> QED BY <2>4, <2>5 DEF Sent
<1>2. CASE Repaired
  <2>1. /\ at.step = "repaired" /\ Drop(Ses.next - 1) /\ Opened
        /\ UNCHANGED <<session, content, late, begun, acked>>
        /\ content[at.s] = Upto[Ses.next] \/ Ses.verified
    BY <1>2 DEF Repaired, At, given, ghosts, Sent, Underway
  <2>2. content[at.s] = Upto[Ses.next] \/ GivenUp(at.s, Ses, late)
    BY <2>1 DEF GivenUp
  <2>3. InOrder'
    BY <2>1, <2>2, DroppedOrdered DEF Beginning, Sent
  <2>4. Acked'
    BY <2>1, AckedKept DEF Sent
  <2> QED BY <2>1, <2>2, <2>3, <2>4, UnderwayOpened DEF Sent
<1> QED BY <1>1, <1>2

-----------------------------------------------------------------------------
(* append(), the commit, and the faults.                                   *)
LEMMA SentReceipt ==
  ASSUME BaseInv, Sent, Check \/ CreateReceipt \/ FillReceipt
  PROVE  Sent'
<1>1. /\ at.step \in {"check", "receipt", "fill"} /\ at.op = "append" /\ UNCHANGED <<session, content, late, begun, acked>>
      /\ Shape(at) /\ ReceiptsTyped /\ at.arg.chunk = Pieces[at.arg.index + 1]
  BY BaseParts DEF Check, CreateReceipt, FillReceipt, At, Calls, Adding, files, staging, given, ghosts, Sent, Underway
<1>2. /\ at.s \in Sessions /\ Ses.next \in Indexes /\ session[at.s] = Ses /\ Torn \notin Seq(Nat)
      /\ at.step \in {"receipt", "fill"} => at.arg.index = Ses.next /\ content[at.s] = Upto[Ses.next]
  BY <1>1, BaseParts, OfCall, TransferAssumption DEF Beginning, Fitting, Adding, Ses, Sent, Underway
<1>3. Acked'
  BY <1>1, AckedKept DEF Sent
<1>4. CASE UNCHANGED receipts /\ (at' = Idle \/ (at.step = "check" /\ Going("receipt") /\ Accepted))
  <2>1. InOrder'
    BY <1>1, <1>4, OrderKept DEF Sent, staging
  <2>2. CASE at.step = "check" /\ Going("receipt") /\ Accepted
    BY <1>1, <1>3, <2>1, <2>2 DEF Sent, Underway, Going, Accepted, Ses
  <2> QED BY <1>3, <1>4, <2>1, <2>2, UnderwayIdle DEF Sent
<1>5. ASSUME NEW r \in {Torn, at.arg.chunk}, NEW x \in {"fill", "bytes"}, Going(x), x = "bytes" => r = at.arg.chunk,
             at.step \in {"receipt", "fill"}, receipts' = [receipts EXCEPT ![at.s][at.arg.index] = r]
      PROVE  Sent'
  <2>1. /\ receipts'[at.s][Ses.next] = r
        /\ \A i \in Indexes : i # Ses.next => receipts'[at.s][i] = receipts[at.s][i]
        /\ \A q \in Sessions : q # at.s => receipts'[q] = receipts[q]
    BY <1>1, <1>2, <1>5 DEF ReceiptsTyped
  <2>2. \A i \in 0 .. Len(Pieces) - 1 : receipts'[at.s][i] \in Seq(Nat) => receipts'[at.s][i] = Pieces[i + 1]
    <3>1. \A i \in 0 .. Len(Pieces) - 1 : i \in Indexes
      BY UptoJoins DEF Indexes
    <3>2. \A i \in 0 .. Len(Pieces) - 1 : receipts[at.s][i] \in Seq(Nat) => receipts[at.s][i] = Pieces[i + 1]
      BY <1>1, Found DEF Beginning, Sent
    <3> QED BY <1>1, <1>2, <1>5, <2>1, <3>1, <3>2
  <2>3. Ordered(at.s, session'[at.s], content'[at.s], receipts'[at.s], late)
    BY <1>1, <1>2, <1>5, <2>2, Found, UptoIs DEF Ordered, Holds, Beginning, Sent
  <2>4. InOrder'
    BY <1>1, <1>2, <2>1, <2>3, OthersOrdered DEF Elsewhere, Sent
  <2>5. Underway'
    BY <1>1, <1>2, <1>5, <2>1 DEF Sent, Underway, Going, Ses
  <2> QED BY <1>3, <2>4, <2>5 DEF Sent
<1>6. CASE Check
  BY <1>1, <1>4, <1>6, Goes DEF Check, At, Done, files, staging
<1>7. CASE CreateReceipt
  BY <1>1, <1>4, <1>5, <1>7, Goes DEF CreateReceipt, Done, At
<1>8. CASE FillReceipt
  BY <1>1, <1>5, <1>8, Goes DEF FillReceipt, At
<1> QED BY <1>6, <1>7, <1>8

LEMMA SentAppendBytes ==
  ASSUME BaseInv, Sequential, Sent, AppendBytes
  PROVE  Sent'
<1>1. /\ at.step = "bytes" /\ at.op = "append" /\ UNCHANGED <<session, receipts, late, acked>>
      /\ Written(at.arg.chunk) /\ Going("count")
  BY BaseParts, OnlyTheseFaults, Goes DEF AppendBytes, At, Calls, Adding, given, ghosts
<1>2. /\ at.s \in Sessions /\ Ses.next \in Indexes /\ session[at.s] = Ses /\ Ses.next < Len(Pieces)
      /\ at.arg.index = Ses.next /\ content[at.s] = Upto[Ses.next] /\ at.arg.chunk \in Seq(Nat)
      /\ at.arg.chunk = Pieces[Ses.next + 1] /\ receipts[at.s][Ses.next] = Pieces[Ses.next + 1]
  BY <1>1, BaseParts, OfCall, ChunkOfCall DEF Beginning, Fitting, Adding, Ses, Sent, Underway
<1>3. Before = Upto[Ses.next]
  BY <1>2, UptoIs DEF Before
<1>4. /\ content'[at.s] = Before \o at.arg.chunk
      /\ \A r \in Sessions : r # at.s => content'[r] = content[r]
  BY <1>1, <1>2, WrittenIs
<1>5. content'[at.s] = Upto[Ses.next + 1]
  BY <1>2, <1>3, <1>4, NextPiece
<1>6. Ordered(at.s, session'[at.s], content'[at.s], receipts'[at.s], late)
  <2>1. Ses.next + 1 \in Indexes /\ Upto[Ses.next + 1] # None
    BY <1>2, NextPiece, UptoIs
  <2>2. /\ Ses.written = Len(Upto[Ses.next])
        /\ \A i \in 0 .. Len(Pieces) - 1 : receipts[at.s][i] \in Seq(Nat) => receipts[at.s][i] = Pieces[i + 1]
    BY <1>1, Found DEF Beginning, Sent
  <2> QED BY <1>1, <1>2, <1>5, <2>1, <2>2 DEF Ordered, Holds
<1>7. InOrder'
  BY <1>1, <1>2, <1>4, <1>6, OthersOrdered DEF Elsewhere, Sent
<1>8. Acked'
  BY <1>1, AckedKept DEF Sent
<1>9. Underway'
  BY <1>1, <1>2, <1>5 DEF Sent, Underway, Going, Ses
<1> QED BY <1>7, <1>8, <1>9 DEF Sent

LEMMA SentCounted ==
  ASSUME BaseInv, Sent, CountBytes \/ Appended
  PROVE  Sent'
<1>1. CASE CountBytes
  <2>1. /\ at.step = "count" /\ at.op = "append" /\ Save(Counted(Len(at.arg.chunk)), "appended")
        /\ UNCHANGED <<content, receipts, late, acked>> /\ content[at.s] = Upto[Ses.next + 1]
        /\ at.arg.chunk = Pieces[at.arg.index + 1]
    BY <1>1, BaseParts DEF CountBytes, At, Calls, Adding, given, ghosts, Sent, Underway
  <2>2. /\ at.arg.index = Ses.next /\ Ses.next < Len(Pieces) /\ Len(at.arg.chunk) \in Nat
    BY <2>1, BaseParts, ChunkOfCall DEF Fitting, Adding
  <2>3. /\ InOrder' /\ Acked' /\ session'[at.s].next = Ses.next + 1
        /\ at' = Idle \/ Going("appended")
    BY <2>1, <2>2, CountedSent DEF Beginning, Sent
  <2>4. Underway'
    BY <2>1, <2>2, <2>3, UnderwayIdle DEF Sent, Underway, Going, Ses
  <2> QED BY <2>3, <2>4 DEF Sent
<1>2. CASE Appended
  <2>1. /\ at.step = "appended" /\ at.op = "append" /\ Drop(at.arg.index) /\ at' = Idle
        /\ UNCHANGED <<session, content, late, begun>> /\ acked' = acked \cup {<<at.s, at.arg.index>>}
        /\ Ses.next = at.arg.index + 1
    BY <1>2, BaseParts DEF Appended, At, Done, Calls, given, ghosts, Sent, Underway
  <2>2. /\ at.s \in Sessions /\ session[at.s] = Ses /\ at.arg.index \in Indexes /\ at.arg.index < Len(Pieces)
        /\ at.arg.index \in 0 .. Len(Pieces) - 1
    BY <2>1, OfCall, ChunkOfCall, NextPiece DEF Beginning, Ses
  <2>3. at.arg.index # Ses.next /\ Ses.next > at.arg.index
    BY <2>1, <2>2 DEF Indexes
  <2>4. InOrder'
    BY <2>1, <2>3, DroppedOrdered DEF Beginning, Sent
  <2>5. Acked'
    BY <2>1, <2>2, <2>3 DEF Sent, Acked
  <2> QED BY <2>1, <2>4, <2>5, UnderwayIdle DEF Sent
<1> QED BY <1>1, <1>2

LEMMA SentCommitting ==
  ASSUME BaseInv, Verified, Sent, Committing
  PROVE  Sent'
<1>1. Shape(at) /\ SessionsTyped /\ UNCHANGED <<content, receipts, late, acked>>
  BY BaseParts
     DEF Committing, AskGuard, Verify, MarkVerified, WriteTemp, TrashTarget, Replace, ReplaceFails, Restore,
         files, staging, given, ghosts
<1>2. CASE MarkVerified
  <2> DEFINE new == [Ses EXCEPT !.verified = TRUE]
  <2>1. /\ at.step = "mark" /\ at.op = "verify" /\ at.s \in Sessions /\ Ses \in SessionRecord
        /\ session[at.s] = Ses /\ session[at.s] # None /\ Ses.next \in Indexes
        /\ session' = [session EXCEPT ![at.s] = new] /\ (at' = Idle \/ Going("temp"))
    BY <1>1, <1>2, BaseParts, OfCall, Goes DEF MarkVerified, At, Save, Done, Beginning, Calls, Placing, Ses
  <2>2. new.verified = TRUE /\ new.next = Ses.next /\ new.written = Ses.written
    BY <2>1, VerifiedIs
  <2> HIDE DEF new
  <2>3. session'[at.s] = new /\ \A s \in Sessions : s # at.s => session'[s] = session[s]
    BY <1>1, <2>1 DEF SessionsTyped
  <2>4. Ordered(at.s, session'[at.s], content'[at.s], receipts'[at.s], late)
    BY <1>1, <2>1, <2>2, <2>3, Found DEF Ordered, Holds, GivenUp, Beginning, Sent
  <2>5. InOrder'
    BY <1>1, <2>1, <2>3, <2>4, OthersOrdered DEF Elsewhere, Sent
  <2>6. Acked'
    BY <1>1, <2>1, <2>2, <2>3, AckedKept DEF Sent
  <2>7. Underway'
    BY <2>1, UnderwayIdle DEF Underway, Going
  <2> QED BY <2>5, <2>6, <2>7 DEF Sent
<1>3. CASE ~MarkVerified
  <2>1. UNCHANGED session
    BY <1>3
       DEF Committing, AskGuard, Verify, WriteTemp, TrashTarget, Replace, ReplaceFails, Restore, files, staging
  <2>2. InOrder' /\ Acked'
    BY <1>1, <2>1, OrderKept, AckedKept DEF Sent, staging
  <2>3. Underway'
    <3>1. CASE at' = Idle
      BY <3>1, UnderwayIdle
    <3>2. ASSUME at.op = "verify", NEW x \in {"mark", "temp", "trash", "restore"}, Going(x) PROVE Underway'
      BY <3>2 DEF Underway, Going
    <3>3. CASE TrashTarget
      <4>1. at.op = "verify" /\ at' = [step |-> "replace", op |-> at.op, s |-> at.s, arg |-> target]
        BY <1>1, <3>3, BaseParts DEF TrashTarget, At, Calls, Placing, Shape
      <4> QED BY <4>1 DEF Underway
    <3>4. CASE Replace
      <4>1. at.op = "verify" /\ Going("remove") /\ Ses.verified
        BY <1>1, <3>4, BaseParts, Goes DEF Replace, At, Calls, Placing, Verified
      <4> QED BY <2>1, <4>1 DEF Underway, Going, GivenUp, Ses
    <3>5. CASE AskGuard \/ Restore
      BY <3>1, <3>5 DEF AskGuard, Restore, Done
    <3>6. CASE Verify \/ WriteTemp \/ ReplaceFails
      <4>1. at.op = "verify"
        BY <3>6, BaseParts DEF Verify, WriteTemp, ReplaceFails, At, Calls, Placing
      <4> QED BY <1>1, <3>1, <3>2, <3>6, <4>1, Goes DEF Verify, WriteTemp, ReplaceFails, Done
    <3> QED BY <1>3, <3>3, <3>4, <3>5, <3>6 DEF Committing
  <2> QED BY <2>2, <2>3 DEF Sent
<1> QED BY <1>2, <1>3

LEMMA SentFaults ==
  ASSUME BaseInv, Sent, Fails \/ Crash
  PROVE  Sent'
<1>1. at' = Idle /\ UNCHANGED <<staging, session, late, acked>>
  BY DEF Fails, Crash, Done, files, staging, given, ghosts
<1> QED BY <1>1, OrderKept, AckedKept, UnderwayIdle DEF Sent

LEMMA SentNext ==
  ASSUME BaseInv, Verified, SentInv, [Next]_vars
  PROVE  SentInv'
<1>1. scenario' = scenario
  BY DEF Next, vars, given, Requests, Begin, AppendChunk, Inspect, Commit, ResumeCommit, Call, Expire,
         Sweep, Room, Stage, FirstSession, RemovePart, RemoveStaging, Opening, OpenNoReceipt, OpenNotAppended,
         OpenAppended, OpenNoContent, Repair, Repaired, Appending, Check, CreateReceipt, FillReceipt,
         AppendBytes, CountBytes, Appended, Committing, AskGuard, Verify, MarkVerified, WriteTemp,
         TrashTarget, Replace, ReplaceFails, Restore, Fails, Crash
<1>2. Sequential' = Sequential
  BY <1>1 DEF Sequential
<1>3. ASSUME Sequential, Sent PROVE Sent'
  <2>1. CASE UNCHANGED vars
    <3>1. UNCHANGED <<staging, session, content, receipts, late, acked, at>>
      BY <2>1 DEF vars, files, staging, given, ghosts
    <3>2. Underway'
      BY <1>3, <3>1 DEF Sent, Underway, Ses
    <3> QED BY <1>3, <3>1, <3>2, OrderKept, AckedKept DEF Sent
  <2>2. CASE Next
    BY <1>3, <2>2, SentRequests, SentRemoving, SentBeginning, SentOpened, SentOpenAppended, SentMended,
       SentReceipt, SentAppendBytes, SentCounted, SentCommitting, SentFaults
       DEF Next, Opening, Appending
  <2> QED BY <2>1, <2>2
<1> QED BY <1>2, <1>3 DEF SentInv

LEMMA SentInit ==
  ASSUME Init
  PROVE  SentInv
<1>1. InOrder
  <2>1. \A i \in 0 .. Len(Pieces) - 1 : NoReceipts[i] = None
    BY UptoJoins DEF NoReceipts, Indexes
  <2> QED BY <2>1, TransferAssumption DEF Init, InOrder, Ordered
<1>2. Underway
  BY IdleAt DEF Init, Underway
<1>3. Acked
  BY DEF Init, Acked
<1> QED BY <1>1, <1>2, <1>3 DEF SentInv, Sent

LEMMA SentGives ==
  ASSUME BaseInv, SentInv
  PROVE  StagedAsSent
<1>1. Len(Pieces) \in Indexes /\ \A n \in Indexes : n <= Len(Pieces)
  BY UptoJoins DEF Indexes
<1>2. ContentIsPrefix
  BY <1>1, UptoBegins DEF SentInv, Sent, InOrder, Ordered, ContentIsPrefix, Text
<1>3. ASSUME Sequential, NEW a \in acked, session[a[1]] # None, content[a[1]] # None
      PROVE  session[a[1]].next > a[2] /\ Prefix(content[a[1]], Upto[a[2] + 1])
  <2>1. PICK s, i, n : s = a[1] /\ i = a[2] /\ n = session[s].next
    OBVIOUS
  <2>2. s \in Sessions /\ i \in 0 .. Len(Pieces) - 1 /\ n > i /\ n \in Indexes
    BY <1>3, <2>1, BaseParts, SessionTyped DEF SentInv, Sent, Acked
  <2>3. Ordered(s, session[s], content[s], receipts[s], late)
    BY <1>3, <2>2 DEF SentInv, Sent, InOrder
  <2>4. content[s] = Upto[n] \/ (n < Len(Pieces) /\ content[s] = Upto[n + 1])
    BY <1>3, <2>1, <2>3 DEF Ordered, Holds
  <2>5. i + 1 \in Indexes /\ i + 1 <= n /\ i + 1 <= n + 1 /\ (n < Len(Pieces) => n + 1 \in Indexes)
    BY <2>2, UptoJoins DEF Indexes
  <2>6. Prefix(content[s], Upto[i + 1])
    BY <2>2, <2>4, <2>5, UptoBegins
  <2> QED BY <2>1, <2>2, <2>6
<1>4. AckedStays
  BY <1>3 DEF AckedStays
<1> QED BY <1>2, <1>4 DEF StagedAsSent

(* For a client that sends its text in order, retrying what was not        *)
(* acknowledged, the content is always a prefix of the text, and what was  *)
(* acknowledged is counted and in it, for every text and every way to cut  *)
(* it, through crashes and failed operations (append 126-151, service.ts   *)
(* 270-275, reconcile 288-304).                                            *)
THEOREM AlwaysStagedAsSent == Spec => []StagedAsSent
<1>1. FilesInv /\ SentInv /\ [Next]_vars => SentInv'
  BY SentNext DEF FilesInv
<1>2. FilesInv /\ SentInv => StagedAsSent
  BY SentGives DEF FilesInv
<1> QED BY <1>1, <1>2, SentInit, FilesAlways, PTL DEF Spec

=============================================================================
