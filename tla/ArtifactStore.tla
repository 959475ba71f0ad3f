---------------------------- MODULE ArtifactStore ----------------------------
(***************************************************************************)
(* Binary artifacts: chunked uploads and downloads from a URL are staged   *)
(* in directories of their own, promoted into a store that is addressed by *)
(* the digest of the content, and copied from there into projects.         *)
(*                                                                         *)
(* The calls are synchronous, but for a download, whose chunks arrive as   *)
(* events between other calls.  The process may die, and an operation on a *)
(* file may fail, between any two operations: `at' says which operation of *)
(* which call comes next.  A digest is the content it is the digest of.    *)
(* Who owns an upload and what its content looks like are left out.        *)
(***************************************************************************)
EXTENDS Integers, Sequences, FiniteSets

CONSTANTS
  Ids,         \* identifiers of staging directories
  Pieces,      \* the client's artifact, in the chunks the client uploads
  Old,         \* what the destination in the project may hold
  MaxUploads,  \* limit on staging directories when an upload begins
  MaxBytes,    \* limit on the size of a download
  Scenarios,   \* what clients and sources may send, and which faults may happen
  None         \* not there, or not declared

(* An upload session as it is read back, of all that may be declared.      *)
SessionRecord ==
  [claim : UNION {x.declared : x \in Scenarios}, next : 0 .. Len(Pieces), written : Nat,
   committed : BOOLEAN]

(* A scenario: the identifiers that are used, chunks other than those of   *)
(* the artifact, what upload_begin and import_url are told, whether there  *)
(* are downloads, the faults and how many.                                 *)
ASSUME StoreAssumption ==
  /\ Pieces \in Seq(Seq(Nat)) /\ Old \in Seq(Nat)
  /\ MaxUploads \in Nat \ {0} /\ MaxBytes \in Nat
  /\ \A x \in Scenarios :
       /\ x.ids \subseteq Ids /\ x.strays \subseteq Seq(Nat) /\ x.max \in Nat
       /\ \A d \in x.declared : d.size \in Nat \ {0} /\ d.digest \in Seq(Nat) \cup {None}
       /\ \A d \in x.imports : d.size \in (Nat \ {0}) \cup {None} /\ d.digest \in Seq(Nat) \cup {None}
       /\ x.faults \subseteq {"crash", "error", "torn", "short"}
  /\ None \notin Seq(Nat) \cup SessionRecord

VARIABLES
  scenario,   \* the one of this behaviour
  (* uploads/<id>: the directory, content.partial and session.json *)
  dirs,
  content,
  session,
  (* objects/<digest>: the content of each directory; which have metadata *)
  objects,
  described,
  (* the destination in the project, and what went from it to the trash *)
  target,
  trash,
  (* the process *)
  at,
  importing,  \* downloads in progress: what they claim, what has arrived
  late,       \* uploads whose time to live is over
  (* history *)
  used,       \* identifiers used
  stored,     \* [op, digest]: the uploads and downloads that succeeded
  faults      \* faults so far

staging == <<dirs, content, session>>
store   == <<objects, described>>
project == <<target, trash>>
given   == <<scenario, late>>
vars    == <<scenario, staging, store, project, at, importing, late, used, stored, faults>>

Idle == [step |-> "idle", op |-> "none", id |-> None, arg |-> None]
Free == at = Idle
At(step) == at.step = step
Goto(step) == at' = IF step = "idle" THEN Idle ELSE [at EXCEPT !.step = step]
Done == at' = Idle
Fault(f) == f \in scenario.faults /\ faults < scenario.max /\ faults' = faults + 1
NoFault  == UNCHANGED faults

(* A directory with one more name in it.                                   *)
Also(f, x, v) == [y \in DOMAIN f \cup {x} |-> IF y = x THEN v ELSE f[y]]

Init ==
  /\ scenario \in Scenarios
  /\ dirs = {} /\ content = [i \in Ids |-> None] /\ session = [i \in Ids |-> None]
  /\ objects = <<>> /\ described = {}
  /\ target \in {Old, None} /\ trash = {}
  /\ at = Idle /\ importing = <<>> /\ late = {}
  /\ used = {} /\ stored = {} /\ faults = 0

-----------------------------------------------------------------------------
(* begin() counts the directories; importArtifactUrl() does not.           *)
New(op, id, claim) ==
  /\ Free /\ id \in scenario.ids \ used
  /\ used' = used \cup {id}
  /\ at' = [step |-> "stage", op |-> op, id |-> id, arg |-> claim]
  /\ UNCHANGED <<staging, store, project, importing, given, stored, faults>>

Begin(id, d) == Cardinality(dirs) < MaxUploads /\ New("begin", id, d)

Import(id, d) == New("import", id, d)

CreateDirectory ==
  /\ At("stage")
  /\ dirs' = dirs \cup {at.id}
  /\ Goto("content")
  /\ UNCHANGED <<content, session, store, project, importing, given, used, stored, faults>>

CreateContent ==
  /\ At("content")
  /\ \/ /\ NoFault
        /\ content' = [content EXCEPT ![at.id] = <<>>]
        /\ IF at.op = "begin" THEN Goto("session") /\ UNCHANGED importing
           ELSE Done /\ importing' = Also(importing, at.id, [claim |-> at.arg, received |-> 0])
     \/ Fault("error") /\ Goto("discard") /\ UNCHANGED <<content, importing>>
  /\ UNCHANGED <<dirs, session, store, project, given, used, stored>>

(* writeUploadSession(): it can still fail once the new file is in place.  *)
Save(value, then) ==
  /\ session' = [session EXCEPT ![at.id] = value]
  /\ (Goto(then) /\ NoFault) \/ (Done /\ Fault("error"))

CreateSession ==
  /\ At("session")
  /\ session' = [session EXCEPT ![at.id] =
                   [claim |-> at.arg, next |-> 0, written |-> 0, committed |-> FALSE]]
  /\ Done
  /\ UNCHANGED <<dirs, content, store, project, importing, given, used, stored, faults>>

-----------------------------------------------------------------------------
(* append(): the bytes first, the counters after.  A call that is out of   *)
(* order, late, too long or for a committed session changes nothing.       *)
Ses == session[at.id]
Usable(id) == session[id] # None /\ id \notin late /\ ~session[id].committed

Accepts(id, i, c) ==
  i = session[id].next /\ session[id].written + Len(c) <= session[id].claim.size

AppendChunk(id, i, c) ==
  /\ Free /\ Usable(id) /\ Accepts(id, i, c)
  /\ at' = [step |-> "bytes", op |-> "append", id |-> id, arg |-> c]
  /\ UNCHANGED <<staging, store, project, importing, given, used, stored, faults>>

(* A write may be cut short, with an error ("torn") or, as its result is   *)
(* not looked at, without one ("short").  The content is created if it is  *)
(* missing, the directory is not.                                          *)
Write(id, b) ==
  /\ id \in dirs
  /\ content' = [content EXCEPT ![id] = (IF @ = None THEN <<>> ELSE @) \o b]
Cuts(b) == {SubSeq(b, 1, n) : n \in 0 .. Len(b) - 1}

AppendBytes ==
  /\ At("bytes")
  /\ \/ Write(at.id, at.arg) /\ Goto("count") /\ NoFault
     \/ \E b \in Cuts(at.arg) :
          Write(at.id, b) /\ ((Fault("torn") /\ Done) \/ (Fault("short") /\ Goto("count")))
  /\ UNCHANGED <<dirs, session, store, project, importing, given, used, stored>>

CountBytes ==
  /\ At("count")
  /\ Save([Ses EXCEPT !.next = @ + 1, !.written = @ + Len(at.arg)], "idle")
  /\ UNCHANGED <<dirs, content, store, project, importing, given, used, stored>>

-----------------------------------------------------------------------------
(* commit(): the session is marked first.  A download is promoted when its *)
(* response has ended, with a size that was claimed or else that arrived.  *)
Commit(id) ==
  /\ Free /\ Usable(id) /\ session[id].written = session[id].claim.size
  /\ at' = [step |-> "mark", op |-> "commit", id |-> id, arg |-> session[id].claim]
  /\ UNCHANGED <<staging, store, project, importing, given, used, stored, faults>>

MarkCommitted ==
  /\ At("mark")
  /\ Save([Ses EXCEPT !.committed = TRUE], "promote")
  /\ UNCHANGED <<dirs, content, store, project, importing, given, used, stored>>

Leave(id) == importing' = [j \in DOMAIN importing \ {id} |-> importing[j]]
Discarding(id) == at' = [step |-> "discard", op |-> "import", id |-> id, arg |-> None]

Limit(claim) == IF claim.size # None /\ claim.size < MaxBytes THEN claim.size ELSE MaxBytes

ImportData(id, c) ==
  /\ Free
  /\ LET received == importing[id].received + Len(c) IN
     \/ /\ received > Limit(importing[id].claim)
        /\ Leave(id) /\ Discarding(id) /\ NoFault /\ UNCHANGED content
     \/ /\ received <= Limit(importing[id].claim)
        /\ importing' = [importing EXCEPT ![id].received = received]
        /\ \/ Write(id, c) /\ NoFault
           \/ \E b \in Cuts(c) : Write(id, b) /\ Fault("short")
        /\ UNCHANGED at
     \/ /\ \E b \in Cuts(c) : Write(id, b) /\ Fault("torn")
        /\ Leave(id) /\ Discarding(id)
  /\ UNCHANGED <<dirs, session, store, project, given, used, stored>>

ImportEnds(id) ==
  /\ Free
  /\ LET d == importing[id] IN
       IF d.claim.size \in {None, d.received}
       THEN at' = [step |-> "promote", op |-> "import", id |-> id,
                   arg |-> [size |-> d.received, digest |-> d.claim.digest]]
       ELSE Discarding(id)
  /\ Leave(id)
  /\ UNCHANGED <<staging, store, project, given, used, stored, faults>>

(* The response is refused, fails, times out or the request is cancelled.  *)
ImportFails(id) ==
  /\ Free /\ Leave(id) /\ Discarding(id)
  /\ UNCHANGED <<staging, store, project, given, used, stored, faults>>

(* promoteStaging() throws: a download then removes what it staged, and an *)
(* upload leaves it.  Mutant: a download leaves it too.                    *)
Rejected_Leave == Done

Rejected == IF at.op = "import" THEN Goto("discard") ELSE Done

(* Mutant of Genuine: the counter is trusted and the size not measured.    *)
Genuine_Unmeasured == content[at.id] # None /\ at.arg.digest \in {None, content[at.id]}

Genuine ==
  /\ content[at.id] # None
  /\ Len(content[at.id]) = at.arg.size
  /\ at.arg.digest \in {None, content[at.id]}

(* The first bytes may also not be those of the type that was declared.    *)
Promote ==
  /\ At("promote")
  /\ (Genuine /\ Goto("object")) \/ Rejected
  /\ UNCHANGED <<staging, store, project, importing, given, used, stored, faults>>

Complete(d) == d \in described /\ objects[d] = d

Success(d) == stored' = stored \cup {[op |-> at.op, digest |-> d]} /\ Goto("discard")

(* Mutant of CreateObject: whatever is there already is taken for it.      *)
CreateObject_AnyExisting ==
  /\ At("object")
  /\ LET d == content[at.id] IN
     \/ /\ d \notin DOMAIN objects
        /\ objects' = Also(objects, d, None)
        /\ Goto("move") /\ UNCHANGED stored
     \/ d \in DOMAIN objects /\ Success(d) /\ UNCHANGED objects
  /\ UNCHANGED <<staging, described, project, importing, given, used, faults>>

CreateObject ==
  /\ At("object")
  /\ LET d == content[at.id] IN
     \/ /\ d \notin DOMAIN objects
        /\ objects' = Also(objects, d, None)
        /\ Goto("move") /\ UNCHANGED stored
     \/ d \in DOMAIN objects /\ Complete(d) /\ Success(d) /\ UNCHANGED objects
     \/ d \in DOMAIN objects /\ ~Complete(d) /\ Rejected /\ UNCHANGED <<objects, stored>>
  /\ UNCHANGED <<staging, described, project, importing, given, used, faults>>

MoveContent ==
  /\ At("move")
  /\ objects' = [objects EXCEPT ![content[at.id]] = content[at.id]]
  /\ content' = [content EXCEPT ![at.id] = None]
  /\ at' = [at EXCEPT !.step = "describe", !.arg = content[at.id]]
  /\ UNCHANGED <<dirs, session, described, project, importing, given, used, stored, faults>>

Describe ==
  /\ At("describe")
  /\ described' = described \cup {at.arg}
  /\ Success(at.arg)
  /\ UNCHANGED <<staging, objects, project, importing, given, used, faults>>

(* removeOwnedUpload(): its errors are ignored.                            *)
Discard ==
  /\ At("discard")
  /\ \/ /\ dirs' = dirs \ {at.id} /\ NoFault
        /\ content' = [content EXCEPT ![at.id] = None]
        /\ session' = [session EXCEPT ![at.id] = None]
     \/ UNCHANGED staging /\ Fault("error")
  /\ Done
  /\ UNCHANGED <<store, project, importing, given, used, stored>>

-----------------------------------------------------------------------------
(* materializeArtifact(): a copy beside the destination, checked, then the *)
(* destination to the trash and the copy in its place.                     *)
Materialize(d, replace) ==
  /\ Free /\ d \in DOMAIN objects /\ Complete(d)
  /\ target # None => replace
  /\ at' = [step |-> "copy", op |-> "materialize", id |-> None, arg |-> d]
  /\ UNCHANGED <<staging, store, project, importing, given, used, stored, faults>>

(* Mutant of Copy: the copy is not read back.                              *)
Copy_Unchecked ==
  /\ At("copy")
  /\ \/ Goto("backup") /\ NoFault
     \/ \E b \in Cuts(at.arg) : Fault("short") /\ at' = [at EXCEPT !.step = "backup", !.arg = b]
  /\ UNCHANGED <<staging, store, project, importing, given, used, stored>>

Copy ==
  /\ At("copy")
  /\ \/ Goto("backup") /\ NoFault
     \/ Fault("short") /\ Done
  /\ UNCHANGED <<staging, store, project, importing, given, used, stored>>

Backup ==
  /\ At("backup")
  /\ trash' = trash \cup ({target} \ {None})
  /\ target' = None
  /\ Goto("place")
  /\ UNCHANGED <<staging, store, importing, given, used, stored, faults>>

Place ==
  /\ At("place")
  /\ target' = at.arg
  /\ Done
  /\ UNCHANGED <<staging, store, trash, importing, given, used, stored, faults>>

-----------------------------------------------------------------------------
(* An operation on a file fails, or the process dies.  What the code does  *)
(* about the failure of the others is in their actions.                    *)
Fails ==
  /\ at.step \notin {"idle", "content", "discard"} /\ Fault("error")
  /\ IF at.step \in {"object", "move", "describe"} THEN Rejected ELSE Done
  /\ UNCHANGED <<staging, store, project, importing, given, used, stored>>

Crash ==
  /\ ~Free \/ DOMAIN importing # {}
  /\ Fault("crash")
  /\ Done /\ importing' = <<>>
  /\ UNCHANGED <<staging, store, project, given, used, stored>>

Expire(id) ==
  /\ session[id] # None /\ id \notin late
  /\ late' = late \cup {id}
  /\ UNCHANGED <<scenario, staging, store, project, at, importing, used, stored, faults>>

Sent(i) == scenario.strays \cup {Pieces[i + 1]}

Uploading(id) ==
  \/ \E d \in scenario.declared : Begin(id, d)
  \/ \E i \in 0 .. Len(Pieces) - 1 : \E c \in Sent(i) : AppendChunk(id, i, c)
  \/ Commit(id) \/ Expire(id)

Downloading(id) ==
  \/ \E d \in scenario.imports : Import(id, d)
  \/ id \in DOMAIN importing /\
       \/ \E i \in 0 .. Len(Pieces) - 1 : \E c \in Sent(i) : ImportData(id, c)
       \/ ImportEnds(id) \/ ImportFails(id)

Step ==
  \/ CreateDirectory \/ CreateContent \/ CreateSession \/ AppendBytes \/ CountBytes
  \/ MarkCommitted \/ Promote \/ CreateObject \/ MoveContent \/ Describe \/ Discard
  \/ Copy \/ Backup \/ Place

Next ==
  \/ \E id \in Ids : Uploading(id) \/ Downloading(id)
  \/ \E d \in DOMAIN objects, replace \in BOOLEAN : Materialize(d, replace)
  \/ Step \/ Fails \/ Crash

Spec == Init /\ [][Next]_vars

-----------------------------------------------------------------------------
Steps == {"idle", "stage", "content", "session", "bytes", "count", "mark", "promote", "object",
          "move", "describe", "discard", "copy", "backup", "place"}
Ops   == {"none", "begin", "import", "append", "commit", "materialize"}

(* Every variable keeps its type, sessions count no more than was declared *)
(* and downloads no more than is allowed.                                  *)
TypeOK ==
  /\ scenario \in Scenarios
  /\ dirs \subseteq used /\ used \subseteq Ids /\ late \subseteq used
  /\ content \in [Ids -> Seq(Nat) \cup {None}] /\ session \in [Ids -> SessionRecord \cup {None}]
  /\ \A id \in Ids :
       /\ content[id] # None \/ session[id] # None => id \in dirs
       /\ session[id] # None => session[id].written <= session[id].claim.size
  /\ \A id \in DOMAIN importing : id \in dirs /\ importing[id].received \in 0 .. Limit(importing[id].claim)
  /\ \A d \in DOMAIN objects : d \in Seq(Nat) /\ objects[d] \in {None, d}
  /\ described \subseteq DOMAIN objects
  /\ target \in Seq(Nat) \cup {None} /\ trash \subseteq Seq(Nat)
  /\ at \in [step : Steps, op : Ops, id : used \cup {None}, arg : {at.arg}]
  /\ faults \in 0 .. scenario.max

(* What an upload or a download was told is stored can be read back: the   *)
(* object is there with its content and its metadata, and stays            *)
(* (promoteStaging, store.ts 118-135).                                     *)
StoredReadable == \A x \in stored : x.digest \in DOMAIN objects /\ Complete(x.digest)

(* A client that declares its artifact and uploads it in order, repeating  *)
(* whatever was not acknowledged, gets nothing else stored, digest or no   *)
(* digest: chunks that a crash or a failed write doubled, and parts of     *)
(* chunks, make the size wrong                                             *)
(* (append 94-115, commit 117-125, promoteStaging 74-86).                  *)
Upto[n \in 0 .. Len(Pieces)] == IF n = 0 THEN <<>> ELSE Upto[n - 1] \o Pieces[n]
Artifact == Upto[Len(Pieces)]
StoresTheArtifact ==
  /\ scenario.strays = {} /\ \A d \in scenario.declared : d.size = Len(Artifact)
  /\ scenario.faults \subseteq {"crash", "error", "torn"}
  => \A x \in stored : x.op = "commit" => x.digest = Artifact

(* A download leaves no staging directory behind, however it ends, as long *)
(* as the process lives (importArtifactUrl, urlImport.ts 155-158).         *)
ImportsLeaveNothing ==
  scenario.faults \subseteq {"torn", "short"} /\ Free =>
    \A id \in dirs : session[id] # None \/ id \in DOMAIN importing

(* There are never more upload sessions than the limit allows, committed   *)
(* and expired ones included (begin 86-88).                                *)
UploadLimit == Cardinality({id \in Ids : session[id] # None}) <= MaxUploads

(* The destination in the project changes only to nothing, and from        *)
(* nothing to an artifact of the store, whole (materialize.ts 44-51).      *)
TargetIntact ==
  [][target' # target =>
       target' = None \/ (target = None /\ target' \in DOMAIN objects /\ Complete(target'))]_vars

(* "It rejects ... duplicate or out-of-order indexes"                      *)
(* (binary-artifact-pipeline-design.md 142): no chunk is in twice.         *)
ChunkOnce == At("count") => Len(content[at.id]) = Ses.written + Len(at.arg)

(* "Object creation is deduplicated and idempotent" (design 226): what was *)
(* not stored before can be stored.                                        *)
Storable ==
  At("object") => content[at.id] \notin DOMAIN objects \/ Complete(content[at.id])

(* "atomically replaces the destination" (design 170): a materialization   *)
(* that fails leaves a file where one was.                                 *)
FailedLeavesTarget ==
  [][At("place") /\ at' = Idle /\ trash # {} => target' # None]_vars

=============================================================================
