---------------------------- MODULE TextTransfer ----------------------------
(***************************************************************************)
(* Staged text transfers: a client uploads a text in ordered chunks, the   *)
(* service keeps a session file, the content so far and a receipt of the   *)
(* chunk in progress, and commit replaces the destination atomically.      *)
(*                                                                         *)
(* Each call is synchronous code of one process (commit waits once, for    *)
(* the path guard), so calls do not interleave, but the process may die,   *)
(* and an operation on a file may fail, between any two of them: `at' says *)
(* which file operation of which call comes next.  A digest is the text it *)
(* is the digest of.  Who owns a session is left out.                      *)
(***************************************************************************)
EXTENDS Integers, Sequences, FiniteSets

CONSTANTS
  Sessions,      \* session identifiers
  Pieces,        \* the client's text, in the chunks the client sends
  Old,           \* what the destination may hold before
  MaxSessions,   \* limit on active sessions
  Scenarios,     \* what the client may send and which faults may happen
  None,          \* no such file
  Torn           \* a receipt that was created and not written

Indexes == 0 .. Len(Pieces)

(* A session as it is read back.                                           *)
SessionRecord == [bytes : Nat, digest : Seq(Nat), next : Indexes, written : Nat, verified : BOOLEAN]

(* A scenario: the sessions that are begun, the chunks that a client may   *)
(* send by mistake, what it may declare, the faults and how many.          *)
ASSUME TransferAssumption ==
  /\ Pieces \in Seq(Seq(Nat))
  /\ Old \in Seq(Nat) \cup {None}
  /\ MaxSessions \in Nat \ {0}
  /\ \A x \in Scenarios :
       /\ x.sessions \subseteq Sessions /\ x.strays \subseteq Seq(Nat)
       /\ x.declarations \subseteq [bytes : Nat, digest : Seq(Nat)]
       /\ x.faults \subseteq {"crash", "error", "unread", "torn", "short"}
       /\ x.max \in Nat
  /\ None \notin Seq(Nat) \cup SessionRecord /\ Torn \notin Seq(Nat) \cup {None}

VARIABLES
  scenario,   \* the one of this behaviour
  (* the staging directory of a session *)
  session,    \* session.json
  content,    \* content.partial
  receipts,   \* receipts[s][i]: the chunk that <i>.json is the receipt of
  (* the destination, and what has been moved from it to the trash *)
  target,
  trash,
  (* the process, its clock and the requests that wait for the path guard *)
  at,
  late,       \* sessions whose time to live is over
  approving,
  (* history *)
  faults,     \* faults so far
  begun,      \* identifiers used
  acked,      \* <<s, i>>: the client was told that chunk i is in
  past        \* texts the destination has held

staging == <<session, content, receipts>>
files   == <<staging, target, trash>>
ghosts  == <<begun, acked, past>>
given   == <<scenario, late>>
vars    == <<scenario, files, at, late, approving, faults, ghosts>>

Idle == [step |-> "idle", op |-> "none", s |-> None, arg |-> None]
Free == at = Idle
At(step) == at.step = step
Goto(step) == at' = [at EXCEPT !.step = step]
Done == at' = Idle

Fault(f) == f \in scenario.faults /\ faults < scenario.max /\ faults' = faults + 1
NoFault  == UNCHANGED faults

Chunk(i) == scenario.strays \cup (IF i < Len(Pieces) THEN {Pieces[i + 1]} ELSE {})
Prefix(q, p) == Len(p) <= Len(q) /\ p = SubSeq(q, 1, Len(p))
Suffix(q, p) == Len(p) <= Len(q) /\ p = SubSeq(q, Len(q) - Len(p) + 1, Len(q))

NoReceipts == [i \in Indexes |-> None]

Init ==
  /\ scenario \in Scenarios
  /\ session = [s \in Sessions |-> None]
  /\ content = [s \in Sessions |-> None]
  /\ receipts = [s \in Sessions |-> NoReceipts]
  /\ target \in {Old, None} /\ trash = {}
  /\ at = Idle /\ late = {} /\ approving = {}
  /\ faults = 0 /\ begun = {} /\ acked = {} /\ past = {target} \ {None}

-----------------------------------------------------------------------------
(* removeStaging(): a recursive removal of the three parts, which a crash  *)
(* can cut short and whose errors are swallowed.  cleanupExpired() removes *)
(* the sessions that expired or have no session file.                      *)
Parts == {"session", "content", "receipts"}

Remove(S, parts) ==
  /\ session'  = [s \in Sessions |-> IF s \in S /\ "session" \in parts THEN None ELSE session[s]]
  /\ content'  = [s \in Sessions |-> IF s \in S /\ "content" \in parts THEN None ELSE content[s]]
  /\ receipts' = [s \in Sessions |-> IF s \in S /\ "receipts" \in parts THEN NoReceipts ELSE receipts[s]]

Active(s) == session[s] # None /\ ~session[s].verified
Expired   == {s \in Sessions : session[s] = None \/ (s \in late /\ Active(s))}

RemovePart ==
  /\ \E parts \in SUBSET Parts :
       (At("remove") /\ Remove({at.s}, parts)) \/ (At("sweep") /\ Remove(Expired, parts))
  /\ UNCHANGED <<at, target, trash, given, approving, faults, ghosts>>

RemoveStaging ==
  /\ At("remove")
  /\ \/ Remove({at.s}, Parts) /\ NoFault
     \/ UNCHANGED staging /\ Fault("error")
  /\ Done
  /\ UNCHANGED <<target, trash, given, approving, ghosts>>

(* begin(): expired and unreadable sessions are removed and the active     *)
(* ones counted; then the directory, the empty content, the session file.  *)
Begin(s, d) ==
  /\ Free /\ s \in scenario.sessions \ begun
  /\ begun' = begun \cup {s}
  /\ at' = [step |-> "sweep", op |-> "begin", s |-> s, arg |-> d]
  /\ UNCHANGED <<files, given, approving, faults, acked, past>>

(* A session that cannot be read just now is removed like an expired one.  *)
Sweep ==
  /\ At("sweep")
  /\ \/ Remove(Expired, Parts) /\ NoFault
     \/ \E r \in Sessions : Remove(Expired \cup {r}, Parts) /\ Fault("unread")
     \/ UNCHANGED staging /\ Fault("error")
  /\ Goto("room")
  /\ UNCHANGED <<target, trash, given, approving, ghosts>>

Room ==
  /\ At("room")
  /\ IF Cardinality({r \in Sessions : Active(r)}) < MaxSessions THEN Goto("stage") ELSE Done
  /\ UNCHANGED <<files, given, approving, faults, ghosts>>

Stage ==
  /\ At("stage")
  /\ content' = [content EXCEPT ![at.s] = <<>>]
  /\ Goto("first")
  /\ UNCHANGED <<session, receipts, target, trash, given, approving, faults, ghosts>>

FirstSession ==
  /\ At("first")
  /\ \/ /\ session' = [session EXCEPT ![at.s] =
                         [bytes |-> at.arg.bytes, digest |-> at.arg.digest,
                          next |-> 0, written |-> 0, verified |-> FALSE]]
        /\ Done /\ NoFault
     \/ Goto("remove") /\ Fault("error") /\ UNCHANGED session
  /\ UNCHANGED <<content, receipts, target, trash, given, approving, ghosts>>

-----------------------------------------------------------------------------
(* requireActive(): every other call on a session begins with it.  A       *)
(* receipt for the next chunk is left by a call that was cut short.        *)
Call(op, s, arg) ==
  /\ Free /\ session[s] # None
  /\ at' = [step |-> "open", op |-> op, s |-> s, arg |-> arg]
  /\ UNCHANGED <<files, given, faults, ghosts>>

AppendChunk(s, i, c) == Call("append", s, [index |-> i, chunk |-> c]) /\ UNCHANGED approving
Inspect(s)      == Call("inspect", s, None) /\ UNCHANGED approving
Commit(s)       == Call("commit", s, None) /\ UNCHANGED approving
ResumeCommit(s) == s \in approving /\ approving' = approving \ {s} /\ Call("verify", s, None)

Ses == session[at.s]
Pending == receipts[at.s][Ses.next]
Readable == Pending \notin {None, Torn}

(* What follows requireActive, unless the session has expired.             *)
After == [append |-> "check", inspect |-> "idle", commit |-> "guard", verify |-> "verify"]
Opened ==
  IF at.s \in late /\ ~Ses.verified THEN Goto("remove")
  ELSE IF After[at.op] = "idle" THEN Done ELSE Goto(After[at.op])

OpenNoReceipt ==
  /\ At("open") /\ ~Readable
  /\ Opened
  /\ UNCHANGED <<files, given, approving, faults, ghosts>>

(* Nothing of the chunk has been appended: its receipt is dropped.         *)
Drop(i) ==
  \/ NoFault /\ receipts' = [receipts EXCEPT ![at.s][i] = None]
  \/ Fault("error") /\ UNCHANGED receipts

OpenNotAppended ==
  /\ At("open") /\ Readable
  /\ content[at.s] # None /\ Len(content[at.s]) = Ses.written
  /\ Drop(Ses.next)
  /\ Opened
  /\ UNCHANGED <<session, content, target, trash, given, approving, ghosts>>

Recoverable ==
  /\ Len(content[at.s]) = Ses.written + Len(Pending)
  /\ Suffix(content[at.s], Pending)

OpenAppended ==
  /\ At("open") /\ Readable
  /\ content[at.s] # None /\ Len(content[at.s]) # Ses.written
  /\ \/ Goto(IF Recoverable THEN "repair" ELSE "remove") /\ NoFault
     \/ Goto("remove") /\ Fault("unread")
  /\ UNCHANGED <<files, given, approving, ghosts>>

OpenNoContent ==
  /\ At("open") /\ Readable /\ content[at.s] = None
  /\ Done
  /\ UNCHANGED <<files, given, approving, faults, ghosts>>

(* writeSession(): it can still fail once the new file is in place.        *)
Save(changed, then) ==
  /\ session' = [session EXCEPT ![at.s] = changed]
  /\ (Goto(then) /\ NoFault) \/ (Done /\ Fault("error"))

Counted(n) == [Ses EXCEPT !.next = @ + 1, !.written = @ + n]

Repair ==
  /\ At("repair")
  /\ Save(Counted(Len(Pending)), "repaired")
  /\ UNCHANGED <<content, receipts, target, trash, given, approving, ghosts>>

Repaired ==
  /\ At("repaired")
  /\ Drop(Ses.next - 1)
  /\ Opened
  /\ UNCHANGED <<session, content, target, trash, given, approving, ghosts>>

-----------------------------------------------------------------------------
(* append(): the receipt is written before the bytes, the counters after.  *)
Fits == Ses.written + Len(at.arg.chunk) <= Ses.bytes

(* Mutant of Accepted: a chunk that was sent before is taken again.        *)
Accepted_AnyEarlier == ~Ses.verified /\ at.arg.index <= Ses.next /\ Fits

Accepted == ~Ses.verified /\ at.arg.index = Ses.next /\ Fits

Check ==
  /\ At("check")
  /\ IF Accepted THEN Goto("receipt") ELSE Done
  /\ UNCHANGED <<files, given, approving, faults, ghosts>>

CreateReceipt ==
  /\ At("receipt")
  /\ IF receipts[at.s][at.arg.index] = None
     THEN receipts' = [receipts EXCEPT ![at.s][at.arg.index] = Torn] /\ Goto("fill")
     ELSE Done /\ UNCHANGED receipts
  /\ UNCHANGED <<session, content, target, trash, given, approving, faults, ghosts>>

FillReceipt ==
  /\ At("fill")
  /\ receipts' = [receipts EXCEPT ![at.s][at.arg.index] = at.arg.chunk]
  /\ Goto("bytes")
  /\ UNCHANGED <<session, content, target, trash, given, approving, faults, ghosts>>

(* The content is opened for appending, and created if it is missing.  A   *)
(* write may be cut short, with an error or (its result is not looked at)  *)
(* without one.                                                            *)
Written(b) ==
  content' = [content EXCEPT ![at.s] = (IF @ = None THEN <<>> ELSE @) \o b]

AppendBytes ==
  /\ At("bytes")
  /\ \/ Written(at.arg.chunk) /\ Goto("count") /\ NoFault
     \/ \E n \in 0 .. Len(at.arg.chunk) - 1 :
          /\ Written(SubSeq(at.arg.chunk, 1, n))
          /\ \/ Fault("torn") /\ Done
             \/ Fault("short") /\ Goto("count")
  /\ UNCHANGED <<session, receipts, target, trash, given, approving, ghosts>>

(* Mutant of CountBytes: the counters are left for the receipt to repair.  *)
CountBytes_Unsaved ==
  /\ At("count")
  /\ Goto("appended")
  /\ UNCHANGED <<files, given, approving, faults, ghosts>>

CountBytes ==
  /\ At("count")
  /\ Save(Counted(Len(at.arg.chunk)), "appended")
  /\ UNCHANGED <<content, receipts, target, trash, given, approving, ghosts>>

Appended ==
  /\ At("appended")
  /\ Drop(at.arg.index)
  /\ acked' = acked \cup {<<at.s, at.arg.index>>}
  /\ Done
  /\ UNCHANGED <<session, content, target, trash, given, approving, begun, past>>

-----------------------------------------------------------------------------
(* commit: the session is opened and the path guard asked; then, without a *)
(* pause, verify(), the replacement of the destination and discard().      *)
AskGuard ==
  /\ At("guard")
  /\ approving' = approving \cup {at.s}
  /\ Done
  /\ UNCHANGED <<files, given, faults, ghosts>>

Matches == content[at.s] # None /\ Ses.written = Ses.bytes /\ Ses.digest = content[at.s]

(* Mutant of Verify: only the counter is compared, as inspect() shows it.  *)
Verify_CountersOnly ==
  /\ At("verify")
  /\ IF Ses.written = Ses.bytes /\ content[at.s] # None THEN Goto("mark") ELSE Done
  /\ UNCHANGED <<files, given, approving, faults, ghosts>>

Verify ==
  /\ At("verify")
  /\ IF Matches THEN Goto(IF Ses.verified THEN "temp" ELSE "mark") ELSE Done
  /\ UNCHANGED <<files, given, approving, faults, ghosts>>

MarkVerified ==
  /\ At("mark")
  /\ Save([Ses EXCEPT !.verified = TRUE], "temp")
  /\ UNCHANGED <<content, receipts, target, trash, given, approving, ghosts>>

(* atomicWriteFile(): the complete replacement, the trash, the rename.     *)
WriteTemp ==
  /\ At("temp")
  /\ Goto("trash")
  /\ UNCHANGED <<files, given, approving, faults, ghosts>>

TrashTarget ==
  /\ At("trash")
  /\ trash' = trash \cup ({target} \ {None})
  /\ target' = None
  /\ at' = [at EXCEPT !.step = "replace", !.arg = target]
  /\ UNCHANGED <<staging, given, approving, faults, ghosts>>

Replace ==
  /\ At("replace")
  /\ target' = content[at.s]
  /\ past' = past \cup {content[at.s]}
  /\ Goto("remove")
  /\ UNCHANGED <<staging, trash, given, approving, faults, begun, acked>>

ReplaceFails ==
  /\ At("replace") /\ Fault("error")
  /\ IF at.arg = None THEN Done ELSE Goto("restore")
  /\ UNCHANGED <<files, given, approving, ghosts>>

(* Mutant of Restore: a failed replacement leaves the original in neither. *)
Restore_TempOnly ==
  /\ At("restore")
  /\ trash' = trash \ {at.arg}
  /\ Done
  /\ UNCHANGED <<staging, target, given, approving, faults, ghosts>>

Restore ==
  /\ At("restore")
  /\ target' = at.arg
  /\ trash' = trash \ {at.arg}
  /\ Done
  /\ UNCHANGED <<staging, given, approving, faults, ghosts>>

-----------------------------------------------------------------------------
(* An operation on a file fails and its call with it, or the process dies. *)
(* The failures that the code answers are actions above; "unread" is the   *)
(* failure to read a file that the code takes for the file being wrong.    *)
Answered == {"idle", "first", "remove", "replace", "sweep", "room", "repaired", "appended"}

Fails ==
  /\ at.step \notin Answered /\ Fault("error")
  /\ Done
  /\ UNCHANGED <<files, given, approving, ghosts>>

Crash ==
  /\ ~Free \/ approving # {}
  /\ Fault("crash")
  /\ Done /\ approving' = {}
  /\ UNCHANGED <<files, given, ghosts>>

Expire(s) ==
  /\ session[s] # None /\ s \notin late
  /\ late' = late \cup {s}
  /\ UNCHANGED <<scenario, files, at, approving, faults, ghosts>>

Requests(s) ==
  \/ \E d \in scenario.declarations : Begin(s, d)
  \/ \E i \in Indexes : \E c \in Chunk(i) : i < Len(Pieces) /\ AppendChunk(s, i, c)
  \/ Inspect(s) \/ Commit(s) \/ ResumeCommit(s)

Opening    == OpenNoReceipt \/ OpenNotAppended \/ OpenAppended \/ OpenNoContent
                \/ Repair \/ Repaired
Appending  == Check \/ CreateReceipt \/ FillReceipt \/ AppendBytes \/ CountBytes \/ Appended
Committing == AskGuard \/ Verify \/ MarkVerified \/ WriteTemp \/ TrashTarget \/ Replace
                \/ ReplaceFails \/ Restore

Next ==
  \/ \E s \in Sessions : Requests(s) \/ Expire(s)
  \/ Sweep \/ Room \/ Stage \/ FirstSession \/ RemovePart \/ RemoveStaging
  \/ Opening \/ Appending \/ Committing
  \/ Fails \/ Crash

Spec == Init /\ [][Next]_vars

-----------------------------------------------------------------------------
Steps == {"idle", "open", "repair", "repaired", "check", "receipt", "fill", "bytes",
          "count", "appended", "guard", "verify", "mark", "temp", "trash", "replace",
          "restore", "remove", "sweep", "room", "stage", "first"}
AppendArg     == [index : Indexes \ {Len(Pieces)}, chunk : Seq(Nat)]

(* Every variable keeps its type; in particular a session never counts     *)
(* more than was declared, with which readSession would not accept it.     *)
TypeOK ==
  /\ scenario \in Scenarios
  /\ session \in [Sessions -> SessionRecord \cup {None}]
  /\ \A s \in Sessions : session[s] # None => session[s].written <= session[s].bytes
  /\ content \in [Sessions -> Seq(Nat) \cup {None}]
  /\ receipts \in [Sessions -> [Indexes -> Seq(Nat) \cup {None, Torn}]]
  /\ target \in Seq(Nat) \cup {None} /\ trash \subseteq Seq(Nat)
  /\ at \in [step : Steps, op : {"none", "begin"} \cup DOMAIN After, s : Sessions \cup {None}, arg : {at.arg}]
  /\ at.op = "begin" => at.arg \in scenario.declarations
  /\ at.op = "append" => at.arg \in AppendArg
  /\ at.op \notin {"begin", "append"} => at.arg \in Seq(Nat) \cup {None}
  /\ late \subseteq Sessions /\ approving \subseteq Sessions /\ begun \subseteq Sessions
  /\ faults \in Nat

(* For a client that sends its text in order, retrying whatever was not    *)
(* acknowledged, the content is always a prefix of the text: no retry puts *)
(* a chunk in twice and none is skipped (append 126-151, service.ts        *)
(* 270-275), although the process may die and operations may fail.         *)
Upto[n \in Indexes] == IF n = 0 THEN <<>> ELSE Upto[n - 1] \o Pieces[n]
Text == Upto[Len(Pieces)]
Sequential == scenario.strays = {} /\ scenario.faults \subseteq {"crash", "error"}
ContentIsPrefix == Sequential => \A s \in Sessions : content[s] # None => Prefix(Text, content[s])

(* What was acknowledged stays, counted and in the content: no crash or    *)
(* failed operation turns a session back to before it (append 126-151,     *)
(* reconcile 288-304).                                                     *)
AckedStays ==
  Sequential => \A a \in acked :
    session[a[1]] # None /\ content[a[1]] # None =>
      session[a[1]].next > a[2] /\ Prefix(content[a[1]], Upto[a[2] + 1])

(* Both: no prefix that was acknowledged is lost, and nothing is added to  *)
(* it but what comes next in the text.                                     *)
StagedAsSent == ContentIsPrefix /\ AckedStays

(* A session is only given up when its time is over or its text is in      *)
(* place: whatever a crash leaves can be recovered (requireActive          *)
(* 218-229, reconcile 288-304).                                            *)
CrashRecovered ==
  scenario.faults \subseteq {"crash"} /\ At("remove") /\ Ses # None => at.s \in late \/ Ses.verified

(* A verified session holds what was declared, whatever faults happen, for *)
(* as long as it has its content (verify 165-182).                         *)
VerifiedAsDeclared ==
  \A s \in Sessions :
    session[s] # None /\ content[s] # None =>
      (session[s].verified => content[s] = session[s].digest)

(* The destination changes from a text to none, and from none to the text  *)
(* whose digest was declared when the transfer began, or back: a reader    *)
(* never sees a part of a text or one that was not declared (commit 63-76, *)
(* atomicWrite.ts 62-123).                                                 *)
CommitWritesDeclared ==
  [][target' # target => \/ target' = None
                         \/ target = None /\ target' \in {Ses.digest, at.arg}]_vars

(* No text the destination has held is lost: it is there or in the trash   *)
(* ("Do not disturb the original until a complete sibling replacement      *)
(* exists", atomicWrite.ts 77).                                            *)
NothingLost == past \subseteq trash \cup {target}

(* No more sessions are active than the limit allows (begin 94-97).        *)
SessionLimit == Cardinality({s \in Sessions : Active(s)}) <= MaxSessions

(* The tool is "resumable" (textTransfer.ts 38): an append that is in      *)
(* order and fits never finds a receipt in its way.                        *)
AppendResumes == At("receipt") => receipts[at.s][at.arg.index] = None

=============================================================================
