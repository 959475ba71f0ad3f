------------------------------- MODULE TaskLogs -------------------------------
(***************************************************************************)
(* The log of a task, from the output of its child to a client that reads  *)
(* it in slices while it grows: the chunks of the pipe (worker.ts), the    *)
(* redactor that holds back what may be the start of a secret              *)
(* (redaction.ts), and the cursors of the read tool                        *)
(* (tools/developmentTasks.ts).  The child is that of a command; of its    *)
(* two streams one, they share nothing.                                    *)
(*                                                                         *)
(* A text is a sequence of characters; a file or a chunk is one of bytes   *)
(* and a string of the redactor one of code units, both of them the pieces *)
(* <<character, position>> of an encoding.  What a step uses more than     *)
(* once is named by a quantifier over one value, so that it is evaluated   *)
(* once.                                                                   *)
(***************************************************************************)
EXTENDS Naturals, FiniteSets, SequencesExt

CONSTANTS
  Width,        \* character -> how many bytes it takes
  Outputs,      \* what the child may write
  Secrets,      \* the literal secrets, in code units, in the order they are replaced
  Replacement,  \* what replaces them, in code units
  TailCap,      \* how many code units are held back at most
  Limits        \* the limits a client may give with its calls, in bytes and lines

Newline == "newline"
Invalid == "?"    \* the character that stands for bytes that are none

Chars == DOMAIN Width

(* A character of four bytes is a pair of code units (UTF-16).             *)
Halves(c) == IF Width[c] = 4 THEN 2 ELSE 1
CodeUnits == UNION {{<<c, k>> : k \in 1..Halves(c)} : c \in Chars}

(* A character takes four bytes at most; an empty secret is passed over; a *)
(* client is given at least one line.                                      *)
LogsAssumption ==
  /\ Width \in [Chars -> 1..4] /\ Width[Newline] = 1 /\ {Newline, Invalid} \subseteq Chars
  /\ Outputs \subseteq Seq(Chars) /\ Replacement \in Seq(CodeUnits)
  /\ Secrets \in Seq(Seq(CodeUnits) \ {<<>>}) /\ TailCap \in Nat
  /\ \A l \in Limits : l[1] \in Nat /\ l[2] \in Nat \ {0}
ASSUME LogsAssumption

VARIABLES
  output,   \* the bytes of the child's output
  sent,     \* how many of them have come through the pipe
  text,     \* the code units the worker made of them, chunk by chunk
  buffer,   \* the code units the redactor holds back
  written,  \* history: the code units it has let go
  split,    \* history: has it ever let go the first half of a pair only
  log,      \* the bytes of the log file
  closed,   \* whether the worker has closed it
  limits,   \* the limits the client gives
  cursor,   \* the cursor the client has, in bytes
  seen      \* the text the client has been given

pipe == <<output, sent, text, buffer, written, split, log, closed>>
logVars == <<pipe, limits, cursor, seen>>

Least(S) == CHOOSE x \in S : \A y \in S : x <= y

-----------------------------------------------------------------------------
(* Encoding and decoding (Buffer).                                         *)
Encoded == [c \in DOMAIN Width |-> [k \in 1..Width[c] |-> <<c, k>>]]
Bytes(t) == FlattenSeq([i \in DOMAIN t |-> Encoded[t[i]]])

StartsAt(bytes, i) == i \in DOMAIN bytes => bytes[i][2] = 1
Character(bytes, i) ==
  LET c == bytes[i][1]  k == bytes[i][2] IN
  CASE k = 1 /\ i + Width[c] - 1 <= Len(bytes) -> <<c>>
    [] k > 1 /\ k <= i -> <<>>            \* its first byte is here too
    [] OTHER -> <<Invalid>>
Decode(bytes) ==
  LET decoded[n \in 0..Len(bytes)] ==
        IF n = 0 THEN <<>> ELSE decoded[n - 1] \o Character(bytes, n)
  IN decoded[Len(bytes)]

(* A string holds code units, and is cut and measured by them.             *)
InUnits == [c \in DOMAIN Width |-> [k \in 1..Halves(c) |-> <<c, k>>]]
Units(t) == FlattenSeq([i \in DOMAIN t |-> InUnits[t[i]]])

(* Written to a file, half of a pair without the other is no character.    *)
OfUnit(u, i) ==
  LET c == u[i][1]  k == u[i][2] IN
  CASE Halves(c) = 1 -> <<c>>
    [] Halves(c) = 2 /\ k = 1 /\ i < Len(u) /\ u[i + 1] = <<c, 2>> -> <<c>>
    [] Halves(c) = 2 /\ k = 2 /\ i > 1 /\ u[i - 1] = <<c, 1>> -> <<>>
    [] OTHER -> <<Invalid>>
FromUnits(u) == FlattenSeq([i \in DOMAIN u |-> OfUnit(u, i)])

(* It ends between the two halves of a pair.                               *)
EndsWithin(u) == u # <<>> /\ u[Len(u)][2] < Halves(u[Len(u)][1])

-----------------------------------------------------------------------------
(* The redactor.                                                           *)
(* Every occurrence of s in the text t, from its start, is replaced.       *)
Replace(t, s) ==
  LET n == Len(s)
      after[i \in 1..(Len(t) + 1)] ==
        CASE i > Len(t) -> <<>>
          [] i + n - 1 <= Len(t) /\ SubSeq(t, i, i + n - 1) = s -> Replacement \o after[i + n]
          [] OTHER -> <<t[i]>> \o after[i + 1]
  IN after[1]

RedactOnce(t) ==
  LET redacted[n \in 0..Len(Secrets)] ==
        IF n = 0 THEN t ELSE Replace(redacted[n - 1], Secrets[n])
  IN redacted[Len(Secrets)]

MaxSecretLength == Cardinality({1} \cup UNION {DOMAIN s : s \in ToSet(Secrets)})

(* Mutant of HoldCount: one unit less.                                     *)
HoldCount_Less(t) == Least({Len(t), MaxSecretLength - 2, TailCap})

HoldCount(t) == Least({Len(t), MaxSecretLength - 1, TailCap})

(* What the redactor lets go is written; writeSync encodes each such piece *)
(* by itself.                                                              *)
Emit(emitted) ==
  /\ written' = written \o emitted
  /\ log' = log \o Bytes(FromUnits(emitted))
  /\ split' = (split \/ EndsWithin(emitted))

(* A chunk of the pipe arrives.  (Of one that arrives when the file is     *)
(* closed nothing is written: the write is an error, of which the worker   *)
(* dies.)                                                                  *)
Push(n) ==
  /\ ~closed
  /\ \E t \in {Units(Decode(SubSeq(output, sent + 1, sent + n)))} :
       \E redacted \in {RedactOnce(buffer \o t)} :
         LET emitted == Len(redacted) - HoldCount(redacted) IN
         /\ Emit(SubSeq(redacted, 1, emitted))
         /\ buffer' = SubSeq(redacted, emitted + 1, Len(redacted))
         /\ text' = text \o t
  /\ sent' = sent + n
  /\ UNCHANGED <<output, closed, limits, cursor, seen>>

(* The child has exited: what was held back is written, the file closed.   *)
(* The exit event does not wait for the pipe, so there may be output that  *)
(* has not come through.                                                   *)
Finalize ==
  /\ ~closed
  /\ \E redacted \in {RedactOnce(buffer)} : Emit(redacted)
  /\ buffer' = <<>> /\ closed' = TRUE
  /\ UNCHANGED <<output, sent, text, limits, cursor, seen>>

-----------------------------------------------------------------------------
(* A slice of the log.  Its start is moved past the rest of a character,   *)
(* its end, unless it is that of the file, before an incomplete one.       *)
Utf8SafeStart(bytes) == Least({i \in 0..Len(bytes) : StartsAt(bytes, i + 1)})

(* Mutant of Utf8SafeEnd: a slice may end within a character.              *)
Utf8SafeEnd_Any(bytes, start) == Len(bytes)

Utf8SafeEnd(bytes, start) ==
  LET end == Len(bytes)
      cut == {i \in start..(end - 1) : /\ i + 3 >= end /\ StartsAt(bytes, i + 1)
                                       /\ i + Width[bytes[i + 1][1]] > end}
  IN IF cut = {} THEN end ELSE Least(cut)

Lines(t) ==
  Cardinality({i \in DOMAIN t : t[i] = Newline})
    + (IF t # <<>> /\ Last(t) # Newline THEN 1 ELSE 0)

(* Mutant of FirstLines: one line less.                                    *)
FirstLines_Less(t, n) ==
  IF n = 1 THEN <<>>
  ELSE SubSeq(t, 1, Least({k \in DOMAIN t : t[k] = Newline /\ Lines(SubSeq(t, 1, k)) = n - 1}))

(* The first n lines of a text t that has more.                            *)
FirstLines(t, n) ==
  SubSeq(t, 1, Least({k \in DOMAIN t : t[k] = Newline /\ Lines(SubSeq(t, 1, k)) = n}))

(* The whole characters of a slice, as many lines of them as are allowed,  *)
(* and the bytes passed over.                                              *)
Slice(bytes, atEnd, maxLines) ==
  LET start == Utf8SafeStart(bytes)
      end == IF atEnd THEN Len(bytes) ELSE Utf8SafeEnd(bytes, start)
      t == Decode(SubSeq(bytes, start + 1, end))
      kept == FirstLines(t, maxLines)
  IN IF Lines(t) > maxLines
     THEN [text |-> kept, consumed |-> start + Len(Bytes(kept))]
     ELSE [text |-> t, consumed |-> end]

(* A client reads on from where the last slice ended.                      *)
ReadDevelopmentTaskLogs ==
  LET size == Len(log)
      requested == Least({cursor, size})
      upto == requested + Least({limits[1], size - requested}) IN
  /\ \E bytes \in {SubSeq(log, requested + 1, upto)} :
       \E slice \in {Slice(bytes, upto = size, limits[2])} :
         /\ cursor' = requested + slice.consumed
         /\ seen' = seen \o slice.text
  /\ UNCHANGED <<pipe, limits>>

-----------------------------------------------------------------------------
LogInit ==
  /\ \E t \in Outputs : output = Bytes(t)
  /\ sent = 0 /\ text = <<>> /\ buffer = <<>> /\ written = <<>> /\ split = FALSE
  /\ log = <<>> /\ closed = FALSE
  /\ limits \in Limits /\ cursor = 0 /\ seen = <<>>

Pushes == \E n \in 1..(Len(output) - sent) : Push(n)

LogNext == Pushes \/ Finalize \/ ReadDevelopmentTaskLogs

(* The child writes what it has to write and ends; the client reads on.    *)
LogFairness == WF_logVars(Pushes) /\ WF_logVars(Finalize) /\ WF_logVars(ReadDevelopmentTaskLogs)

LogSpec == LogInit /\ [][LogNext]_logVars /\ LogFairness

-----------------------------------------------------------------------------
(* However the pipe cuts the output into chunks, what the redactor lets go *)
(* is the text they were decoded to, redacted as a whole, up to what is    *)
(* held back, and all of it when the file is closed: of what has arrived   *)
(* nothing is lost, doubled or moved, and "a secret split across two       *)
(* chunks is still matched" (redaction.ts 6-8).  The log holds it, as long *)
(* as no pair of code units has been cut in two.                           *)
LogIsOutput ==
  /\ IsPrefix(written, RedactOnce(text))
  /\ closed => written = RedactOnce(text)
  /\ ~split => log = Bytes(FromUnits(written))

(* The log holds what the redactor has let go, character for character.    *)
(* The code does not keep this: redaction.ts 62-72 cuts between the code   *)
(* units of a pair, and each half is written as an invalid character.      *)
CharactersWhole == log = Bytes(FromUnits(written))

(* A closed log is that of all the child has written.  The code does not   *)
(* keep this either: worker.ts 376 closes the log at the exit event of the *)
(* child, which may come before the last data of the pipe.                 *)
LogIsComplete == closed => sent = Len(output)

(* A client that passes each nextCursor on has been given the characters   *)
(* of the log up to its cursor, none of them cut, skipped or repeated,     *)
(* while the log grows ("Streams have independent byte cursors; pass the   *)
(* previous nextCursor to resume", developmentTasks.ts 450-452).           *)
SeenIsLog == Bytes(seen) = SubSeq(log, 1, cursor)

(* And it reaches the end of the log.                                      *)
ReadsToTheEnd == <>(closed /\ cursor = Len(log))

=============================================================================
