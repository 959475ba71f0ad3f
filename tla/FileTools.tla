------------------------------ MODULE FileTools ------------------------------
(***************************************************************************)
(* The filesystem tools that change something (src/tools/filesystem.ts):   *)
(* write_file, edit_file, create_directory and move_file, with the trash   *)
(* (security/trash.ts) and the replacement of a file (tools/atomicWrite).  *)
(*                                                                         *)
(* A path holds a file or a directory; what is there is the set of pieces  *)
(* of content in it, a file being one piece.  A handler changes the files  *)
(* with no await, so a call is one step; where it may fail or the server   *)
(* may be killed inside it, the step has that outcome too.                 *)
(***************************************************************************)
EXTENDS Naturals, FiniteSets

CONSTANTS
  Paths,     \* what the tools are called with
  Pieces,    \* the pieces of content there can be
  Absent,    \* nothing is there
  Files      \* the initial files: what is at each path

VARIABLES
  files,   \* what is at each path
  trash,   \* the entries of the trash
  stored   \* history: the pieces that have been there, or have been written

tree == <<files, trash, stored>>

Entries == [dir : BOOLEAN, pieces : SUBSET Pieces]

ASSUME FilesAssumption ==
  Absent \notin Entries /\ Files \in [Paths -> Entries \cup {Absent}]

FInit ==
  /\ files = Files /\ trash = {}
  /\ stored = UNION {Files[p].pieces : p \in {q \in Paths : Files[q] # Absent}}

At(p) == files[p] # Absent
IsFile(e) == e # Absent /\ ~e.dir
File(piece) == [dir |-> FALSE, pieces |-> {piece}]
Put(f, p, e) == [f EXCEPT ![p] = e]
Becomes(f, t) == files' = f /\ trash' = t

(* The trash when what was at p, if anything, is moved to it.              *)
Trashed(p) == IF At(p) THEN trash \cup {files[p]} ELSE trash

(* The call ends before it changes anything.  When an entry cannot be      *)
(* renamed into the trash it is copied, which only works for a file, and   *)
(* the copy may stay there although the call fails.                        *)
Refused(p) ==
  /\ UNCHANGED <<files, stored>>
  /\ trash' = trash \/ (IsFile(files[p]) /\ trash' = Trashed(p))

(* atomicWriteFile: the sibling is written, then the original trashed,     *)
(* then the sibling renamed.  If that fails the original comes back or     *)
(* stays in the trash; a kill leaves one of these states too.  A directory *)
(* is trashed like a file.                                                 *)
Replace(p, piece) ==
  \/ Refused(p)
  \/ At(p) /\ Becomes(Put(files, p, Absent), Trashed(p)) /\ UNCHANGED stored
  \/ Becomes(Put(files, p, File(piece)), Trashed(p)) /\ stored' = stored \cup {piece}

WriteFile(p, piece) == Replace(p, piece)

(* There is a file that holds the old text once.                           *)
EditFile(p, piece) == IF IsFile(files[p]) THEN Replace(p, piece) ELSE UNCHANGED tree

CreateDirectory(p) ==
  /\ files' = files \/ (~At(p) /\ files' = Put(files, p, [dir |-> TRUE, pieces |-> {}]))
  /\ UNCHANGED <<trash, stored>>

-----------------------------------------------------------------------------
(* move_file.  The destination is trashed; the source is renamed, or, when *)
(* that fails, copied and removed.                                         *)

(* What a copy or a removal that stops half way can leave: a file is there *)
(* as a whole or not, of a directory any part.                             *)
Parts(e) == {[e EXCEPT !.pieces = s] : s \in IF e.dir THEN SUBSET e.pieces ELSE {{}, e.pieces}}

(* Mutant of Restored: what was at the destination is removed from the     *)
(* trash before it is renamed back.                                        *)
Restored_Purged(f, to) ==
  \/ Becomes(Put(f, to, files[to]), trash)
  \/ \E e \in {Absent} \cup Parts(f[to]) : Becomes(Put(f, to, e), trash)

(* The copy or the removal has failed with f: the destination is removed,  *)
(* and what was there is renamed back, or either fails or is not reached.  *)
Restored(f, to) ==
  \/ Becomes(Put(f, to, files[to]), trash)
  \/ \E e \in {Absent} \cup Parts(f[to]) : Becomes(Put(f, to, e), Trashed(to))

MoveFile(from, to) ==
  \/ Refused(to)
  \/ /\ At(from) /\ UNCHANGED stored
     /\ \/ Becomes(Put(files, to, Absent), Trashed(to))
        \/ from # to /\ Becomes(Put(Put(files, to, files[from]), from, Absent), Trashed(to))
        \/ from # to /\ \E e \in Parts(files[from]) : Restored(Put(files, to, e), to)
        \/ from # to /\ \E e \in Parts(files[from]) :
             (e.dir \/ e.pieces # {}) /\ Restored(Put(Put(files, to, files[from]), from, e), to)

-----------------------------------------------------------------------------
Anywhere == UNION {e.pieces : e \in trash \cup {files[p] : p \in {q \in Paths : At(q)}}}
OfDirectories == UNION {Files[p].pieces : p \in {q \in Paths : Files[q] # Absent /\ Files[q].dir}}

(* What has been in a file is still in a file or in the trash, wherever a  *)
(* call fails or the server is killed (trash.ts 1-9; atomicWrite.ts 1-7:   *)
(* "the original is restored before the error escapes"; README.md 266).    *)
FilesKept == stored \ OfDirectories \subseteq Anywhere

(* The same of what has been in a directory (filesystem.ts 404: "Move or   *)
(* rename a file or directory").                                           *)
DirectoriesKept == stored \subseteq Anywhere

=============================================================================
