--------------------------- MODULE WorkspaceContexts ---------------------------
(***************************************************************************)
(* The contexts of the owner's workspaces                                  *)
(* (src/development/workspaces/context.ts) and the tool that selects and   *)
(* resumes them (src/tools/workspaceContext.ts).  A context is a file of   *)
(* its own, replaced by a rename, so the contexts are on disk and a crash  *)
(* leaves them as they are.  Every handler is one step: nothing is awaited *)
(* in it.  A catalog is known by its digest.                               *)
(***************************************************************************)
EXTENDS Naturals, FiniteSets, SequencesExt

CONSTANTS
  Catalogs,     \* digest -> workspace -> [root, files]: the catalogs the file holds, first the first
  Workspaces,   \* the names of workspaces, those of no catalog included
  MaxContexts   \* how many contexts the owner can have

VARIABLES
  catalog,   \* the digest of the catalog in the file, or None: it cannot be read
  contexts,  \* the contexts, the one updated longest ago first
  expired    \* how many of them have expired: each lasts a day from its update

workspaces == <<catalog, contexts, expired>>

None == 0
NoContext == 0   \* an id no context has

Listed == DOMAIN Catalogs[catalog]
Declared(w) == Catalogs[catalog][w].files
WorkspaceRoots == UNION {{c[w].root : w \in DOMAIN c} : c \in ToSet(Catalogs)}

CInit == catalog = 1 /\ contexts = <<>> /\ expired = 0

ASSUME CatalogsAssumption ==
  /\ Len(Catalogs) \in Nat \ {0} /\ DOMAIN Catalogs = 1..Len(Catalogs)
  /\ MaxContexts \in Nat \ {0}

-----------------------------------------------------------------------------
(* The store.  Every operation deletes the expired contexts first; every   *)
(* write makes a context the latest and lets it last a day from then, so   *)
(* that those which expire are the first ones.                             *)
Unexpired == SubSeq(contexts, expired + 1, Len(contexts))
Ids == {NoContext} \cup DOMAIN Unexpired

Created(w) ==
  [workspace |-> w, digest |-> catalog, phase |-> "selected", read |-> {}]

(* Mutant of Refreshed: a change of the catalog does not reset a context.  *)
Refreshed_Kept(x) == [x EXCEPT !.digest = catalog]

(* A context that is selected again, under a changed catalog from anew.    *)
Refreshed(x) == IF x.digest = catalog THEN x ELSE Created(x.workspace)

Store(cs) == contexts' = cs /\ expired' = 0

Upsert(w) ==
  LET cs == Unexpired  mine == {i \in DOMAIN cs : cs[i].workspace = w} IN
  \/ \E i \in mine : Store(Append(RemoveAt(cs, i), Refreshed(cs[i])))
  \/ /\ mine = {}
     /\ Store(Append(IF Len(cs) >= MaxContexts THEN Tail(cs) ELSE cs, Created(w)))

(* The context a call without an id is about: the only one, if it is.      *)
FindUnambiguous == IF Len(Unexpired) = 1 THEN 1 ELSE NoContext

(* The phase moves when every declared file has been acknowledged.         *)
Acknowledged(x, files) ==
  LET all == x.read \cup files IN
  [x EXCEPT !.read = all,
            !.phase = IF Declared(x.workspace) \subseteq all THEN "instructions_ready" ELSE @]

-----------------------------------------------------------------------------
(* The tool.  A context written under another catalog is stale.            *)
Current(i) ==
  /\ i # NoContext
  /\ Unexpired[i].digest = catalog /\ Unexpired[i].workspace \in Listed

Cleaned == Store(Unexpired)
Untouched == UNCHANGED <<contexts, expired>>

(* Bootstrap or select with a workspace id, which needs access to its root.*)
Select(w, granted) ==
  IF w \in Listed /\ Catalogs[catalog][w].root \in granted THEN Upsert(w) ELSE Untouched

(* Get, and bootstrap without a workspace id.                              *)
Get == Cleaned

MarkInstructionsRead(i, files) ==
  IF Current(i) /\ files \subseteq Declared(Unexpired[i].workspace)
  THEN Store(Append(RemoveAt(Unexpired, i), Acknowledged(Unexpired[i], files)))
  ELSE Cleaned

Clear(i) == IF i = NoContext THEN Cleaned ELSE Store(RemoveAt(Unexpired, i))

(* A call of the tool by the owner, who has access to the granted roots.   *)
WorkspaceContext(granted) ==
  /\ IF catalog = None THEN Untouched
     ELSE \/ \E w \in Workspaces : Select(w, granted)
          \/ Get
          \/ \E i \in Ids, w \in Listed : \E files \in SUBSET (Declared(w) \cup {"undeclared"}) :
               MarkInstructionsRead(i, files)
          \/ \E i \in Ids : Clear(i)
  /\ UNCHANGED catalog

(* Somebody edits the catalog; a day passes for the contexts not used.     *)
CatalogEdited == catalog' \in DOMAIN Catalogs \cup {None} /\ Untouched

Expire == expired' \in expired + 1 .. Len(contexts) /\ UNCHANGED <<catalog, contexts>>

-----------------------------------------------------------------------------
(* Where the answer to a get or a bootstrap without a workspace id sends   *)
(* the client: to the instruction files first, or to the source.           *)
Route(i) == IF Unexpired[i].phase = "selected" THEN "read_instructions" ELSE "read_source"

Answered(id) ==
  LET i == IF id = NoContext THEN FindUnambiguous ELSE id IN
  IF Current(i) THEN Route(i) ELSE "bootstrap"

(* A client is sent to the source of a workspace only when every           *)
(* instruction file the catalog now declares for it has been acknowledged  *)
(* in that context, whichever catalogs there have been in between          *)
(* (2026-08-24-workspace-context-and-tool-routing-design.md 135-141, 222). *)
ReadBeforeSource ==
  catalog # None => \A id \in Ids : Answered(id) = "read_source" =>
    LET x == Unexpired[IF id = NoContext THEN FindUnambiguous ELSE id] IN Declared(x.workspace) \subseteq x.read

=============================================================================
