------------------------------ MODULE Approvals ------------------------------
(***************************************************************************)
(* The decisions of people that tool calls need (src/security): for the    *)
(* directories a call reaches outside the allowed ones                     *)
(* (directoryAuthorization.ts), then for each subject it acts on           *)
(* (approval.ts), or a confirmation token for some git commands            *)
(* (gitSoftApproval.ts).                                                   *)
(*                                                                         *)
(* A call that needs a decision ends with a form.  The form's signed state *)
(* holds what it is about; the server keeps nothing of it.  The person     *)
(* answers, and the client sends the same call again with the form.  What  *)
(* lasts is kept in two stores, in memory and in a file each.              *)
(*                                                                         *)
(* A handler decides with no await between what it reads and writes, so a  *)
(* decision is one step.  It is a function from a record of the stores and *)
(* what has been decided so far to such a record, because a call may need  *)
(* several.                                                                *)
(***************************************************************************)
EXTENDS Naturals, FiniteSets, SequencesExt

CONSTANTS
  Call,        \* the calls: their tool, user, directories, subjects ...
  Static,      \* ALLOWED_DIRS
  Owner,       \* OWNER_USER_ID
  OwnerDirs,   \* OWNER_DEFAULT_DIRS
  Nobody,      \* the user of a call without an identity
  Roots,       \* the projects whose build scripts are a subject
  SweepAt,     \* how many used forms are remembered before old ones are dropped
  NonceLimit   \* and how many at most

VARIABLES
  mem,     \* what the server remembers: used forms and grants
  disk,    \* approvals.json and directory-grants.json
  forms,   \* the forms, their answers and their age
  scripts  \* the version of the build scripts that the digest of each project reads

approvals == <<mem, disk, forms, scripts>>

NoForm == 0
Lasting == {"allow_session", "allow_permanent"}
Allows == {"allow_once"} \cup Lasting

Loaded(d) ==
  [used |-> {}, session |-> {}, permanent |-> d.approvals,
   dirSession |-> {}, dirPermanent |-> d.dirs, once |-> {}]

AInit ==
  /\ disk = [approvals |-> {}, dirs |-> {}]
  /\ mem = Loaded(disk)
  /\ forms = <<>>
  /\ scripts = [r \in Roots |-> 0]

-----------------------------------------------------------------------------
(* What a call is about.  A request q is a call with the form and the      *)
(* confirmation token it carries; q.ok says whether a store can be         *)
(* written.  The digest of the arguments includes the token for the        *)
(* directories and not for the operation, which python_development digests *)
(* with the resolved directory.                                            *)
Given(q) == [token |-> q.token, resolved |-> FALSE]
OpArgs(q) == [token |-> NoForm, resolved |-> Call[q.call].resolves]

(* Builds are approved under the digest of the scripts it reads: those of  *)
(* the root and of the module, the properties, the wrapper's jar (gradle.ts *)
(* 133-145).  What it does not read may change unseen.                     *)
Key(s) == IF s[1] = "script" THEN Append(s, scripts[s[2]]) ELSE s
Subjects(c) == [i \in DOMAIN Call[c].subjects |-> Key(Call[c].subjects[i])]

Access(m, u, d) ==
  \/ d \in Static
  \/ u = Owner /\ d \in OwnerDirs
  \/ <<u, d>> \in m.dirSession \cup m.dirPermanent

Outside(m, c) == {d \in Call[c].dirs : ~Access(m, Call[c].user, d)}

Grant(c, s) == <<Call[c].user, Call[c].tool, s>>

(* Mutant of Has: the tool is not part of a grant.                         *)
Has_AnyTool(m, c, s) ==
  \E g \in m.session \cup m.permanent : g[1] = Call[c].user /\ g[3] = s

Has(m, c, s) == Grant(c, s) \in m.session \cup m.permanent

(* Mutant of Swept: every remembered form is dropped.                      *)
Swept_All(used) == IF Cardinality(used) >= SweepAt THEN {} ELSE used

(* The forms used are remembered, the old ones up to a limit.              *)
Swept(used) ==
  IF Cardinality(used) >= SweepAt THEN {n \in used : forms[n].age # "stale"} ELSE used

Consumable(m, n) == n \notin m.used /\ Cardinality(Swept(m.used)) < NonceLimit
Consume(st, n) ==
  IF n \in st.mem.used THEN st
  ELSE [st EXCEPT !.mem.used = Swept(@) \cup (IF Consumable(st.mem, n) THEN {n} ELSE {})]

Refuse(st) == [st EXCEPT !.out = "refused"]
Ask(st, form) == [st EXCEPT !.out = "asked", !.form = form]
Form(k, q, args, s, roots, st) ==
  [kind |-> k, call |-> q.call, args |-> args, subject |-> s, roots |-> roots,
   priors |-> ToSet(st.passed), proof |-> st.proof, answer |-> "open", told |-> {}, age |-> "fresh"]

-----------------------------------------------------------------------------
(* Directories.  A grant for the session is in memory; a permanent one is  *)
(* written to the file, with everything the memory holds, before it is     *)
(* remembered; with one for this call the roots are its proof.             *)
KeepDirs(st, u, roots, a, ok) ==
  LET new == {<<u, d>> : d \in roots}  all == st.mem.dirPermanent \cup new IN
  IF a = "allow_session" THEN [st EXCEPT !.mem.dirSession = @ \cup new]
  ELSE IF a # "allow_permanent" \/ new \subseteq st.mem.dirPermanent THEN st
  ELSE IF ok THEN [st EXCEPT !.mem.dirPermanent = all, !.disk.dirs = all]
  ELSE Refuse(st)

DirectoryAnswer(st, q, roots) ==
  LET f == forms[q.form]  used == Consume(st, q.form)
      kept == KeepDirs(used, Call[q.call].user, roots, f.answer, q.ok) IN
  IF ~(f.kind = "directory" /\ f.call = q.call /\ f.args = Given(q) /\ f.roots = roots) THEN Refuse(st)
  ELSE IF ~Consumable(st.mem, q.form) \/ f.answer \notin Allows THEN Refuse(used)
  ELSE IF f.answer = "allow_once" THEN [kept EXCEPT !.proof = roots]
  ELSE kept

(* An operation form carries the proof of the directories decided on.      *)
Proves(q, roots) ==
  /\ q.form # NoForm
  /\ LET f == forms[q.form] IN
     f.kind = "operation" /\ f.call = q.call /\ f.args = Given(q) /\ f.proof = roots

Once(q, roots) == [call |-> q.call, args |-> Given(q), roots |-> roots]

(* A client that cannot show a form gets a challenge if the owner may      *)
(* answer it in the conversation.                                          *)
Challenge(st, q, roots) ==
  IF Call[q.call].user = Owner THEN Ask(st, Form("challenge", q, Given(q), <<>>, roots, st)) ELSE Refuse(st)

(* The directory step of a call.                                           *)
Directory(st, q) ==
  LET c == Call[q.call]  roots == Outside(st.mem, q.call) IN
  IF roots = {} THEN st
  ELSE IF Proves(q, roots) THEN [st EXCEPT !.proof = roots]
  ELSE IF c.user = Nobody THEN Refuse(st)
  ELSE IF Once(q, roots) \in st.mem.once
       THEN [st EXCEPT !.mem.once = @ \ {Once(q, roots)}, !.proof = roots]
  ELSE IF q.form # NoForm THEN DirectoryAnswer(st, q, roots)
  ELSE IF c.rich THEN Ask(st, Form("directory", q, Given(q), <<>>, roots, st))
  ELSE Challenge(st, q, roots)

-----------------------------------------------------------------------------
(* Operations.  A permanent approval is remembered before it is written,   *)
(* and stays so when that fails.                                           *)
Pass(st, s) == [st EXCEPT !.passed = Append(@, s)]

KeepApproval(st, q, s) ==
  LET g == Grant(q.call, s)  all == st.mem.permanent \cup {g}
      a == forms[q.form].answer IN
  CASE a = "allow_session" -> [st EXCEPT !.mem.session = @ \cup {g}]
    [] a = "allow_permanent" /\ g \notin st.mem.permanent ->
         IF q.ok THEN [st EXCEPT !.mem.permanent = all, !.disk.approvals = all]
                 ELSE Refuse([st EXCEPT !.mem.permanent = all])
    [] OTHER -> st

OperationAnswer(st, q, s) ==
  LET a == forms[q.form].answer  used == Consume(st, q.form) IN
  IF q.form \in st.mem.used \/ a = "declined" THEN Refuse(st)
  ELSE IF ~Consumable(st.mem, q.form) THEN Refuse(used)
  ELSE IF a = "deny" \/ (Call[q.call].single /\ a \in Lasting) THEN Refuse(used)
  ELSE Pass(KeepApproval(used, q, s), s)

(* Mutant of Continues: a directory form is never of the chain.            *)
Continues_OperationsOnly(st, q) ==
  q.form \in st.mem.used /\ forms[q.form].kind = "operation"
  /\ forms[q.form].subject \in ToSet(st.passed)

(* The form is of this chain of forms, but about something before s.       *)
Continues(st, q) ==
  LET f == forms[q.form] IN
  /\ q.form \in st.mem.used
  /\ \/ /\ f.kind = "directory" /\ f.roots = st.proof
        /\ f.call = q.call /\ f.args = OpArgs(q)
     \/ f.kind = "operation" /\ f.subject \in ToSet(st.passed)

Operation(st, q, s) ==
  LET c == Call[q.call]  f == forms[q.form]
      asked == IF c.rich THEN Ask(st, Form("operation", q, OpArgs(q), s, {}, st)) ELSE Refuse(st)
      mine == f.kind = "operation" /\ f.call = q.call /\ f.args = OpArgs(q) IN
  IF ~c.single /\ Has(st.mem, q.call, s) THEN Pass(st, s)
  ELSE IF q.form = NoForm THEN asked
  ELSE IF mine /\ s \in f.priors THEN Pass(st, s)
  ELSE IF mine /\ s = f.subject THEN OperationAnswer(st, q, s)
  ELSE IF Continues(st, q) THEN asked
  ELSE Refuse(st)

(* The subjects of a call one after another, as far as they pass: what the *)
(* call has come to after the first n.                                     *)
Rounds(st, q) ==
  LET subjects == Subjects(q.call)
      after[n \in 0..Len(subjects)] ==
        IF n = 0 THEN st
        ELSE IF after[n - 1].out = "allowed" THEN Operation(after[n - 1], q, subjects[n])
        ELSE after[n - 1]
  IN after

(* A git command that changes something is run with a token its user has   *)
(* confirmed.                                                              *)
Confirmation(st, q) ==
  IF q.token = NoForm THEN Ask(st, Form("git", q, Given(q), <<>>, {}, st))
  ELSE IF Consumable(st.mem, q.token) THEN Consume(st, q.token)
  ELSE Refuse(Consume(st, q.token))

(* A question to the user, whose answer is reported once; its form is      *)
(* remembered with those of the decisions.                                 *)
Question(st, q) ==
  IF q.form = NoForm
  THEN IF Call[q.call].rich THEN Ask(st, Form("question", q, Given(q), <<>>, {}, st)) ELSE Refuse(st)
  ELSE IF Consumable(st.mem, q.form) THEN Consume(st, q.form)
  ELSE Refuse(Consume(st, q.form))

(* A call before anything has been decided.                                *)
Begun ==
  [mem |-> mem, disk |-> disk, out |-> "allowed", form |-> <<>>, passed |-> <<>>, proof |-> {}]

(* What a request comes to.                                                *)
Decided(q) ==
  LET dirs == Directory(Begun, q) IN
  IF dirs.out # "allowed" THEN dirs
  ELSE IF Call[q.call].confirms THEN Confirmation(dirs, q)
  ELSE IF Call[q.call].question THEN Question(dirs, q)
  ELSE Rounds(dirs, q)[Len(Subjects(q.call))]

(* Clients send a call with no form, or with a valid one they got for it   *)
(* that has been answered.                                                 *)
Sendable(c, kinds) ==
  {n \in DOMAIN forms : /\ forms[n].call = c /\ forms[n].kind \in kinds
                        /\ forms[n].age = "fresh" /\ forms[n].answer # "open"}

Requests(c) ==
  [call : {c}, form : {NoForm} \cup Sendable(c, {"directory", "operation", "question"}),
   token : {NoForm} \cup {n \in Sendable(c, {"git"}) : forms[n].answer = "allow_once"},
   ok : BOOLEAN]

Keep(st) ==
  /\ mem' = st.mem /\ disk' = st.disk
  /\ forms' = IF st.out = "asked" THEN Append(forms, st.form) ELSE forms

-----------------------------------------------------------------------------
AnswersTo(f) ==
  CASE f.kind \in {"git", "question"} -> {"allow_once", "declined"}
    [] Call[f.call].single -> {"allow_once", "deny", "declined"}
    [] OTHER -> Allows \cup {"deny", "declined"}

WithAnswer(f, a) == [f EXCEPT !.answer = a, !.told = @ \cup {a}]
Marked(n, a) == [forms EXCEPT ![n] = WithAnswer(@, a)]

(* Somebody answers a form.                                                *)
Answer(n) ==
  /\ forms[n].answer = "open" /\ forms[n].kind # "challenge"
  /\ \E a \in AnswersTo(forms[n]) : forms' = Marked(n, a)
  /\ UNCHANGED <<mem, disk, scripts>>

(* The tool that submits the owner's decision on a challenge; after a      *)
(* restart it can be submitted again.                                      *)
Submit(n) ==
  /\ forms[n].kind = "challenge" /\ forms[n].age = "fresh"
  /\ Call[forms[n].call].user = Owner
  /\ \E a \in Allows \cup {"deny"}, ok \in BOOLEAN :
       LET f == forms[n]
           st == Consume(Begun, n)
           once == [call |-> f.call, args |-> f.args, roots |-> f.roots] IN
       /\ Consumable(mem, n)
       /\ LET kept == IF a = "allow_once" THEN [st EXCEPT !.mem.once = @ \cup {once}]
                      ELSE KeepDirs(st, Owner, f.roots, a, ok)
          IN mem' = kept.mem /\ disk' = kept.disk
       /\ forms' = Marked(n, a)
  /\ UNCHANGED scripts

(* Time passes: a form expires; later on the server may forget its use.    *)
Age(n) ==
  /\ \/ forms[n].age = "fresh" /\ forms' = [forms EXCEPT ![n].age = "expired"]
     \/ /\ forms[n].age = "expired" /\ n \in mem.used
        /\ forms' = [forms EXCEPT ![n].age = "stale"]
  /\ mem' = [mem EXCEPT !.once = {o \in @ : \E k \in DOMAIN forms :
               /\ forms'[k].age = "fresh" /\ forms[k].kind = "challenge"
               /\ o = [call |-> forms[k].call, args |-> forms[k].args, roots |-> forms[k].roots]}]
  /\ UNCHANGED <<disk, scripts>>

Edited(r) == scripts' = [scripts EXCEPT ![r] = 1] /\ UNCHANGED <<mem, disk, forms>>

Restart == mem' = Loaded(disk) /\ UNCHANGED <<disk, forms, scripts>>

(* scripts/manage-approvals.ps1 edits the files while the server runs.     *)
Revoke ==
  /\ \E a \in SUBSET disk.approvals, d \in SUBSET disk.dirs :
       disk' = [approvals |-> a, dirs |-> d]
  /\ UNCHANGED <<mem, forms, scripts>>

=============================================================================
