------------------------------ MODULE ToolGates ------------------------------
(***************************************************************************)
(* The gates every tool call goes through (src/tools/concurrency.ts,       *)
(* withConcurrency): first the gate of its class, if it has one, then the  *)
(* gate all calls share.  Each wait has a timer.                           *)
(*                                                                         *)
(* Between two awaits a call runs to completion, so asking for a gate,     *)
(* leaving both gates at the end and giving up after a timeout are one     *)
(* step each.  A call that has been granted a gate goes on in a later step.*)
(***************************************************************************)
EXTENDS FifoSemaphore, FiniteSets

CONSTANTS
  Calls,      \* tool calls
  Tools,      \* MAX_CONCURRENT_TOOLS
  Children    \* the limit of the gate of each class that has one

ASSUME GatesAssumption ==
  /\ IsFiniteSet(Calls)
  /\ Tools \in Nat \ {0}
  /\ \A k \in DOMAIN Children : Children[k] \in Nat \ {0}
  /\ "default" \notin DOMAIN Children

VARIABLES
  kind,       \* the class of each call
  tools,      \* the global gate
  children,   \* the gates of the classes
  stage       \* how far each call is

gates == <<kind, tools, children, stage>>

(* new; waiting for its class; between the gates; waiting for the global   *)
(* gate; running its body; ended.                                          *)
Stages == {"new", "child", "asks", "tools", "runs", "done", "timedOut"}
HasChild(c) == kind[c] \in DOMAIN Children
Limit(c) == Children[kind[c]]

GatesInit ==
  /\ tools = New
  /\ children = [k \in DOMAIN Children |-> New]
  /\ stage = [c \in Calls |-> "new"]

(* Call c comes to s, those of T run, those of A may ask the global gate.  *)
Advance(c, s, T, A) ==
  stage' = [d \in Calls |-> IF d = c THEN s
                            ELSE IF d \in T THEN "runs"
                            ELSE IF d \in A THEN "asks" ELSE stage[d]]

(* The child gate is left, if the call has one, and the global gate has    *)
(* let T in.                                                               *)
LeaveChild(c, s, T) ==
  IF HasChild(c)
  THEN /\ children' = [children EXCEPT ![kind[c]] = Release(@, Limit(c))]
       /\ Advance(c, s, T, Woken(children[kind[c]], Limit(c)))
  ELSE UNCHANGED children /\ Advance(c, s, T, {})

Arrive(c) ==
  /\ stage[c] = "new"
  /\ IF HasChild(c)
     THEN /\ children' = [children EXCEPT ![kind[c]] = Acquire(@, Limit(c), c)]
          /\ Advance(c, IF Takes(children[kind[c]], Limit(c)) THEN "asks" ELSE "child", {}, {})
     ELSE UNCHANGED children /\ Advance(c, "asks", {}, {})
  /\ UNCHANGED <<kind, tools>>

Ask(c) ==
  /\ stage[c] = "asks"
  /\ tools' = Acquire(tools, Tools, c)
  /\ Advance(c, IF Takes(tools, Tools) THEN "runs" ELSE "tools", {}, {})
  /\ UNCHANGED <<kind, children>>

(* The body has ended, in any way: both gates are left.                    *)
Finish(c) ==
  /\ stage[c] = "runs"
  /\ tools' = Release(tools, Tools)
  /\ LeaveChild(c, "done", Woken(tools, Tools))
  /\ UNCHANGED kind

ChildTimeout(c) ==
  /\ stage[c] = "child"
  /\ children' = [children EXCEPT ![kind[c]] = Withdraw(@, c)]
  /\ Advance(c, "timedOut", {}, {})
  /\ UNCHANGED <<kind, tools>>

(* Mutant of ToolsTimeout: the slot of the class is kept.                  *)
ToolsTimeout_KeepsChild(c) ==
  /\ stage[c] = "tools"
  /\ tools' = Withdraw(tools, c)
  /\ Advance(c, "timedOut", {}, {})
  /\ UNCHANGED <<kind, children>>

ToolsTimeout(c) ==
  /\ stage[c] = "tools"
  /\ tools' = Withdraw(tools, c)
  /\ LeaveChild(c, "timedOut", {})
  /\ UNCHANGED kind

-----------------------------------------------------------------------------
(* Every variable keeps its type, the limits of the gates included.        *)
GatesTypeOK ==
  /\ kind \in [Calls -> DOMAIN Children \cup {"default"}]
  /\ tools \in [active : 0..Tools, waiters : Seq(Calls)]
  /\ \A k \in DOMAIN Children :
       children[k] \in [active : 0..Children[k], waiters : Seq(Calls)]
  /\ stage \in [Calls -> Stages]

(* No slot leaks or is returned twice over any order of grants, endings    *)
(* and timeouts: the counts the health report shows are the calls that are *)
(* inside, and nobody waits twice or is forgotten (concurrency.ts 74-97).  *)
SlotsExact ==
  LET Within(S, k) == {c \in Calls : stage[c] \in S /\ kind[c] = k}
      Queue(g, W) == /\ Len(g.waiters) = Cardinality(W)
                     /\ \A c \in W : Waits(g, c) IN
  /\ tools.active = Cardinality({c \in Calls : stage[c] = "runs"})
  /\ Queue(tools, {c \in Calls : stage[c] = "tools"})
  /\ \A k \in DOMAIN Children :
       /\ children[k].active = Cardinality(Within({"asks", "tools", "runs"}, k))
       /\ Queue(children[k], Within({"child"}, k))

(* Nobody waits at a gate that has a free slot (concurrency.ts 88-97).     *)
NoIdleSlot ==
  /\ tools.waiters # <<>> => tools.active = Tools
  /\ \A k \in DOMAIN Children :
       children[k].waiters # <<>> => children[k].active = Children[k]

=============================================================================
