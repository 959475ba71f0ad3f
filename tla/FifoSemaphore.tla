---------------------------- MODULE FifoSemaphore ----------------------------
(***************************************************************************)
(* The class Semaphore of src/tools/concurrency.ts as operators on a       *)
(* record: the number of slots in use and the list of those who wait.  A   *)
(* method runs to completion on the event loop.  A waiter that has been    *)
(* granted or has timed out has left the list, so the flag `settled' of    *)
(* the code is membership in it.                                           *)
(***************************************************************************)
EXTENDS Integers, Sequences

New == [active |-> 0, waiters |-> <<>>]

(* acquire(): at once only if nobody waits and a slot is free.             *)
Takes(s, limit) == s.waiters = <<>> /\ s.active < limit

Acquire(s, limit, c) ==
  IF Takes(s, limit) THEN [s EXCEPT !.active = @ + 1]
                     ELSE [s EXCEPT !.waiters = Append(@, c)]

(* How many waiters grantNext() resolves after one slot has been returned. *)
Grants(s, limit) ==
  LET free == limit - (s.active - 1) IN
  IF Len(s.waiters) < free THEN Len(s.waiters) ELSE free

(* The function that returns a slot, and whom it wakes, oldest first.      *)
Release(s, limit) ==
  [active  |-> s.active - 1 + Grants(s, limit),
   waiters |-> SubSeq(s.waiters, Grants(s, limit) + 1, Len(s.waiters))]

Woken(s, limit) == {s.waiters[i] : i \in 1..Grants(s, limit)}

Waits(s, c) == \E i \in 1..Len(s.waiters) : s.waiters[i] = c

(* The timer of a waiter takes it out of the list (indexOf and splice).    *)
Withdraw(s, c) ==
  LET i == CHOOSE i \in 1..Len(s.waiters) : s.waiters[i] = c IN
  [s EXCEPT !.waiters = SubSeq(@, 1, i - 1) \o SubSeq(@, i + 1, Len(@))]

=============================================================================
