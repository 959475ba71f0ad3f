------------------------- MODULE MCDevTaskScheduler -------------------------
(* DevTaskScheduler on a small instance.                                   *)
EXTENDS DevTaskScheduler
CONSTANTS t1, t2, t3, r1, r2

=============================================================================
