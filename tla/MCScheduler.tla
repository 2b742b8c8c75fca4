---------------------------- MODULE MCScheduler ----------------------------
(* Small instances of Scheduler for TLC. *)
EXTENDS Scheduler, TLC
CONSTANTS k, p1, p2, tk, t1, t2, t3, t4

Symmetric == Permutations({t1, t2, t3, t4})
=============================================================================
