--------------------------- MODULE MCEventManager ---------------------------
(* Small instances of EventManager for TLC. *)
EXTENDS EventManager, TLC
CONSTANTS k, p1, p2, tk, t1, t2, t3

Symmetric == Permutations({t1, t2, t3})
=============================================================================
