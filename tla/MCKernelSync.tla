---------------------------- MODULE MCKernelSync ----------------------------
(* Small instances of KernelSync for TLC. *)
EXTENDS KernelSync, TLC
CONSTANTS k, p1, p2, tk, t1, t2, t3

Symmetric == Permutations({t1, t2, t3})
=============================================================================
