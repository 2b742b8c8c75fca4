------------------------------ MODULE MCRwLock ------------------------------
(* Small instances of RwLock for TLC. *)
EXTENDS RwLock
CONSTANTS u1, u2, u3, u4

MCMaxLocks == [t \in Thread |-> IF t = u1 THEN 2 ELSE 1]
=============================================================================
