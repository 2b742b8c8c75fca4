-------------------------- MODULE MCVirtualMemory --------------------------
(***************************************************************************)
(* Small instances of VirtualMemory for TLC.                               *)
(***************************************************************************)
EXTENDS VirtualMemory, TLC

CONSTANTS zero, one

MCSegment == 0 :> one
MCValue == {zero, one}
MCSymmetry == Permutations(Proc) \union Permutations(Frame)
=============================================================================
