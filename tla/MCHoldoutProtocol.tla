------------------------- MODULE MCHoldoutProtocol -------------------------
(***************************************************************************)
(* A small checkout for TLC.                                               *)
(***************************************************************************)
EXTENDS HoldoutProtocol, TLC

ProcSymmetry == Permutations(Procs)
=============================================================================
