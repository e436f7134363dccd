---------------------------- MODULE MCCallersFile ----------------------------
(***************************************************************************)
(* Two terminals at work on two caller names.                              *)
(***************************************************************************)
EXTENDS CallersFile, TLC

CONSTANTS op1, op2, ci, dev

MCSymmetry == Permutations({op1, op2}) \cup Permutations({ci, dev})
=============================================================================
