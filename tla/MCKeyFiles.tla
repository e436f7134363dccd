----------------------------- MODULE MCKeyFiles -----------------------------
(***************************************************************************)
(* Two terminals create the same key name while a request loads it.        *)
(***************************************************************************)
EXTENDS KeyFiles, TLC

CONSTANTS op1, op2, r1

MCSymmetry == Permutations({op1, op2})
=============================================================================
