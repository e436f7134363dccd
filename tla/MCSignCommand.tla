---------------------------- MODULE MCSignCommand ----------------------------
(***************************************************************************)
(* Two runs of sign and one of verify.                                     *)
(***************************************************************************)
EXTENDS SignCommand, TLC

CONSTANTS s1, s2, v1, old, new, k1, k2

MCSymmetry ==
  Permutations({s1, s2}) \cup Permutations({old, new}) \cup Permutations({k1, k2})
=============================================================================
