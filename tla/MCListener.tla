------------------------------ MODULE MCListener ------------------------------
(***************************************************************************)
(* Three processes that run serve on one socket path.                      *)
(***************************************************************************)
EXTENDS Listener, TLC

CONSTANTS d1, d2, d3

MCSymmetry == Permutations({d1, d2, d3})
=============================================================================
