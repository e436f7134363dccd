----------------------------- MODULE MCAuditLog -----------------------------
(***************************************************************************)
(* The daemon with two request goroutines, and one command.                *)
(***************************************************************************)
EXTENDS AuditLog, TLC

CONSTANTS daemon, cli, t1, t2, t3

MCShared == t1 :> daemon @@ t2 :> daemon @@ t3 :> cli

\* The daemon's two goroutines are interchangeable.
MCSymmetry == Permutations({t1, t2})
=============================================================================
