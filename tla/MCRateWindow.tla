---------------------------- MODULE MCRateWindow ----------------------------
(***************************************************************************)
(* Two request goroutines serving a caller with two slots an hour, one   *)
(* with one and one without limit, over three hours.                       *)
(***************************************************************************)
EXTENDS RateWindow, TLC

CONSTANTS c1, c2, free, h1, h2

MCLimit == c1 :> 2 @@ c2 :> 1 @@ free :> 0

MCSymmetry == Permutations({h1, h2})
=============================================================================
