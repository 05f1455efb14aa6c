---------------------------- MODULE MCHydration ----------------------------
(* Hydration on a small instance: an island that loads at once and may leave   *)
(* and return, and one below the fold.                                         *)
EXTENDS Hydration, TLC

CONSTANTS i1, i2
MCWhen == (i1 :> "load") @@ (i2 :> "visible")
MCMaxLeaves == (i1 :> 1) @@ (i2 :> 0)
MCMaxClicks == (i1 :> 1) @@ (i2 :> 0)
=============================================================================
