-------------------------------- MODULE MCHole --------------------------------
(* Hole on a small instance: two addresses, two frames, one stay and a return. *)
EXTENDS Hole
=============================================================================
