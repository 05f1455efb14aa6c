---------------------------- MODULE MCFreezeThaw ----------------------------
(* FreezeThaw on a small instance: a document shown on both pages, and one   *)
(* shown on the second page only; the pages are one subtree.                 *)
EXTENDS FreezeThaw, TLC

CONSTANTS p1, p2, d1, d2, c1, f1, i1, i2

ReadsDef == (p1 :> {d1}) @@ (p2 :> {d1, d2})

Symmetry == Permutations(Thaw)
=============================================================================
