----------------------------- MODULE MCNavigation -----------------------------
(* Navigation on a small instance: the third page redirects to the second.    *)
EXTENDS Navigation, TLC

CONSTANTS p1, p2, p3, n1, n2, f1, i1

RedirectDef == (p1 :> p1) @@ (p2 :> p2) @@ (p3 :> p2)

Symmetry == Permutations(Nav)
=============================================================================
