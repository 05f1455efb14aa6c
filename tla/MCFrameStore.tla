----------------------------- MODULE MCFrameStore -----------------------------
(* FrameStore on a small instance: model values for twins and requests.      *)
EXTENDS FrameStore, TLC

CONSTANTS r1, r2, f1, f2, b1, m1

\* The twins are interchangeable, and so are the fetches.
Twins == Permutations(Region) \cup Permutations(Fetch)
=============================================================================
