------------------------------ MODULE MCFreeze ------------------------------
(* Freeze on a small instance: model values for pages, requests, writers.    *)
EXTENDS Freeze

CONSTANTS k1, r1, r2, r3, w1, w2
=============================================================================
