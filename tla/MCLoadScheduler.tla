--------------------------- MODULE MCLoadScheduler ---------------------------
(* LoadScheduler on a small instance: model values for downloads and elements.*)
EXTENDS LoadScheduler

CONSTANTS d1, d2, d3, hero, font
=============================================================================
