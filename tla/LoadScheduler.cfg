\* An island's code, a hole's HTML and a page prefetch (the one that may be
\* promoted), two marked resources, a window of one.
SPECIFICATION FairSpec
CONSTANTS
  d1 = d1
  d2 = d2
  d3 = d3
  hero = hero
  font = font
  Download = {d1, d2, d3}
  Code = {d1}
  Following = {d1, d2}
  Resource = {hero, font}
  Window = 1
INVARIANTS TypeOK WindowKept WatchedWhileQueued
PROPERTIES NoOvertaking Starts
CHECK_DEADLOCK FALSE
