\* An interactive hole minted anew once, two frames, one stay left and a return, two
\* attempts.
CONSTANTS
  Interactive = TRUE
  MaxMints = 2
  MaxFrames = 2
  MaxLeaves = 1
  Attempts = 2
SPECIFICATION Spec
INVARIANTS
  TypeOK
  FallbackIsTemporary
  AnsweredIsWoken
  ShowsItsFrame
PROPERTIES
  Settles
\* A hole that was filled or given up on asks no more.
CHECK_DEADLOCK FALSE
