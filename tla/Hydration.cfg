\* An island that loads at once, is clicked and may leave and return, and one below the fold.
CONSTANTS
  i1 = i1
  i2 = i2
  Island = {i1, i2}
  When <- MCWhen
  SnapshotWait = 1
  HoldFor = 2
  MaxLeaves <- MCMaxLeaves
  MaxClicks <- MCMaxClicks
SPECIFICATION Spec
INVARIANTS
  TypeOK
  AppIsAttached
  ScheduleIsExact
  WakeIsKept
PROPERTIES
  HoldsForViewport
  ClicksMeetTheIsland
  TurnsComeUp
\* A page whose islands are live and left alone does nothing.
CHECK_DEADLOCK FALSE
