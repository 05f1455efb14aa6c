\* Same instance as Freeze.cfg.
SPECIFICATION FairSpec
CONSTANTS
  k1 = k1
  r1 = r1
  r2 = r2
  r3 = r3
  w1 = w1
  w2 = w2
  None = None
  Key = {k1}
  Request = {r1, r2, r3}
  Known = {r3}
  PersonalKey = {k1}
  Writer = {w1, w2}
PROPERTY Answered
CHECK_DEADLOCK FALSE
