\* One personal page (its keys do not interact), three requests of which one
\* carries a session, two writers.
SPECIFICATION FairSpec
CONSTANTS
  k1 = k1
  r1 = r1
  r2 = r2
  r3 = r3
  w1 = w1
  w2 = w2
  None = None
  Key = {k1}
  Request = {r1, r2, r3}
  Known = {r3}
  PersonalKey = {k1}
  Writer = {w1, w2}
INVARIANTS TypeOK NoPersonalLeak
PROPERTIES NeverOverwrites NeverGoesBack AnsweredUnlessFlightFailed
CHECK_DEADLOCK FALSE
