\* The instance of RegionServer.cfg: the gate admits one render too many.
CONSTANTS
  RegionTtl = 2
  StoredTtl = 8
  RenewWindow = 2
  r1 = r1
  Request = {r1, r2, r3}
  Call = {c1}
  c1 = c1
  a = a
  p1 = p1
  p2 = p2
  Visits <- MCVisits
  Ttl <- MCTtl
  ReadsPage = {c1}
  Session = {a}
  Anonymous = Anonymous
  Page = {p1, p2}
  AnyPage = AnyPage
  None = None
  Lifetime = {0, 2}
  Limit = 1
  MaxNow = 3
SPECIFICATION Spec
INVARIANTS
  NeverExceeds
CHECK_DEADLOCK FALSE
