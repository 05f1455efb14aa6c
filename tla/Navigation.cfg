\* Three pages of which one redirects, two navigations, a prefetch, an invalidation.
SPECIFICATION Spec
CONSTANTS
  p1 = p1
  p2 = p2
  p3 = p3
  n1 = n1
  n2 = n2
  f1 = f1
  i1 = i1
  None = None
  Page = {p1, p2, p3}
  Redirect <- RedirectDef
  Nav = {n1, n2}
  Prefetch = {f1}
  Soft = {i1}
  First = p1
INVARIANTS TypeOK LastNavigationShown ClaimIsInFlight JoinsAlive
SYMMETRY Symmetry
\* A document that was left, or at rest, does nothing more.
CHECK_DEADLOCK FALSE
