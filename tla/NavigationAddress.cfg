\* Same instance as Navigation.cfg.
SPECIFICATION Spec
CONSTANTS
  p1 = p1
  p2 = p2
  p3 = p3
  n1 = n1
  n2 = n2
  f1 = f1
  i1 = i1
  None = None
  Page = {p1, p2, p3}
  Redirect <- RedirectDef
  Nav = {n1, n2}
  Prefetch = {f1}
  Soft = {i1}
  First = p1
SYMMETRY Symmetry
INVARIANT OnePage
\* A document that was left, or at rest, does nothing more.
CHECK_DEADLOCK FALSE
