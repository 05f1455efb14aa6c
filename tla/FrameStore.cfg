\* Twins, two fetches, a batch and a command at one address.
SPECIFICATION Spec
CONSTANTS
  r1 = r1
  r2 = r2
  f1 = f1
  f2 = f2
  b1 = b1
  m1 = m1
  None = None
  Joining = Joining
  Region = {r1, r2}
  Fetch = {f1, f2}
  Batch = {b1}
  Command = {m1}
  SlowerThanEviction = FALSE
  MaxWaiters = 2
SYMMETRY Twins
INVARIANTS TypeOK BoundSeesContent AwaitedIsKept
PROPERTIES ImplementsRegister
\* A document at rest makes no request (and the instance has a bounded number).
CHECK_DEADLOCK FALSE
