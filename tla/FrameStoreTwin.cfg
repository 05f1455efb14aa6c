\* Same instance as FrameStore.cfg.
SPECIFICATION Spec
CONSTANTS
  r1 = r1
  r2 = r2
  f1 = f1
  f2 = f2
  b1 = b1
  m1 = m1
  None = None
  Joining = Joining
  Region = {r1, r2}
  Fetch = {f1, f2}
  Batch = {b1}
  Command = {m1}
  SlowerThanEviction = FALSE
  MaxWaiters = 2
SYMMETRY Twins
PROPERTY TwinKeepsItsFetch
