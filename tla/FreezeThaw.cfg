\* Two pages, a shared and a private document, one render and one response to the edge at a time (memory calls are atomic), two publishes.
SPECIFICATION Spec
CONSTANTS
  p1 = p1
  p2 = p2
  d1 = d1
  d2 = d2
  c1 = c1
  f1 = f1
  i1 = i1
  i2 = i2
  None = None
  Page = {p1, p2}
  Doc = {d1, d2}
  Reads <- ReadsDef
  Named = {{p1, p2}}
  Capture = {c1}
  Fill = {f1}
  Thaw = {i1, i2}
  Adapter = "memory"
INVARIANTS TypeOK ReceiptKept
PROPERTIES OriginThawed EdgeThawedByURL
SYMMETRY Symmetry
