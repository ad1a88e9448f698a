SPECIFICATION Spec
CONSTANTS
  Processes = {p1, p2, p3}
  Limit = 3
  LineSizes = {1, 2}
  MaxLines = 5
INVARIANTS
  OneWriter
  NewestKept
  LogsBounded
