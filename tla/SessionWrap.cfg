SPECIFICATION Spec
CONSTANTS
  RetryCount = 0
  Lifetime = 2
  MaxCount = 260
  Stale <- Nothing
INVARIANTS
  ExtraNeverSkipped
