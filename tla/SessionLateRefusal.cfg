SPECIFICATION Spec
CONSTANTS
  RetryCount = 1
  Lifetime = 3
  MaxCount = 0
  Stale <- LateRefusal
INVARIANTS
  RejectionIsGenuine
