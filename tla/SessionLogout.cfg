SPECIFICATION Spec
CONSTANTS
  RetryCount = 0
  Lifetime = 3
  MaxCount = 0
  Stale <- Nothing
INVARIANTS
  LogoutAttempted
