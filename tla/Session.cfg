SPECIFICATION FairSpec
CONSTANTS
  RetryCount = 1
  Lifetime = 3
  MaxCount = 5
  Stale <- FromStrangers
INVARIANTS
  TypeOK
  AcceptsOnlyOwn
  ServerInStep
  RejectionIsGenuine
PROPERTIES
  ImplementsContract
  CancelEnds
