SPECIFICATION FairSpec
CONSTANTS
  Timeout = 2
  Limits = {1, 3}
  Horizon = 5
INVARIANTS
  TypeOK
  NotPoisoned
  QuietBetweenCalls
  TimeoutIsOwn
PROPERTIES
  CancelInterrupts
