SPECIFICATION FairSpec
CONSTANT Adapters = {"wired", "wifi"}
INVARIANTS
  PauseFollowsFailures
  PortFreeBetweenSessions
PROPERTIES
  CancelledNeverReconnects
  LeavesLostAdapter
  ImplementsWorker
