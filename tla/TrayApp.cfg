SPECIFICATION FairSpec
CONSTANT Reports = {"Authenticated", "Reconnecting", "LoggingOut"}
INVARIANTS
  TypeOK
  OneWorker
  IdleSaysSo
  TipCatchesUp
  WantedIsServed
  NoWorkAsleep
PROPERTIES
  LogoutSticks
  QuitWaits
  ExitEnds
