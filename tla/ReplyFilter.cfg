SPECIFICATION Spec
CONSTANTS
  Datagrams <- AllDatagrams
  Numbers <- SomeNumbers
INVARIANTS
  OneClaimant
  MatchImpliesParse
  ServerRepliesPass
