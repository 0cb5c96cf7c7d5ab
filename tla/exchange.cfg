SPECIFICATION FairSpec
CONSTANTS
  NodeCount = 4
INVARIANTS
  RebuildsSent
  ReadsFinal
  NeverFails
  StubsRegistered
PROPERTY
  ExchangeEnds
CHECK_DEADLOCK FALSE
