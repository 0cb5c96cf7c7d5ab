SPECIFICATION FairSpec
CONSTANTS
  Calls = {c1}
  Fakes = {TRUE, FALSE}
  Foreign = {"neither"}
  MaxPulls = 3
  BadData = FALSE
  MaxMessages = 0
INVARIANTS
  NoReferenceLeaks
  HonestCallsSucceed
PROPERTIES
  EveryCallEnds
  EverySessionFreed
CHECK_DEADLOCK FALSE
