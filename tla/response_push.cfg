SPECIFICATION Spec
CONSTANTS
  Calls = {c1}
  Fakes = {TRUE, FALSE}
  Foreign = {"server"}
  MaxPulls = 1
  BadData = FALSE
  MaxMessages = 1
INVARIANT
  CompletePushDelivers
CHECK_DEADLOCK FALSE
