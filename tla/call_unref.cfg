SPECIFICATION Spec
CONSTANTS
  Calls = {c1}
  Fakes = {TRUE, FALSE}
  Foreign = {"neither"}
  MaxPulls = 1
  BadData = TRUE
  MaxMessages = 0
INVARIANT
  NoReferenceLeaks
CHECK_DEADLOCK FALSE
