SPECIFICATION Spec
CONSTANTS
  Slots = {r1, r2}
  Objects = {t1}
  Links = {l1}
  MaxMade = 3
  MinBytes = 0
  None = None
INVARIANT
  ChecksHold
CHECK_DEADLOCK FALSE
