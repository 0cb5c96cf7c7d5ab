SPECIFICATION Spec
CONSTANTS
  Programs = {{"r"}, {"s", "n"}, {"d"}, {"x"}, {"M", "S", "x"}}
  Numbers = {1, 2}
  EnumValue = EnumValue
  HoldsBuilders = TRUE
  MaxCells = 5
  MaxHeld = 1
  MaxTracked = 2
  MaxSets = 2
  None = None
INVARIANT
  HandlesKeepMeaning
CHECK_DEADLOCK FALSE
