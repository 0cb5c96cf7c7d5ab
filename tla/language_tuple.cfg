SPECIFICATION Spec
CONSTANTS
  Families = {"pairs"}
  Depth = 20
  MaxFixedArraySize = 2
  ArgumentSpace = 2
  MaxBlocks = 150
  MaxBlocksWithMethods = 4000
  Strides = {8, 2024}
INVARIANT
  CompilesEveryProgram
