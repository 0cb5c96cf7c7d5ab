SPECIFICATION Spec
CONSTANTS
  Families = {"chains", "pairs", "nested", "forwarding", "builders", "operators", "forms", "broken", "travelling", "tables", "methods"}
  Depth = 20
  MaxFixedArraySize = 2
  ArgumentSpace = 2
  MaxBlocks = 150
  MaxBlocksWithMethods = 4000
  Strides = {8, 2024}
INVARIANTS
  ParsesText
  CompiledCodeFits
  Computes
  OnlyTuplesGoEarly
