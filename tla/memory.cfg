SPECIFICATION ProcessSpec
CONSTANTS
  Objects = {o1, o2, o3}
  Threads = {t1, t2}
  None = None
  Collectors = {TRUE, FALSE}
  Addresses = {a1, a2}
  MaxCalls = 1
  Ids = {i1}
  Values = {v1, v2}
  Names = {n1, n2}
  Slots = {r1, r2}
  Links = {l1}
  MaxMade = 3
  Tracked = {t1}
  MinBytes = 1
  Programs = {{"r"}, {"s", "n"}, {"d"}, {"x"}, {"M", "S", "x"}}
  Numbers = {1, 2}
  EnumValue = EnumValue
  HoldsBuilders = FALSE
  MaxCells = 5
  MaxHeld = 1
  MaxTracked = 2
  MaxSets = 2
  Sizes = {0, 1, 3}
  kAlignment = 2
  kNewPoolSize = 4
  kSeparateAllocationThreshold = 2
  kGuardByteCount = 1
  kMaxHeldBytes = 6
  MaxBlocks = 3
  MaxAddress = 9
INVARIANTS
  OneLiveWorkerPerAddress
  ValuesListedAndAlive
  AtomsUnique
  RefcountExact
  ChecksHold
  PointersFollow
  MessagesKeepMeaning
  MemoryNotShared
PROPERTIES
  EntryLeavesWithObject
  SweepsAll
CHECK_DEADLOCK FALSE
