SPECIFICATION ServerSpec
CONSTANTS
  Count = 4
  AbandonCounts = {0, 1, 3}
  Letters = {1, 2}
  MaxLength = 3
  Keys <- MappedKeys
  Resolvers = {r1, r2}
  LibraryCount = 3
  MaxDependencies = 2
  MaxRequests = 2
  EvaluatorCount = 3
  MaxCalls = 2
  MaxContexts = 2
  MaxHops = 1
  MaxMixed = 1
  Nothing = Nothing
  FileCount = 2
  Variables = {x}
  MaxStatements = 2
  MaxEdits = 1
  MaxAbandoned = 1
  Nil = Nil
INVARIANTS
  DeliversOnce
  OutlivesCalls
  FindsLongestPrefix
  LoadedOnce
  RefcountExact
  ManagersExclusive
  ValuesStayInside
  SessionsAgree
PROPERTY
  CallsEnd
CHECK_DEADLOCK FALSE
