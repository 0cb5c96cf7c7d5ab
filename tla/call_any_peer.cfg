SPECIFICATION Spec
CONSTANTS
  Calls = {c1}
  Fakes = {TRUE, FALSE}
  Foreign = {"neither", "client", "server"}
  MaxPulls = 2
  BadData = TRUE
  MaxMessages = 2
INVARIANTS
  TypeOK
  CallbacksFindSession
  RefsCoverHolders
  ServerChecksHold
  ClientChecksHold
  TurnBased
PROPERTIES
  AnswersOnce
  ImplementsAbstractCall
CHECK_DEADLOCK FALSE
