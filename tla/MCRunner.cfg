SPECIFICATION Spec
CONSTANTS
  Harts = {0, 1, 2, 3}
  Active = {0, 1, 2}
  Sends <- Pipeline
  Tokens = 2
  Slots = 1
  MayFail = {0, 3}
  MayTrap = TRUE
INVARIANTS
  TypeOK
  SendsReachReadyTiles
  ReadsSeeInputs
  OutputsAreComplete
  FailureIsNotReported
PROPERTIES
  EveryHartReturns
CHECK_DEADLOCK FALSE
