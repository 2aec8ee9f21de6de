SPECIFICATION Spec
CONSTANTS
  Engines <- MCTwoEngines
  MaxOrders = 2
  MaxFills = 1
  CancelSequences <- MCCancelSequences
  InitialCash = 2
  MaxPositions = 2
INVARIANTS IdentityIsFresh
