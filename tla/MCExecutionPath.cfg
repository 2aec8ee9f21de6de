SPECIFICATION Spec
CONSTANTS
  Engines <- MCOneEngine
  MaxOrders = 3
  MaxFills = 2
  CancelSequences <- MCCancelSequences
  InitialCash = 2
  MaxPositions = 1
INVARIANTS TypeOK FillsBookedOnce DispatchLeavesNoLimbo EngineRemembersBooked AtMostOneEntrySlips IdentityIsFresh
