SPECIFICATION Spec
CONSTANTS
  Scale = 10
  MaxUnits = 20000
  Resolution = 2
  Symbols = {"a", "b"}
  StartingCash = 60
  Capacity = 2
  Tapes <- MCAll
  FeeRate = 1
  Slippage = 1
  MaxPositions = 2
  DrawdownLimit = 3000
  CheckpointInterval = 2
  AtrUnits = {7}
  OrderMenu <- MCOrders
  TriggerMenu <- MCTriggers
  Quotes <- MCQuotes
  QuantityStep = 2
  TickSize = 1
  LiveBuilt = FALSE
  Starts <- MCStarts
  MaxPlaced <- MCPlaced
INVARIANTS TypeOK BooksBalance SizedTradesAreAccepted CheckpointIsRestorable CandlesAppliedOnce
PROPERTIES TriggerRetained
CHECK_DEADLOCK FALSE
