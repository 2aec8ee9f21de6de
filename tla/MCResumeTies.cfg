SPECIFICATION Spec
CONSTANTS
  Scale = 10
  MaxUnits = 20000
  Resolution = 2
  Symbols = {"a", "b"}
  StartingCash = 60
  Capacity = 2
  Tapes <- MCTied
  FeeRate = 1
  Slippage = 1
  MaxPositions = 2
  DrawdownLimit = 3000
  CheckpointInterval = 2
  AtrUnits = {}
  OrderMenu <- MCNothing
  TriggerMenu <- MCNothing
  Quotes <- MCNothing
  QuantityStep = 2
  TickSize = 1
  LiveBuilt = FALSE
  Starts <- MCBacktests
  MaxPlaced <- MCPlaced
INVARIANTS RestartIsComplete
CHECK_DEADLOCK FALSE
