SPECIFICATION Spec
CONSTANTS
  Modes <- MCBothModes
INVARIANTS TypeOK ShutdownLeavesNoWorker DeadFeedHaltsInPaper
PROPERTIES NoThreadAbandoned DisconnectReturns WorkerReconnects
