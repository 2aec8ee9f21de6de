SPECIFICATION Spec
CONSTANTS
  Modes <- MCBothModes
INVARIANTS DeadFeedHalts
