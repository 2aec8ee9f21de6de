SPECIFICATION MCSpec
CONSTANTS
  KeyBound = 7
  Orders = {o1, o2}
  Keys <- MCKeys
  EmptyKey <- MCEmptyKey
  Stamps <- MCStamps
  MaxQuantity = 2
CHECK_DEADLOCK FALSE
INVARIANTS TypeOK QuantitiesConserved CancelRestoresWorkingState ExposureWasRiskChecked EventsAppliedOnce
PROPERTIES TerminalIsFinal FillsOnlyGrow PromiseKept
