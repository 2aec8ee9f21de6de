SPECIFICATION Spec
CONSTANTS
  Threads <- MCThreads
  Window = 1
  Threshold = 1
  MaxConcurrent = 2
  Horizon = 3
  MaxReports = 3
INVARIANTS HaltLatches
