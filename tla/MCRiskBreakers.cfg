SPECIFICATION Spec
CONSTANTS
  Threads <- MCThreads
  Window = 2
  Threshold = 2
  MaxConcurrent = 2
  Horizon = 4
  MaxReports = 4
INVARIANTS TypeOK BurstHalts WindowIsSuffix CapMatchesVolatility SavedStateRestores
