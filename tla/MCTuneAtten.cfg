SPECIFICATION Spec
CONSTANTS
  Foci = {"tune"}
  TuneBoards <- MCTuneBoards
  Eyes <- MCEyes
  LastDelay = 3
  MaxTuneCalls = 6
  CalBoards <- MCCalBoards
  CalClocks <- MCCalClocks
  CalBandwidths <- MCCalBandwidths
  PhaseSets <- MCPhaseSets
  MaxCalibCalls = 2
  Refins = {9000, 35000, 36000, 70001, 141000, 281000, 330000}
  MaxFrefs = {8000, 40000, 80000}
  AuxValues = {0, 306, 1000, 1810, 1850, 1888, 2500, 3308}
  SyncPins = {"master"}
  MaxSetupCalls = 3
  DacBoards <- MCDacBoards
  DacRates = {2000, 4000, 30720}
  ResetRate = 30720
  Corrections <- MCCorrections
  CorrectedChannels = {0, 1}
  ConsoleLines <- MCConsoleLines
  Beyond <- MCBeyond
  MaxDacCalls = 3
INVARIANT AttenAsAsked
CHECK_DEADLOCK FALSE
