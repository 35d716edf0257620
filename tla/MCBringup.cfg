\* Bringing up the board and using it: interface tuning, calibrations, set-up, the
\* cores of the FPGA and the console.
SPECIFICATION Spec
CONSTANTS
  Foci = {"tune", "calib", "setup", "console"}
  TuneBoards <- MCTuneBoards
  Eyes <- MCEyes
  LastDelay = 3
  MaxTuneCalls = 6
  CalBoards <- MCCalBoards
  CalClocks <- MCCalClocks
  CalBandwidths <- MCCalBandwidths
  PhaseSets <- MCPhaseSets
  MaxCalibCalls = 2
  Refins = {9000, 35000, 36000, 70001, 141000, 281000, 330000}
  MaxFrefs = {8000, 40000, 80000}
  AuxValues = {0, 306, 1000, 1810, 1850, 1888, 2500, 3308}
  SyncPins = {"master"}
  MaxSetupCalls = 3
  DacBoards <- MCDacBoards
  DacRates = {2000, 4000, 30720}
  ResetRate = 30720
  Corrections <- MCCorrections
  CorrectedChannels = {0, 1}
  ConsoleLines <- MCConsoleLines
  Beyond <- MCBeyond
  MaxDacCalls = 3
INVARIANTS BringupTypeOK FoundDelaysPass CalibrationUndone QuadratureBest SetupSafe CoresFollow ConversionsHold ActsOnWhatWasTyped
PROPERTIES TuningLeavesNoTrace ChipsSynchronised
CHECK_DEADLOCK FALSE
