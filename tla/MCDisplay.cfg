\* Every view a client can ask for, on both displays; a matrix of 16 rows and
\* columns.
SPECIFICATION DisplaySpec
CONSTANTS
  levelSteps <- SmallSteps
  baseLevelStep = 2
  chunkSize = 2
  length = 64
  Resolution = 4
  MinTail = 4
  MinSpan = 2
  DefaultEnd = 32
  Asked <- Positions
  RowBits = 4
  Starts <- SmallStarts
INVARIANTS DisplayTypeOK Served ShowsRequest CopiesView FillsFrame ReadsWhatIsStored SpectrumWhole
