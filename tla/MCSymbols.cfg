CONSTANTS
  a = a
  b = b
  c = c
  d = d
  Suites <- OneAlphabet
  PipeSize = 1
  Threads = 2
  MaxCount = 4
  FirstBound = 3
  boundFactor = 3
  bufferSize = 2
  MaxBound = 6
  LastStage = 1
SPECIFICATION ExperimentSpec
INVARIANTS
  SymbolsCounted
