CONSTANTS
  a = a
  b = b
  c = c
  d = d
  Suites <- TwoAlphabets
  PipeSize = 2
  Threads = 2
  MaxCount = 3
  FirstBound = 1
  boundFactor = 3
  bufferSize = 2
  MaxBound = 9
  LastStage = 2
SPECIFICATION ExperimentSpec
INVARIANTS
  ExperimentTypeOK
  EveryTestCompared
  NoProcessLeft
PROPERTIES
  EventuallyRefuted
