CONSTANTS
  N = 2
  P = 2
  Q = 2
  Options <- RandomizedLeeYannakakis
  Machines <- EndingMachines
  Arguments <- WithoutCoin
  IntValues = 4
  MaxExtra = 1
  MaxRandomTests = 4
SPECIFICATION ProgramFairSpec
PROPERTIES
  RandomPartTerminates
\* The program may return and nothing more happens.
CHECK_DEADLOCK FALSE
