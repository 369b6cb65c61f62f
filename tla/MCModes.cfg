CONSTANTS
  N = 2
  P = 2
  Q = 2
  Options <- RandomizedLeeYannakakis
  Machines <- AllMachines
  Arguments <- AllModes
  IntValues = 4
  MaxExtra = 1
  MaxRandomTests = 1
SPECIFICATION ModesSpec
INVARIANTS
  SuiteTypeOK
  FixedPartIsWhole
  TrieIsOutput
PROPERTIES
  StopsWhenClosed
\* The function returns and nothing more happens.
CHECK_DEADLOCK FALSE
