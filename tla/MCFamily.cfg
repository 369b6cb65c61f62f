CONSTANTS
  N = 3
  P = 2
  Q = 2
  Options <- RandomizedLeeYannakakis
  Machines <- AllMachines
  Arguments <- FamilyArguments
  IntValues = 4
  MaxExtra = 0
  MaxRandomTests = 0
SPECIFICATION FamilySpec
INVARIANTS
  AdsTypeOK
  NoStateLost
  CurrentsAreReached
  Identifies
  Harmonised
  SuiteIsComplete
\* The program returns and nothing more happens.
CHECK_DEADLOCK FALSE
