CONSTANTS
  N = 4
  P = 2
  Q = 2
  Options <- Unshuffled
  Machines <- Returning
SPECIFICATION FairSpec
INVARIANTS
  CacheAgrees
  DaysAreStuck
  NothingLeftToSplit
  SeparatorsMinimal
  LcaAgrees
  CompleteIffADS
PROPERTIES
  Terminates
\* The function returns and nothing more happens.
CHECK_DEADLOCK FALSE
