CONSTANTS
  N = 4
  P = 1
  Q = 2
  Options <- MinHopcroft
  Machines <- AllMachines
SPECIFICATION Spec
INVARIANTS
  MinimalOrderCompletes
\* The function returns and nothing more happens.
CHECK_DEADLOCK FALSE
