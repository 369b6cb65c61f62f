CONSTANTS
  N = 3
  P = 2
  Q = 3
  Options <- Shuffled
  Machines <- AllMachines
SPECIFICATION Spec
INVARIANTS
  TypeOK
  ChildrenPartition
  SeparatorSeparates
  SeparatorsValid
  QueueHoldsLeaves
  LeavesAreClasses
  CompleteIffADS
PROPERTIES
  RefinesPartition
\* The function returns and nothing more happens.
CHECK_DEADLOCK FALSE
