CONSTANTS
  N = 5
  P = 2
  Q = 10
  start = 0
  Options <- AllOptions
  Machines <- Graphs
SPECIFICATION SearchSpec
INVARIANTS
  ReachTypeOK
  IsReachablePart
  NumberedBreadthFirst
  TypeOK
  WordsLeadThere
  WordsFormTree
  EveryStateHasWord
  WordsAreLeast
\* Both functions return and nothing more happens.
CHECK_DEADLOCK FALSE
