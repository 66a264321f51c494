CONSTANTS
  STANDARD_VECTOR_SIZE = 3
  InitialCapacity = 2
  GroupCapacity = 3
  TREE_FANOUT = 3
  Plans <- MCPlans
SPECIFICATION Spec
INVARIANT JoinsRight
INVARIANT RowsRight
INVARIANT QueryEnds
CHECK_DEADLOCK FALSE
