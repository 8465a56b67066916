SPECIFICATION Spec
CONSTANTS
  Nodes = {n1, n2, n3}
  MaxDegree = 2
  Lists <- ListsUpTo
INVARIANTS
  FindsDeadlocks
  CyclesAreReal
\* The walk ends.
CHECK_DEADLOCK FALSE
