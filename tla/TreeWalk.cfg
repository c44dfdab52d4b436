\* Every walk through every forest of five nodes.  A walk ends.
SPECIFICATION Spec
CONSTANTS
  MaxNode = 5
  Rooted = TRUE
CHECK_DEADLOCK FALSE
INVARIANTS WalksInPreorder ComparesBranches RowsAreExact
