\* Safety of the pointer tree with four allocatable nodes.
SPECIFICATION Spec
CONSTANTS
  n1 = n1
  n2 = n2
  n3 = n3
  n4 = n4
  Null = Null
  Node <- FourNodes
  MaxHeld = 1
  Cautious = TRUE
SYMMETRY Symmetry
INVARIANTS TypeOK LinkInv ChildListsComplete RefCountExact NoDangling NoOwnershipCycle NoLeak
PROPERTIES RefinesOrderedTree InsertsWhereAsked
