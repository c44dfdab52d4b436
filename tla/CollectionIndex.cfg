\* Three collections, two identifiers, vetoes at every level.
SPECIFICATION Spec
CONSTANTS
  n1 = n1
  n2 = n2
  n3 = n3
  i1 = i1
  i2 = i2
  Null = Null
  Unset = Unset
  Node <- Nodes
  Id <- Ids
  Liberties <- NoLiberties
SYMMETRY Symmetry
INVARIANTS TypeOK IndexExact AfterSeesIndex
