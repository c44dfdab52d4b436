\* Clients that rely on the cycle check of insertBefore and insertAfter.
SPECIFICATION Spec
CONSTANTS
  n1 = n1
  n2 = n2
  n3 = n3
  n4 = n4
  Null = Null
  Node <- ThreeNodes
  MaxHeld = 1
  Cautious = FALSE
SYMMETRY Symmetry
INVARIANT NoOwnershipCycle
