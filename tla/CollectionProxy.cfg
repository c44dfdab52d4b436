\* Three proxies of one object, two nodes, lists of up to three children.
SPECIFICATION Spec
CONSTANTS
  q1 = q1
  q2 = q2
  q3 = q3
  a = a
  b = b
  Proxy <- Proxies
  Item <- Items
  MaxKids = 3
  Vetoes <- ObjectVetoes
SYMMETRY Symmetry
INVARIANTS MirrorExact OneRowBehind
