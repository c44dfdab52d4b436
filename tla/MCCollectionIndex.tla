------------------------- MODULE MCCollectionIndex -------------------------
(* Small instances of CollectionIndex for TLC.                             *)
EXTENDS CollectionIndex, TLC

CONSTANTS n1, n2, n3, i1, i2

Nodes       == {n1, n2, n3}
Ids         == {i1, i2}
NoLiberties == {}
AnyStates   == {"states"}
Symmetry    == Permutations(Node) \cup Permutations(Id)

=============================================================================
