----------------------------- MODULE MCTreeNode -----------------------------
(* Small instances of TreeNode for TLC.                                    *)
EXTENDS TreeNodeRefinement, TLC

CONSTANTS n1, n2, n3, n4

ThreeNodes == {n1, n2, n3}
FourNodes  == {n1, n2, n3, n4}
Symmetry   == Permutations(Node)

=============================================================================
