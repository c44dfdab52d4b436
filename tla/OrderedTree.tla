----------------------------- MODULE OrderedTree -----------------------------
(***************************************************************************)
(* What OAF::ITreeNode promises (src/idl/ITreeNode.h): every node has an   *)
(* ordered list of children, a node is in at most one list, and a call     *)
(* changes one list in one place.  TreeNode implements it with pointers    *)
(* and reference counts.                                                   *)
(***************************************************************************)
EXTENDS Naturals, SequencesExt

CONSTANTS Node

VARIABLES
    nodes,      \* the nodes that exist
    kids        \* kids[p]: the children of p, in order

Init == nodes = {} /\ kids = [n \in Node |-> <<>>]

Attached(n) == \E p \in Node : n \in ToSet(kids[p])

Create(n) ==
    /\ n \notin nodes
    /\ nodes' = nodes \cup {n}
    /\ UNCHANGED kids

\* insertBefore, insertAfter, appendChild: the node, or a new proxy made for
\* it, becomes the i-th child.
Insert(p, n, i) ==
    /\ p \in nodes
    /\ ~ Attached(n)
    /\ nodes' = nodes \cup {n}
    /\ kids' = [kids EXCEPT ![p] = InsertAt(@, i, n)]

\* removeChild
Detach(p, i) ==
    /\ kids' = [kids EXCEPT ![p] = RemoveAt(@, i)]
    /\ UNCHANGED nodes

\* The last reference to a node that is in no list is gone.  Its children
\* stay as long as somebody else references them.
Delete(n) ==
    /\ n \in nodes
    /\ ~ Attached(n)
    /\ nodes' = nodes \ {n}
    /\ kids' = [kids EXCEPT ![n] = <<>>]

Next ==
    \/ \E n \in Node : Create(n) \/ Delete(n)
    \/ \E p, n \in Node : \E i \in 1..Len(kids[p]) + 1 : Insert(p, n, i)
    \/ \E p \in Node : \E i \in 1..Len(kids[p]) : Detach(p, i)

Spec == Init /\ [][Next]_<<nodes, kids>>

=============================================================================
