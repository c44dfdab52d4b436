------------------------------ MODULE TreeWalk ------------------------------
(***************************************************************************)
(* The static helpers of OAF::CTreeNode (libs/liboaf-std/src/              *)
(* CTreeNode.cpp): walking a tree with nextNode () and previousNode (),    *)
(* the nearest common container, the order of two nodes and the rows of    *)
(* children.  The checks range over every ordered forest of MaxNode nodes. *)
(*                                                                         *)
(* A forest is the function m_parent; siblings stand in the order of their *)
(* numbers, so the numbering stands for the sibling pointers that module   *)
(* TreeNode is about.  A client walks a subtree: after each node it goes   *)
(* on with nextNode (), entering the node or passing over its children.    *)
(***************************************************************************)
EXTENDS Integers, Sequences, FiniteSets

CONSTANTS
    MaxNode,    \* bound: number of nodes of a forest
    Rooted      \* TRUE: walks have a _root, FALSE: they pass NULL

ASSUME MaxNodeAssumption == MaxNode \in Nat \ {0} /\ Rooted \in BOOLEAN

VARIABLES
    m_parent,   \* the forest
    root,       \* _root of the walk
    node,       \* where the walk is: a node, Null at its end, or Crash
    trail,      \* the nodes it visited, in order
    passed      \* the nodes whose children it passed over

vars == <<m_parent, root, node, trail, passed>>

Node  == 1..MaxNode
Null  == 0
Crash == -1     \* a method was called on a NULL pointer

FF == INSTANCE FiniteSetsExt
Seqs == INSTANCE SequencesExt

-----------------------------------------------------------------------------
(* Pointers.                                                               *)

ChildrenOf(n) == {c \in Node : m_parent[c] = n}
Siblings(n)   == IF m_parent[n] = Null THEN {n} ELSE ChildrenOf(m_parent[n])
First(S)      == IF S = {} THEN Null ELSE FF!Min(S)
Last(S)       == IF S = {} THEN Null ELSE FF!Max(S)

firstChild(n)      == First(ChildrenOf(n))
lastChild(n)       == Last(ChildrenOf(n))
nextSibling(n)     == First({s \in Siblings(n) : s > n})
previousSibling(n) == Last({s \in Siblings(n) : s < n})

\* n, its parent, and so on up to the root.
Up(f) == LET up[n \in Node] == IF f[n] = Null THEN <<n>> ELSE <<n>> \o up[f[n]]
         IN  up
Chain(n) == Up(m_parent)[n]

Above(n)  == Seqs!ToSet(Chain(n))
Inside(r) == {n \in Node : r \in Above(n)}

Forest == {f \in [Node -> Node \cup {Null}] :
            \A S \in SUBSET Node : S # {} => \E n \in S : f[n] \notin S}

-----------------------------------------------------------------------------
(* The helpers.                                                            *)

root4node(n) == Seqs!Last(Chain(n))

\* Fault: only one level down.
lastChildNode_OneLevel(n) == IF lastChild(n) = Null THEN n ELSE lastChild(n)

lastChildNode(n) ==
    LET last[m \in Node] == IF lastChild(m) = Null THEN m ELSE last[lastChild(m)]
    IN  last[n]

firstChildNode(n) ==
    LET first[m \in Node] == IF firstChild(m) = Null THEN m ELSE first[firstChild(m)]
    IN  first[n]

\* Fault: the climb does not stop at _root.
NextAbove_PastRoot(n, r) ==
    LET climb[m \in Node \cup {Null}] ==
            IF m = Null THEN Null
            ELSE IF nextSibling(m) # Null THEN nextSibling(m)
            ELSE climb[m_parent[m]]
    IN  climb[m_parent[n]]

NextAbove(n, r) ==
    LET climb[m \in Node \cup {Null}] ==
            IF m = Null THEN Crash
            ELSE IF m = r THEN Null
            ELSE IF nextSibling(m) # Null THEN nextSibling(m)
            ELSE climb[m_parent[m]]
    IN  climb[m_parent[n]]

nextNode(n, r, deep) ==
    IF deep /\ firstChild(n) # Null THEN firstChild(n)
    ELSE IF n = r THEN Null
    ELSE IF nextSibling(n) # Null THEN nextSibling(n)
    ELSE NextAbove(n, r)

\* Fault: the walk back does not enter the previous sibling.
previousNode_Shallow(n, r, deep) ==
    IF n = r THEN Null
    ELSE IF previousSibling(n) # Null THEN previousSibling(n)
    ELSE m_parent[n]

previousNode(n, r, deep) ==
    IF n = r THEN Null
    ELSE IF previousSibling(n) # Null
         THEN IF deep THEN lastChildNode(previousSibling(n)) ELSE previousSibling(n)
    ELSE m_parent[n]

\* Fault: the two chains are compared without bringing them to one depth.
commonAncestorContainer_NoAlign(a, b) ==
    LET A == Chain(a)
        B == Chain(b)
        d == FF!Min({Len(A), Len(B)})
        same == {i \in 1..d : A[i] = B[i]}
    IN  CASE b \in Above(a) -> b
          [] a \in Above(b) -> a
          [] OTHER -> IF same = {} THEN Null ELSE A[FF!Min(same)]

commonAncestorContainer(a, b) ==
    LET A == Chain(a)
        B == Chain(b)
        d == FF!Min({Len(A), Len(B)})
        TailOf(s) == SubSeq(s, Len(s) - d + 1, Len(s))
        same == {i \in 1..d : TailOf(A)[i] = TailOf(B)[i]}
    IN  CASE b \in Above(a) -> b
          [] a \in Above(b) -> a
          [] OTHER -> IF same = {} THEN Null ELSE TailOf(A)[FF!Min(same)]

\* The child of c above n, or the root when c is not above n.
Branch(n, c) ==
    LET below == {x \in Above(n) : m_parent[x] \in {c, Null}}
    IN  CHOOSE x \in below : Cardinality(Above(x)) =
            FF!Max({Cardinality(Above(y)) : y \in below})

\* Fault: the branches are not sought, the nodes themselves are compared.
compare_NoBranch(a, b) ==
    CASE a = b -> 0
      [] m_parent[a] = Null \/ m_parent[b] = Null -> 0
      [] a \in Above(b) \/ b \in Above(a) -> 0
      [] OTHER -> IF a < b THEN -1 ELSE 1

compare(a, b) ==
    LET c == commonAncestorContainer(a, b)
        x == Branch(a, c)
        y == Branch(b, c)
    IN  CASE a = b -> 0
          [] m_parent[x] = Null \/ m_parent[y] = Null -> 0
          [] OTHER -> LET t == FF!Min({s \in ChildrenOf(m_parent[x]) : s \in {x, y}})
                      IN  IF t = x THEN -1 ELSE 1

\* F is the set of nodes that meet the condition _f.
childCount(p, F) == Cardinality(ChildrenOf(p) \cap F)

\* Fault: siblings that do not meet the condition are counted.
row4child_All(n, F) ==
    IF n \notin F THEN -1 ELSE Cardinality({s \in Siblings(n) : s < n})

row4child(n, F) ==
    IF n \notin F THEN -1
    ELSE Cardinality({s \in Siblings(n) : s < n} \cap F)

child4row(p, r, F) ==
    LET row == Seqs!SetToSortSeq(ChildrenOf(p) \cap F, <)
    IN  IF r \in 0..Len(row) - 1 THEN row[r + 1] ELSE Null

-----------------------------------------------------------------------------
(* A walk.                                                                 *)

Init ==
    /\ m_parent \in Forest
    /\ node \in Node
    /\ root \in IF Rooted THEN Above(node) ELSE {Null}
    /\ trail = <<node>>
    /\ passed = {}

Step(deep) ==
    /\ node \in Node
    /\ node' = nextNode(node, root, deep)
    /\ trail' = IF node' \in Node THEN Append(trail, node') ELSE trail
    /\ passed' = IF deep THEN passed ELSE passed \cup {node}
    /\ UNCHANGED <<m_parent, root>>

Next == \E deep \in BOOLEAN : Step(deep)

Spec == Init /\ [][Next]_vars

-----------------------------------------------------------------------------
(* Properties.                                                             *)

\* The reference: a node's path from its root; preorder is their dictionary
\* order.
Path(n) == Seqs!Reverse(Chain(n))

Precedes(a, b) ==
    LET A == Path(a)
        B == Path(b)
    IN  \/ a # b /\ a \in Above(b)
        \/ \E i \in 1..FF!Min({Len(A), Len(B)}) :
            /\ A[i] < B[i]
            /\ A[1] = B[1]
            /\ \A j \in 1..i - 1 : A[j] = B[j]

\* The nodes of the walk's subtree that stand in preorder between its start
\* and `upto', but not below a node that was passed over.
Expected(upto) ==
    {n \in IF Rooted THEN Inside(root) ELSE Inside(root4node(trail[1])) :
        /\ n = trail[1] \/ Precedes(trail[1], n)
        /\ upto \in Node => n = upto \/ Precedes(n, upto)
        /\ passed \cap (Above(n) \ {n}) = {}}

\* At every moment the walk has visited exactly the expected nodes, each once.
Forwards ==
    /\ Seqs!ToSet(trail) = Expected(node)
    /\ \A i, j \in 1..Len(trail) : i < j => Precedes(trail[i], trail[j])

\* previousNode () leads from any node that nextNode () has just entered to the
\* one before it.
Backwards ==
    node \in Node /\ nextNode(node, root, TRUE) \in Node =>
        previousNode(nextNode(node, root, TRUE), root, TRUE) = node

\* The other helpers depend on the forest alone, and the properties look at them
\* once for every forest, where a walk from its first node starts.
Fresh == trail = <<1>> /\ passed = {}

\* firstChildNode and lastChildNode are the first leaf of a subtree and its last
\* node.
Ends ==
    Fresh => \A r \in Node :
        /\ \A n \in Inside(r) \ {lastChildNode(r)} : Precedes(n, lastChildNode(r))
        /\ \A n \in Inside(r) : ChildrenOf(n) = {} =>
            n = firstChildNode(r) \/ Precedes(firstChildNode(r), n)

\* CTreeNode.h promises that nextNode () walks in preorder: it visits every node
\* of the subtree that is not passed over, once, never leaves _root and leaves
\* nothing out; previousNode () walks the same order backwards, and the walk ends
\* at the nodes that are said to be the ends.
WalksInPreorder == Forwards /\ Backwards /\ Ends

\* compare orders two nodes of one tree, neither inside the other, by preorder, and
\* says 0 of nodes of two trees; commonAncestorContainer, by which it does, returns
\* the deepest node that contains both, and NULL for nodes of two trees.
ComparesBranches ==
    Fresh => \A a, b \in Node :
        LET c == commonAncestorContainer(a, b)
        IN  /\ IF Above(a) \cap Above(b) = {} THEN c = Null
               ELSE c \in Node /\ Above(a) \cap Above(b) = Above(c)
            /\ a \notin Above(b) /\ b \notin Above(a) =>
                compare(a, b) = IF Precedes(a, b) THEN -1 ELSE IF Precedes(b, a) THEN 1 ELSE 0

\* row4child and child4row are inverse to each other, whatever the condition:
\* the proxies of collections find the mirrored child by its row.
RowsAreExact ==
    Fresh => \A F \in SUBSET Node : \A p \in Node :
        /\ \A n \in ChildrenOf(p) \cap F :
            /\ row4child(n, F) \in 0..childCount(p, F) - 1
            /\ child4row(p, row4child(n, F), F) = n
        /\ child4row(p, childCount(p, F), F) = Null

\* What CTreeNode.h says of a NULL _root: the walk goes through the whole tree,
\* so it ends like any other.
WholeTreeWalkEnds == node # Crash

=============================================================================
