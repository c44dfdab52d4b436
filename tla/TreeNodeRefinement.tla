------------------------- MODULE TreeNodeRefinement -------------------------
(***************************************************************************)
(* The pointer tree of TreeNode implements the ordered tree of OrderedTree *)
(* under the mapping that reads a child list off the sibling pointers.     *)
(***************************************************************************)
EXTENDS TreeNode, Sequences

Seqs == INSTANCE SequencesExt

\* The nodes that a walk from `first' along the pointer `next' visits, in order.
WalkFrom(first, next) ==
    LET at[i \in 1..Cardinality(Node)] ==
            IF i = 1 THEN first
            ELSE IF at[i - 1] = Null THEN Null ELSE next[at[i - 1]]
        visited == {i \in 1..Cardinality(Node) : at[i] # Null}
    IN  [i \in visited |-> at[i]]

\* The children of p in the order in which nextSibling () visits them.
ChildList(p) == WalkFrom(m_first_child[p], m_next)

\* The state of the ordered tree that the pointers stand for.
Kids == [p \in Node |-> ChildList(p)]

Abstract == INSTANCE OrderedTree WITH nodes <- alive, kids <- Kids

\* Every step of the pointer tree (one method, or the deletion of one object)
\* is one step of the ordered tree or leaves it alone.
RefinesOrderedTree == Abstract!Spec

PlaceOf(p, ref, side) ==
    LET list == ChildList(p)
        at == CHOOSE i \in DOMAIN list : list[i] = ref
    IN  CASE side = "before" /\ ref = Null -> 1
          [] side = "before" /\ ref # Null -> at
          [] side = "after" /\ ref = Null  -> Len(list) + 1
          [] side = "after" /\ ref # Null  -> at + 1

\* What comes in is the node itself, or a new proxy of it when it already has
\* a parent.
Placed(p, new, i) ==
    LET n == Unwrap(new)
        In(x) == ChildList(p)' = Seqs!InsertAt(ChildList(p), i, x)
    IN  IF m_parent[n] = Null THEN In(n)
        ELSE \E px \in Node : m_object'[px] = n /\ In(px)

\* ITreeNode::insertBefore and insertAfter: when they insert something, the new
\* child stands directly before (after) _ref, or at the front (end) when there
\* is no _ref, and the order of the other children stays as it was.
InsertsWhereAsked ==
    [][links' # links => \A p, new \in alive : \A ref \in NodeOrNull :
        /\ insertBefore(p, new, ref) => Placed(p, new, PlaceOf(p, ref, "before"))
        /\ insertAfter(p, new, ref) => Placed(p, new, PlaceOf(p, ref, "after"))]_vars

=============================================================================
