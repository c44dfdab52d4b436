------------------------------ MODULE TreeNode ------------------------------
(***************************************************************************)
(* OAF::CTreeNode (libs/liboaf-std/src/CTreeNode.cpp): the nodes of a      *)
(* DOM-like tree, linked by raw pointers and kept alive by the reference   *)
(* counts of OAF::CUnknown.                                                *)
(*                                                                         *)
(* A parent owns one reference to each of its children, a proxy node owns  *)
(* one to the node it stands for, and the clients own `held' references    *)
(* (live OAF::URef values).  Everything else is a plain pointer, so the    *)
(* links must be exact at the moment an object is deleted.                 *)
(*                                                                         *)
(* One action per method.  Two methods take several steps, during which    *)
(* no other client call runs: replaceChild, which inserts and then         *)
(* removes, and the deletion of an object, whose destructor may delete     *)
(* further objects (`dying' is what remains to be deleted).                *)
(*                                                                         *)
(* Proxy classes are external: createFromObject finds them in the class    *)
(* registry.  Here a proxy is a node with m_object; that it mirrors the    *)
(* children of its object is the subject of module CollectionProxy.        *)
(***************************************************************************)
EXTENDS Naturals, FiniteSets

CONSTANTS
    Node,       \* addresses at which a node can be allocated
    Null,       \* the NULL pointer
    MaxHeld,    \* bound: references that clients keep to one node
    Cautious    \* TRUE: clients never insert a node into what it owns

ASSUME NodeAssumption == IsFiniteSet(Node) /\ Null \notin Node
ASSUME BoundAssumption == MaxHeld \in Nat /\ Cautious \in BOOLEAN

VARIABLES
    alive,          \* CUnknown::m_objects
    m_parent, m_prev, m_next, m_first_child, m_last_child,
    m_object,       \* the node a proxy stands for, Null for other nodes
    m_refs,         \* CUnknown::m_refs
    held,           \* URef values kept by clients
    dying,          \* objects whose `delete this' is under way
    call            \* the _old of a replaceChild between its two halves

links == <<m_parent, m_prev, m_next, m_first_child, m_last_child>>
vars  == <<alive, links, m_object, m_refs, held, dying, call>>

NodeOrNull == Node \cup {Null}

-----------------------------------------------------------------------------
(* Navigation.                                                             *)

\* The nodes that a walk from `start' along the pointer `step' visits: the
\* least set with `start' that is closed under `step'.
Visited(start, step) ==
    {n \in Node : \A S \in SUBSET Node :
        (/\ start \in S \cup {Null}
         /\ \A m \in S : step[m] \in S \cup {Null}) => n \in S}

\* for (n = firstChild (); n; n = n->nextSibling ())
Children(p) == Visited(m_first_child[p], m_next)

\* for (p = n->parent (); p; p = p->parent ())
Ancestors(n) == Visited(m_parent[n], m_parent)

\* What n keeps alive, n included.
Owned(n) ==
    {m \in Node : \A S \in SUBSET Node :
        (/\ n \in S
         /\ \A x \in Node : (m_parent[x] \in S => x \in S)
         /\ \A x \in S : m_object[x] \in S \cup {Null}) => m \in S}

\* A proxy passed to an insertion is replaced by the node it stands for.
Unwrap(n) == IF m_object[n] # Null THEN m_object[n] ELSE n

-----------------------------------------------------------------------------
(* CUnknown and URef.                                                      *)

Idle == dying = {} /\ call = Null

\* A new object has no references yet.
New(n) ==
    /\ Idle
    /\ n \notin alive
    /\ alive' = alive \cup {n}
    /\ UNCHANGED <<links, m_object, m_refs, held, dying, call>>

\* A client captures a URef: it navigated to n, or keeps what a call returned.
Capture(n) ==
    /\ Idle
    /\ n \in alive
    /\ held[n] < MaxHeld
    /\ m_refs' = [m_refs EXCEPT ![n] = @ + 1]
    /\ held' = [held EXCEPT ![n] = @ + 1]
    /\ UNCHANGED <<alive, links, m_object, dying, call>>

\* Dropping the last reference deletes the object.
Unref(n) ==
    /\ m_refs' = [m_refs EXCEPT ![n] = IF @ = 0 THEN 0 ELSE @ - 1]
    /\ dying' = IF m_refs[n] <= 1 THEN dying \cup {n} ELSE dying

Release(n) ==
    /\ Idle
    /\ held[n] > 0
    /\ held' = [held EXCEPT ![n] = @ - 1]
    /\ Unref(n)
    /\ UNCHANGED <<alive, links, m_object, call>>

-----------------------------------------------------------------------------
(* Insertion.                                                              *)

\* Fault: inserting before the first child leaves m_first_child alone.
LinkBefore_OldFirst(p, n, ref) ==
    LET next == IF ref # Null THEN ref ELSE m_first_child[p]
        prev == IF ref # Null THEN m_prev[ref] ELSE Null
    IN  /\ m_prev' = [x \in Node |-> IF x = next THEN n
                                     ELSE IF x = n /\ ref # Null THEN prev
                                     ELSE m_prev[x]]
        /\ m_next' = [x \in Node |-> IF x = prev THEN n
                                     ELSE IF x = n /\ next # Null THEN next
                                     ELSE m_next[x]]
        /\ m_first_child' = [m_first_child EXCEPT ![p] =
                                IF next = Null THEN n ELSE @]
        /\ m_last_child' = [m_last_child EXCEPT ![p] =
                                IF next = Null THEN n ELSE @]
        /\ m_parent' = [m_parent EXCEPT ![n] = p]

LinkBefore(p, n, ref) ==
    LET next == IF ref # Null THEN ref ELSE m_first_child[p]
        prev == IF ref # Null THEN m_prev[ref] ELSE Null
    IN  /\ m_prev' = [x \in Node |-> IF x = next THEN n
                                     ELSE IF x = n /\ ref # Null THEN prev
                                     ELSE m_prev[x]]
        /\ m_next' = [x \in Node |-> IF x = prev THEN n
                                     ELSE IF x = n /\ next # Null THEN next
                                     ELSE m_next[x]]
        /\ m_first_child' = [m_first_child EXCEPT ![p] =
                                IF prev = Null THEN n ELSE @]
        /\ m_last_child' = [m_last_child EXCEPT ![p] =
                                IF next = Null THEN n ELSE @]
        /\ m_parent' = [m_parent EXCEPT ![n] = p]

LinkAfter(p, n, ref) ==
    LET prev == IF ref # Null THEN ref ELSE m_last_child[p]
        next == IF ref # Null THEN m_next[ref] ELSE Null
    IN  /\ m_next' = [x \in Node |-> IF x = prev THEN n
                                     ELSE IF x = n /\ ref # Null THEN next
                                     ELSE m_next[x]]
        /\ m_prev' = [x \in Node |-> IF x = next THEN n
                                     ELSE IF x = n /\ prev # Null THEN prev
                                     ELSE m_prev[x]]
        /\ m_last_child' = [m_last_child EXCEPT ![p] =
                                IF next = Null THEN n ELSE @]
        /\ m_first_child' = [m_first_child EXCEPT ![p] =
                                IF prev = Null THEN n ELSE @]
        /\ m_parent' = [m_parent EXCEPT ![n] = p]

Sides == {"before", "after"}

\* Fault: insertAfter with a _ref inserts before it.
Link_AlwaysBefore(p, n, ref, side) ==
    IF side = "before" \/ ref # Null THEN LinkBefore(p, n, ref) ELSE LinkAfter(p, n, ref)

Link(p, n, ref, side) ==
    IF side = "before" THEN LinkBefore(p, n, ref) ELSE LinkAfter(p, n, ref)

\* What the assertions of insertBefore and insertAfter ask for, and that the
\* client calls the method of an object that somebody references.
CanInsert(p, new, ref) ==
    /\ p \in alive /\ m_refs[p] > 0
    /\ new \in alive
    /\ ref # Null => m_parent[ref] = p
    /\ Cautious => p \notin Owned(Unwrap(new))

\* createFromObject made the proxy px of n.
NewProxy(px, n) ==
    /\ px \notin alive
    /\ alive' = alive \cup {px}
    /\ m_object' = [m_object EXCEPT ![px] = n]

\* Fault: the tree keeps the node without taking a reference.
InsertNode_NoRef(p, n, ref, side) ==
    /\ m_parent[n] = Null
    /\ Link(p, n, ref, side)
    /\ UNCHANGED <<alive, m_object, m_refs, held, dying>>

InsertNode(p, n, ref, side) ==
    /\ m_parent[n] = Null
    /\ Link(p, n, ref, side)
    /\ m_refs' = [m_refs EXCEPT ![n] = @ + 1]
    /\ UNCHANGED <<alive, m_object, held, dying>>

InsertProxy(p, n, ref, side) ==
    /\ m_parent[n] # Null
    /\ n \notin Ancestors(n)
    /\ \E px \in Node :
        /\ NewProxy(px, n)
        /\ Link(p, px, ref, side)
        /\ m_refs' = [m_refs EXCEPT ![px] = 1, ![n] = @ + 1]
    /\ UNCHANGED <<held, dying>>

\* NULL is returned: n is its own ancestor, or no proxy could be made.
InsertNothing(n) ==
    /\ m_parent[n] # Null
    /\ UNCHANGED <<alive, links, m_object, m_refs, held, dying>>

Insert(p, n, ref, side) ==
    \/ InsertNode(p, n, ref, side)
    \/ InsertProxy(p, n, ref, side)
    \/ InsertNothing(n)

insertBefore(p, new, ref) ==
    /\ Idle
    /\ CanInsert(p, new, ref)
    /\ Insert(p, Unwrap(new), ref, "before")
    /\ UNCHANGED call

insertAfter(p, new, ref) ==
    /\ Idle
    /\ CanInsert(p, new, ref)
    /\ Insert(p, Unwrap(new), ref, "after")
    /\ UNCHANGED call

\* appendChild (new) is insertAfter (new, NULL).

-----------------------------------------------------------------------------
(* Removal.                                                                *)

\* Fault: the removed node keeps its previous sibling.
Unlink_KeepsPrev(p, old) ==
    LET prev == m_prev[old]
        next == m_next[old]
    IN  /\ m_next' = [x \in Node |-> IF x = old THEN Null
                                     ELSE IF x = prev THEN next
                                     ELSE m_next[x]]
        /\ m_prev' = [m_prev EXCEPT ![old] = prev]
        /\ m_first_child' = [m_first_child EXCEPT ![p] =
                                IF prev = Null THEN next ELSE @]
        /\ m_last_child' = [m_last_child EXCEPT ![p] =
                                IF next = Null THEN prev ELSE @]
        /\ m_parent' = [m_parent EXCEPT ![old] = Null]

\* Fault: the removed node keeps its parent.
Unlink_KeepsParent(p, old) ==
    LET prev == m_prev[old]
        next == m_next[old]
    IN  /\ m_next' = [x \in Node |-> IF x = old THEN Null
                                     ELSE IF x = prev THEN next
                                     ELSE m_next[x]]
        /\ m_prev' = [x \in Node |-> IF x = old THEN Null
                                     ELSE IF x = next THEN prev
                                     ELSE m_prev[x]]
        /\ m_first_child' = [m_first_child EXCEPT ![p] =
                                IF prev = Null THEN next ELSE @]
        /\ m_last_child' = [m_last_child EXCEPT ![p] =
                                IF next = Null THEN prev ELSE @]
        /\ UNCHANGED m_parent

Unlink(p, old) ==
    LET prev == m_prev[old]
        next == m_next[old]
    IN  /\ m_next' = [x \in Node |-> IF x = old THEN Null
                                     ELSE IF x = prev THEN next
                                     ELSE m_next[x]]
        /\ m_prev' = [x \in Node |-> IF x = old THEN Null
                                     ELSE IF x = next THEN prev
                                     ELSE m_prev[x]]
        /\ m_first_child' = [m_first_child EXCEPT ![p] =
                                IF prev = Null THEN next ELSE @]
        /\ m_last_child' = [m_last_child EXCEPT ![p] =
                                IF next = Null THEN prev ELSE @]
        /\ m_parent' = [m_parent EXCEPT ![old] = Null]

\* The tree's reference goes; the returned one is kept by the caller or not.
Remove(p, old) ==
    /\ Unlink(p, old)
    /\ \/ /\ held[old] < MaxHeld
          /\ held' = [held EXCEPT ![old] = @ + 1]
          /\ UNCHANGED <<m_refs, dying>>
       \/ /\ Unref(old)
          /\ UNCHANGED held
    /\ UNCHANGED <<alive, m_object>>

removeChild(p, old) ==
    /\ Idle
    /\ p \in alive
    /\ m_parent[old] = p
    /\ Remove(p, old)
    /\ UNCHANGED call

\* replaceChild: the result of insertBefore is not looked at.
replaceChild(p, new, old) ==
    /\ Idle
    /\ old # Null
    /\ CanInsert(p, new, old)
    /\ Insert(p, Unwrap(new), old, "before")
    /\ call' = old

replaceChildEnd ==
    /\ call # Null
    /\ Remove(m_parent[call], call)
    /\ call' = Null

-----------------------------------------------------------------------------
(* Destruction: ~CTreeNode, and the URef m_object of a proxy.              *)

\* Fault: the destructor drops the references of the children twice.
Dropped_Twice(n, x) ==
    2 * (IF x \in Children(n) THEN 1 ELSE 0)
      + (IF x = m_object[n] THEN 1 ELSE 0)

\* Fault: a proxy does not release its object.
Dropped_KeepsObject(n, x) == IF x \in Children(n) THEN 1 ELSE 0

Dropped(n, x) ==
      (IF x \in Children(n) THEN 1 ELSE 0)
    + (IF x = m_object[n] THEN 1 ELSE 0)

\* Fault: the children of a deleted node keep their parent pointer.
Destroy_KeepsParent(n) ==
    LET kids == Children(n)
        Detach(f) == [x \in Node |-> IF x \in kids THEN Null ELSE f[x]]
    IN  /\ n \in dying
        /\ alive' = alive \ {n}
        /\ m_prev' = Detach(m_prev)
        /\ m_next' = Detach(m_next)
        /\ m_first_child' = [m_first_child EXCEPT ![n] = Null]
        /\ m_last_child' = [m_last_child EXCEPT ![n] = Null]
        /\ m_object' = [m_object EXCEPT ![n] = Null]
        /\ m_refs' = [x \in Node |-> m_refs[x] - Dropped(n, x)]
        /\ dying' = (dying \ {n}) \cup
                       {x \in Node : Dropped(n, x) > 0 /\ m_refs[x] = Dropped(n, x)}
        /\ UNCHANGED <<m_parent, held, call>>

Destroy(n) ==
    LET kids == Children(n)
        Detach(f) == [x \in Node |-> IF x \in kids THEN Null ELSE f[x]]
    IN  /\ n \in dying
        /\ alive' = alive \ {n}
        /\ m_parent' = Detach(m_parent)
        /\ m_prev' = Detach(m_prev)
        /\ m_next' = Detach(m_next)
        /\ m_first_child' = [m_first_child EXCEPT ![n] = Null]
        /\ m_last_child' = [m_last_child EXCEPT ![n] = Null]
        /\ m_object' = [m_object EXCEPT ![n] = Null]
        /\ m_refs' = [x \in Node |-> m_refs[x] - Dropped(n, x)]
        /\ dying' = (dying \ {n}) \cup
                       {x \in Node : Dropped(n, x) > 0 /\ m_refs[x] = Dropped(n, x)}
        /\ UNCHANGED <<held, call>>

-----------------------------------------------------------------------------
Init ==
    /\ alive = {}
    /\ m_parent = [n \in Node |-> Null]
    /\ m_prev = [n \in Node |-> Null]
    /\ m_next = [n \in Node |-> Null]
    /\ m_first_child = [n \in Node |-> Null]
    /\ m_last_child = [n \in Node |-> Null]
    /\ m_object = [n \in Node |-> Null]
    /\ m_refs = [n \in Node |-> 0]
    /\ held = [n \in Node |-> 0]
    /\ dying = {}
    /\ call = Null

Next ==
    \/ \E n \in Node : New(n) \/ Capture(n) \/ Release(n) \/ Destroy(n)
    \/ \E p, new \in Node :
        \/ \E ref \in NodeOrNull : \/ insertBefore(p, new, ref)
                                   \/ insertAfter(p, new, ref)
        \/ \E old \in Node : replaceChild(p, new, old)
    \/ \E p, old \in Node : removeChild(p, old)
    \/ replaceChildEnd

Spec == Init /\ [][Next]_vars

-----------------------------------------------------------------------------
(* Properties.                                                             *)

TypeOK ==
    /\ alive \subseteq Node
    /\ m_parent \in [Node -> NodeOrNull]
    /\ m_prev \in [Node -> NodeOrNull]
    /\ m_next \in [Node -> NodeOrNull]
    /\ m_first_child \in [Node -> NodeOrNull]
    /\ m_last_child \in [Node -> NodeOrNull]
    /\ m_object \in [Node -> NodeOrNull]
    /\ m_refs \in [Node -> Nat]
    /\ held \in [Node -> 0..MaxHeld]
    /\ dying \subseteq alive
    /\ call \in NodeOrNull

\* The sibling lists are well formed: next and prev are inverse to each other
\* within one parent, a detached node has no siblings, and a parent's first and
\* last child are exactly its children without previous and next sibling.
SiblingLinks ==
    \A n \in Node :
        /\ m_next[n] # Null =>
            m_prev[m_next[n]] = n /\ m_parent[m_next[n]] = m_parent[n]
        /\ m_prev[n] # Null =>
            m_next[m_prev[n]] = n /\ m_parent[m_prev[n]] = m_parent[n]
        /\ m_parent[n] = Null => m_prev[n] = Null /\ m_next[n] = Null

ChildLinks ==
    \A n \in Node :
        /\ m_first_child[n] # Null =>
            m_parent[m_first_child[n]] = n /\ m_prev[m_first_child[n]] = Null
        /\ m_last_child[n] # Null =>
            m_parent[m_last_child[n]] = n /\ m_next[m_last_child[n]] = Null
        /\ m_parent[n] # Null =>
            /\ m_prev[n] = Null => m_first_child[m_parent[n]] = n
            /\ m_next[n] = Null => m_last_child[m_parent[n]] = n
        /\ m_first_child[n] = Null <=> m_last_child[n] = Null

LinkInv == SiblingLinks /\ ChildLinks

\* No ring of siblings: every nonempty set of nodes has a member whose previous
\* (next) sibling is outside it.
NoSiblingRing ==
    \A S \in SUBSET Node : S # {} =>
        /\ \E n \in S : m_prev[n] \notin S
        /\ \E n \in S : m_next[n] \notin S

\* Walking from the first child along nextSibling (), or from the last along
\* previousSibling (), visits exactly the nodes whose parent () is p: the
\* destructor and every traversal rely on it.
ChildListsComplete ==
    \A p \in Node :
        /\ Visited(m_first_child[p], m_next) = {n \in Node : m_parent[n] = p}
        /\ Visited(m_last_child[p], m_prev) = {n \in Node : m_parent[n] = p}

Proxies(n) == {px \in Node : m_object[px] = n}

\* The reference count of a node is exactly what clients, its parent and its
\* proxies own: never too small (a deletion under somebody's feet) and never
\* too large (a leak).
RefCountExact ==
    \A n \in Node :
        m_refs[n] = held[n] + (IF m_parent[n] # Null THEN 1 ELSE 0)
                  + Cardinality(Proxies(n))

\* No pointer of the tree, and no client, refers to a deleted object, and what
\* is being deleted is referenced by nobody.
NoDangling ==
    /\ \A n \in Node :
        /\ m_parent[n] # Null => n \in alive /\ m_parent[n] \in alive
        /\ m_object[n] # Null => n \in alive /\ m_object[n] \in alive
        /\ m_first_child[n] # Null => n \in alive
        /\ m_refs[n] > 0 => n \in alive \ dying
    /\ \A n \in dying : m_parent[n] = Null

\* A replaceChild that is under way still has its node in the tree, and its
\* first half has deleted nothing.
ReplaceInv == call # Null => m_parent[call] # Null /\ dying = {}

\* The inductive invariant behind the theorems of TreeNodeProofs.
IInv ==
    /\ TypeOK
    /\ LinkInv
    /\ NoSiblingRing
    /\ RefCountExact
    /\ NoDangling
    /\ ReplaceInv

\* No node owns itself, through the children lists and the proxied objects.
NoOwnershipCycle ==
    \A n \in Node : \A m \in Node :
        (m_parent[m] = n \/ m_object[n] = m) => n \notin Owned(m)

\* Between calls, an object that was ever referenced is owned, directly or
\* not, by a reference of some client: nothing is left behind.
NoLeak ==
    Idle => \A n \in alive :
        m_refs[n] = 0 \/ \E h \in Node : held[h] > 0 /\ n \in Owned(h)

=============================================================================
