--------------------------- MODULE TreeNodeProofs ---------------------------
(***************************************************************************)
(* Proofs about TreeNode, for any finite set of nodes, any MaxHeld and     *)
(* clients that are Cautious or not.                                       *)
(*                                                                         *)
(* IInv is inductive.  The links alone (LinkTypes, LinkInv, NoSiblingRing) *)
(* are preserved by the three operations on them: lemmas Link*Inv,         *)
(* Link*NoRing, Unlink* and step <1>15 of DestroyStep.  NoSiblingRing is   *)
(* what makes a child list finite without talking about sequences; from it *)
(* ChildrenLemma derives that the loop of the destructor reaches every     *)
(* child, which is what the reference counts of DestroyStep need.          *)
(*                                                                         *)
(* OwnInv adds to it, for Cautious clients, that nobody owns itself, from  *)
(* which it follows that nothing leaks.  ListInv adds that the list read   *)
(* from m_first_child along m_next has the children and nothing else; with *)
(* it each step is a step of OrderedTree (AbstractStep), which is the      *)
(* refinement of TreeNodeRefinement.                                       *)
(***************************************************************************)
EXTENDS TreeNodeRefinement, FiniteSetTheorems, SequenceTheorems,
        WellFoundedInduction, TLAPS

\* The types of the links alone.
LinkTypes ==
    /\ m_parent \in [Node -> NodeOrNull]
    /\ m_prev \in [Node -> NodeOrNull]
    /\ m_next \in [Node -> NodeOrNull]
    /\ m_first_child \in [Node -> NodeOrNull]
    /\ m_last_child \in [Node -> NodeOrNull]

\* Linking a detached node before ref (insertBefore) keeps the lists well formed.
LEMMA LinkBeforeInv ==
    ASSUME NEW p \in Node, NEW n \in Node, NEW ref \in NodeOrNull,
           LinkTypes, LinkInv,
           m_parent[n] = Null,
           ref # Null => m_parent[ref] = p,
           LinkBefore(p, n, ref)
    PROVE  LinkTypes' /\ LinkInv'
<1> USE NodeAssumption DEF NodeOrNull, LinkTypes
<1>1. LinkTypes'
  BY DEF LinkBefore
<1>2. SiblingLinks'
  BY <1>1 DEF LinkBefore, LinkInv, SiblingLinks, ChildLinks
<1>3. ChildLinks'
  BY <1>1 DEF LinkBefore, LinkInv, SiblingLinks, ChildLinks
<1>4. QED
  BY <1>1, <1>2, <1>3 DEF LinkInv

\* The same for insertAfter.
LEMMA LinkAfterInv ==
    ASSUME NEW p \in Node, NEW n \in Node, NEW ref \in NodeOrNull,
           LinkTypes, LinkInv,
           m_parent[n] = Null,
           ref # Null => m_parent[ref] = p,
           LinkAfter(p, n, ref)
    PROVE  LinkTypes' /\ LinkInv'
<1> USE NodeAssumption DEF NodeOrNull, LinkTypes
<1>1. LinkTypes'
  BY DEF LinkAfter
<1>2. SiblingLinks'
  BY <1>1 DEF LinkAfter, LinkInv, SiblingLinks, ChildLinks
<1>3. ChildLinks'
  BY <1>1 DEF LinkAfter, LinkInv, SiblingLinks, ChildLinks
<1>4. QED
  BY <1>1, <1>2, <1>3 DEF LinkInv

\* Unlinking a child (removeChild) keeps the lists well formed.
LEMMA UnlinkInv ==
    ASSUME NEW p \in Node, NEW old \in Node,
           LinkTypes, LinkInv, NoSiblingRing,
           m_parent[old] = p,
           Unlink(p, old)
    PROVE  LinkTypes' /\ LinkInv'
<1> USE NodeAssumption DEF NodeOrNull, LinkTypes
<1>1. LinkTypes'
  BY DEF Unlink
<1>0. m_prev[old] # old /\ m_next[old] # old
  <2>1. {old} \in SUBSET Node /\ {old} # {}
    OBVIOUS
  <2>2. QED
    BY <2>1 DEF NoSiblingRing
<1>2. SiblingLinks'
  BY <1>1, <1>0 DEF Unlink, LinkInv, SiblingLinks, ChildLinks
<1>3. ChildLinks'
  BY <1>1, <1>0 DEF Unlink, LinkInv, SiblingLinks, ChildLinks
<1>4. QED
  BY <1>1, <1>2, <1>3 DEF LinkInv

\* Linking before ref closes no ring: a set without a way out would have had
\* none before, with or without the new node.
LEMMA LinkBeforeNoRing ==
    ASSUME NEW p \in Node, NEW n \in Node, NEW ref \in NodeOrNull,
           LinkTypes, LinkInv, NoSiblingRing,
           m_parent[n] = Null,
           ref # Null => m_parent[ref] = p,
           LinkBefore(p, n, ref)
    PROVE  NoSiblingRing'
<1> USE NodeAssumption DEF NodeOrNull, LinkTypes
<1> SUFFICES ASSUME NEW S \in SUBSET Node, S # {}
             PROVE  /\ \E x \in S : m_prev'[x] \notin S
                    /\ \E x \in S : m_next'[x] \notin S
  BY DEF NoSiblingRing
<1> DEFINE R == S \ {n}
<1>1. \A x \in Node : m_prev[x] # n /\ m_next[x] # n
  BY DEF LinkInv, SiblingLinks
<1>2. m_prev[n] = Null /\ m_next[n] = Null
  BY DEF LinkInv, SiblingLinks
<1>3. CASE R = {}
  <2>1. S = {n}
    BY <1>3
  <2>2. m_prev'[n] # n /\ m_next'[n] # n
    BY <1>1, <1>2 DEF LinkBefore, LinkInv, SiblingLinks, ChildLinks
  <2>3. QED
    BY <2>1, <2>2
<1>4. CASE R # {}
  <2>1. PICK x \in R : m_prev[x] \notin R
    BY <1>4 DEF NoSiblingRing
  <2>2. PICK y \in R : m_next[y] \notin R
    BY <1>4 DEF NoSiblingRing
  <2>3. \E z \in S : m_prev'[z] \notin S
    BY <2>1, <1>1, <1>2 DEF LinkBefore, LinkInv, SiblingLinks, ChildLinks
  <2>4. \E z \in S : m_next'[z] \notin S
    BY <2>2, <1>1, <1>2 DEF LinkBefore, LinkInv, SiblingLinks, ChildLinks
  <2>5. QED
    BY <2>3, <2>4
<1>5. QED
  BY <1>3, <1>4

\* The same for insertAfter.
LEMMA LinkAfterNoRing ==
    ASSUME NEW p \in Node, NEW n \in Node, NEW ref \in NodeOrNull,
           LinkTypes, LinkInv, NoSiblingRing,
           m_parent[n] = Null,
           ref # Null => m_parent[ref] = p,
           LinkAfter(p, n, ref)
    PROVE  NoSiblingRing'
<1> USE NodeAssumption DEF NodeOrNull, LinkTypes
<1> SUFFICES ASSUME NEW S \in SUBSET Node, S # {}
             PROVE  /\ \E x \in S : m_prev'[x] \notin S
                    /\ \E x \in S : m_next'[x] \notin S
  BY DEF NoSiblingRing
<1> DEFINE R == S \ {n}
<1>1. \A x \in Node : m_prev[x] # n /\ m_next[x] # n
  BY DEF LinkInv, SiblingLinks
<1>2. m_prev[n] = Null /\ m_next[n] = Null
  BY DEF LinkInv, SiblingLinks
<1>3. CASE R = {}
  <2>1. S = {n}
    BY <1>3
  <2>2. m_prev'[n] # n /\ m_next'[n] # n
    BY <1>1, <1>2 DEF LinkAfter, LinkInv, SiblingLinks, ChildLinks
  <2>3. QED
    BY <2>1, <2>2
<1>4. CASE R # {}
  <2>1. PICK x \in R : m_prev[x] \notin R
    BY <1>4 DEF NoSiblingRing
  <2>2. PICK y \in R : m_next[y] \notin R
    BY <1>4 DEF NoSiblingRing
  <2>3. \E z \in S : m_prev'[z] \notin S
    BY <2>1, <1>1, <1>2 DEF LinkAfter, LinkInv, SiblingLinks, ChildLinks
  <2>4. \E z \in S : m_next'[z] \notin S
    BY <2>2, <1>1, <1>2 DEF LinkAfter, LinkInv, SiblingLinks, ChildLinks
  <2>5. QED
    BY <2>3, <2>4
<1>5. QED
  BY <1>3, <1>4

\* Unlinking closes no ring.
LEMMA UnlinkNoRing ==
    ASSUME NEW p \in Node, NEW old \in Node,
           LinkTypes, LinkInv, NoSiblingRing,
           m_parent[old] = p,
           Unlink(p, old)
    PROVE  NoSiblingRing'
<1> USE NodeAssumption DEF NodeOrNull, LinkTypes
<1> SUFFICES ASSUME NEW S \in SUBSET Node, S # {}
             PROVE  /\ \E x \in S : m_prev'[x] \notin S
                    /\ \E x \in S : m_next'[x] \notin S
  BY DEF NoSiblingRing
<1>1. CASE old \in S
  BY <1>1 DEF Unlink
<1>2. CASE old \notin S
  <2>1. PICK x \in S : m_prev[x] \notin S
    BY DEF NoSiblingRing
  <2>2. PICK y \in S : m_next[y] \notin S
    BY DEF NoSiblingRing
  <2>3. \E z \in S : m_prev'[z] \notin S
    <3> DEFINE R == S \cup {old}
    <3>0. R \in SUBSET Node /\ R # {}
      OBVIOUS
    <3>1. PICK z \in R : m_prev[z] \notin R
      BY <3>0 DEF NoSiblingRing
    <3>2. CASE z = old
      BY <1>2, <2>1, <3>1, <3>2 DEF Unlink, LinkInv, SiblingLinks
    <3>3. CASE z # old
      BY <1>2, <3>1, <3>3 DEF Unlink, LinkInv, SiblingLinks
    <3>4. QED
      BY <3>2, <3>3
  <2>4. \E z \in S : m_next'[z] \notin S
    <3> DEFINE R == S \cup {old}
    <3>0. R \in SUBSET Node /\ R # {}
      OBVIOUS
    <3>1. PICK z \in R : m_next[z] \notin R
      BY <3>0 DEF NoSiblingRing
    <3>2. CASE z = old
      BY <1>2, <2>2, <3>1, <3>2 DEF Unlink, LinkInv, SiblingLinks
    <3>3. CASE z # old
      BY <1>2, <3>1, <3>3 DEF Unlink, LinkInv, SiblingLinks
    <3>4. QED
      BY <3>2, <3>3
  <2>5. QED
    BY <2>3, <2>4
<1>3. QED
  BY <1>1, <1>2

\* Walking a child list, forwards or backwards, visits exactly the children.
LEMMA ChildrenLemma ==
    ASSUME LinkTypes, LinkInv, NoSiblingRing
    PROVE  ChildListsComplete
<1> USE NodeAssumption DEF NodeOrNull, LinkTypes
<1> SUFFICES ASSUME NEW p \in Node
             PROVE  /\ Visited(m_first_child[p], m_next) = {n \in Node : m_parent[n] = p}
                    /\ Visited(m_last_child[p], m_prev) = {n \in Node : m_parent[n] = p}
  BY DEF ChildListsComplete
<1> DEFINE C == {n \in Node : m_parent[n] = p}
<1>1. Visited(m_first_child[p], m_next) \subseteq C
  <2>1. m_first_child[p] \in C \cup {Null}
    BY DEF LinkInv, ChildLinks
  <2>2. \A m \in C : m_next[m] \in C \cup {Null}
    BY DEF LinkInv, SiblingLinks
  <2>3. QED
    BY <2>1, <2>2 DEF Visited
<1>2. C \subseteq Visited(m_first_child[p], m_next)
  <2> SUFFICES ASSUME NEW S \in SUBSET Node,
                      m_first_child[p] \in S \cup {Null},
                      \A m \in S : m_next[m] \in S \cup {Null},
                      C \ S # {}
               PROVE  FALSE
    BY DEF Visited
  <2>1. PICK x \in C \ S : m_prev[x] \notin C \ S
    BY DEF NoSiblingRing
  <2>2. CASE m_prev[x] = Null
    BY <2>1, <2>2 DEF LinkInv, ChildLinks
  <2>3. CASE m_prev[x] # Null
    BY <2>1, <2>3 DEF LinkInv, SiblingLinks
  <2>4. QED
    BY <2>2, <2>3
<1>3. Visited(m_last_child[p], m_prev) \subseteq C
  <2>1. m_last_child[p] \in C \cup {Null}
    BY DEF LinkInv, ChildLinks
  <2>2. \A m \in C : m_prev[m] \in C \cup {Null}
    BY DEF LinkInv, SiblingLinks
  <2>3. QED
    BY <2>1, <2>2 DEF Visited
<1>4. C \subseteq Visited(m_last_child[p], m_prev)
  <2> SUFFICES ASSUME NEW S \in SUBSET Node,
                      m_last_child[p] \in S \cup {Null},
                      \A m \in S : m_prev[m] \in S \cup {Null},
                      C \ S # {}
               PROVE  FALSE
    BY DEF Visited
  <2>1. PICK x \in C \ S : m_next[x] \notin C \ S
    BY DEF NoSiblingRing
  <2>2. CASE m_next[x] = Null
    BY <2>1, <2>2 DEF LinkInv, ChildLinks
  <2>3. CASE m_next[x] # Null
    BY <2>1, <2>3 DEF LinkInv, SiblingLinks
  <2>4. QED
    BY <2>2, <2>3
<1>5. QED
  BY <1>1, <1>2, <1>3, <1>4

\* What the rest of the proof needs to know about linking on either side.
LEMMA LinkStep ==
    ASSUME NEW p \in Node, NEW n \in Node, NEW ref \in NodeOrNull, NEW side,
           LinkTypes, LinkInv, NoSiblingRing,
           m_parent[n] = Null,
           ref # Null => m_parent[ref] = p,
           Link(p, n, ref, side)
    PROVE  /\ LinkTypes' /\ LinkInv' /\ NoSiblingRing'
           /\ m_parent' = [m_parent EXCEPT ![n] = p]
           /\ \A x \in Node : m_first_child'[x] # Null =>
                                 x = p \/ m_first_child[x] # Null
<1>1. CASE LinkBefore(p, n, ref)
  <2>1. LinkTypes' /\ LinkInv' /\ NoSiblingRing'
    BY <1>1, LinkBeforeInv, LinkBeforeNoRing
  <2>2. /\ m_parent' = [m_parent EXCEPT ![n] = p]
        /\ \A x \in Node : m_first_child'[x] # Null =>
                              x = p \/ m_first_child[x] # Null
    BY <1>1 DEF LinkBefore, LinkTypes
  <2>3. QED
    BY <2>1, <2>2
<1>2. CASE LinkAfter(p, n, ref)
  <2>1. LinkTypes' /\ LinkInv' /\ NoSiblingRing'
    BY <1>2, LinkAfterInv, LinkAfterNoRing
  <2>2. /\ m_parent' = [m_parent EXCEPT ![n] = p]
        /\ \A x \in Node : m_first_child'[x] # Null =>
                              x = p \/ m_first_child[x] # Null
    BY <1>2 DEF LinkAfter, LinkTypes
  <2>3. QED
    BY <2>1, <2>2
<1>3. QED
  BY <1>1, <1>2 DEF Link

\* A node has finitely many proxies.
LEMMA ProxyCount ==
    ASSUME m_object \in [Node -> NodeOrNull], NEW n \in Node
    PROVE  /\ IsFiniteSet(Proxies(n))
           /\ Cardinality(Proxies(n)) \in Nat
           /\ Cardinality(Proxies(n)) = 0 <=> Proxies(n) = {}
<1>1. Proxies(n) \in SUBSET Node
  BY DEF Proxies
<1>2. IsFiniteSet(Proxies(n))
  BY <1>1, FS_Subset, NodeAssumption
<1>3. QED
  BY <1>2, FS_CardinalityType, FS_EmptySet

\* The part of TypeOK that is about the links.
LEMMA TypeLinks == TypeOK => LinkTypes
BY DEF TypeOK, LinkTypes

\* insertBefore and insertAfter of a detached node.
LEMMA InsertNodeStep ==
    ASSUME IInv,
           NEW p \in Node, NEW n \in Node, NEW ref \in NodeOrNull, NEW side,
           p \in alive, m_refs[p] > 0, n \in alive, dying = {},
           ref # Null => m_parent[ref] = p,
           InsertNode(p, n, ref, side),
           call' \in NodeOrNull, call' # Null => m_parent[call'] # Null
    PROVE  IInv'
<1> USE NodeAssumption, BoundAssumption DEF NodeOrNull
<1>1. /\ LinkTypes' /\ LinkInv' /\ NoSiblingRing'
      /\ m_parent' = [m_parent EXCEPT ![n] = p]
      /\ \A x \in Node : m_first_child'[x] # Null =>
                            x = p \/ m_first_child[x] # Null
  BY LinkStep, TypeLinks DEF IInv, InsertNode
<1>2. TypeOK'
  BY <1>1 DEF IInv, InsertNode, TypeOK, LinkTypes
<1>3. RefCountExact'
  <2> SUFFICES ASSUME NEW x \in Node
               PROVE  m_refs'[x] = held'[x] + (IF m_parent'[x] # Null THEN 1 ELSE 0)
                                   + Cardinality(Proxies(x))'
    BY DEF RefCountExact
  <2>1. Proxies(x)' = Proxies(x)
    BY DEF InsertNode, Proxies
  <2>2. Cardinality(Proxies(x)) \in Nat
    BY ProxyCount DEF IInv, TypeOK
  <2>3. QED
    BY <1>1, <2>1, <2>2 DEF IInv, InsertNode, TypeOK, RefCountExact
<1>4. NoDangling'
  BY <1>1 DEF IInv, InsertNode, TypeOK, NoDangling
<1>5. ReplaceInv'
  BY <1>1 DEF IInv, TypeOK, ReplaceInv, InsertNode
<1>6. QED
  BY <1>1, <1>2, <1>3, <1>4, <1>5 DEF IInv

\* insertBefore and insertAfter of a node that is part of a tree: a fresh proxy
\* is linked and takes a reference to the node.
LEMMA InsertProxyStep ==
    ASSUME IInv,
           NEW p \in Node, NEW n \in Node, NEW ref \in NodeOrNull, NEW side,
           p \in alive, m_refs[p] > 0, dying = {},
           ref # Null => m_parent[ref] = p,
           InsertProxy(p, n, ref, side),
           call' \in NodeOrNull, call' # Null => m_parent[call'] # Null
    PROVE  IInv'
<1> USE NodeAssumption, BoundAssumption DEF NodeOrNull
<1>0. PICK px \in Node :
        /\ NewProxy(px, n)
        /\ Link(p, px, ref, side)
        /\ m_refs' = [m_refs EXCEPT ![px] = 1, ![n] = @ + 1]
  BY DEF InsertProxy
<1>a. /\ px \notin alive /\ m_parent[px] = Null /\ m_object[px] = Null
      /\ m_refs[px] = 0 /\ n \in alive /\ n # px /\ p # px
  BY <1>0 DEF NewProxy, InsertProxy, IInv, NoDangling, TypeOK
<1>1. /\ LinkTypes' /\ LinkInv' /\ NoSiblingRing'
      /\ m_parent' = [m_parent EXCEPT ![px] = p]
      /\ \A x \in Node : m_first_child'[x] # Null =>
                            x = p \/ m_first_child[x] # Null
  BY <1>0, <1>a, LinkStep, TypeLinks DEF IInv
<1>2. TypeOK'
  BY <1>0, <1>1 DEF IInv, InsertProxy, NewProxy, TypeOK, LinkTypes
<1>3. RefCountExact'
  <2> SUFFICES ASSUME NEW x \in Node
               PROVE  m_refs'[x] = held'[x] + (IF m_parent'[x] # Null THEN 1 ELSE 0)
                                   + Cardinality(Proxies(x))'
    BY DEF RefCountExact
  <2>1. Proxies(x)' = IF x = n THEN Proxies(x) \cup {px} ELSE Proxies(x)
    BY <1>0, <1>a DEF NewProxy, Proxies, IInv, TypeOK
  <2>2. px \notin Proxies(x)
    BY <1>a DEF Proxies
  <2>3. IsFiniteSet(Proxies(x)) /\ Cardinality(Proxies(x)) \in Nat
    BY ProxyCount DEF IInv, TypeOK
  <2>4. Cardinality(Proxies(x) \cup {px}) = Cardinality(Proxies(x)) + 1
    BY <2>2, <2>3, FS_AddElement
  <2>5. Cardinality(Proxies(x))' = Cardinality(Proxies(x)) + (IF x = n THEN 1 ELSE 0)
    BY <2>1, <2>3, <2>4
  <2>6. m_refs[x] = held[x] + (IF m_parent[x] # Null THEN 1 ELSE 0) + Cardinality(Proxies(x))
    BY DEF IInv, RefCountExact
  <2>7. held' = held
    BY DEF InsertProxy
  <2>8. QED
    BY <1>0, <1>1, <1>a, <2>3, <2>5, <2>6, <2>7 DEF IInv, TypeOK
<1>4. NoDangling'
  BY <1>0, <1>1, <1>a DEF IInv, InsertProxy, NewProxy, TypeOK, NoDangling
<1>5. ReplaceInv'
  BY <1>1 DEF IInv, TypeOK, ReplaceInv, InsertProxy
<1>6. QED
  BY <1>1, <1>2, <1>3, <1>4, <1>5 DEF IInv

\* removeChild, and the second half of replaceChild.
LEMMA RemoveStep ==
    ASSUME IInv,
           NEW old \in Node, m_parent[old] \in Node, dying = {},
           Remove(m_parent[old], old),
           call' = Null
    PROVE  IInv'
<1> USE NodeAssumption, BoundAssumption DEF NodeOrNull
<1> DEFINE p == m_parent[old]
<1>1. /\ LinkTypes' /\ LinkInv' /\ NoSiblingRing'
  BY UnlinkInv, UnlinkNoRing, TypeLinks DEF IInv, Remove
<1>2. /\ m_parent' = [m_parent EXCEPT ![old] = Null]
      /\ \A x \in Node : m_first_child'[x] # Null => m_first_child[x] # Null
  BY DEF Remove, Unlink, IInv, TypeOK, LinkInv, ChildLinks, SiblingLinks
<1>a. old \in alive /\ m_refs[old] > 0
  <2>1. Cardinality(Proxies(old)) \in Nat
    BY ProxyCount DEF IInv, TypeOK
  <2>2. QED
    BY <2>1 DEF IInv, TypeOK, NoDangling, RefCountExact
<1>3. TypeOK'
  BY <1>1, <1>2, <1>a DEF IInv, Remove, Unref, TypeOK, LinkTypes
<1>4. RefCountExact'
  <2> SUFFICES ASSUME NEW x \in Node
               PROVE  m_refs'[x] = held'[x] + (IF m_parent'[x] # Null THEN 1 ELSE 0)
                                   + Cardinality(Proxies(x))'
    BY DEF RefCountExact
  <2>1. Proxies(x)' = Proxies(x)
    BY DEF Remove, Proxies
  <2>2. Cardinality(Proxies(x)) \in Nat
    BY ProxyCount DEF IInv, TypeOK
  <2>3. QED
    BY <1>2, <1>a, <2>1, <2>2 DEF IInv, Remove, Unref, TypeOK, RefCountExact
<1>5. NoDangling'
  BY <1>2, <1>3, <1>a DEF IInv, Remove, Unref, TypeOK, NoDangling
<1>6. ReplaceInv'
  BY DEF ReplaceInv
<1>7. QED
  BY <1>1, <1>3, <1>4, <1>5, <1>6 DEF IInv

\* The destructor: it reaches every child, so nothing points to what is deleted.
LEMMA DestroyStep ==
    ASSUME IInv, NEW n \in Node, Destroy(n)
    PROVE  IInv'
<1> USE NodeAssumption, BoundAssumption DEF NodeOrNull
<1> DEFINE kids == {x \in Node : m_parent[x] = n}
           o == m_object[n]
<1>1. Children(n) = kids
  BY ChildrenLemma, TypeLinks DEF IInv, ChildListsComplete, Children
<1>2. /\ m_parent' = [x \in Node |-> IF x \in kids THEN Null ELSE m_parent[x]]
      /\ m_prev' = [x \in Node |-> IF x \in kids THEN Null ELSE m_prev[x]]
      /\ m_next' = [x \in Node |-> IF x \in kids THEN Null ELSE m_next[x]]
  BY <1>1 DEF Destroy
<1>3. \A x \in Node : Dropped(n, x) = (IF x \in kids THEN 1 ELSE 0) + (IF x = o THEN 1 ELSE 0)
  BY <1>1 DEF Dropped
<1>4. \A x \in Node : Cardinality(Proxies(x)) \in Nat
  BY ProxyCount DEF IInv, TypeOK
<1>5. m_refs[n] = 0 /\ m_parent[n] = Null /\ n \in alive
  BY DEF Destroy, IInv, TypeOK, NoDangling
<1>6. Proxies(n) = {} /\ held[n] = 0
  <2>1. held[n] = 0 /\ Cardinality(Proxies(n)) = 0
    BY <1>4, <1>5 DEF IInv, TypeOK, RefCountExact
  <2>2. QED
    BY <2>1, ProxyCount DEF IInv, TypeOK
<1>7. o # n /\ n \notin kids
  BY <1>5, <1>6 DEF Proxies
<1>8. \A x \in Node : Cardinality(Proxies(x))' =
                        Cardinality(Proxies(x)) - (IF x = o THEN 1 ELSE 0)
  <2> SUFFICES ASSUME NEW x \in Node
               PROVE  Cardinality(Proxies(x))' =
                        Cardinality(Proxies(x)) - (IF x = o THEN 1 ELSE 0)
    OBVIOUS
  <2>1. Proxies(x)' = Proxies(x) \ {n}
    BY DEF Proxies, Destroy, IInv, TypeOK
  <2>2. n \in Proxies(x) <=> x = o
    BY DEF Proxies
  <2>3. IsFiniteSet(Proxies(x)) /\ Cardinality(Proxies(x)) \in Nat
    BY ProxyCount DEF IInv, TypeOK
  <2>4. Cardinality(Proxies(x) \ {n}) =
          IF n \in Proxies(x) THEN Cardinality(Proxies(x)) - 1 ELSE Cardinality(Proxies(x))
    BY <2>3, FS_RemoveElement
  <2>5. QED
    BY <2>1, <2>2, <2>3, <2>4
<1>9. \A x \in Node : x = o => Cardinality(Proxies(x)) >= 1
  <2> SUFFICES ASSUME NEW x \in Node, x = o
               PROVE  Cardinality(Proxies(x)) >= 1
    OBVIOUS
  <2>1. n \in Proxies(x)
    BY DEF Proxies
  <2>2. QED
    BY <2>1, <1>4, ProxyCount DEF IInv, TypeOK
<1>10. \A x \in Node : /\ m_refs[x] = held[x] + (IF m_parent[x] # Null THEN 1 ELSE 0)
                                    + Cardinality(Proxies(x))
                       /\ m_refs'[x] = m_refs[x] - (IF x \in kids THEN 1 ELSE 0)
                                    - (IF x = o THEN 1 ELSE 0)
                       /\ held'[x] = held[x] /\ held[x] \in Nat
                       /\ x \in kids => m_parent[x] # Null
  BY <1>3 DEF IInv, RefCountExact, Destroy, TypeOK
<1>11. RefCountExact'
  <2> SUFFICES ASSUME NEW x \in Node
               PROVE  m_refs'[x] = held'[x] + (IF m_parent'[x] # Null THEN 1 ELSE 0)
                                   + Cardinality(Proxies(x))'
    BY DEF RefCountExact
  <2>1. m_parent'[x] = IF x \in kids THEN Null ELSE m_parent[x]
    BY <1>2
  <2>2. QED
    BY <2>1, <1>4, <1>8, <1>9, <1>10
<1>12. \A x \in Node : m_refs'[x] \in Nat
  BY <1>4, <1>9, <1>10
<1>13. \A x \in dying' : \/ x \in dying /\ x # n
                         \/ /\ x \in alive /\ x # n
                            /\ m_refs'[x] = 0 /\ m_parent'[x] = Null
                            /\ m_refs[x] > 0
  <2> SUFFICES ASSUME NEW x \in Node, Dropped(n, x) > 0, m_refs[x] = Dropped(n, x)
               PROVE  /\ x \in alive /\ x # n
                      /\ m_refs'[x] = 0 /\ m_parent'[x] = Null /\ m_refs[x] > 0
    BY DEF Destroy
  <2>1. x \in kids \/ x = o
    BY <1>3
  <2>2. x \in alive /\ x # n
    BY <2>1, <1>7 DEF IInv, NoDangling, TypeOK
  <2>3. m_refs'[x] = 0
    BY DEF Destroy, IInv, TypeOK
  <2>4. m_parent'[x] = Null
    <3>1. Cardinality(Proxies(x))' \in Nat
      BY <1>4, <1>8, <1>9
    <3>2. m_refs'[x] = held'[x] + (IF m_parent'[x] # Null THEN 1 ELSE 0)
                       + Cardinality(Proxies(x))'
      BY <1>11 DEF RefCountExact
    <3>3. QED
      BY <2>3, <3>1, <3>2, <1>10
  <2>5. QED
    BY <2>2, <2>3, <2>4 DEF IInv, TypeOK
<1>14. TypeOK'
  <2>1. m_refs' \in [Node -> Nat]
    BY <1>12 DEF Destroy
  <2>2. dying' \subseteq alive'
    BY <1>13 DEF Destroy, IInv, TypeOK
  <2>3. QED
    BY <1>2, <2>1, <2>2 DEF Destroy, IInv, TypeOK
<1>15. LinkInv'
  <2>1. SiblingLinks'
    BY <1>2, <1>5, <1>14 DEF IInv, TypeOK, LinkInv, SiblingLinks
  <2>2. ChildLinks'
    BY <1>2, <1>5, <1>14 DEF IInv, TypeOK, LinkInv, ChildLinks, SiblingLinks, Destroy
  <2>3. QED
    BY <2>1, <2>2 DEF LinkInv
<1>16. NoSiblingRing'
  <2> SUFFICES ASSUME NEW S \in SUBSET Node, S # {}
               PROVE  /\ \E x \in S : m_prev'[x] \notin S
                      /\ \E x \in S : m_next'[x] \notin S
    BY DEF NoSiblingRing
  <2>1. (\E x \in S : m_prev[x] \notin S) /\ (\E x \in S : m_next[x] \notin S)
    BY DEF IInv, NoSiblingRing
  <2>2. QED
    BY <1>2, <2>1
<1>17. NoDangling'
  <2>1. \A x \in Node : m_object'[x] # Null => x \in alive' /\ m_object'[x] \in alive'
    BY <1>6 DEF Destroy, IInv, NoDangling, TypeOK, Proxies
  <2>2. \A x \in Node : m_parent'[x] # Null => x \in alive' /\ m_parent'[x] \in alive'
    BY <1>2, <1>5 DEF Destroy, IInv, NoDangling, TypeOK
  <2>3. \A x \in Node : m_first_child'[x] # Null => x \in alive'
    BY DEF Destroy, IInv, NoDangling, TypeOK
  <2>4. \A x \in Node : m_refs'[x] > 0 => x \in alive' \ dying'
    <3> SUFFICES ASSUME NEW x \in Node, m_refs'[x] > 0
                 PROVE  x \in alive' \ dying'
      OBVIOUS
    <3>1. m_refs[x] > 0
      BY <1>10, <1>12 DEF IInv, TypeOK
    <3>2. x \in alive \ dying /\ x # n
      BY <3>1, <1>5 DEF IInv, NoDangling
    <3>3. x \notin dying'
      BY <3>2, <1>13
    <3>4. QED
      BY <3>2, <3>3 DEF Destroy
  <2>5. \A x \in dying' : m_parent'[x] = Null
    BY <1>13, <1>2 DEF IInv, NoDangling, TypeOK
  <2>6. QED
    BY <2>1, <2>2, <2>3, <2>4, <2>5 DEF NoDangling
<1>18. ReplaceInv'
  BY DEF Destroy, IInv, ReplaceInv
<1>19. QED
  BY <1>11, <1>14, <1>15, <1>16, <1>17, <1>18 DEF IInv

\* Every outcome of an insertion.
LEMMA InsertStep ==
    ASSUME IInv,
           NEW p \in Node, NEW new \in Node, NEW ref \in NodeOrNull, NEW side,
           dying = {}, CanInsert(p, new, ref),
           Insert(p, Unwrap(new), ref, side),
           call' \in NodeOrNull, call' # Null => m_parent[call'] # Null
    PROVE  IInv'
<1> USE NodeAssumption DEF NodeOrNull
<1>1. Unwrap(new) \in Node /\ Unwrap(new) \in alive
  BY DEF Unwrap, CanInsert, IInv, TypeOK, NoDangling
<1>2. /\ p \in alive /\ m_refs[p] > 0
      /\ ref # Null => m_parent[ref] = p
  BY DEF CanInsert
<1>3. CASE InsertNode(p, Unwrap(new), ref, side)
  BY <1>1, <1>2, <1>3, InsertNodeStep
<1>4. CASE InsertProxy(p, Unwrap(new), ref, side)
  BY <1>1, <1>2, <1>4, InsertProxyStep
<1>5. CASE InsertNothing(Unwrap(new))
  <2>1. TypeOK' /\ LinkInv' /\ NoSiblingRing' /\ RefCountExact'
    BY <1>5 DEF InsertNothing, links, IInv, TypeOK, LinkInv, SiblingLinks, ChildLinks,
                NoSiblingRing, RefCountExact, Proxies
  <2>2. NoDangling' /\ ReplaceInv'
    BY <1>5 DEF InsertNothing, links, IInv, NoDangling, ReplaceInv
  <2>3. QED
    BY <2>1, <2>2 DEF IInv
<1>6. QED
  BY <1>3, <1>4, <1>5 DEF Insert

\* new, and the construction and destruction of a URef.
LEMMA CountStep ==
    ASSUME IInv, NEW n \in Node, New(n) \/ Capture(n) \/ Release(n)
    PROVE  IInv'
<1> USE NodeAssumption, BoundAssumption DEF NodeOrNull
<1>1. UNCHANGED <<links, m_object, call>>
  BY DEF New, Capture, Release
<1>2. LinkInv' /\ NoSiblingRing'
  BY <1>1 DEF links, IInv, LinkInv, SiblingLinks, ChildLinks, NoSiblingRing
<1>3. \A x \in Node : /\ Cardinality(Proxies(x)) \in Nat
                      /\ Proxies(x)' = Proxies(x)
  BY <1>1, ProxyCount DEF IInv, TypeOK, Proxies
<1>4. CASE New(n)
  BY <1>1, <1>2, <1>3, <1>4
     DEF New, links, IInv, TypeOK, RefCountExact, NoDangling, ReplaceInv, Idle
<1>5. CASE Capture(n)
  <2>1. TypeOK'
    BY <1>1, <1>5 DEF Capture, links, IInv, TypeOK
  <2>2. RefCountExact'
    BY <1>1, <1>3, <1>5 DEF Capture, links, IInv, TypeOK, RefCountExact
  <2>3. NoDangling' /\ ReplaceInv'
    BY <1>1, <1>5 DEF Capture, links, IInv, TypeOK, NoDangling, ReplaceInv, Idle
  <2>4. QED
    BY <1>2, <2>1, <2>2, <2>3 DEF IInv
<1>6. CASE Release(n)
  <2>1. /\ m_refs[n] > 0 /\ n \in alive
        /\ m_refs[n] = 1 => m_parent[n] = Null
    BY <1>3, <1>6 DEF Release, IInv, TypeOK, RefCountExact, NoDangling
  <2>2. TypeOK'
    BY <1>1, <1>6, <2>1 DEF Release, Unref, links, IInv, TypeOK
  <2>3. RefCountExact'
    BY <1>1, <1>3, <1>6, <2>1 DEF Release, Unref, links, IInv, TypeOK, RefCountExact
  <2>4. NoDangling' /\ ReplaceInv'
    BY <1>1, <1>6, <2>1 DEF Release, Unref, links, IInv, TypeOK, NoDangling, ReplaceInv, Idle
  <2>5. QED
    BY <1>2, <2>2, <2>3, <2>4 DEF IInv
<1>7. QED
  BY <1>4, <1>5, <1>6

\* No object exists at first.
LEMMA InitInv == Init => IInv
<1> SUFFICES ASSUME Init PROVE IInv
  OBVIOUS
<1> USE NodeAssumption, BoundAssumption DEF NodeOrNull, Init
<1>1. TypeOK /\ LinkInv /\ NoDangling /\ ReplaceInv
  BY DEF TypeOK, LinkInv, SiblingLinks, ChildLinks, NoDangling, ReplaceInv
<1>2. NoSiblingRing
  BY DEF NoSiblingRing
<1>3. \A n \in Node : Proxies(n) = {}
  BY DEF Proxies
<1>4. RefCountExact
  BY <1>3, FS_EmptySet DEF RefCountExact
<1>5. QED
  BY <1>1, <1>2, <1>4 DEF IInv

\* Every step preserves the inductive invariant.
LEMMA NextInv == IInv /\ [Next]_vars => IInv'
<1> SUFFICES ASSUME IInv, [Next]_vars PROVE IInv'
  OBVIOUS
<1> USE NodeAssumption DEF NodeOrNull
<1>1. ASSUME NEW n \in Node, New(n) \/ Capture(n) \/ Release(n)
      PROVE  IInv'
  BY <1>1, CountStep
<1>2. ASSUME NEW n \in Node, Destroy(n)
      PROVE  IInv'
  BY <1>2, DestroyStep
<1>3. ASSUME NEW p \in Node, NEW new \in Node, NEW ref \in NodeOrNull,
             insertBefore(p, new, ref) \/ insertAfter(p, new, ref)
      PROVE  IInv'
  <2>1. dying = {} /\ call' = Null /\ CanInsert(p, new, ref)
    BY <1>3 DEF insertBefore, insertAfter, Idle
  <2>2. Insert(p, Unwrap(new), ref, "before") \/ Insert(p, Unwrap(new), ref, "after")
    BY <1>3 DEF insertBefore, insertAfter
  <2>3. QED
    BY <2>1, <2>2, InsertStep
<1>4. ASSUME NEW p \in Node, NEW new \in Node, NEW old \in Node,
             replaceChild(p, new, old)
      PROVE  IInv'
  <2>1. /\ dying = {} /\ CanInsert(p, new, old) /\ call' = old
        /\ Insert(p, Unwrap(new), old, "before")
    BY <1>4 DEF replaceChild, Idle
  <2>2. m_parent[old] # Null
    BY <2>1 DEF CanInsert
  <2>3. QED
    BY <2>1, <2>2, InsertStep
<1>5. ASSUME NEW p \in Node, NEW old \in Node, removeChild(p, old)
      PROVE  IInv'
  BY <1>5, RemoveStep DEF removeChild, Idle
<1>6. ASSUME replaceChildEnd
      PROVE  IInv'
  <2>1. call \in Node /\ m_parent[call] \in Node /\ dying = {}
    BY <1>6 DEF replaceChildEnd, IInv, TypeOK, ReplaceInv
  <2>2. QED
    BY <1>6, <2>1, RemoveStep DEF replaceChildEnd
<1>7. CASE UNCHANGED vars
  BY <1>7 DEF vars, links, IInv, TypeOK, LinkInv, SiblingLinks, ChildLinks, NoSiblingRing,
              RefCountExact, Proxies, NoDangling, ReplaceInv
<1>8. QED
  BY <1>1, <1>2, <1>3, <1>4, <1>5, <1>6, <1>7 DEF Next

\* The variables of the tree keep their types; in particular no reference count
\* of CUnknown goes below zero and only existing objects are deleted.
THEOREM TypeCorrect == Spec => []TypeOK
<1>1. IInv => TypeOK
  BY DEF IInv
<1>2. QED
  BY InitInv, NextInv, <1>1, PTL DEF Spec

\* The raw pointers of CTreeNode always form well formed sibling lists, whatever
\* sequence of insertBefore, insertAfter, removeChild, replaceChild and deletions ran.
THEOREM LinksConsistent == Spec => []LinkInv
<1>1. IInv => LinkInv
  BY DEF IInv
<1>2. QED
  BY InitInv, NextInv, <1>1, PTL DEF Spec

\* firstChild ()/nextSibling () and lastChild ()/previousSibling () enumerate
\* exactly the nodes whose parent () is the node.
THEOREM ListsComplete == Spec => []ChildListsComplete
<1>1. IInv => ChildListsComplete
  BY ChildrenLemma, TypeLinks DEF IInv
<1>2. QED
  BY InitInv, NextInv, <1>1, PTL DEF Spec

\* The reference counter of every node is exactly the number of its owners.
THEOREM CountsExact == Spec => []RefCountExact
<1>1. IInv => RefCountExact
  BY DEF IInv
<1>2. QED
  BY InitInv, NextInv, <1>1, PTL DEF Spec

\* No link, proxy or client ever refers to a deleted node.
THEOREM NothingDangles == Spec => []NoDangling
<1>1. IInv => NoDangling
  BY DEF IInv
<1>2. QED
  BY InitInv, NextInv, <1>1, PTL DEF Spec

-----------------------------------------------------------------------------
(* Ownership.  A reference that one node has to another is that of a       *)
(* parent to a child or of a proxy to its object.                          *)

Owns(x, y) == m_parent[y] = x \/ m_object[x] = y

\* No ring of owners: every nonempty set of nodes has a member that nobody in
\* it owns.
NoOwnershipRing ==
    \A S \in SUBSET Node : S # {} => \E n \in S : \A x \in S : ~ Owns(x, n)

\* A node without references owns nothing, unless it is about to be deleted.
OwnersReferenced ==
    \A x, y \in Node : Owns(x, y) => m_refs[x] > 0 \/ x \in dying

OwnInv == NoOwnershipRing /\ OwnersReferenced

\* Owned is the closure of Owns.
LEMMA OwnedMember ==
    ASSUME NEW n \in Node
    PROVE  n \in Owned(n)
  BY DEF Owned

LEMMA OwnedClosed ==
    ASSUME TypeOK, NEW n \in Node, NEW y \in Owned(n), NEW z \in Node, Owns(y, z)
    PROVE  z \in Owned(n)
<1> SUFFICES ASSUME NEW S \in SUBSET Node, n \in S,
                    \A x \in Node : (m_parent[x] \in S => x \in S),
                    \A x \in S : m_object[x] \in S \cup {Null}
             PROVE  z \in S
  BY DEF Owned
<1>1. y \in S
  BY DEF Owned
<1> QED
  BY <1>1, NodeAssumption DEF Owns

LEMMA OwnedLeast ==
    ASSUME TypeOK, NEW n \in Node, NEW S \in SUBSET Node, n \in S,
           \A y \in S, z \in Node : Owns(y, z) => z \in S
    PROVE  Owned(n) \subseteq S
<1>1. \A x \in Node : m_parent[x] \in S => x \in S
  BY DEF Owns
<1>2. \A x \in S : m_object[x] \in S \cup {Null}
  BY DEF Owns, TypeOK, NodeOrNull
<1> QED
  BY <1>1, <1>2 DEF Owned

\* A set without a ring keeps having none when fewer nodes own each other.
LEMMA FewerOwners ==
    ASSUME NoOwnershipRing, \A x, y \in Node : Owns(x, y)' => Owns(x, y)
    PROVE  NoOwnershipRing'
  BY DEF NoOwnershipRing

\* An owner p that n does not own closes no ring: outside what n owns, a set
\* with p in it has a member without an owner, and it is not n.
LEMMA NewOwner ==
    ASSUME TypeOK, NoOwnershipRing, NEW p \in Node, NEW n \in Node, p \notin Owned(n),
           \A x, y \in Node : Owns(x, y)' => Owns(x, y) \/ (x = p /\ y = n)
    PROVE  NoOwnershipRing'
<1> SUFFICES ASSUME NEW S \in SUBSET Node, S # {}
             PROVE  \E m \in S : \A x \in S : ~ Owns(x, m)'
  BY DEF NoOwnershipRing
<1>1. CASE p \notin S
  BY <1>1 DEF NoOwnershipRing
<1>2. CASE p \in S
  <2>1. PICK m \in S \ Owned(n) : \A x \in S \ Owned(n) : ~ Owns(x, m)
    BY <1>2 DEF NoOwnershipRing
  <2>2. \A x \in S : ~ Owns(x, m)
    BY <2>1, OwnedClosed
  <2>3. m # n
    BY <2>1, OwnedMember
  <2> QED
    BY <2>1, <2>2, <2>3
<1> QED
  BY <1>1, <1>2

\* The same when p comes to own n through a new proxy px.
LEMMA NewProxyOwner ==
    ASSUME TypeOK, NoOwnershipRing,
           NEW p \in Node, NEW n \in Node, NEW px \in Node, p \notin Owned(n), p # px, n # px,
           \A y \in Node : ~ Owns(y, px) /\ ~ Owns(px, y),
           \A x, y \in Node : Owns(x, y)' =>
              Owns(x, y) \/ (x = p /\ y = px) \/ (x = px /\ y = n)
    PROVE  NoOwnershipRing'
<1> SUFFICES ASSUME NEW S \in SUBSET Node, S # {}
             PROVE  \E m \in S : \A x \in S : ~ Owns(x, m)'
  BY DEF NoOwnershipRing
<1>1. CASE px \notin S
  BY <1>1 DEF NoOwnershipRing
<1>2. CASE px \in S /\ p \notin S
  BY <1>2
<1>3. CASE px \in S /\ p \in S
  <2>1. PICK m \in (S \ Owned(n)) \ {px} :
           \A x \in (S \ Owned(n)) \ {px} : ~ Owns(x, m)
    BY <1>3 DEF NoOwnershipRing
  <2>2. m # n /\ m # px
    BY <2>1, OwnedMember
  <2> QED
    BY <2>1, <2>2, OwnedClosed
<1> QED
  BY <1>1, <1>2, <1>3

\* An insertion by clients that do not put a node below what it owns.
LEMMA InsertOwners ==
    ASSUME IInv, OwnInv, Cautious,
           NEW p \in Node, NEW new \in Node, NEW ref \in NodeOrNull, NEW side,
           CanInsert(p, new, ref),
           Insert(p, Unwrap(new), ref, side)
    PROVE  OwnInv'
<1> DEFINE n == Unwrap(new)
<1> USE NodeAssumption DEF NodeOrNull
<1>1. /\ TypeOK /\ LinkTypes /\ LinkInv /\ NoSiblingRing
      /\ p \in alive /\ m_refs[p] > 0 /\ p \notin Owned(n)
      /\ n \in Node /\ n \in alive
      /\ ref # Null => m_parent[ref] = p
  BY TypeLinks DEF CanInsert, Unwrap, IInv, TypeOK, NoDangling
<1> HIDE DEF n
<1>2. CASE InsertNode(p, n, ref, side)
  <2>1. /\ m_parent' = [m_parent EXCEPT ![n] = p]
        /\ m_object' = m_object /\ dying' = dying
        /\ m_refs' = [m_refs EXCEPT ![n] = @ + 1]
    BY <1>1, <1>2, LinkStep DEF InsertNode
  <2>2. \A x, y \in Node : Owns(x, y)' => Owns(x, y) \/ (x = p /\ y = n)
    BY <1>1, <2>1 DEF Owns, TypeOK
  <2>3. NoOwnershipRing'
    BY <1>1, <2>2, NewOwner DEF OwnInv
  <2>4. OwnersReferenced'
    BY <1>1, <2>1, <2>2 DEF OwnInv, OwnersReferenced, TypeOK
  <2> QED
    BY <2>3, <2>4 DEF OwnInv
<1>3. CASE InsertProxy(p, n, ref, side)
  <2>1. PICK px \in Node : /\ NewProxy(px, n)
                           /\ Link(p, px, ref, side)
                           /\ m_refs' = [m_refs EXCEPT ![px] = 1, ![n] = @ + 1]
    BY <1>3 DEF InsertProxy
  <2>2. /\ px \notin alive /\ m_parent[px] = Null /\ p # px /\ n # px
        /\ \A y \in Node : ~ Owns(y, px) /\ ~ Owns(px, y)
        /\ m_object' = [m_object EXCEPT ![px] = n]
        /\ dying' = dying
    <3>1. px \notin alive /\ m_object' = [m_object EXCEPT ![px] = n] /\ dying' = dying
      BY <1>3, <2>1 DEF NewProxy, InsertProxy
    <3>2. p # px /\ n # px /\ m_parent[px] = Null /\ m_object[px] = Null
      BY <1>1, <3>1 DEF IInv, NoDangling
    <3>3. \A y \in Node : m_object[y] # px /\ m_parent[y] # px
      BY <3>1 DEF IInv, NoDangling
    <3> QED
      BY <3>1, <3>2, <3>3 DEF Owns
  <2>3. m_parent' = [m_parent EXCEPT ![px] = p]
    BY <1>1, <2>1, <2>2, LinkStep
  <2>4. \A x, y \in Node : Owns(x, y)' =>
           Owns(x, y) \/ (x = p /\ y = px) \/ (x = px /\ y = n)
    BY <1>1, <2>2, <2>3 DEF Owns, TypeOK
  <2>5. NoOwnershipRing'
    BY <1>1, <2>2, <2>4, NewProxyOwner DEF OwnInv
  <2>6. OwnersReferenced'
    BY <1>1, <2>1, <2>2, <2>4 DEF OwnInv, OwnersReferenced, TypeOK
  <2> QED
    BY <2>5, <2>6 DEF OwnInv
<1>4. CASE InsertNothing(n)
  BY <1>4 DEF InsertNothing, links, OwnInv, NoOwnershipRing, OwnersReferenced, Owns
<1> QED
  BY <1>2, <1>3, <1>4 DEF Insert, n

\* A removal, after which the node has a reference or is about to be deleted.
LEMMA RemoveOwners ==
    ASSUME IInv, OwnInv, NEW old \in Node, m_parent[old] \in Node,
           Remove(m_parent[old], old)
    PROVE  OwnInv'
<1>1. /\ m_parent' = [m_parent EXCEPT ![old] = Null]
      /\ m_object' = m_object
      /\ \/ UNCHANGED <<m_refs, dying>>
         \/ Unref(old)
  BY DEF Remove, Unlink
<1>2. \A x, y \in Node : Owns(x, y)' => Owns(x, y)
  BY <1>1, NodeAssumption DEF Owns, IInv, TypeOK
<1>3. NoOwnershipRing'
  BY <1>2, FewerOwners DEF OwnInv
<1>4. OwnersReferenced'
  BY <1>1, <1>2 DEF Unref, OwnInv, OwnersReferenced, IInv, TypeOK
<1> QED
  BY <1>3, <1>4 DEF OwnInv

\* A deletion: what is deleted owns nothing any more, and those that lose
\* their last reference with it follow.
LEMMA DestroyOwners ==
    ASSUME IInv, OwnInv, NEW n \in Node, Destroy(n)
    PROVE  OwnInv'
<1> USE NodeAssumption DEF NodeOrNull
<1>1. Children(n) = {x \in Node : m_parent[x] = n}
  BY ChildrenLemma, TypeLinks DEF IInv, ChildListsComplete, Children
<1>2. /\ m_parent' = [x \in Node |-> IF x \in Children(n) THEN Null ELSE m_parent[x]]
      /\ m_object' = [m_object EXCEPT ![n] = Null]
      /\ m_refs' = [x \in Node |-> m_refs[x] - Dropped(n, x)]
      /\ dying' = (dying \ {n}) \cup
                     {x \in Node : Dropped(n, x) > 0 /\ m_refs[x] = Dropped(n, x)}
  BY DEF Destroy
<1>3. \A x, y \in Node : Owns(x, y)' => Owns(x, y) /\ x # n
  BY <1>1, <1>2 DEF Owns, IInv, TypeOK
<1>4. NoOwnershipRing'
  BY <1>3, FewerOwners DEF OwnInv
<1>5. \A x \in Node : Dropped(n, x) \in Nat
  BY DEF Dropped
<1>6. m_refs' \in [Node -> Nat]
  BY DestroyStep DEF IInv, TypeOK
<1>7. OwnersReferenced'
  <2> SUFFICES ASSUME NEW x \in Node, NEW y \in Node, Owns(x, y)'
               PROVE  m_refs'[x] > 0 \/ x \in dying'
    BY DEF OwnersReferenced
  <2>1. x # n /\ (m_refs[x] > 0 \/ x \in dying)
    BY <1>3 DEF OwnInv, OwnersReferenced
  <2>2. CASE m_refs[x] = Dropped(n, x) /\ m_refs[x] > 0
    BY <1>2, <2>2
  <2>3. CASE m_refs[x] # Dropped(n, x) /\ m_refs[x] > 0
    <3>1. m_refs'[x] = m_refs[x] - Dropped(n, x) /\ m_refs'[x] \in Nat
      BY <1>2, <1>6
    <3> QED
      BY <1>5, <2>3, <3>1 DEF IInv, TypeOK
  <2>4. CASE x \in dying
    BY <1>2, <2>1, <2>4
  <2> QED
    BY <2>1, <2>2, <2>3, <2>4
<1> QED
  BY <1>4, <1>7 DEF OwnInv

\* Construction, and construction and destruction of a URef.
LEMMA CountOwners ==
    ASSUME IInv, OwnInv, NEW n \in Node, New(n) \/ Capture(n) \/ Release(n)
    PROVE  OwnInv'
<1>1. UNCHANGED <<links, m_object>>
  BY DEF New, Capture, Release
<1>2. \A x, y \in Node : Owns(x, y)' => Owns(x, y)
  BY <1>1 DEF Owns, links
<1>3. NoOwnershipRing'
  BY <1>2, FewerOwners DEF OwnInv
<1>4. OwnersReferenced'
  BY <1>2 DEF New, Capture, Release, Unref, OwnInv, OwnersReferenced, IInv, TypeOK
<1> QED
  BY <1>3, <1>4 DEF OwnInv

LEMMA OwnNext == IInv /\ OwnInv /\ Cautious /\ [Next]_vars => OwnInv'
<1> SUFFICES ASSUME IInv, OwnInv, Cautious, [Next]_vars PROVE OwnInv'
  OBVIOUS
<1> USE NodeAssumption DEF NodeOrNull
<1>1. ASSUME NEW n \in Node, New(n) \/ Capture(n) \/ Release(n)
      PROVE  OwnInv'
  BY <1>1, CountOwners
<1>2. ASSUME NEW n \in Node, Destroy(n)
      PROVE  OwnInv'
  BY <1>2, DestroyOwners
<1>3. ASSUME NEW p \in Node, NEW new \in Node, NEW ref \in NodeOrNull,
             insertBefore(p, new, ref) \/ insertAfter(p, new, ref)
      PROVE  OwnInv'
  BY <1>3, InsertOwners DEF insertBefore, insertAfter
<1>4. ASSUME NEW p \in Node, NEW new \in Node, NEW old \in Node,
             replaceChild(p, new, old)
      PROVE  OwnInv'
  BY <1>4, InsertOwners DEF replaceChild
<1>5. ASSUME NEW p \in Node, NEW old \in Node, removeChild(p, old)
      PROVE  OwnInv'
  BY <1>5, RemoveOwners DEF removeChild
<1>6. ASSUME replaceChildEnd
      PROVE  OwnInv'
  <2>1. call \in Node /\ m_parent[call] \in Node
    BY <1>6 DEF replaceChildEnd, IInv, TypeOK, ReplaceInv
  <2> QED
    BY <1>6, <2>1, RemoveOwners DEF replaceChildEnd
<1>7. CASE UNCHANGED vars
  BY <1>7 DEF vars, links, OwnInv, NoOwnershipRing, OwnersReferenced, Owns
<1> QED
  BY <1>1, <1>2, <1>3, <1>4, <1>5, <1>6, <1>7 DEF Next

LEMMA OwnInvariant == Cautious /\ Spec => [](IInv /\ OwnInv)
<1>1. Init => OwnInv
  BY NodeAssumption DEF Init, OwnInv, NoOwnershipRing, OwnersReferenced, Owns
<1>2. Cautious => Cautious'
  OBVIOUS
<1> QED
  BY <1>1, <1>2, InitInv, NextInv, OwnNext, PTL DEF Spec

\* If clients never insert a node into what it owns, then no node comes to own
\* itself, through lists of children, proxies or both in turn, in trees of any
\* size: the reference counts of CUnknown suffice to delete everything.
THEOREM NoNodeOwnsItself == Cautious /\ Spec => []NoOwnershipCycle
<1>1. IInv /\ OwnInv => NoOwnershipCycle
  <2> SUFFICES ASSUME IInv, OwnInv, NEW n \in Node, NEW m \in Node, Owns(n, m), n \in Owned(m)
               PROVE  FALSE
    BY DEF NoOwnershipCycle, Owns
  <2>1. Owned(m) \in SUBSET Node /\ m \in Owned(m)
    BY OwnedMember DEF Owned
  <2>2. PICK s \in Owned(m) : \A x \in Owned(m) : ~ Owns(x, s)
    BY <2>1 DEF OwnInv, NoOwnershipRing
  <2>3. s # m
    BY <2>2
  <2>4. Owned(m) \subseteq Owned(m) \ {s}
    <3>1. \A y \in Owned(m) \ {s}, z \in Node : Owns(y, z) => z \in Owned(m) \ {s}
      BY <2>2, OwnedClosed DEF IInv
    <3>2. m \in Owned(m) \ {s} /\ Owned(m) \ {s} \in SUBSET Node
      BY <2>1, <2>3
    <3> DEFINE S == Owned(m) \ {s}
    <3> HIDE DEF S
    <3>3. m \in S /\ S \in SUBSET Node /\ \A y \in S, z \in Node : Owns(y, z) => z \in S
      BY <3>1, <3>2 DEF S
    <3>4. Owned(m) \subseteq S
      BY <3>3, OwnedLeast DEF IInv
    <3> QED
      BY <3>4 DEF S
  <2> QED
    BY <2>2, <2>4
<1> QED
  BY <1>1, OwnInvariant, PTL

\* If clients never insert a node into what it owns, nothing is left behind:
\* between calls every object that was referenced is owned, directly or not,
\* by somebody's URef.
THEOREM NothingIsLeft == Cautious /\ Spec => []NoLeak
<1>1. IInv /\ OwnInv => NoLeak
  <2> SUFFICES ASSUME IInv, OwnInv, Idle
               PROVE  \A n \in alive :
                        m_refs[n] = 0 \/ \E h \in Node : held[h] > 0 /\ n \in Owned(h)
    BY DEF NoLeak
  <2> DEFINE Kept(n) == \E h \in Node : held[h] > 0 /\ n \in Owned(h)
             Left == {n \in alive : m_refs[n] # 0 /\ ~ Kept(n)}
  <2> SUFFICES ASSUME Left # {}
               PROVE  FALSE
    OBVIOUS
  <2>1. Left \in SUBSET Node
    BY DEF IInv, TypeOK
  <2>2. PICK n \in Left : \A x \in Left : ~ Owns(x, n)
    BY <2>1 DEF OwnInv, NoOwnershipRing
  <2>3. n \in Node /\ m_refs[n] # 0 /\ ~ Kept(n)
    BY <2>1, <2>2
  <2>4. held[n] = 0
    BY <2>3, OwnedMember, BoundAssumption DEF IInv, TypeOK
  <2>5. PICK x \in Node : Owns(x, n)
    <3>1. m_refs[n] = held[n] + (IF m_parent[n] # Null THEN 1 ELSE 0) + Cardinality(Proxies(n))
      BY <2>3 DEF IInv, RefCountExact
    <3>2. Proxies(n) # {} \/ m_parent[n] # Null
      BY <2>3, <2>4, <3>1, ProxyCount DEF IInv, TypeOK
    <3> QED
      BY <2>3, <3>2 DEF Owns, Proxies, IInv, TypeOK, NodeOrNull
  <2>6. x \in alive /\ m_refs[x] # 0
    <3>1. m_refs[x] > 0 \/ x \in dying
      BY <2>3, <2>5 DEF OwnInv, OwnersReferenced
    <3> QED
      BY <2>3, <2>5, <3>1, NodeAssumption DEF Idle, IInv, NoDangling, TypeOK
  <2>7. Kept(x)
    BY <2>2, <2>5, <2>6
  <2>8. Kept(n)
    BY <2>3, <2>5, <2>7, OwnedClosed DEF IInv
  <2> QED
    BY <2>3, <2>8
<1> QED
  BY <1>1, OwnInvariant, PTL

-----------------------------------------------------------------------------
(* Induction over natural numbers, as the smallest counterexample.         *)

Less == {ij \in Nat \X Nat : ij[1] < ij[2]}

LEMMA LeastNumber ==
    ASSUME NEW T \in SUBSET Nat, T # {}
    PROVE  \E i \in T : \A j \in T : i <= j
<1>1. IsWellFoundedOn(Less, Nat)
  BY NatLessThanWellFounded DEF OpToRel, Less
<1>2. PICK i \in T : \A j \in T : <<j, i>> \notin Less
  BY <1>1, WFMin
<1>3. ASSUME NEW j \in T
      PROVE  i <= j
  <2>1. <<j, i>> \in Nat \X Nat /\ <<j, i>>[1] = j /\ <<j, i>>[2] = i
    OBVIOUS
  <2>2. ~ j < i
    BY <1>2, <2>1 DEF Less
  <2> QED
    BY <2>2
<1> QED
  BY <1>3

-----------------------------------------------------------------------------
(* What a walk along the siblings reads.                                   *)

\* s are the nodes from `first' along `next', up to Null.
Reads(first, next, s) ==
    /\ s \in Seq(Node)
    /\ first = IF Len(s) = 0 THEN Null ELSE s[1]
    /\ \A i \in 1 .. Len(s) : next[s[i]] = IF i = Len(s) THEN Null ELSE s[i + 1]

\* The same, by index.
ReadsTo(first, next, s, n) ==
    /\ first = IF n = 0 THEN Null ELSE s[1]
    /\ \A i \in 1 .. n : /\ s[i] \in Node /\ s[i] # Null
                         /\ next[s[i]] = IF i = n THEN Null ELSE s[i + 1]

LEMMA ReadsByIndex ==
    ASSUME NEW first, NEW next, NEW s, Reads(first, next, s)
    PROVE  Len(s) \in Nat /\ s \in [1 .. Len(s) -> Node] /\ ReadsTo(first, next, s, Len(s))
<1>1. Len(s) \in Nat /\ s \in [1 .. Len(s) -> Node]
  BY LenProperties DEF Reads
<1>2. \A i \in 1 .. Len(s) : s[i] \in Node /\ s[i] # Null
  BY <1>1, NodeAssumption
<1> QED
  BY <1>1, <1>2 DEF Reads, ReadsTo

\* No node is read twice: the rest of the walk would be the same.
LEMMA ReadsOnceTo ==
    ASSUME NEW first, NEW next, NEW s, NEW n \in Nat, ReadsTo(first, next, s, n)
    PROVE  \A i, j \in 1 .. n : s[i] = s[j] => i = j
<1> DEFINE Twice(k) == \E i \in 1 .. n : i < k /\ s[i] = s[k]
           T == {k \in Nat : k < n /\ Twice(n - k)}
<1>2. ASSUME T # {}
      PROVE  FALSE
  <2>1. T \in SUBSET Nat
    OBVIOUS
  <2>2. PICK k \in T : \A l \in T : k <= l
    <3> HIDE DEF T
    <3> QED
      BY <1>2, <2>1, LeastNumber
  <2>3. k \in Nat /\ k < n /\ n - k \in 1 .. n
    BY <2>1, <2>2
  <2>4. PICK i \in 1 .. n : i < n - k /\ s[i] = s[n - k]
    BY <2>2
  <2>5. i + 1 \in 1 .. n /\ i # n
    BY <2>3, <2>4
  <2>6. next[s[i]] = s[i + 1] /\ s[i + 1] # Null
    BY <2>5 DEF ReadsTo
  <2>7. CASE k = 0
    BY <2>3, <2>4, <2>6, <2>7 DEF ReadsTo
  <2>8. CASE k # 0
    <3>1. n - k + 1 = n - (k - 1) /\ k - 1 \in Nat /\ k - 1 < n /\ n - k # n
      BY <2>3, <2>8
    <3>2. next[s[n - k]] = s[n - (k - 1)]
      BY <2>3, <3>1 DEF ReadsTo
    <3>3. i + 1 < n - (k - 1)
      BY <2>3, <2>4
    <3>4. Twice(n - (k - 1))
      BY <2>4, <2>5, <2>6, <3>2, <3>3
    <3>5. k - 1 \in T
      BY <3>1, <3>4
    <3>6. k <= k - 1
      BY <2>2, <3>5
    <3> QED
      BY <2>3, <3>6
  <2> QED
    BY <2>7, <2>8
<1>3. ASSUME NEW i \in 1 .. n, NEW j \in 1 .. n, s[i] = s[j], i < j
      PROVE  FALSE
  <2>1. n - j \in Nat /\ n - j < n /\ n - (n - j) = j
    OBVIOUS
  <2>2. Twice(n - (n - j))
    BY <1>3, <2>1
  <2>3. n - j \in T
    BY <2>1, <2>2
  <2> QED
    BY <1>2, <2>3
<1>4. \A i, j \in 1 .. n : s[i] = s[j] => i = j
  BY <1>3
<1> QED
  BY <1>4

LEMMA ReadsOnce ==
    ASSUME NEW first, NEW next, NEW s, Reads(first, next, s)
    PROVE  \A i, j \in 1 .. Len(s) : s[i] = s[j] => i = j
BY ReadsByIndex, ReadsOnceTo

LEMMA ReadsNoMore ==
    ASSUME NEW first, NEW next, NEW s, Reads(first, next, s)
    PROVE  Len(s) <= Cardinality(Node) /\ Len(s) \in Nat /\ Cardinality(Node) \in Nat
<1>1. /\ Len(s) \in Nat /\ s \in [1 .. Len(s) -> Node]
      /\ Cardinality(Node) \in Nat
  BY ReadsByIndex, FS_CardinalityType, NodeAssumption
<1>2. s \in Injection(1 .. Len(s), Node)
  BY <1>1, ReadsOnce DEF Injection, IsInjective
<1>3. Cardinality(1 .. Len(s)) <= Cardinality(Node)
  BY <1>2, FS_Injection, NodeAssumption
<1> QED
  BY <1>1, <1>3, FS_Interval

\* The walk of the model, in which a function is defined by recursion, reads what
\* is there to be read.
IsWalk(first, next, N, at) ==
    at = [i \in 1 .. N |->
            IF i = 1 THEN first
            ELSE IF at[i - 1] = Null THEN Null ELSE next[at[i - 1]]]

LEMMA WalkByIndex ==
    ASSUME NEW first, NEW next, NEW s, NEW n \in Nat, NEW N \in Nat, n <= N,
           NEW at, ReadsTo(first, next, s, n), IsWalk(first, next, N, at)
    PROVE  \A i \in 1 .. N : at[i] = IF i <= n THEN s[i] ELSE Null
<1> DEFINE T == {i \in 1 .. N : at[i] # IF i <= n THEN s[i] ELSE Null}
<1> SUFFICES ASSUME T # {}
             PROVE  FALSE
  OBVIOUS
<1>1. PICK i \in T : \A j \in T : i <= j
  <2>1. T \in SUBSET Nat
    OBVIOUS
  <2> HIDE DEF T
  <2> QED
    BY <2>1, LeastNumber
<1>2. i \in 1 .. N /\ at[i] # IF i <= n THEN s[i] ELSE Null
  BY <1>1
<1>3. i # 1
  BY <1>2 DEF ReadsTo, IsWalk
<1>4. i - 1 \in 1 .. N /\ i - 1 + 1 = i
  BY <1>2, <1>3
<1>5. at[i - 1] = IF i - 1 <= n THEN s[i - 1] ELSE Null
  <2>1. i - 1 \notin T
    BY <1>1, <1>2, <1>4
  <2> QED
    BY <1>4, <2>1
<1>6. at[i] = IF at[i - 1] = Null THEN Null ELSE next[at[i - 1]]
  BY <1>2, <1>3 DEF IsWalk
<1>7. CASE i - 1 <= n
  <2>1. i - 1 \in 1 .. n
    BY <1>4, <1>7
  <2>2. s[i - 1] # Null /\ next[s[i - 1]] = IF i - 1 = n THEN Null ELSE s[i]
    BY <1>4, <2>1 DEF ReadsTo
  <2>3. i - 1 = n <=> ~ i <= n
    BY <1>2, <1>7
  <2> QED
    BY <1>2, <1>5, <1>6, <1>7, <2>2, <2>3
<1>8. CASE ~ i - 1 <= n
  BY <1>2, <1>5, <1>6, <1>8
<1> QED
  BY <1>7, <1>8

LEMMA WalkReads ==
    ASSUME NEW first, NEW next, NEW s, Reads(first, next, s)
    PROVE  WalkFrom(first, next) = s
<1> DEFINE N == Cardinality(Node)
           n == Len(s)
           At(f) == [i \in 1 .. N |->
                       IF i = 1 THEN first
                       ELSE IF f[i - 1] = Null THEN Null ELSE next[f[i - 1]]]
           at == CHOOSE f : f = At(f)
           g == [i \in 1 .. N |-> IF i <= n THEN s[i] ELSE Null]
<1>1. /\ n \in Nat /\ N \in Nat /\ n <= N
      /\ s \in [1 .. n -> Node]
      /\ ReadsTo(first, next, s, n)
  BY ReadsNoMore, ReadsByIndex
<1>2. WalkFrom(first, next) = [i \in {i \in 1 .. N : at[i] # Null} |-> at[i]]
  BY DEF WalkFrom
<1> HIDE DEF n, N
<1>3. g = At(g)
  <2> SUFFICES ASSUME NEW i \in 1 .. N
               PROVE  g[i] = IF i = 1 THEN first
                             ELSE IF g[i - 1] = Null THEN Null ELSE next[g[i - 1]]
    OBVIOUS
  <2>1. \A j \in 1 .. N : g[j] = IF j <= n THEN s[j] ELSE Null
    OBVIOUS
  <2> HIDE DEF g
  <2>2. CASE i = 1
    BY <1>1, <2>1, <2>2 DEF ReadsTo
  <2>3. CASE i # 1
    <3>1. i - 1 \in 1 .. N /\ i - 1 + 1 = i
      BY <1>1, <2>3
    <3>2. CASE i - 1 <= n
      <4>1. i - 1 \in 1 .. n /\ (i - 1 = n <=> ~ i <= n)
        BY <1>1, <3>1, <3>2
      <4>2. s[i - 1] # Null /\ next[s[i - 1]] = IF i - 1 = n THEN Null ELSE s[i]
        BY <1>1, <3>1, <4>1 DEF ReadsTo
      <4> QED
        BY <2>1, <2>3, <3>1, <3>2, <4>1, <4>2
    <3>3. CASE ~ i - 1 <= n
      <4>1. ~ i <= n
        BY <1>1, <3>3
      <4> QED
        BY <2>1, <2>3, <3>1, <3>3, <4>1
    <3> QED
      BY <3>2, <3>3
  <2> QED
    BY <2>2, <2>3
<1>4. at = At(at)
  <2> HIDE DEF g, At
  <2> QED
    BY <1>3
<1>a. IsWalk(first, next, N, at)
  BY <1>4 DEF IsWalk
<1> HIDE DEF at
<1>5. \A i \in 1 .. N : at[i] = IF i <= n THEN s[i] ELSE Null
  BY <1>1, <1>a, WalkByIndex
<1>6. \A i \in 1 .. n : i \in 1 .. N /\ s[i] # Null
  BY <1>1 DEF ReadsTo
<1>7. {i \in 1 .. N : at[i] # Null} = 1 .. n
  <2>1. \A i \in 1 .. N : at[i] # Null <=> i <= n
    BY <1>5, <1>6
  <2>2. \A i \in 1 .. N : i <= n <=> i \in 1 .. n
    BY <1>1
  <2> QED
    BY <1>6, <2>1, <2>2
<1>8. \A i \in 1 .. n : at[i] = s[i]
  <2>1. \A i \in 1 .. n : i <= n
    BY <1>1
  <2> QED
    BY <1>5, <1>6, <2>1
<1>9. s = [i \in 1 .. n |-> s[i]]
  BY <1>1
<1> QED
  BY <1>2, <1>7, <1>8, <1>9

-----------------------------------------------------------------------------
(* Lists with a node more or less.                                         *)

LEMMA InsertAtProperties ==
    ASSUME NEW S, NEW s \in Seq(S), NEW i \in 1 .. Len(s) + 1, NEW e \in S
    PROVE  /\ Seqs!InsertAt(s, i, e) \in Seq(S)
           /\ Len(Seqs!InsertAt(s, i, e)) = Len(s) + 1
           /\ \A j \in 1 .. i - 1 : Seqs!InsertAt(s, i, e)[j] = s[j]
           /\ Seqs!InsertAt(s, i, e)[i] = e
           /\ \A j \in i + 1 .. Len(s) + 1 : Seqs!InsertAt(s, i, e)[j] = s[j - 1]
<1> DEFINE front == SubSeq(s, 1, i - 1) \o <<e>>
           back  == SubSeq(s, i, Len(s))
<1>1. Seqs!InsertAt(s, i, e) = front \o back /\ Len(s) \in Nat
  BY LenProperties DEF Seqs!InsertAt
<1>2. /\ SubSeq(s, 1, i - 1) \in Seq(S) /\ Len(SubSeq(s, 1, i - 1)) = i - 1
      /\ \A j \in 1 .. i - 1 : SubSeq(s, 1, i - 1)[j] = s[j]
  BY <1>1, SubSeqProperties, LenProperties
<1>3. /\ back \in Seq(S) /\ Len(back) = Len(s) - i + 1
      /\ \A j \in 1 .. Len(s) - i + 1 : back[j] = s[i + j - 1]
  BY <1>1, SubSeqProperties, LenProperties
<1>4. <<e>> \in Seq(S) /\ Len(<<e>>) = 1 /\ <<e>>[1] = e
  OBVIOUS
<1>5. /\ front \in Seq(S) /\ Len(front) = i - 1 + 1
      /\ \A j \in 1 .. i - 1 + 1 :
            front[j] = IF j <= i - 1 THEN SubSeq(s, 1, i - 1)[j] ELSE <<e>>[j - (i - 1)]
  BY <1>1, <1>2, <1>4, ConcatProperties
<1>6. /\ Len(front) = i
       /\ \A j \in 1 .. i - 1 : front[j] = s[j]
       /\ front[i] = e
  <2>1. i \in Int /\ i - 1 + 1 = i /\ i - (i - 1) = 1 /\ ~ i <= i - 1
    BY <1>1
  <2> QED
    BY <1>2, <1>4, <1>5, <2>1
<1> HIDE DEF front, back
<1>7. /\ front \o back \in Seq(S)
      /\ Len(front \o back) = Len(front) + Len(back)
      /\ \A j \in 1 .. Len(front) + Len(back) :
            (front \o back)[j] = IF j <= Len(front) THEN front[j] ELSE back[j - Len(front)]
  BY <1>3, <1>5, ConcatProperties
<1>8. Len(front) + Len(back) = Len(s) + 1
  BY <1>1, <1>3, <1>5
<1>9. \A j \in 1 .. i : (front \o back)[j] = front[j]
  BY <1>1, <1>6, <1>7, <1>8
<1>10. ASSUME NEW j \in i + 1 .. Len(s) + 1
      PROVE  (front \o back)[j] = s[j - 1]
  <2>1. j - i \in 1 .. Len(s) - i + 1 /\ i + (j - i) - 1 = j - 1 /\ ~ j <= i
    BY <1>1
  <2>2. (front \o back)[j] = back[j - i]
    BY <1>1, <1>5, <1>7, <1>8, <2>1
  <2> QED
    BY <1>3, <2>1, <2>2
<1> QED
  BY <1>1, <1>5, <1>7, <1>8, <1>9, <1>10

LEMMA RemoveAtProperties ==
    ASSUME NEW S, NEW s \in Seq(S), NEW i \in 1 .. Len(s)
    PROVE  /\ Seqs!RemoveAt(s, i) \in Seq(S)
           /\ Len(Seqs!RemoveAt(s, i)) = Len(s) - 1
           /\ \A j \in 1 .. i - 1 : Seqs!RemoveAt(s, i)[j] = s[j]
           /\ \A j \in i .. Len(s) - 1 : Seqs!RemoveAt(s, i)[j] = s[j + 1]
<1> DEFINE front == SubSeq(s, 1, i - 1)
           back  == SubSeq(s, i + 1, Len(s))
<1>1. Seqs!RemoveAt(s, i) = front \o back /\ Len(s) \in Nat
  BY LenProperties DEF Seqs!RemoveAt
<1>2. /\ front \in Seq(S) /\ Len(front) = i - 1
      /\ \A j \in 1 .. i - 1 : front[j] = s[j]
  BY <1>1, SubSeqProperties, LenProperties
<1>3. /\ back \in Seq(S) /\ Len(back) = Len(s) - i
      /\ \A j \in 1 .. Len(s) - i : back[j] = s[i + j]
  BY <1>1, SubSeqProperties, LenProperties
<1> HIDE DEF front, back
<1>4. /\ front \o back \in Seq(S)
      /\ Len(front \o back) = Len(front) + Len(back)
      /\ \A j \in 1 .. Len(front) + Len(back) :
            (front \o back)[j] = IF j <= Len(front) THEN front[j] ELSE back[j - Len(front)]
  BY <1>2, <1>3, ConcatProperties
<1>5. Len(front) + Len(back) = Len(s) - 1
  BY <1>1, <1>2, <1>3
<1>6. \A j \in 1 .. i - 1 : (front \o back)[j] = s[j]
  BY <1>1, <1>2, <1>4, <1>5
<1>7. ASSUME NEW j \in i .. Len(s) - 1
      PROVE  (front \o back)[j] = s[j + 1]
  <2>1. j - (i - 1) \in 1 .. Len(s) - i /\ i + (j - (i - 1)) = j + 1 /\ ~ j <= i - 1
    BY <1>1
  <2>2. (front \o back)[j] = back[j - (i - 1)]
    BY <1>1, <1>2, <1>4, <1>5, <2>1
  <2> QED
    BY <1>3, <2>1, <2>2
<1> QED
  BY <1>1, <1>4, <1>5, <1>6, <1>7

\* t is s with e in place i; first2 and next2 are the links that write it.
Inserting(first, next, s, n, i, e, first2, next2, t) ==
    /\ ReadsTo(first, next, s, n)
    /\ \A j \in 1 .. i - 1 : t[j] = s[j]
    /\ t[i] = e
    /\ \A j \in i + 1 .. n + 1 : t[j] = s[j - 1]
    /\ first2 = IF i = 1 THEN e ELSE first
    /\ next2[e] = IF i = n + 1 THEN Null ELSE s[i]
    /\ \A j \in 1 .. n : next2[s[j]] = IF j = i - 1 THEN e ELSE next[s[j]]

LEMMA ReadsInserted ==
    ASSUME NEW first, NEW next, NEW s, NEW n \in Nat, NEW i \in 1 .. n + 1, NEW e \in Node,
           NEW first2, NEW next2, NEW t,
           Inserting(first, next, s, n, i, e, first2, next2, t)
    PROVE  ReadsTo(first2, next2, t, n + 1)
<1>1. first2 = t[1]
  <2>1. CASE i = 1
    BY <2>1 DEF Inserting
  <2>2. CASE i # 1
    <3>1. 1 \in 1 .. i - 1 /\ n # 0
      BY <2>2
    <3> QED
      BY <2>2, <3>1 DEF Inserting, ReadsTo
  <2> QED
    BY <2>1, <2>2
<1>2. ASSUME NEW j \in 1 .. n + 1
      PROVE  t[j] \in Node /\ t[j] # Null /\ next2[t[j]] = IF j = n + 1 THEN Null ELSE t[j + 1]
  <2>1. CASE j < i - 1
    <3>1. j \in 1 .. n /\ j \in 1 .. i - 1 /\ j + 1 \in 1 .. i - 1 /\ j # n /\ j # n + 1 /\ j # i - 1
      BY <2>1
    <3> QED
      BY <3>1 DEF Inserting, ReadsTo
  <2>2. CASE j = i - 1
    <3>1. j \in 1 .. n /\ j \in 1 .. i - 1 /\ j + 1 = i /\ j # n + 1
      BY <2>2
    <3> QED
      BY <2>2, <3>1 DEF Inserting, ReadsTo
  <2>3. CASE j = i
    <3>1. i # n + 1 => i + 1 \in i + 1 .. n + 1 /\ i + 1 - 1 = i
      OBVIOUS
    <3>2. i # n + 1 => t[i + 1] = s[i]
      BY <3>1 DEF Inserting
    <3> QED
      BY <2>3, <3>2, NodeAssumption DEF Inserting
  <2>4. CASE j > i
    <3>1. /\ j \in i + 1 .. n + 1 /\ j - 1 \in 1 .. n /\ j - 1 # i - 1
          /\ j - 1 = n <=> j = n + 1
          /\ j # n + 1 => j + 1 \in i + 1 .. n + 1
          /\ j + 1 - 1 = j /\ (j - 1) + 1 = j
      BY <2>4
    <3>2. t[j] = s[j - 1] /\ (j # n + 1 => t[j + 1] = s[j])
      BY <3>1 DEF Inserting
    <3>3. next2[s[j - 1]] = next[s[j - 1]]
      BY <3>1 DEF Inserting
    <3>4. s[j - 1] \in Node /\ s[j - 1] # Null
          /\ next[s[j - 1]] = IF j - 1 = n THEN Null ELSE s[j]
      BY <3>1 DEF Inserting, ReadsTo
    <3> QED
      BY <3>1, <3>2, <3>3, <3>4
  <2> QED
    BY <2>1, <2>2, <2>3, <2>4
<1>3. n + 1 # 0
  OBVIOUS
<1> QED
  BY <1>1, <1>2, <1>3 DEF ReadsTo

\* t is s without its place i.
Removing(first, next, s, n, i, first2, next2, t) ==
    /\ ReadsTo(first, next, s, n)
    /\ \A j \in 1 .. i - 1 : t[j] = s[j]
    /\ \A j \in i .. n - 1 : t[j] = s[j + 1]
    /\ first2 = IF i = 1 THEN next[s[i]] ELSE first
    /\ \A j \in 1 .. n : j # i => next2[s[j]] = IF j = i - 1 THEN next[s[i]] ELSE next[s[j]]

LEMMA ReadsRemoved ==
    ASSUME NEW first, NEW next, NEW s, NEW n \in Nat, NEW i \in 1 .. n,
           NEW first2, NEW next2, NEW t,
           Removing(first, next, s, n, i, first2, next2, t)
    PROVE  ReadsTo(first2, next2, t, n - 1)
<1>0. next[s[i]] = IF i = n THEN Null ELSE s[i + 1]
  BY DEF Removing, ReadsTo
<1>1. first2 = IF n - 1 = 0 THEN Null ELSE t[1]
  <2>1. CASE i = 1
    <3>1. n - 1 = 0 <=> i = n
      BY <2>1
    <3>2. i # n => 1 \in i .. n - 1
      BY <2>1
    <3> QED
      BY <1>0, <2>1, <3>1, <3>2 DEF Removing
  <2>2. CASE i # 1
    <3>1. 1 \in 1 .. i - 1 /\ n - 1 # 0 /\ n # 0
      BY <2>2
    <3> QED
      BY <2>2, <3>1 DEF Removing, ReadsTo
  <2> QED
    BY <2>1, <2>2
<1>2. ASSUME NEW j \in 1 .. n - 1
      PROVE  t[j] \in Node /\ t[j] # Null /\ next2[t[j]] = IF j = n - 1 THEN Null ELSE t[j + 1]
  <2>1. CASE j < i - 1
    <3>1. /\ j \in 1 .. n /\ j \in 1 .. i - 1 /\ j + 1 \in 1 .. i - 1
          /\ j # n /\ j # n - 1 /\ j # i - 1 /\ j # i
      BY <2>1
    <3> QED
      BY <3>1 DEF Removing, ReadsTo
  <2>2. CASE j = i - 1
    <3>1. /\ j \in 1 .. n /\ j \in 1 .. i - 1 /\ j # i /\ j + 1 = i
          /\ j = n - 1 <=> i = n
          /\ i # n => i \in i .. n - 1
      BY <2>2
    <3>2. t[j] = s[j] /\ next2[s[j]] = next[s[i]] /\ (i # n => t[i] = s[i + 1])
      BY <2>2, <3>1 DEF Removing
    <3> QED
      BY <1>0, <3>1, <3>2 DEF Removing, ReadsTo
  <2>3. CASE j >= i
    <3>1. /\ j \in i .. n - 1 /\ j + 1 \in 1 .. n /\ j + 1 # i - 1 /\ j + 1 # i
          /\ j + 1 = n <=> j = n - 1
          /\ j # n - 1 => j + 1 \in i .. n - 1
      BY <2>3
    <3>2. t[j] = s[j + 1] /\ (j # n - 1 => t[j + 1] = s[j + 1 + 1])
      BY <3>1 DEF Removing
    <3>3. next2[s[j + 1]] = next[s[j + 1]]
      BY <3>1 DEF Removing
    <3>4. s[j + 1] \in Node /\ s[j + 1] # Null
          /\ next[s[j + 1]] = IF j + 1 = n THEN Null ELSE s[j + 1 + 1]
      BY <3>1 DEF Removing, ReadsTo
    <3> QED
      BY <3>1, <3>2, <3>3, <3>4
  <2> QED
    BY <2>1, <2>2, <2>3
<1> QED
  BY <1>1, <1>2 DEF ReadsTo

-----------------------------------------------------------------------------
(* The lists of children.                                                  *)

\* s lists the children of p.  f, first and next stand for m_parent,
\* m_first_child and m_next.
Lists(f, first, next, p, s) ==
    /\ Reads(first[p], next, s)
    /\ \A n \in Node : f[n] = p <=> \E i \in 1 .. Len(s) : s[i] = n

ListInv == \A p \in Node : Lists(m_parent, m_first_child, m_next, p, ChildList(p))

LEMMA ListInvPrimed ==
    ListInv' <=> \A p \in Node : Lists(m_parent', m_first_child', m_next', p, ChildList(p)')
BY DEF ListInv, Lists, Reads

LEMMA ChildListIs ==
    ASSUME NEW p, NEW s
    PROVE  /\ Reads(m_first_child[p], m_next, s) => ChildList(p) = s
           /\ Reads(m_first_child'[p], m_next', s) => ChildList(p)' = s
<1>1. /\ Reads(m_first_child[p], m_next, s) => WalkFrom(m_first_child[p], m_next) = s
      /\ Reads(m_first_child'[p], m_next', s) => WalkFrom(m_first_child'[p], m_next') = s
  BY WalkReads
<1>2. ChildList(p) = WalkFrom(m_first_child[p], m_next)
  BY DEF ChildList
<1>3. ChildList(p)' = WalkFrom(m_first_child'[p], m_next')
  BY DEF ChildList, WalkFrom
<1> QED
  BY <1>1, <1>2, <1>3

\* What the list of a node is, by index.
LEMMA ListOf ==
    ASSUME ListInv, NEW p \in Node
    PROVE  LET s == ChildList(p)
           IN  /\ s \in Seq(Node) /\ Len(s) \in Nat /\ DOMAIN s = 1 .. Len(s)
               /\ ReadsTo(m_first_child[p], m_next, s, Len(s))
               /\ \A i \in 1 .. Len(s) : s[i] \in Node /\ m_parent[s[i]] = p
               /\ \A i, j \in 1 .. Len(s) : s[i] = s[j] => i = j
               /\ \A n \in Node : m_parent[n] = p => \E i \in 1 .. Len(s) : s[i] = n
<1> DEFINE s == ChildList(p)
<1>1. Lists(m_parent, m_first_child, m_next, p, s)
  BY DEF ListInv
<1> HIDE DEF s
<1>2. Reads(m_first_child[p], m_next, s)
  BY <1>1 DEF Lists
<1>3. /\ s \in Seq(Node) /\ Len(s) \in Nat /\ s \in [1 .. Len(s) -> Node]
      /\ ReadsTo(m_first_child[p], m_next, s, Len(s))
  BY <1>2, ReadsByIndex DEF Reads
<1>4. \A i, j \in 1 .. Len(s) : s[i] = s[j] => i = j
  BY <1>2, ReadsOnce
<1>5. \A i \in 1 .. Len(s) : s[i] \in Node /\ m_parent[s[i]] = p
  <2> TAKE i \in 1 .. Len(s)
  <2>1. s[i] \in Node
    BY <1>3 DEF ReadsTo
  <2> QED
    BY <1>1, <2>1 DEF Lists
<1>6. \A n \in Node : m_parent[n] = p => \E i \in 1 .. Len(s) : s[i] = n
  BY <1>1 DEF Lists
<1>7. DOMAIN s = 1 .. Len(s)
  BY <1>3
<1> QED
  BY <1>3, <1>4, <1>5, <1>6, <1>7 DEF s

\* The other way: a sequence that is read is the list.
LEMMA IsListOf ==
    ASSUME NEW p, NEW t \in Seq(Node),
           ReadsTo(m_first_child'[p], m_next', t, Len(t)),
           \A n \in Node : m_parent'[n] = p <=> \E i \in 1 .. Len(t) : t[i] = n
    PROVE  ChildList(p)' = t /\ Lists(m_parent', m_first_child', m_next', p, ChildList(p)')
<1>1. Reads(m_first_child'[p], m_next', t)
  BY DEF Reads, ReadsTo
<1>2. ChildList(p)' = t
  BY <1>1, ChildListIs
<1> QED
  BY <1>1, <1>2 DEF Lists

\* A list of which no link changes stays.
LEMMA SameList ==
    ASSUME ListInv, NEW p \in Node,
           m_first_child'[p] = m_first_child[p],
           \A x \in Node : m_parent[x] = p => m_next'[x] = m_next[x],
           \A x \in Node : m_parent'[x] = p <=> m_parent[x] = p
    PROVE  ChildList(p)' = ChildList(p) /\ Lists(m_parent', m_first_child', m_next', p, ChildList(p)')
<1> DEFINE s == ChildList(p)
<1>1. /\ s \in Seq(Node) /\ Len(s) \in Nat
      /\ ReadsTo(m_first_child[p], m_next, s, Len(s))
      /\ \A i \in 1 .. Len(s) : s[i] \in Node /\ m_parent[s[i]] = p
      /\ \A n \in Node : m_parent[n] = p => \E i \in 1 .. Len(s) : s[i] = n
  BY ListOf
<1> HIDE DEF s
<1>2. ReadsTo(m_first_child'[p], m_next', s, Len(s))
  BY <1>1 DEF ReadsTo
<1>3. \A n \in Node : m_parent'[n] = p <=> \E i \in 1 .. Len(s) : s[i] = n
  BY <1>1
<1>4. ChildList(p)' = s /\ Lists(m_parent', m_first_child', m_next', p, ChildList(p)')
  BY <1>1, <1>2, <1>3, IsListOf
<1> QED
  BY <1>4 DEF s

\* The links of siblings and of the last child, seen from the list.
LEMMA Neighbours ==
    ASSUME LinkTypes, LinkInv, ListInv, NEW p \in Node
    PROVE  LET s == ChildList(p)
           IN  /\ \A j \in 1 .. Len(s) : m_prev[s[j]] = IF j = 1 THEN Null ELSE s[j - 1]
               /\ m_last_child[p] = IF Len(s) = 0 THEN Null ELSE s[Len(s)]
<1> DEFINE s == ChildList(p)
           n == Len(s)
<1>1. /\ n \in Nat
      /\ ReadsTo(m_first_child[p], m_next, s, n)
      /\ \A i \in 1 .. n : s[i] \in Node /\ m_parent[s[i]] = p
  BY ListOf
<1> HIDE DEF s, n
<1>2. ASSUME NEW j \in 1 .. n
      PROVE  m_prev[s[j]] = IF j = 1 THEN Null ELSE s[j - 1]
  <2>1. CASE j = 1
    <3>1. m_first_child[p] = s[j] /\ s[j] # Null
      BY <1>1, <2>1 DEF ReadsTo
    <3> QED
      BY <2>1, <3>1 DEF LinkInv, ChildLinks
  <2>2. CASE j # 1
    <3>1. j - 1 \in 1 .. n /\ j - 1 # n /\ j - 1 + 1 = j
      BY <1>1, <2>2
    <3>2. m_next[s[j - 1]] = s[j] /\ s[j] # Null /\ s[j - 1] \in Node
      BY <1>1, <3>1 DEF ReadsTo
    <3> QED
      BY <2>2, <3>2 DEF LinkInv, SiblingLinks
  <2> QED
    BY <2>1, <2>2
<1>3. m_last_child[p] = IF n = 0 THEN Null ELSE s[n]
  <2>1. CASE n = 0
    BY <1>1, <2>1 DEF ReadsTo, LinkInv, ChildLinks
  <2>2. CASE n # 0
    <3>1. n \in 1 .. n
      BY <1>1, <2>2
    <3>2. m_next[s[n]] = Null /\ s[n] \in Node /\ m_parent[s[n]] = p
      BY <1>1, <3>1 DEF ReadsTo
    <3> QED
      BY <2>2, <3>2, NodeAssumption DEF LinkInv, ChildLinks
  <2> QED
    BY <2>1, <2>2
<1> QED
  BY <1>2, <1>3 DEF s, n

\* The place that PlaceOf names, and what it is next to.
LEMMA PlaceIs ==
    ASSUME ListInv, NEW p \in Node, NEW ref \in NodeOrNull, NEW side \in Sides,
           ref # Null => m_parent[ref] = p
    PROVE  LET s == ChildList(p)
               i == PlaceOf(p, ref, side)
           IN  /\ i \in 1 .. Len(s) + 1
               /\ side = "before" /\ ref = Null => i = 1
               /\ side = "before" /\ ref # Null => i \in 1 .. Len(s) /\ s[i] = ref
               /\ side = "after" /\ ref = Null => i = Len(s) + 1
               /\ side = "after" /\ ref # Null => i - 1 \in 1 .. Len(s) /\ s[i - 1] = ref
<1> DEFINE s == ChildList(p)
           n == Len(s)
           at == CHOOSE i \in DOMAIN s : s[i] = ref
           i == PlaceOf(p, ref, side)
<1>1. /\ n \in Nat /\ DOMAIN s = 1 .. n
      /\ \A m \in Node : m_parent[m] = p => \E j \in 1 .. n : s[j] = m
  BY ListOf
<1>2. ref # Null => at \in 1 .. n /\ s[at] = ref
  <2> HIDE DEF s, n
  <2> QED
    BY <1>1 DEF NodeOrNull
<1>3. /\ side = "before" /\ ref = Null => i = 1
      /\ side = "before" /\ ref # Null => i = at
      /\ side = "after" /\ ref = Null => i = n + 1
      /\ side = "after" /\ ref # Null => i = at + 1
  BY DEF PlaceOf
<1> HIDE DEF s, n, at, i
<1>4. side = "before" \/ side = "after"
  BY DEF Sides
<1>5. CASE ref = Null
  <2>1. i = 1 \/ i = n + 1
    BY <1>3, <1>4, <1>5
  <2> QED
    BY <1>1, <1>3, <1>5, <2>1 DEF s, n, i
<1>6. CASE ref # Null
  <2>1. CASE side = "before"
    <3>1. i \in 1 .. n /\ s[i] = ref /\ i \in 1 .. n + 1
      BY <1>1, <1>2, <1>3, <1>6, <2>1
    <3> QED
      BY <1>6, <2>1, <3>1 DEF s, n, i
  <2>2. CASE side = "after"
    <3>1. i - 1 = at /\ i \in 1 .. n + 1
      BY <1>1, <1>2, <1>3, <1>6, <2>2
    <3>2. i - 1 \in 1 .. n /\ s[i - 1] = ref
      BY <1>2, <1>6, <3>1
    <3> QED
      BY <1>6, <2>2, <3>1, <3>2 DEF s, n, i
  <2> QED
    BY <1>4, <2>1, <2>2
<1> QED
  BY <1>5, <1>6

\* Linking on either side puts the node in its place and changes no other list.
LEMMA LinkedList ==
    ASSUME LinkTypes, LinkInv, NoSiblingRing, ListInv,
           NEW p \in Node, NEW n \in Node, NEW ref \in NodeOrNull, NEW side \in Sides,
           m_parent[n] = Null,
           ref # Null => m_parent[ref] = p,
           Link(p, n, ref, side)
    PROVE  /\ ListInv'
           /\ \A q \in Node : ChildList(q)' =
                 IF q = p THEN Seqs!InsertAt(ChildList(p), PlaceOf(p, ref, side), n)
                 ELSE ChildList(q)
<1> DEFINE s == ChildList(p)
           N == Len(s)
           i == PlaceOf(p, ref, side)
           t == Seqs!InsertAt(s, i, n)
<1>1. /\ s \in Seq(Node) /\ N \in Nat
      /\ ReadsTo(m_first_child[p], m_next, s, N)
      /\ \A j \in 1 .. N : s[j] \in Node /\ m_parent[s[j]] = p
      /\ \A j, k \in 1 .. N : s[j] = s[k] => j = k
      /\ \A m \in Node : m_parent[m] = p => \E j \in 1 .. N : s[j] = m
  BY ListOf
<1>2. /\ \A j \in 1 .. N : m_prev[s[j]] = IF j = 1 THEN Null ELSE s[j - 1]
      /\ m_last_child[p] = IF N = 0 THEN Null ELSE s[N]
  BY Neighbours
<1>3. /\ i \in 1 .. N + 1
      /\ side = "before" /\ ref = Null => i = 1
      /\ side = "before" /\ ref # Null => i \in 1 .. N /\ s[i] = ref
      /\ side = "after" /\ ref = Null => i = N + 1
      /\ side = "after" /\ ref # Null => i - 1 \in 1 .. N /\ s[i - 1] = ref
  BY PlaceIs
<1>4. /\ t \in Seq(Node) /\ Len(t) = N + 1
      /\ \A j \in 1 .. i - 1 : t[j] = s[j]
      /\ t[i] = n
      /\ \A j \in i + 1 .. N + 1 : t[j] = s[j - 1]
  <2> HIDE DEF s, i
  <2> QED
    BY <1>1, <1>3, InsertAtProperties
<1> HIDE DEF s, N, i, t
<1>5. \A j \in 1 .. N : s[j] # n /\ s[j] # Null
  BY <1>1, NodeAssumption
\* The nodes on both sides of the new one.
<1> DEFINE prev == IF i = 1 THEN Null ELSE s[i - 1]
           next == IF i = N + 1 THEN Null ELSE s[i]
<1>6. /\ m_next[n] = Null
      /\ m_first_child[p] = IF N = 0 THEN Null ELSE s[1]
      /\ \A j \in 1 .. N : m_next[s[j]] = IF j = N THEN Null ELSE s[j + 1]
  BY <1>1 DEF ReadsTo, LinkInv, SiblingLinks
<1>7. /\ m_first_child' = [m_first_child EXCEPT ![p] = IF prev = Null THEN n ELSE @]
      /\ \A x \in Node : m_next'[x] = IF x = prev THEN n ELSE IF x = n THEN next ELSE m_next[x]
      /\ m_parent' = [m_parent EXCEPT ![n] = p]
  <2>1. CASE side = "before" /\ ref = Null
    <3>1. i = 1 /\ next = m_first_child[p] /\ prev = Null
      BY <1>1, <1>3, <1>6, <2>1
    <3> QED
      BY <1>6, <2>1, <3>1, NodeAssumption DEF Link, LinkBefore
  <2>2. CASE side = "before" /\ ref # Null
    <3>1. i \in 1 .. N /\ next = ref /\ prev = m_prev[ref]
      BY <1>1, <1>2, <1>3, <2>2
    <3> QED
      BY <2>2, <3>1, NodeAssumption DEF Link, LinkBefore
  <2>3. CASE side = "after" /\ ref = Null
    <3>1. i = N + 1 /\ next = Null /\ prev = m_last_child[p]
      BY <1>1, <1>2, <1>3, <2>3
    <3> QED
      BY <1>6, <2>3, <3>1, NodeAssumption DEF Link, LinkAfter
  <2>4. CASE side = "after" /\ ref # Null
    <3>1. /\ i - 1 \in 1 .. N /\ s[i - 1] = ref /\ i # 1
          /\ i - 1 = N <=> i = N + 1
          /\ i - 1 + 1 = i
      BY <1>1, <1>3, <2>4
    <3>2. prev = ref /\ next = m_next[ref]
      BY <1>6, <3>1
    <3> QED
      BY <2>4, <3>2, NodeAssumption DEF Link, LinkAfter
  <2> QED
    BY <2>1, <2>2, <2>3, <2>4 DEF Sides
<1>8. Inserting(m_first_child[p], m_next, s, N, i, n, m_first_child'[p], m_next', t)
  <2>1. prev = Null <=> i = 1
    <3>1. i # 1 => i - 1 \in 1 .. N
      BY <1>1, <1>3
    <3> QED
      BY <1>5, <3>1
  <2>2. m_first_child'[p] = IF i = 1 THEN n ELSE m_first_child[p]
    BY <1>7, <2>1 DEF LinkTypes
  <2>3. n # prev
    <3>1. i # 1 => i - 1 \in 1 .. N
      BY <1>1, <1>3
    <3> QED
      BY <1>5, <3>1, NodeAssumption
  <2>4. m_next'[n] = IF i = N + 1 THEN Null ELSE s[i]
    BY <1>7, <2>3
  <2>5. ASSUME NEW j \in 1 .. N
        PROVE  m_next'[s[j]] = IF j = i - 1 THEN n ELSE m_next[s[j]]
    <3>1. s[j] = prev <=> j = i - 1
      <4>1. CASE i = 1
        BY <1>1, <1>5, <2>5, <4>1
      <4>2. CASE i # 1
        <5>1. i - 1 \in 1 .. N
          BY <1>1, <1>3, <4>2
        <5> QED
          BY <1>1, <2>5, <4>2, <5>1
      <4> QED
        BY <4>1, <4>2
    <3> QED
      BY <1>1, <1>5, <1>7, <3>1
  <2> QED
    BY <1>1, <1>4, <2>2, <2>4, <2>5 DEF Inserting
<1>9. ReadsTo(m_first_child'[p], m_next', t, N + 1)
  BY <1>1, <1>3, <1>8, ReadsInserted
<1>10. \A m \in Node : m_parent'[m] = p <=> \E j \in 1 .. N + 1 : t[j] = m
  <2> TAKE m \in Node
  <2>1. m_parent'[m] = p <=> m = n \/ \E j \in 1 .. N : s[j] = m
    BY <1>1, <1>7 DEF LinkTypes
  <2>2. ASSUME NEW j \in 1 .. N
        PROVE  \E k \in 1 .. N + 1 : t[k] = s[j]
    <3>1. CASE j < i
      BY <1>1, <1>3, <1>4, <3>1
    <3>2. CASE j >= i
      <4>1. j + 1 \in i + 1 .. N + 1 /\ j + 1 - 1 = j /\ j + 1 \in 1 .. N + 1
        BY <1>1, <1>3, <3>2
      <4> QED
        BY <1>4, <4>1
    <3> QED
      BY <1>1, <1>3, <3>1, <3>2
  <2>3. ASSUME NEW j \in 1 .. N + 1
        PROVE  t[j] = n \/ \E k \in 1 .. N : t[j] = s[k]
    <3>1. CASE j < i
      <4>1. j \in 1 .. i - 1 /\ j \in 1 .. N
        BY <1>1, <1>3, <3>1
      <4> QED
        BY <1>4, <4>1
    <3>2. CASE j > i
      <4>1. j \in i + 1 .. N + 1 /\ j - 1 \in 1 .. N
        BY <1>1, <1>3, <3>2
      <4> QED
        BY <1>4, <4>1
    <3>3. CASE j = i
      BY <1>4, <3>3
    <3> QED
      BY <1>1, <1>3, <3>1, <3>2, <3>3
  <2> QED
    BY <1>3, <1>4, <2>1, <2>2, <2>3
<1>11. ChildList(p)' = t /\ Lists(m_parent', m_first_child', m_next', p, ChildList(p)')
  BY <1>4, <1>9, <1>10, IsListOf
<1>12. ASSUME NEW q \in Node, q # p
       PROVE  ChildList(q)' = ChildList(q) /\ Lists(m_parent', m_first_child', m_next', q, ChildList(q)')
  <2>1. m_first_child'[q] = m_first_child[q]
    BY <1>7, <1>12 DEF LinkTypes
  <2>2. \A x \in Node : m_parent'[x] = q <=> m_parent[x] = q
    BY <1>7, <1>12, NodeAssumption DEF LinkTypes
  <2>3. ASSUME NEW x \in Node, m_parent[x] = q
        PROVE  m_next'[x] = m_next[x]
    <3>1. x # n
      BY <2>3, NodeAssumption
    <3>2. prev # Null => m_parent[prev] = p
      <4>1. i # 1 => i - 1 \in 1 .. N
        BY <1>1, <1>3
      <4> QED
        BY <1>1, <4>1
    <3>3. x # prev
      BY <1>12, <2>3, <3>2, NodeAssumption
    <3> QED
      BY <1>7, <3>1, <3>3
  <2> QED
    BY <2>1, <2>2, <2>3, SameList
<1>13. ListInv'
  BY <1>11, <1>12, ListInvPrimed
<1> QED
  BY <1>11, <1>12, <1>13 DEF s, i, t

\* Unlinking takes a child out of the list of its parent.
LEMMA UnlinkedList ==
    ASSUME LinkTypes, LinkInv, NoSiblingRing, ListInv,
           NEW p \in Node, NEW old \in Node, m_parent[old] = p, Unlink(p, old)
    PROVE  /\ ListInv'
           /\ \E i \in 1 .. Len(ChildList(p)) :
                 \A q \in Node : ChildList(q)' =
                    IF q = p THEN Seqs!RemoveAt(ChildList(p), i) ELSE ChildList(q)
<1> DEFINE s == ChildList(p)
           N == Len(s)
<1>1. /\ s \in Seq(Node) /\ N \in Nat
      /\ ReadsTo(m_first_child[p], m_next, s, N)
      /\ \A j \in 1 .. N : s[j] \in Node /\ m_parent[s[j]] = p
      /\ \A j, k \in 1 .. N : s[j] = s[k] => j = k
      /\ \A m \in Node : m_parent[m] = p => \E j \in 1 .. N : s[j] = m
  BY ListOf
<1>2. /\ \A j \in 1 .. N : m_prev[s[j]] = IF j = 1 THEN Null ELSE s[j - 1]
  BY Neighbours
<1>3. PICK i \in 1 .. N : s[i] = old
  BY <1>1
<1> DEFINE t == Seqs!RemoveAt(s, i)
<1>4. /\ t \in Seq(Node) /\ Len(t) = N - 1
      /\ \A j \in 1 .. i - 1 : t[j] = s[j]
      /\ \A j \in i .. N - 1 : t[j] = s[j + 1]
  <2> HIDE DEF s
  <2> QED
    BY <1>1, <1>3, RemoveAtProperties
<1> HIDE DEF s, N, t
<1>5. \A j \in 1 .. N : s[j] # Null
  BY <1>1, NodeAssumption
<1> DEFINE prev == IF i = 1 THEN Null ELSE s[i - 1]
<1>6. /\ m_first_child' = [m_first_child EXCEPT ![p] = IF prev = Null THEN m_next[old] ELSE @]
      /\ \A x \in Node : m_next'[x] = IF x = old THEN Null ELSE IF x = prev THEN m_next[old]
                                      ELSE m_next[x]
      /\ m_parent' = [m_parent EXCEPT ![old] = Null]
  <2>1. prev = m_prev[old]
    BY <1>2, <1>3
  <2> QED
    BY <2>1 DEF Unlink
<1>7. Removing(m_first_child[p], m_next, s, N, i, m_first_child'[p], m_next', t)
  <2>0. i # 1 => i - 1 \in 1 .. N
    BY <1>1, <1>3
  <2>1. prev = Null <=> i = 1
    BY <1>5, <2>0
  <2>2. m_first_child'[p] = IF i = 1 THEN m_next[s[i]] ELSE m_first_child[p]
    BY <1>3, <1>6, <2>1 DEF LinkTypes
  <2>3. ASSUME NEW j \in 1 .. N, j # i
        PROVE  m_next'[s[j]] = IF j = i - 1 THEN m_next[s[i]] ELSE m_next[s[j]]
    <3>1. s[j] # old
      BY <1>1, <1>3, <2>3
    <3>2. s[j] = prev <=> j = i - 1
      <4>1. CASE i = 1
        BY <1>1, <1>5, <2>3, <4>1
      <4>2. CASE i # 1
        BY <1>1, <2>0, <2>3, <4>2
      <4> QED
        BY <4>1, <4>2
    <3> QED
      BY <1>1, <1>3, <1>6, <3>1, <3>2
  <2> QED
    BY <1>1, <1>4, <2>2, <2>3 DEF Removing
<1>8. ReadsTo(m_first_child'[p], m_next', t, N - 1)
  BY <1>1, <1>3, <1>7, ReadsRemoved
<1>9. \A m \in Node : m_parent'[m] = p <=> \E j \in 1 .. N - 1 : t[j] = m
  <2> TAKE m \in Node
  <2>1. m_parent'[m] = p <=> m # old /\ \E j \in 1 .. N : s[j] = m
    BY <1>1, <1>6, NodeAssumption DEF LinkTypes
  <2>2. ASSUME NEW j \in 1 .. N, s[j] # old
        PROVE  \E k \in 1 .. N - 1 : t[k] = s[j]
    <3>1. CASE j < i
      <4>1. j \in 1 .. i - 1 /\ j \in 1 .. N - 1
        BY <1>1, <1>3, <3>1
      <4> QED
        BY <1>4, <4>1
    <3>2. CASE j > i
      <4>1. j - 1 \in i .. N - 1 /\ j - 1 \in 1 .. N - 1 /\ j - 1 + 1 = j
        BY <1>1, <1>3, <3>2
      <4> QED
        BY <1>4, <4>1
    <3> QED
      BY <1>1, <1>3, <2>2, <3>1, <3>2
  <2>3. ASSUME NEW j \in 1 .. N - 1
        PROVE  t[j] # old /\ \E k \in 1 .. N : t[j] = s[k]
    <3>1. CASE j < i
      <4>1. j \in 1 .. i - 1 /\ j \in 1 .. N /\ j # i
        BY <1>1, <1>3, <3>1
      <4> QED
        BY <1>1, <1>3, <1>4, <4>1
    <3>2. CASE j >= i
      <4>1. j \in i .. N - 1 /\ j + 1 \in 1 .. N /\ j + 1 # i
        BY <1>1, <1>3, <3>2
      <4> QED
        BY <1>1, <1>3, <1>4, <4>1
    <3> QED
      BY <1>1, <1>3, <3>1, <3>2
  <2> QED
    BY <2>1, <2>2, <2>3
<1>10. ChildList(p)' = t /\ Lists(m_parent', m_first_child', m_next', p, ChildList(p)')
  BY <1>4, <1>8, <1>9, IsListOf
<1>11. ASSUME NEW q \in Node, q # p
       PROVE  ChildList(q)' = ChildList(q) /\ Lists(m_parent', m_first_child', m_next', q, ChildList(q)')
  <2>1. m_first_child'[q] = m_first_child[q]
    BY <1>6, <1>11 DEF LinkTypes
  <2>2. \A x \in Node : m_parent'[x] = q <=> m_parent[x] = q
    BY <1>6, <1>11, NodeAssumption DEF LinkTypes
  <2>3. ASSUME NEW x \in Node, m_parent[x] = q
        PROVE  m_next'[x] = m_next[x]
    <3>1. prev # Null => m_parent[prev] = p
      <4>1. i # 1 => i - 1 \in 1 .. N
        BY <1>1, <1>3
      <4> QED
        BY <1>1, <4>1
    <3>2. x # prev /\ x # old
      BY <1>11, <2>3, <3>1, NodeAssumption
    <3> QED
      BY <1>6, <3>2
  <2> QED
    BY <2>1, <2>2, <2>3, SameList
<1>12. ListInv'
  BY <1>10, <1>11, ListInvPrimed
<1>13. \A q \in Node : ChildList(q)' = IF q = p THEN Seqs!RemoveAt(s, i) ELSE ChildList(q)
  BY <1>10, <1>11 DEF t
<1> QED
  BY <1>3, <1>12, <1>13 DEF s, N

\* What the destructor does to the lists: that of n becomes empty.
LEMMA DestroyedList ==
    ASSUME IInv, ListInv, NEW n \in Node, Destroy(n)
    PROVE  /\ ListInv'
           /\ \A q \in Node : ChildList(q)' = IF q = n THEN << >> ELSE ChildList(q)
<1>1. Children(n) = {x \in Node : m_parent[x] = n}
  BY ChildrenLemma, TypeLinks DEF IInv, ChildListsComplete, Children
<1>2. /\ m_parent' = [x \in Node |-> IF x \in Children(n) THEN Null ELSE m_parent[x]]
      /\ m_next' = [x \in Node |-> IF x \in Children(n) THEN Null ELSE m_next[x]]
      /\ m_first_child' = [m_first_child EXCEPT ![n] = Null]
      /\ LinkTypes
  BY TypeLinks DEF Destroy, IInv
<1>3. ASSUME NEW q \in Node, q # n
      PROVE  ChildList(q)' = ChildList(q) /\ Lists(m_parent', m_first_child', m_next', q, ChildList(q)')
  <2>1. m_first_child'[q] = m_first_child[q]
    BY <1>2, <1>3 DEF LinkTypes
  <2>2. \A x \in Node : m_parent'[x] = q <=> m_parent[x] = q
    BY <1>1, <1>2, <1>3, NodeAssumption
  <2>3. \A x \in Node : m_parent[x] = q => m_next'[x] = m_next[x]
    BY <1>1, <1>2, <1>3
  <2> QED
    BY <2>1, <2>2, <2>3, SameList
<1>4. ChildList(n)' = << >> /\ Lists(m_parent', m_first_child', m_next', n, ChildList(n)')
  <2> DEFINE t == << >>
  <2>1. t \in Seq(Node) /\ Len(t) = 0
    OBVIOUS
  <2> HIDE DEF t
  <2>2. m_first_child'[n] = Null
    BY <1>2 DEF LinkTypes
  <2>3. ReadsTo(m_first_child'[n], m_next', t, Len(t))
    BY <2>1, <2>2 DEF ReadsTo
  <2>4. \A m \in Node : m_parent'[m] # n
    BY <1>1, <1>2, NodeAssumption
  <2>5. \A m \in Node : m_parent'[m] = n <=> \E i \in 1 .. Len(t) : t[i] = m
    BY <2>1, <2>4
  <2>6. ChildList(n)' = t /\ Lists(m_parent', m_first_child', m_next', n, ChildList(n)')
    BY <2>1, <2>3, <2>5, IsListOf
  <2> QED
    BY <2>6 DEF t
<1>5. ListInv'
  BY <1>3, <1>4, ListInvPrimed
<1> QED
  BY <1>3, <1>4, <1>5

\* A step that changes no link changes no list.
LEMMA UnlinkedNothing ==
    ASSUME ListInv, UNCHANGED links
    PROVE  ListInv' /\ \A q \in Node : ChildList(q)' = ChildList(q)
<1>1. ASSUME NEW q \in Node
      PROVE  ChildList(q)' = ChildList(q) /\ Lists(m_parent', m_first_child', m_next', q, ChildList(q)')
  BY SameList DEF links
<1> QED
  BY <1>1, ListInvPrimed

-----------------------------------------------------------------------------
(* The refinement.                                                         *)

LEMMA AttachedIs ==
    ASSUME LinkTypes, ListInv, NEW n \in Node
    PROVE  Abstract!Attached(n) <=> m_parent[n] # Null
<1>1. ASSUME NEW p \in Node
      PROVE  n \in Abstract!ToSet(Kids[p]) <=> m_parent[n] = p
  <2> DEFINE s == ChildList(p)
  <2>1. /\ DOMAIN s = 1 .. Len(s)
        /\ \A i \in 1 .. Len(s) : m_parent[s[i]] = p
        /\ m_parent[n] = p => \E i \in 1 .. Len(s) : s[i] = n
    BY ListOf
  <2> HIDE DEF s
  <2>2. n \in Abstract!ToSet(s) <=> m_parent[n] = p
    BY <2>1 DEF Abstract!ToSet
  <2> QED
    BY <2>2 DEF s, Kids
<1>2. m_parent[n] # Null <=> \E p \in Node : m_parent[n] = p
  BY NodeAssumption DEF LinkTypes, NodeOrNull
<1> QED
  BY <1>1, <1>2 DEF Abstract!Attached

\* An insertion of x in place i of the list of p, which may be new.
LEMMA AbstractInsert ==
    ASSUME LinkTypes, ListInv, NEW p \in Node, NEW x \in Node, NEW i,
           p \in alive, m_parent[x] = Null,
           alive' = alive \cup {x},
           i \in 1 .. Len(ChildList(p)) + 1,
           \A q \in Node : ChildList(q)' =
              IF q = p THEN Seqs!InsertAt(ChildList(p), i, x) ELSE ChildList(q)
    PROVE  Abstract!Next
<1>1. Abstract!Insert(p, x, i)
  BY AttachedIs DEF Abstract!Insert, Abstract!InsertAt, Seqs!InsertAt, Kids
<1>2. i \in 1 .. Len(Kids[p]) + 1
  BY DEF Kids
<1> QED
  BY <1>1, <1>2 DEF Abstract!Next

LEMMA AbstractInsertion ==
    ASSUME IInv, ListInv,
           NEW p \in Node, NEW new \in Node, NEW ref \in NodeOrNull, NEW side \in Sides,
           CanInsert(p, new, ref), Insert(p, Unwrap(new), ref, side)
    PROVE  /\ ListInv'
           /\ \/ Abstract!Next
              \/ UNCHANGED <<alive, Kids>>
           /\ links' # links => Placed(p, new, PlaceOf(p, ref, side))
<1> DEFINE n == Unwrap(new)
           i == PlaceOf(p, ref, side)
<1>1. /\ LinkTypes /\ LinkInv /\ NoSiblingRing
      /\ p \in alive /\ n \in Node /\ n \in alive
      /\ ref # Null => m_parent[ref] = p
  BY TypeLinks, NodeAssumption DEF CanInsert, Unwrap, IInv, TypeOK, NoDangling, NodeOrNull
<1>2. i \in 1 .. Len(ChildList(p)) + 1
  BY <1>1, PlaceIs
<1>3. CASE InsertNode(p, n, ref, side)
  <2>1. /\ m_parent[n] = Null /\ alive' = alive /\ Link(p, n, ref, side)
    BY <1>3 DEF InsertNode
  <2>2. /\ ListInv'
        /\ \A q \in Node : ChildList(q)' =
              IF q = p THEN Seqs!InsertAt(ChildList(p), i, n) ELSE ChildList(q)
    BY <1>1, <2>1, LinkedList
  <2>3. alive' = alive \cup {n}
    BY <1>1, <2>1
  <2> HIDE DEF n, i
  <2>4. Abstract!Next
    BY <1>1, <1>2, <2>1, <2>2, <2>3, AbstractInsert
  <2>5. Placed(p, new, i)
    BY <2>1, <2>2 DEF Placed, n
  <2> QED
    BY <2>2, <2>4, <2>5 DEF i
<1>4. CASE InsertProxy(p, n, ref, side)
  <2>1. PICK px \in Node : NewProxy(px, n) /\ Link(p, px, ref, side)
    BY <1>4 DEF InsertProxy
  <2>2. /\ px \notin alive /\ alive' = alive \cup {px}
        /\ m_object' = [m_object EXCEPT ![px] = n]
        /\ m_parent[n] # Null
    BY <1>4, <2>1 DEF NewProxy, InsertProxy
  <2>3. m_parent[px] = Null /\ m_object'[px] = n
    BY <2>2 DEF IInv, NoDangling, TypeOK
  <2>4. /\ ListInv'
        /\ \A q \in Node : ChildList(q)' =
              IF q = p THEN Seqs!InsertAt(ChildList(p), i, px) ELSE ChildList(q)
    BY <1>1, <2>1, <2>3, LinkedList
  <2> HIDE DEF n, i
  <2>5. Abstract!Next
    BY <1>1, <1>2, <2>2, <2>3, <2>4, AbstractInsert
  <2>6. Placed(p, new, i)
    BY <2>2, <2>3, <2>4 DEF Placed, n
  <2> QED
    BY <2>4, <2>5, <2>6 DEF i
<1>5. CASE InsertNothing(n)
  <2>1. UNCHANGED <<alive, links>>
    BY <1>5 DEF InsertNothing
  <2>2. ListInv' /\ \A q \in Node : ChildList(q)' = ChildList(q)
    BY <2>1, UnlinkedNothing
  <2> QED
    BY <2>1, <2>2 DEF Kids
<1> QED
  BY <1>3, <1>4, <1>5 DEF Insert

LEMMA AbstractRemoval ==
    ASSUME IInv, ListInv, NEW old \in Node, m_parent[old] \in Node, Remove(m_parent[old], old)
    PROVE  ListInv' /\ Abstract!Next
<1> DEFINE p == m_parent[old]
<1>1. LinkTypes /\ LinkInv /\ NoSiblingRing /\ Unlink(p, old) /\ alive' = alive
  BY TypeLinks DEF IInv, Remove
<1>2. /\ ListInv'
      /\ \E i \in 1 .. Len(ChildList(p)) :
            \A q \in Node : ChildList(q)' =
               IF q = p THEN Seqs!RemoveAt(ChildList(p), i) ELSE ChildList(q)
  BY <1>1, UnlinkedList
<1> HIDE DEF p
<1>3. PICK i \in 1 .. Len(ChildList(p)) :
         \A q \in Node : ChildList(q)' =
            IF q = p THEN Seqs!RemoveAt(ChildList(p), i) ELSE ChildList(q)
  BY <1>2
<1>4. p \in Node
  BY DEF p
<1>5. Abstract!Detach(p, i)
  BY <1>1, <1>3, <1>4 DEF Abstract!Detach, Abstract!RemoveAt, Seqs!RemoveAt, Kids
<1>6. i \in 1 .. Len(Kids[p])
  BY <1>3, <1>4 DEF Kids
<1> QED
  BY <1>2, <1>4, <1>5, <1>6 DEF Abstract!Next

\* Every step of the pointers is one of the ordered tree, or none.
LEMMA AbstractStep ==
    ASSUME IInv, ListInv, [Next]_vars
    PROVE  /\ ListInv'
           /\ \/ Abstract!Next
              \/ UNCHANGED <<alive, Kids>>
<1>1. ASSUME NEW n \in Node, New(n)
      PROVE  ListInv' /\ Abstract!Next
  <2>1. n \notin alive /\ alive' = alive \cup {n} /\ UNCHANGED links
    BY <1>1 DEF New
  <2>2. ListInv' /\ \A q \in Node : ChildList(q)' = ChildList(q)
    BY <2>1, UnlinkedNothing
  <2>3. Abstract!Create(n)
    BY <2>1, <2>2 DEF Abstract!Create, Kids
  <2> QED
    BY <2>2, <2>3 DEF Abstract!Next
<1>2. ASSUME NEW n \in Node, Destroy(n)
      PROVE  ListInv' /\ Abstract!Next
  <2>1. ListInv' /\ \A q \in Node : ChildList(q)' = IF q = n THEN << >> ELSE ChildList(q)
    BY <1>2, DestroyedList
  <2>2. n \in alive /\ alive' = alive \ {n} /\ m_parent[n] = Null
    BY <1>2 DEF Destroy, IInv, TypeOK, NoDangling
  <2>3. Abstract!Delete(n)
    BY <2>1, <2>2, AttachedIs, TypeLinks DEF Abstract!Delete, IInv, Kids
  <2> QED
    BY <2>1, <2>3 DEF Abstract!Next
<1>3. ASSUME UNCHANGED <<alive, links>>
      PROVE  ListInv' /\ UNCHANGED <<alive, Kids>>
  BY <1>3, UnlinkedNothing DEF Kids
<1>4. ASSUME NEW n \in Node, Capture(n) \/ Release(n)
      PROVE  UNCHANGED <<alive, links>>
  BY <1>4 DEF Capture, Release
<1>5. CASE UNCHANGED vars
  BY <1>3, <1>5 DEF vars
<1>6. ASSUME NEW p \in Node, NEW new \in Node, NEW ref \in NodeOrNull,
             insertBefore(p, new, ref) \/ insertAfter(p, new, ref)
      PROVE  /\ ListInv'
             /\ \/ Abstract!Next
                \/ UNCHANGED <<alive, Kids>>
  <2>1. PICK side \in Sides : CanInsert(p, new, ref) /\ Insert(p, Unwrap(new), ref, side)
    BY <1>6 DEF insertBefore, insertAfter, Sides
  <2> QED
    BY <2>1, AbstractInsertion
<1>7. ASSUME NEW p \in Node, NEW new \in Node, NEW old \in Node,
             replaceChild(p, new, old)
      PROVE  /\ ListInv'
             /\ \/ Abstract!Next
                \/ UNCHANGED <<alive, Kids>>
  <2>1. /\ CanInsert(p, new, old) /\ Insert(p, Unwrap(new), old, "before")
        /\ old \in NodeOrNull /\ "before" \in Sides
    BY <1>7 DEF replaceChild, Sides, NodeOrNull
  <2> QED
    BY <2>1, AbstractInsertion
<1>8. ASSUME NEW p \in Node, NEW old \in Node, removeChild(p, old)
      PROVE  ListInv' /\ Abstract!Next
  BY <1>8, AbstractRemoval DEF removeChild
<1>9. ASSUME replaceChildEnd
      PROVE  ListInv' /\ Abstract!Next
  <2>1. call \in Node /\ m_parent[call] \in Node
    BY <1>9, NodeAssumption DEF replaceChildEnd, IInv, TypeOK, ReplaceInv, NodeOrNull
  <2> QED
    BY <1>9, <2>1, AbstractRemoval DEF replaceChildEnd
<1> QED
  BY <1>1, <1>2, <1>3, <1>4, <1>5, <1>6, <1>7, <1>8, <1>9 DEF Next

LEMMA InitLists ==
    ASSUME Init
    PROVE  ListInv /\ Abstract!Init
<1>1. ASSUME NEW p \in Node
      PROVE  ChildList(p) = << >> /\ Lists(m_parent, m_first_child, m_next, p, ChildList(p))
  <2> DEFINE t == << >>
  <2>1. t \in Seq(Node) /\ Len(t) = 0
    OBVIOUS
  <2> HIDE DEF t
  <2>2. m_first_child[p] = Null /\ \A n \in Node : m_parent[n] # p
    BY NodeAssumption DEF Init
  <2>3. Reads(m_first_child[p], m_next, t)
    BY <2>1, <2>2 DEF Reads
  <2>4. ChildList(p) = t
    BY <2>3, ChildListIs
  <2>5. Lists(m_parent, m_first_child, m_next, p, t)
    BY <2>1, <2>2, <2>3 DEF Lists
  <2> QED
    BY <2>4, <2>5 DEF t
<1>2. alive = {}
  BY DEF Init
<1> QED
  BY <1>1, <1>2 DEF ListInv, Abstract!Init, Kids

LEMMA ListsInvariant == Spec => [](IInv /\ ListInv)
<1>1. Init => ListInv
  BY InitLists
<1>2. IInv /\ ListInv /\ [Next]_vars => ListInv'
  BY AbstractStep
<1> QED
  BY <1>1, <1>2, InitInv, NextInv, PTL DEF Spec

\* The pointers, counters and proxies of CTreeNode implement what ITreeNode
\* promises: nodes with ordered lists of children, of which a call changes one
\* in one place, for any number of nodes and clients of any kind.
THEOREM Refinement == Spec => RefinesOrderedTree
<1>1. Init => Abstract!Init
  BY InitLists
<1>2. IInv /\ ListInv /\ [Next]_vars =>
         [Abstract!Next]_<<alive, Kids>>
  BY AbstractStep
<1> QED
  BY <1>1, <1>2, ListsInvariant, PTL DEF Spec, RefinesOrderedTree, Abstract!Spec

\* insertBefore and insertAfter, when they insert something, put it directly
\* before or after _ref, or at the front or the end when there is none, and keep
\* the order of the other children, in lists of any length.
THEOREM InsertionsInPlace == Spec => InsertsWhereAsked
<1> DEFINE A == links' # links => \A p, new \in alive : \A ref \in NodeOrNull :
              /\ insertBefore(p, new, ref) => Placed(p, new, PlaceOf(p, ref, "before"))
              /\ insertAfter(p, new, ref) => Placed(p, new, PlaceOf(p, ref, "after"))
<1>1. IInv /\ ListInv /\ [Next]_vars => [A]_vars
  <2> SUFFICES ASSUME IInv, ListInv, links' # links,
                      NEW p \in alive, NEW new \in alive, NEW ref \in NodeOrNull
               PROVE  /\ insertBefore(p, new, ref) => Placed(p, new, PlaceOf(p, ref, "before"))
                      /\ insertAfter(p, new, ref) => Placed(p, new, PlaceOf(p, ref, "after"))
    OBVIOUS
  <2>1. p \in Node /\ new \in Node /\ "before" \in Sides /\ "after" \in Sides
    BY DEF IInv, TypeOK, Sides
  <2>2. ASSUME insertBefore(p, new, ref)
        PROVE  Placed(p, new, PlaceOf(p, ref, "before"))
    BY <2>1, <2>2, AbstractInsertion DEF insertBefore
  <2>3. ASSUME insertAfter(p, new, ref)
        PROVE  Placed(p, new, PlaceOf(p, ref, "after"))
    BY <2>1, <2>3, AbstractInsertion DEF insertAfter
  <2> QED
    BY <2>2, <2>3
<1> QED
  BY <1>1, ListsInvariant, PTL DEF Spec, InsertsWhereAsked

=============================================================================
