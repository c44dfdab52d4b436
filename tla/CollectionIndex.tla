-------------------------- MODULE CollectionIndex --------------------------
(***************************************************************************)
(* OAF::CNotifyTreeNode and OAF::CCollectionTreeNode                       *)
(* (libs/liboaf-std/src/CTreeNode.cpp): a tree whose changes are announced *)
(* to the listeners of a node and of everything above it, and the index by *)
(* identifier that each collection keeps of the nodes below it.            *)
(*                                                                         *)
(* A change is announced BEFORE it is made, at the node it concerns, at    *)
(* its parent, and so on up.  A listener at any level may veto it; then    *)
(* CANCELLED goes the same way from the start.  Otherwise the change is    *)
(* made and AFTER goes up.  At each level a collection first brings its    *)
(* index up to date and then tells its listeners, so that one step of this *)
(* model is one level of one announcement.  The identifier and the state   *)
(* of a node are properties of a CNotifyPropertyBag, which a node class    *)
(* combines with CCollectionTreeNode; its announcements go the same way.   *)
(*                                                                         *)
(* Listeners do not change the tree: CNotifySource forbids a second        *)
(* announcement during the first.  A node that has a parent would come in  *)
(* as a proxy; here the class has none, so that nothing is inserted.       *)
(***************************************************************************)
EXTENDS FiniteSets

CONSTANTS
    Node, Null,
    Id,         \* identifiers other than the null QUuid
    Unset,      \* no "id" property; its QUuid value is the null one
    Liberties   \* what clients do beyond what a collection expects: "ids",
                \* nodes without an identifier; "states", subtrees moved
                \* while their root is not loaded

ASSUME NodeAssumption == IsFiniteSet(Node) /\ Null \notin Node
ASSUME IdAssumption == Unset \notin Id
ASSUME LibertyAssumption == Liberties \subseteq {"ids", "states"}

VARIABLES
    m_parent,
    id,         \* the "id" property of each node
    loaded,     \* whether its "state" property is 0
    m_index,    \* m_index[p]: pairs of an identifier and a node
    event,      \* the announcement on its way up, None when there is none
    replaced    \* the _old of a replaceChild whose insertion is under way

vars == <<m_parent, id, loaded, m_index, event, replaced>>

NodeOrNull == Node \cup {Null}
None == [when |-> "none"]

-----------------------------------------------------------------------------
(* The tree.                                                               *)

\* The nodes below p.
Below(p) == {n \in Node :
    \A S \in SUBSET Node :
        (\A x \in Node : m_parent[x] \in S \cup {p} => x \in S) => n \in S}

Childless(n) == \A x \in Node : m_parent[x] # n

-----------------------------------------------------------------------------
(* The index.                                                              *)

Entries(S) == {<<id[n], n>> : n \in {m \in S : id[m] # Unset}}

\* What an APPEND or REMOVE of n is about: n, and all below n if it is loaded.
Reach(n) == {n} \cup (IF loaded[n] THEN Below(n) ELSE {})

\* Fault: only the node itself is indexed.
Reindexed_NodeOnly(index, e) ==
    CASE e.op = "id" /\ e.when = "BEFORE" -> index \ {<<e.value, e.object>>}
      [] e.op = "id" /\ e.when # "BEFORE" -> index \cup {<<e.value, e.object>>}
      [] e.op = "append" /\ e.when = "AFTER" /\ e.object # Null ->
            index \cup Entries({e.object})
      [] e.op = "remove" /\ e.when = "AFTER" -> index \ Entries(Reach(e.object))
      [] OTHER -> index

\* Fault: the cancelled change of an identifier is not indexed again.
Reindexed_NoCancel(index, e) ==
    CASE e.op = "id" /\ e.when = "BEFORE" -> index \ {<<e.value, e.object>>}
      [] e.op = "id" /\ e.when = "AFTER" -> index \cup {<<e.value, e.object>>}
      [] e.op = "append" /\ e.when = "AFTER" /\ e.object # Null ->
            index \cup Entries(Reach(e.object))
      [] e.op = "remove" /\ e.when = "AFTER" -> index \ Entries(Reach(e.object))
      [] OTHER -> index

\* Fault: the NULL that an insertion without result announces is indexed.
Reindexed_NoCheck(index, e) ==
    CASE e.op = "id" /\ e.when = "BEFORE" -> index \ {<<e.value, e.object>>}
      [] e.op = "id" /\ e.when # "BEFORE" -> index \cup {<<e.value, e.object>>}
      [] e.op = "append" /\ e.when = "AFTER" ->
            index \cup IF e.object = Null THEN {<<Unset, Null>>}
                       ELSE Entries(Reach(e.object))
      [] e.op = "remove" /\ e.when = "AFTER" -> index \ Entries(Reach(e.object))
      [] OTHER -> index

\* CCollectionTreeNode::notifyListeners, its first part.
Reindexed(index, e) ==
    CASE e.op = "id" /\ e.when = "BEFORE" -> index \ {<<e.value, e.object>>}
      [] e.op = "id" /\ e.when # "BEFORE" -> index \cup {<<e.value, e.object>>}
      [] e.op = "append" /\ e.when = "AFTER" /\ e.object # Null ->
            index \cup Entries(Reach(e.object))
      [] e.op = "remove" /\ e.when = "AFTER" -> index \ Entries(Reach(e.object))
      [] OTHER -> index

\* enumObjects and getObject of the collection p.
enumObjects(p) == {e[1] : e \in m_index[p]}
getObject(p, i) == {n \in Node : i # Unset /\ <<i, n>> \in m_index[p]}

-----------------------------------------------------------------------------
(* The calls that begin a change.                                          *)

Idle == event = None /\ replaced = Null

Announce(op, source, object, value, new) ==
    event' = [op |-> op, when |-> "BEFORE", source |-> source, at |-> source,
              object |-> object, value |-> value, new |-> new]

\* setValue ("id", v)
setId(n, v) ==
    /\ Idle
    /\ v = Unset => "ids" \in Liberties
    /\ Announce("id", n, n, id[n], v)
    /\ UNCHANGED <<m_parent, id, loaded, m_index, replaced>>

\* setValue ("state", ...): its announcements leave the indexes alone.
setState(n) ==
    /\ Idle
    /\ loaded' = [loaded EXCEPT ![n] = ~ @]
    /\ UNCHANGED <<m_parent, id, m_index, event, replaced>>

Movable(n) == loaded[n] \/ Childless(n) \/ "states" \in Liberties

\* insertBefore, insertAfter, appendChild
insert(p, n) ==
    /\ Idle
    /\ p # n /\ p \notin Below(n)
    /\ Movable(n)
    /\ Announce("append", p, n, Unset, Unset)
    /\ UNCHANGED <<m_parent, id, loaded, m_index, replaced>>

removeChild(p, n) ==
    /\ Idle
    /\ m_parent[n] = p
    /\ Movable(n)
    /\ Announce("remove", p, n, Unset, Unset)
    /\ UNCHANGED <<m_parent, id, loaded, m_index, replaced>>

\* replaceChild: insertBefore, then removeChild.
replaceChild(p, n, old) ==
    /\ Idle
    /\ m_parent[old] = p
    /\ p # n /\ p \notin Below(n) /\ n # old
    /\ Movable(n) /\ Movable(old)
    /\ Announce("append", p, n, Unset, Unset)
    /\ replaced' = old
    /\ UNCHANGED <<m_parent, id, loaded, m_index>>

-----------------------------------------------------------------------------
(* An announcement goes up.                                                *)

Reindex == m_index' = [m_index EXCEPT ![event.at] = Reindexed(@, event)]

\* One level: its index, then its listeners, who do not object.
Notify ==
    /\ event # None /\ event.at # Null
    /\ Reindex
    /\ event' = [event EXCEPT !.at = m_parent[@]]
    /\ UNCHANGED <<m_parent, id, loaded, replaced>>

\* A listener of this level throws Cancel.
Veto ==
    /\ event # None /\ event.at # Null /\ event.when = "BEFORE"
    /\ Reindex
    /\ event' = [event EXCEPT !.when = "CANCELLED", !.at = event.source]
    /\ UNCHANGED <<m_parent, id, loaded, replaced>>

\* Nobody objected: the change is made.
Commit ==
    /\ event # None /\ event.at = Null /\ event.when = "BEFORE"
    /\ CASE event.op = "id" ->
              /\ id' = [id EXCEPT ![event.object] = event.new]
              /\ event' = [event EXCEPT !.when = "AFTER", !.at = event.source,
                                        !.value = event.new]
              /\ UNCHANGED m_parent
         [] event.op = "append" /\ m_parent[event.object] = Null ->
              /\ m_parent' = [m_parent EXCEPT ![event.object] = event.source]
              /\ event' = [event EXCEPT !.when = "AFTER", !.at = event.source]
              /\ UNCHANGED id
         [] event.op = "append" /\ m_parent[event.object] # Null ->
              /\ event' = [event EXCEPT !.when = "AFTER", !.at = event.source,
                                        !.object = Null]
              /\ UNCHANGED <<m_parent, id>>
         [] event.op = "remove" ->
              /\ m_parent' = [m_parent EXCEPT ![event.object] = Null]
              /\ event' = [event EXCEPT !.when = "AFTER", !.at = event.source]
              /\ UNCHANGED id
    /\ UNCHANGED <<loaded, m_index, replaced>>

\* The call returns; replaceChild goes on with the removal.
Return ==
    /\ event # None /\ event.at = Null /\ event.when # "BEFORE"
    /\ IF replaced = Null
       THEN event' = None
       ELSE Announce("remove", event.source, replaced, Unset, Unset)
    /\ replaced' = Null
    /\ UNCHANGED <<m_parent, id, loaded, m_index>>

-----------------------------------------------------------------------------
Init ==
    /\ m_parent = [n \in Node |-> Null]
    /\ id \in [Node -> IF "ids" \in Liberties THEN Id \cup {Unset} ELSE Id]
    /\ loaded = [n \in Node |-> TRUE]
    /\ m_index = [n \in Node |-> {}]
    /\ event = None
    /\ replaced = Null

Next ==
    \/ \E n \in Node : setState(n) \/ \E v \in Id \cup {Unset} : setId(n, v)
    \/ \E p, n \in Node : insert(p, n) \/ removeChild(p, n)
    \/ \E p, n, old \in Node : replaceChild(p, n, old)
    \/ Notify \/ Veto \/ Commit \/ Return

Spec == Init /\ [][Next]_vars

-----------------------------------------------------------------------------
(* Properties.                                                             *)

Event == [op : {"id", "append", "remove"}, when : {"BEFORE", "CANCELLED", "AFTER"},
          source : Node, at : NodeOrNull, object : NodeOrNull,
          value : Id \cup {Unset}, new : Id \cup {Unset}]

TypeOK ==
    /\ m_parent \in [Node -> NodeOrNull]
    /\ id \in [Node -> Id \cup {Unset}]
    /\ loaded \in [Node -> BOOLEAN]
    /\ m_index \in [Node -> SUBSET ((Id \cup {Unset}) \X Node)]
    /\ event \in Event \cup {None}
    /\ replaced \in NodeOrNull

\* By an identifier p finds exactly the nodes below it that have it.  Of p itself
\* it knows nothing, or, since p's own announcements start at p, the identifier
\* that p has now.
Exact(p) ==
    /\ \A i \in Id :
        /\ getObject(p, i) \ {p} = {n \in Below(p) : id[n] = i}
        /\ p \in getObject(p, i) => id[p] = i
    /\ enumObjects(p) \ {id[p]} \subseteq {id[n] : n \in Below(p)} \ {Unset}

\* CCollectionTreeNode between calls: whatever was inserted, removed, renamed
\* and vetoed at whatever level, every collection finds by an identifier the
\* nodes below it that have this identifier and no others.
IndexExact == Idle => \A p \in Node : Exact(p)

\* The comment in CCollectionTreeNode::notifyListeners says that a level is
\* told after its index has changed: when its listeners run in AFTER or
\* CANCELLED, the index they can search is already exact.
Told(p) == p \in {event.source} \cup {a \in Node : event.source \in Below(a)}
             /\ (event.at = Null \/ p \in Below(event.at))
AfterSeesIndex ==
    event # None /\ event.when # "BEFORE" =>
        \A p \in Node : Told(p) => Exact(p)

\* The comment on a removal says that what is below a node whose state is not 0
\* has never been indexed: after a removal no entry is left over.
NoStaleEntry ==
    Idle => \A p \in Node : \A e \in m_index[p] : e[2] \in Below(p) \cup {p}

=============================================================================
