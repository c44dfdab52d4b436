-------------------------- MODULE CollectionProxy --------------------------
(***************************************************************************)
(* OAF::CCollectionTreeNodeProxy (libs/liboaf-std/src/CTreeNode.cpp).      *)
(*                                                                         *)
(* A node can stand in several places of a tree: all but the first hold a  *)
(* proxy of it.  A proxy listens to its object and repeats, in its own     *)
(* list of children, what happens to the object's list; a change asked of  *)
(* a proxy is first made at the object, with the proxy as its origin, and  *)
(* then in the proxy's list.  So all the places show the same children.    *)
(*                                                                         *)
(* One object with its proxies.  A child is known by the node it stands    *)
(* for: the lists of the proxies hold proxies of the same nodes, in the    *)
(* same rows.  The object's announcement reaches the listeners of a level  *)
(* one after the other, in the order of their addresses, which is any      *)
(* order; one of them may veto the change when some proxies already know.  *)
(***************************************************************************)
EXTENDS Integers, Sequences, FiniteSets

CONSTANTS
    Proxy,      \* the proxies of the object
    Item,       \* the nodes that are put under it
    MaxKids,    \* bound: length of the list of children
    Vetoes      \* what listeners veto: "object", a change asked of the object;
                \* "proxy", of one asked of a proxy, its part at the object;
                \* "view", what a proxy does to its own list

Client == "client"      \* an origin that is not a proxy

ASSUME ProxyAssumption == IsFiniteSet(Proxy) /\ Client \notin Proxy /\ MaxKids \in Nat
ASSUME VetoAssumption == Vetoes \subseteq {"object", "proxy", "view"}

VARIABLES
    kids,       \* the children of the object
    mirror,     \* mirror[q]: the children of the proxy q
    connected,  \* the proxies whose m_object is set
    event       \* the object's announcement under way, or None

vars == <<kids, mirror, connected, event>>

Seqs == INSTANCE SequencesExt

None == [when |-> "none"]
Idle == event = None

\* Row 0 stands for no _ref: the front for insertBefore, the end for insertAfter.
Sides == {"before", "after"}
Place(list, row, side) ==
    CASE side = "before" /\ row = 0 -> 1
      [] side = "before" /\ row # 0 -> row
      [] side = "after" /\ row = 0  -> Len(list) + 1
      [] side = "after" /\ row # 0  -> row + 1

-----------------------------------------------------------------------------
(* Changes of the object.                                                  *)

\* insertBefore or insertAfter, BEFORE.
Inserting(n, row, side, origin, own) ==
    event' = [action |-> "APPEND", when |-> "BEFORE", item |-> n,
              row |-> Place(kids, row, side), origin |-> origin, own |-> own,
              told |-> {}]

Removing(row, origin, own) ==
    event' = [action |-> "REMOVE", when |-> "BEFORE", item |-> kids[row],
              row |-> row, origin |-> origin, own |-> own, told |-> {}]

insert(n, row, side) ==
    /\ Idle
    /\ Len(kids) < MaxKids
    /\ row \in 0..Len(kids)
    /\ Inserting(n, row, side, Client, 0)
    /\ UNCHANGED <<kids, mirror, connected>>

removeChild(row) ==
    /\ Idle
    /\ row \in 1..Len(kids)
    /\ Removing(row, Client, 0)
    /\ UNCHANGED <<kids, mirror, connected>>

-----------------------------------------------------------------------------
(* CCollectionTreeNodeProxy::notify.                                       *)

\* What a proxy does to its own list may be vetoed by its own listeners.
Show(q, list) ==
    \/ mirror' = [mirror EXCEPT ![q] = list]
    \/ "view" \in Vetoes /\ UNCHANGED mirror

\* Fault: the new child always comes last.
MirrorInsert_Last(q) ==
    IF Len(mirror[q]) < Len(kids)
    THEN Show(q, Append(mirror[q], event.item))
    ELSE UNCHANGED mirror

MirrorInsert(q) ==
    LET i == IF event.row <= Len(mirror[q]) THEN event.row ELSE Len(mirror[q]) + 1
    IN  IF Len(mirror[q]) < Len(kids)
        THEN Show(q, Seqs!InsertAt(mirror[q], i, event.item))
        ELSE UNCHANGED mirror

MirrorRemove(q) ==
    IF event.row <= Len(mirror[q])
    THEN Show(q, Seqs!RemoveAt(mirror[q], event.row))
    ELSE UNCHANGED mirror

\* A child has come in, or stays in after all; a child is about to go.
Adds  == \/ event.action = "APPEND" /\ event.when = "AFTER"
         \/ event.action = "REMOVE" /\ event.when = "CANCELLED"
Drops == event.action = "REMOVE" /\ event.when = "BEFORE"

\* Fault: a proxy also repeats the changes it has asked for.
Heeds_All(q) == TRUE

Heeds(q) == event.origin # q

notify(q) ==
    /\ ~ Idle
    /\ q \in connected \ event.told
    /\ IF Heeds(q) /\ Adds THEN MirrorInsert(q)
       ELSE IF Heeds(q) /\ Drops THEN MirrorRemove(q)
       ELSE UNCHANGED mirror
    /\ event' = [event EXCEPT !.told = @ \cup {q}]
    /\ UNCHANGED <<kids, connected>>

\* Somebody at the object, or above it, throws Cancel; those who have been told
\* and those who have not are told of it alike.
Veto ==
    /\ ~ Idle /\ event.when = "BEFORE"
    /\ (IF event.origin = Client THEN "object" ELSE "proxy") \in Vetoes
    /\ event' = [event EXCEPT !.when = "CANCELLED", !.told = {}]
    /\ UNCHANGED <<kids, mirror, connected>>

Commit ==
    /\ ~ Idle /\ event.when = "BEFORE" /\ event.told = connected
    /\ kids' = IF event.action = "APPEND"
               THEN Seqs!InsertAt(kids, event.row, event.item)
               ELSE Seqs!RemoveAt(kids, event.row)
    /\ event' = [event EXCEPT !.when = "AFTER", !.told = {}]
    /\ UNCHANGED <<mirror, connected>>

\* The object's part is done.  A proxy that asked for it now changes its own
\* list, whatever came of it; `own' is the row in that list.
Return ==
    /\ ~ Idle /\ event.when # "BEFORE" /\ event.told = connected
    /\ LET q == event.origin
       IN  CASE q = Client -> UNCHANGED mirror
             [] q # Client /\ event.action = "APPEND" ->
                  Show(q, Seqs!InsertAt(mirror[q], event.own, event.item))
             [] q # Client /\ event.action = "REMOVE" ->
                  Show(q, Seqs!RemoveAt(mirror[q], event.own))
    /\ event' = None
    /\ UNCHANGED <<kids, connected>>

-----------------------------------------------------------------------------
(* Changes asked of a proxy.                                               *)

\* The object's child in the row that a child has in the proxy, 0 if none.
ObjectRow(row) == IF row <= Len(kids) THEN row ELSE 0

proxyInsert(q, n, row, side) ==
    /\ Idle
    /\ q \in connected
    /\ Len(kids) < MaxKids
    /\ row \in 0..Len(mirror[q])
    /\ Inserting(n, ObjectRow(row), side, q, Place(mirror[q], row, side))
    /\ UNCHANGED <<kids, mirror, connected>>

proxyRemove(q, row) ==
    /\ Idle
    /\ q \in connected
    /\ row \in 1..Len(mirror[q])
    /\ IF ObjectRow(row) # 0
       THEN Removing(row, q, row) /\ UNCHANGED mirror
       ELSE Show(q, Seqs!RemoveAt(mirror[q], row)) /\ UNCHANGED event
    /\ UNCHANGED <<kids, connected>>

\* setExtendedObject with the object, when a proxy is made for it, and with NULL.
setExtendedObject(q) ==
    /\ Idle
    /\ q \notin connected
    /\ mirror' = [mirror EXCEPT ![q] = kids]
    /\ connected' = connected \cup {q}
    /\ UNCHANGED <<kids, event>>

unsetExtendedObject(q) ==
    /\ Idle
    /\ q \in connected
    /\ mirror' = [mirror EXCEPT ![q] = <<>>]
    /\ connected' = connected \ {q}
    /\ UNCHANGED <<kids, event>>

-----------------------------------------------------------------------------
Init ==
    /\ kids = <<>>
    /\ mirror = [q \in Proxy |-> <<>>]
    /\ connected = {}
    /\ event = None

Next ==
    \/ \E n \in Item, row \in 0..MaxKids, side \in Sides :
        insert(n, row, side) \/ \E q \in Proxy : proxyInsert(q, n, row, side)
    \/ \E row \in 1..MaxKids : removeChild(row) \/ \E q \in Proxy : proxyRemove(q, row)
    \/ \E q \in Proxy : notify(q) \/ setExtendedObject(q) \/ unsetExtendedObject(q)
    \/ Veto \/ Commit \/ Return

Spec == Init /\ [][Next]_vars

-----------------------------------------------------------------------------
(* Properties.                                                             *)

\* The comment in notify says that a change of the object is mirrored in the
\* proxy, in the same place: between calls every connected proxy has the
\* object's children in the object's order, whoever asked for the changes,
\* whatever was vetoed, and however many proxies had heard of it by then.
MirrorExact == Idle => \A q \in connected : mirror[q] = kids

\* During a change a proxy shows the list before it or after it: at most the
\* one row that the change is about is missing.
OneRowBehind ==
    ~ Idle => \A q \in connected :
        \/ mirror[q] = kids
        \/ mirror[q] = Seqs!RemoveAt(kids, event.row)
        \/ /\ event.action = "REMOVE" /\ event.when = "AFTER" /\ q = event.origin
           /\ kids = Seqs!RemoveAt(mirror[q], event.row)

=============================================================================
