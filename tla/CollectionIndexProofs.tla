----------------------- MODULE CollectionIndexProofs -----------------------
(***************************************************************************)
(* That the index of every collection is exact, for any number of nodes    *)
(* and identifiers, when clients take no Liberties.                        *)
(*                                                                         *)
(* While an announcement is on its way up, the entries of the nodes it     *)
(* Concerns are Unsettled in the collections OnRoute: above its source.    *)
(* RInv says which ones: before the change those that were Visited,        *)
(* after it those that were not yet.  All other entries are right.         *)
(***************************************************************************)
EXTENDS CollectionIndex, TLAPS

-----------------------------------------------------------------------------
(* What is below a node, for any assignment f of parents.                  *)

Parents == [Node -> NodeOrNull]

Beneath(f, p) == {n \in Node :
    \A S \in SUBSET Node :
        (\A x \in Node : f[x] \in S \cup {p} => x \in S) => n \in S}

NoCycle(f) == \A n \in Node : n \notin Beneath(f, n)

LEMMA BelowIsBeneath == \A p : /\ Below(p) = Beneath(m_parent, p)
                               /\ Below(p)' = Beneath(m_parent', p)
BY DEF Below, Beneath

LEMMA BeneathLeast ==
    ASSUME NEW f, NEW p, NEW S \in SUBSET Node,
           \A x \in Node : f[x] \in S \cup {p} => x \in S
    PROVE  Beneath(f, p) \subseteq S
BY DEF Beneath

LEMMA ChildBeneath ==
    ASSUME NEW f, NEW p, NEW x \in Node, f[x] \in Beneath(f, p) \cup {p}
    PROVE  x \in Beneath(f, p)
<1> SUFFICES ASSUME NEW S \in SUBSET Node,
                    \A y \in Node : f[y] \in S \cup {p} => y \in S
             PROVE  x \in S
  BY DEF Beneath
<1>1. Beneath(f, p) \subseteq S
  BY BeneathLeast
<1> QED
  BY <1>1

LEMMA ParentOfBeneath ==
    ASSUME NEW f, NEW p, NEW x \in Beneath(f, p)
    PROVE  x \in Node /\ f[x] \in Beneath(f, p) \cup {p}
<1> DEFINE S == {y \in Node : f[y] \in Beneath(f, p) \cup {p}}
<1>1. \A y \in Node : f[y] \in S \cup {p} => y \in S
  BY ChildBeneath
<1>2. Beneath(f, p) \subseteq S
  <2> HIDE DEF S
  <2>1. S \in SUBSET Node
    BY DEF S
  <2> QED
    BY <1>1, <2>1, BeneathLeast
<1> QED
  BY <1>2

LEMMA BeneathTransitive ==
    ASSUME NEW f, NEW p, NEW q \in Beneath(f, p)
    PROVE  Beneath(f, q) \subseteq Beneath(f, p)
<1>1. \A x \in Node : f[x] \in Beneath(f, p) \cup {q} => x \in Beneath(f, p)
  BY ChildBeneath
<1>2. Beneath(f, p) \in SUBSET Node
  BY DEF Beneath
<1> QED
  BY <1>1, <1>2, BeneathLeast

\* Two nodes above a third one are above one another.
LEMMA BeneathComparable ==
    ASSUME NEW f, NEW p, NEW q, NEW n \in Beneath(f, p), n \in Beneath(f, q)
    PROVE  p = q \/ p \in Beneath(f, q) \/ q \in Beneath(f, p)
<1> DEFINE Alike == p = q \/ p \in Beneath(f, q) \/ q \in Beneath(f, p)
           S == {y \in Beneath(f, p) : y \in Beneath(f, q) => Alike}
<1>1. ASSUME NEW x \in Node, f[x] \in S \cup {p}
      PROVE  x \in S
  <2>1. x \in Beneath(f, p)
    BY <1>1, ChildBeneath
  <2>2. ASSUME x \in Beneath(f, q)
        PROVE  Alike
    <3>1. f[x] \in Beneath(f, q) \cup {q}
      BY <2>2, ParentOfBeneath
    <3> QED
      BY <1>1, <3>1
  <2> QED
    BY <2>1, <2>2
<1>2. S \in SUBSET Node
  BY DEF Beneath
<1>3. Beneath(f, p) \subseteq S
  <2> HIDE DEF S
  <2> QED
    BY <1>1, <1>2, BeneathLeast
<1> QED
  BY <1>3

LEMMA BeneathChildless ==
    ASSUME NEW f, NEW p, \A x \in Node : f[x] # p
    PROVE  Beneath(f, p) = {}
BY BeneathLeast

\* A node without parent is put below p.
Attaches(f, n, p, g) ==
    /\ f \in Parents /\ n \in Node /\ f[n] = Null
    /\ p \in Node /\ p # n /\ p \notin Beneath(f, n)
    /\ g = [f EXCEPT ![n] = p]

LEMMA BeneathAttached ==
    ASSUME NEW f, NEW n, NEW p, NEW g, Attaches(f, n, p, g)
    PROVE  \A q, m \in Node :
              m \in Beneath(g, q) <=>
                 \/ m \in Beneath(f, q)
                 \/ (q = p \/ p \in Beneath(f, q)) /\ (m = n \/ m \in Beneath(f, n))
<1> USE DEF Attaches
<1> TAKE q, m \in Node
<1> DEFINE New == IF q = p \/ p \in Beneath(f, q) THEN {n} \cup Beneath(f, n) ELSE {}
           T == Beneath(f, q) \cup New
<1>1. /\ g[n] = p /\ \A x \in Node \ {n} : g[x] = f[x]
      /\ \A r : Beneath(f, r) \subseteq Node /\ Null \notin Node
  BY NodeAssumption DEF Parents, Beneath
<1>2. ASSUME NEW r \in Node
      PROVE  Beneath(f, r) \subseteq Beneath(g, r)
  <2>1. ASSUME NEW x \in Node, f[x] \in Beneath(g, r) \cup {r}
        PROVE  x \in Beneath(g, r)
    <3>1. x # n
      BY <1>1, <2>1 DEF Beneath
    <3> QED
      BY <1>1, <2>1, <3>1, ChildBeneath
  <2>2. Beneath(g, r) \in SUBSET Node
    BY DEF Beneath
  <2> QED
    BY <2>1, <2>2, BeneathLeast
<1>3. ASSUME q = p \/ p \in Beneath(f, q)
      PROVE  {n} \cup Beneath(f, n) \subseteq Beneath(g, q)
  <2>1. g[n] \in Beneath(g, q) \cup {q}
    BY <1>1, <1>2, <1>3
  <2>2. n \in Beneath(g, q)
    BY <2>1, ChildBeneath
  <2> QED
    BY <1>2, <2>2, BeneathTransitive
<1>4. ASSUME NEW x \in Node, g[x] \in T \cup {q}
      PROVE  x \in T
  <2>1. CASE x = n
    <3>1. p \in T \cup {q}
      BY <1>1, <1>4, <2>1
    <3> QED
      BY <2>1, <3>1
  <2>2. CASE x # n
    <3>1. f[x] \in Beneath(f, q) \cup {q} => x \in Beneath(f, q)
      BY ChildBeneath
    <3>2. f[x] \in Beneath(f, n) \cup {n} => x \in Beneath(f, n)
      BY ChildBeneath
    <3> QED
      BY <1>1, <1>4, <2>2, <3>1, <3>2
  <2> QED
    BY <2>1, <2>2
<1>5. T \in SUBSET Node
  BY <1>1
<1>6. Beneath(g, q) \subseteq T
  <2> HIDE DEF T
  <2> QED
    BY <1>4, <1>5, BeneathLeast
<1> QED
  BY <1>2, <1>3, <1>6

\* n is taken from below its parent.
Detaches(f, n, g) ==
    /\ f \in Parents /\ NoCycle(f)
    /\ n \in Node /\ g = [f EXCEPT ![n] = Null]

LEMMA BeneathDetached ==
    ASSUME NEW f, NEW n, NEW g, Detaches(f, n, g)
    PROVE  \A q, m \in Node :
              m \in Beneath(g, q) <=>
                 /\ m \in Beneath(f, q)
                 /\ ~ (n \in Beneath(f, q) /\ (m = n \/ m \in Beneath(f, n)))
<1> USE DEF Detaches
<1> TAKE q, m \in Node
<1> DEFINE Old == IF n \in Beneath(f, q) THEN {n} \cup Beneath(f, n) ELSE {}
           T == Beneath(f, q) \ Old
<1>1. /\ g[n] = Null /\ \A x \in Node \ {n} : g[x] = f[x]
      /\ Null \notin Node
      /\ \A r : Beneath(f, r) \subseteq Node /\ Beneath(g, r) \subseteq Node
  BY NodeAssumption DEF Parents, Beneath
<1>2. ASSUME n \in Beneath(f, q)
      PROVE  q \notin {n} \cup Beneath(f, n)
  BY <1>2, BeneathTransitive DEF NoCycle
<1>3. ASSUME NEW x \in Node, g[x] \in T \cup {q}
      PROVE  x \in T
  <2>1. x # n /\ f[x] \in T \cup {q}
    BY <1>1, <1>3
  <2>2. x \in Beneath(f, q)
    BY <2>1, ChildBeneath
  <2>3. ASSUME n \in Beneath(f, q)
        PROVE  x \notin Beneath(f, n)
    <3>1. f[x] \notin {n} \cup Beneath(f, n)
      BY <1>2, <2>1, <2>3
    <3> QED
      BY <3>1, ParentOfBeneath
  <2> QED
    BY <2>1, <2>2, <2>3
<1>4. Beneath(g, q) \subseteq T
  <2>1. T \in SUBSET Node
    BY <1>1
  <2> HIDE DEF T
  <2> QED
    BY <1>3, <2>1, BeneathLeast
<1>5. T \subseteq Beneath(g, q)
  <2>1. CASE n \in Beneath(f, q)
    <3> DEFINE U == Beneath(g, q) \cup {n} \cup Beneath(f, n)
    <3>1. ASSUME NEW x \in Node, f[x] \in U \cup {q}
          PROVE  x \in U
      <4>1. CASE f[x] \in {n} \cup Beneath(f, n)
        BY <4>1, ChildBeneath
      <4>2. CASE f[x] \in Beneath(g, q) \cup {q} /\ x # n
        <5>1. x \in Beneath(g, q)
          BY <1>1, <4>2, ChildBeneath
        <5> QED
          BY <5>1
      <4> QED
        BY <3>1, <4>1, <4>2
    <3>2. U \in SUBSET Node
      BY <1>1
    <3>3. Beneath(f, q) \subseteq U
      <4> HIDE DEF U
      <4> QED
        BY <3>1, <3>2, BeneathLeast
    <3> QED
      BY <2>1, <3>3
  <2>2. CASE n \notin Beneath(f, q)
    <3>1. ASSUME NEW x \in Node, f[x] \in Beneath(g, q) \cup {q}
          PROVE  x \in Beneath(g, q)
      <4>1. x \in Beneath(f, q)
        BY <1>4, <3>1, ChildBeneath
      <4> QED
        BY <1>1, <2>2, <3>1, <4>1, ChildBeneath
    <3>2. Beneath(f, q) \subseteq Beneath(g, q)
      BY <1>1, <3>1, BeneathLeast
    <3> QED
      BY <3>2
  <2> QED
    BY <2>1, <2>2
<1> QED
  BY <1>4, <1>5

LEMMA NoCycleAttached ==
    ASSUME NEW f, NEW n, NEW p, NEW g, NoCycle(f), Attaches(f, n, p, g)
    PROVE  NoCycle(g)
<1> SUFFICES ASSUME NEW q \in Node, q \in Beneath(g, q)
             PROVE  FALSE
  BY DEF NoCycle
<1>1. q \notin Beneath(f, q)
  BY DEF NoCycle
<1>2. (q = p \/ p \in Beneath(f, q)) /\ (q = n \/ q \in Beneath(f, n))
  <2>1. \A r, m \in Node :
           m \in Beneath(g, r) <=>
              \/ m \in Beneath(f, r)
              \/ (r = p \/ p \in Beneath(f, r)) /\ (m = n \/ m \in Beneath(f, n))
    BY BeneathAttached
  <2> QED
    BY <1>1, <2>1
<1>3. p \in Beneath(f, n)
  BY <1>2, BeneathTransitive DEF Attaches
<1> QED
  BY <1>3 DEF Attaches

LEMMA NoCycleDetached ==
    ASSUME NEW f, NEW n, NEW g, Detaches(f, n, g)
    PROVE  NoCycle(g)
<1>1. \A q, m \in Node :
         m \in Beneath(g, q) <=>
            /\ m \in Beneath(f, q)
            /\ ~ (n \in Beneath(f, q) /\ (m = n \/ m \in Beneath(f, n)))
  BY BeneathDetached
<1> QED
  BY <1>1 DEF NoCycle, Detaches

-----------------------------------------------------------------------------
(* Types.                                                                  *)

Pairs == (Id \cup {Unset}) \X Node

LEMMA EventFields ==
    ASSUME TypeOK, event # None
    PROVE  /\ event \in Event
           /\ event.op \in {"id", "append", "remove"}
           /\ event.when \in {"BEFORE", "CANCELLED", "AFTER"}
           /\ event.source \in Node /\ event.at \in NodeOrNull /\ event.object \in NodeOrNull
           /\ event.value \in Id \cup {Unset} /\ event.new \in Id \cup {Unset}
BY DEF TypeOK, Event

LEMMA AnnounceType ==
    ASSUME NEW op \in {"id", "append", "remove"}, NEW source \in Node, NEW object \in Node,
           NEW value \in Id \cup {Unset}, NEW new \in Id \cup {Unset},
           Announce(op, source, object, value, new)
    PROVE  /\ event' \in Event /\ event' # None
           /\ event'.op = op /\ event'.when = "BEFORE"
           /\ event'.source = source /\ event'.at = source /\ event'.object = object
           /\ event'.value = value /\ event'.new = new
<1>1. event' \in Event
  BY DEF Announce, Event, NodeOrNull
<1>2. /\ event'.op = op /\ event'.when = "BEFORE"
      /\ event'.source = source /\ event'.at = source /\ event'.object = object
      /\ event'.value = value /\ event'.new = new
  BY DEF Announce
<1>3. event' # None
  BY <1>2 DEF None
<1> QED
  BY <1>1, <1>2, <1>3

LEMMA ReindexedType ==
    ASSUME TypeOK, event # None, event.at # Null, Reindex,
           event.op = "id" => event.object \in Node
    PROVE  m_index' \in [Node -> SUBSET Pairs]
<1>1. \A S \in SUBSET Node : Entries(S) \subseteq Pairs
  BY DEF TypeOK, Entries, Pairs
<1>2. event.object # Null => Reach(event.object) \subseteq Node
  BY EventFields DEF Reach, Below, NodeOrNull
<1>3. event.op = "id" => <<event.value, event.object>> \in Pairs
  BY EventFields DEF Pairs
<1>4. ASSUME NEW index \in SUBSET Pairs
      PROVE  Reindexed(index, event) \in SUBSET Pairs
  BY <1>1, <1>2, <1>3, EventFields DEF Reindexed
<1>5. event.at \in Node /\ m_index \in [Node -> SUBSET Pairs]
  BY EventFields DEF TypeOK, Pairs, NodeOrNull
<1> QED
  BY <1>4, <1>5 DEF Reindex

\* What the next level or the veto of one leaves of the event.
LEMMA NotifyEvent ==
    ASSUME TypeOK, Notify
    PROVE  /\ event' \in Event /\ event' # None
           /\ event'.op = event.op /\ event'.when = event.when
           /\ event'.source = event.source /\ event'.object = event.object
           /\ event'.value = event.value /\ event'.new = event.new
           /\ event'.at = m_parent[event.at]
<1>1. event \in Event /\ event.at \in Node /\ m_parent[event.at] \in NodeOrNull
  BY EventFields DEF Notify, TypeOK, NodeOrNull
<1>2. event' = [event EXCEPT !.at = m_parent[event.at]]
  BY DEF Notify
<1>3. /\ event' \in Event
      /\ event'.op = event.op /\ event'.when = event.when
      /\ event'.source = event.source /\ event'.object = event.object
      /\ event'.value = event.value /\ event'.new = event.new
      /\ event'.at = m_parent[event.at]
  BY <1>1, <1>2 DEF Event
<1>4. event' # None
  BY <1>1, <1>3 DEF None, Event
<1> QED
  BY <1>3, <1>4

LEMMA VetoEvent ==
    ASSUME TypeOK, Veto
    PROVE  /\ event' \in Event /\ event' # None
           /\ event'.op = event.op /\ event'.when = "CANCELLED"
           /\ event'.source = event.source /\ event'.object = event.object
           /\ event'.value = event.value /\ event'.new = event.new
           /\ event'.at = event.source
<1>1. event \in Event
  BY EventFields DEF Veto
<1>2. event' = [event EXCEPT !.when = "CANCELLED", !.at = event.source]
  BY DEF Veto
<1>3. /\ event' \in Event
      /\ event'.op = event.op /\ event'.when = "CANCELLED"
      /\ event'.source = event.source /\ event'.object = event.object
      /\ event'.value = event.value /\ event'.new = event.new
      /\ event'.at = event.source
  BY <1>1, <1>2 DEF Event, NodeOrNull
<1>4. event' # None
  BY <1>3 DEF None
<1> QED
  BY <1>3, <1>4

\* The three changes, and the insertion that changes nothing.
CommitId ==
    /\ event.op = "id"
    /\ id' = [id EXCEPT ![event.object] = event.new]
    /\ UNCHANGED m_parent
    /\ event'.object = event.object /\ event'.value = event.new
CommitAppend ==
    /\ event.op = "append" /\ m_parent[event.object] = Null
    /\ m_parent' = [m_parent EXCEPT ![event.object] = event.source]
    /\ UNCHANGED id
    /\ event'.object = event.object /\ event'.value = event.value
CommitNothing ==
    /\ event.op = "append" /\ m_parent[event.object] # Null
    /\ UNCHANGED <<m_parent, id>>
    /\ event'.object = Null /\ event'.value = event.value
CommitRemove ==
    /\ event.op = "remove"
    /\ m_parent' = [m_parent EXCEPT ![event.object] = Null]
    /\ UNCHANGED id
    /\ event'.object = event.object /\ event'.value = event.value

LEMMA CommitEvent ==
    ASSUME TypeOK, Commit
    PROVE  /\ event' \in Event /\ event' # None
           /\ event'.op = event.op /\ event'.when = "AFTER"
           /\ event'.source = event.source /\ event'.at = event.source
           /\ event'.new = event.new
           /\ CommitId \/ CommitAppend \/ CommitNothing \/ CommitRemove
<1>1. event \in Event /\ Null \in NodeOrNull
  BY EventFields DEF Commit, NodeOrNull
<1>2. CASE event.op = "id"
  <2>1. event' = [event EXCEPT !.when = "AFTER", !.at = event.source, !.value = event.new]
    BY <1>2 DEF Commit
  <2>2. /\ event' \in Event
        /\ event'.op = event.op /\ event'.when = "AFTER"
        /\ event'.source = event.source /\ event'.at = event.source
        /\ event'.new = event.new
        /\ event'.object = event.object /\ event'.value = event.new
    BY <1>1, <2>1 DEF Event, NodeOrNull
  <2>3. CommitId
    BY <1>2, <2>2 DEF Commit, CommitId
  <2> QED
    BY <2>2, <2>3 DEF None
<1>3. CASE event.op = "append" /\ m_parent[event.object] # Null
  <2>1. event' = [event EXCEPT !.when = "AFTER", !.at = event.source, !.object = Null]
    BY <1>3 DEF Commit
  <2>2. /\ event' \in Event
        /\ event'.op = event.op /\ event'.when = "AFTER"
        /\ event'.source = event.source /\ event'.at = event.source
        /\ event'.new = event.new
        /\ event'.object = Null /\ event'.value = event.value
    BY <1>1, <2>1 DEF Event, NodeOrNull
  <2>3. CommitNothing
    BY <1>3, <2>2 DEF Commit, CommitNothing
  <2> QED
    BY <2>2, <2>3 DEF None
<1>4. CASE event.op = "remove" \/ (event.op = "append" /\ m_parent[event.object] = Null)
  <2>1. event' = [event EXCEPT !.when = "AFTER", !.at = event.source]
    BY <1>4 DEF Commit
  <2>2. /\ event' \in Event
        /\ event'.op = event.op /\ event'.when = "AFTER"
        /\ event'.source = event.source /\ event'.at = event.source
        /\ event'.new = event.new
        /\ event'.object = event.object /\ event'.value = event.value
    BY <1>1, <2>1 DEF Event, NodeOrNull
  <2>3. CommitAppend \/ CommitRemove
    BY <1>4, <2>2 DEF Commit, CommitAppend, CommitRemove
  <2> QED
    BY <2>2, <2>3 DEF None
<1> QED
  BY <1>1, <1>2, <1>3, <1>4 DEF Event

-----------------------------------------------------------------------------
(* The announcements under way, for any Liberties.                         *)

\* An announcement concerns a node, except the one that follows an insertion
\* that made nothing.
ObjectInv ==
    event # None =>
        /\ event.object = Null => event.op = "append" /\ event.when = "AFTER"
        /\ event.op # "append" => replaced = Null
TInv == TypeOK /\ ObjectInv

LEMMA CallTypes ==
    ASSUME TInv,
           \/ \E n \in Node : setState(n) \/ \E v \in Id \cup {Unset} : setId(n, v)
           \/ \E p, n \in Node : insert(p, n) \/ removeChild(p, n)
           \/ \E p, n, old \in Node : replaceChild(p, n, old)
    PROVE  TInv'
<1>1. ASSUME NEW n \in Node, setState(n)
      PROVE  TInv'
  <2>1. loaded' \in [Node -> BOOLEAN]
    BY <1>1 DEF setState, TInv, TypeOK
  <2> QED
    BY <1>1, <2>1 DEF setState, TInv, TypeOK, ObjectInv
<1>2. ASSUME NEW n \in Node, NEW v \in Id \cup {Unset}, setId(n, v)
      PROVE  TInv'
  <2>1. event' \in Event /\ event'.op = "id" /\ event'.object = n
    BY <1>2, AnnounceType DEF setId, TInv, TypeOK
  <2> QED
    BY <1>2, <2>1, NodeAssumption DEF setId, Idle, TInv, TypeOK, ObjectInv
<1>3. ASSUME NEW p \in Node, NEW n \in Node, insert(p, n) \/ removeChild(p, n)
      PROVE  TInv'
  <2>1. event' \in Event /\ event'.object = n
    BY <1>3, AnnounceType DEF insert, removeChild
  <2> QED
    BY <1>3, <2>1, NodeAssumption DEF insert, removeChild, Idle, TInv, TypeOK, ObjectInv
<1>4. ASSUME NEW p \in Node, NEW n \in Node, NEW old \in Node, replaceChild(p, n, old)
      PROVE  TInv'
  <2>1. event' \in Event /\ event'.object = n /\ event'.op = "append"
    BY <1>4, AnnounceType DEF replaceChild
  <2> QED
    BY <1>4, <2>1, NodeAssumption DEF replaceChild, TInv, TypeOK, ObjectInv, NodeOrNull
<1> QED
  BY <1>1, <1>2, <1>3, <1>4

LEMMA StepTypes ==
    ASSUME TInv, Notify \/ Veto \/ Commit \/ Return
    PROVE  TInv'
<1>1. CASE Notify \/ Veto
  <2>1. m_index' \in [Node -> SUBSET Pairs]
    <3>1. event.op = "id" => event.object \in Node
      BY <1>1, EventFields DEF Notify, Veto, TInv, ObjectInv, NodeOrNull
    <3> QED
      BY <1>1, <3>1, ReindexedType DEF Notify, Veto, TInv
  <2>2. /\ event' \in Event /\ event'.op = event.op /\ event'.object = event.object
        /\ event'.when = event.when \/ event.when = "BEFORE"
        /\ event # None /\ UNCHANGED <<m_parent, id, loaded, replaced>>
    BY <1>1, NotifyEvent, VetoEvent DEF Notify, Veto, TInv
  <2> QED
    BY <2>1, <2>2 DEF TInv, TypeOK, ObjectInv, Pairs
<1>2. CASE Commit
  <2>1. /\ event' \in Event /\ event'.op = event.op /\ event'.when = "AFTER"
        /\ CommitId \/ CommitAppend \/ CommitNothing \/ CommitRemove
        /\ UNCHANGED <<loaded, m_index, replaced>>
    BY <1>2, CommitEvent DEF Commit, TInv
  <2>2. event # None /\ event.source \in Node /\ event.new \in Id \cup {Unset}
    BY <1>2, EventFields DEF Commit, TInv
  <2>3. m_parent' \in [Node -> NodeOrNull]
    BY <2>1, <2>2 DEF CommitId, CommitAppend, CommitNothing, CommitRemove, TInv, TypeOK, NodeOrNull
  <2>4. id' \in [Node -> Id \cup {Unset}]
    BY <2>1, <2>2 DEF CommitId, CommitAppend, CommitNothing, CommitRemove, TInv, TypeOK
  <2>5. event'.object = Null => event'.op = "append"
    BY <2>1, <2>2 DEF CommitId, CommitAppend, CommitNothing, CommitRemove, TInv, ObjectInv
  <2> QED
    BY <2>1, <2>2, <2>3, <2>4, <2>5 DEF TInv, TypeOK, ObjectInv
<1>3. CASE Return
  <2>1. /\ replaced' = Null /\ Null \in NodeOrNull
        /\ UNCHANGED <<m_parent, id, loaded, m_index>>
    BY <1>3 DEF Return, NodeOrNull
  <2>2. CASE replaced = Null
    BY <1>3, <2>1, <2>2 DEF Return, TInv, TypeOK, ObjectInv
  <2>3. CASE replaced # Null
    <3>1. event.source \in Node /\ replaced \in Node
      BY <1>3, <2>3, EventFields DEF Return, TInv, TypeOK, NodeOrNull
    <3>2. event' \in Event /\ event'.object = replaced
      BY <1>3, <2>3, <3>1, AnnounceType DEF Return
    <3> QED
      BY <2>1, <2>3, <3>2 DEF TInv, TypeOK, ObjectInv
  <2> QED
    BY <2>2, <2>3
<1> QED
  BY <1>1, <1>2, <1>3

LEMMA TypesInvariant == Spec => []TInv
<1>1. Init => TInv
  BY DEF Init, TInv, TypeOK, ObjectInv, NodeOrNull
<1>2. TInv /\ [Next]_vars => TInv'
  <2> SUFFICES ASSUME TInv, [Next]_vars
               PROVE  TInv'
    OBVIOUS
  <2>1. CASE UNCHANGED vars
    BY <2>1 DEF vars, TInv, TypeOK, ObjectInv
  <2> QED
    BY <2>1, CallTypes, StepTypes DEF Next
<1> QED
  BY <1>1, <1>2, PTL DEF Spec

\* The state has its types, whatever clients do: an announcement goes up over
\* nodes, and no index ever lists the NULL of an insertion that made nothing.
THEOREM TypeCorrect == Spec => []TypeOK
<1>1. TInv => TypeOK
  BY DEF TInv
<1> QED
  BY <1>1, TypesInvariant, PTL

-----------------------------------------------------------------------------
(* The invariant.  f, ids, ld, index, e and rep stand for m_parent, id,    *)
(* loaded, m_index, event and replaced.                                    *)

Regular == Liberties = {}

\* The levels of e, and those that it has reached since it started.
OnRoute(f, e, p) == p = e.source \/ e.source \in Beneath(f, p)
Visited(f, e, p) == e.at = Null \/ p \in Beneath(f, e.at)

Whole(f, ld, n) == ld[n] \/ \A x \in Node : f[x] # n

IdEvent(ids, e, rep) ==
    e.object = e.source /\ e.value = ids[e.source] /\ e.new \in Id /\ rep = Null

AppendEvent(f, ld, e) ==
    IF e.when # "AFTER"
    THEN e.source \notin {e.object} \cup Beneath(f, e.object) /\ Whole(f, ld, e.object)
    ELSE e.object # Null => f[e.object] = e.source /\ Whole(f, ld, e.object)

RemoveEvent(f, ld, e, rep) ==
    /\ f[e.object] = IF e.when = "AFTER" THEN Null ELSE e.source
    /\ e.source \notin {e.object} \cup Beneath(f, e.object)
    /\ Whole(f, ld, e.object) /\ rep = Null

\* What the announcement and the replaceChild under way rely on.
EventOK(f, ids, ld, e, rep) ==
    /\ e = None => rep = Null
    /\ e # None =>
        /\ e.at # Null => OnRoute(f, e, e.at)
        /\ e.op = "id" => IdEvent(ids, e, rep)
        /\ e.op = "append" => AppendEvent(f, ld, e)
        /\ e.op = "remove" => RemoveEvent(f, ld, e, rep)
        /\ rep # Null => f[rep] = e.source /\ Whole(f, ld, rep) /\ rep # e.object

\* The nodes whose entries e changes.
Concerns(f, e, n) ==
    /\ e # None
    /\ \/ e.op = "id" /\ n = e.object
       \/ /\ e.op # "id" /\ e.when = "AFTER" /\ e.object # Null
          /\ n \in {e.object} \cup Beneath(f, e.object)

\* The entry of n in the index of p may not be what it should be.
Unsettled(f, e, p, n) ==
    /\ Concerns(f, e, n) /\ OnRoute(f, e, p)
    /\ IF e.when = "BEFORE" THEN Visited(f, e, p) ELSE ~ Visited(f, e, p)

Current(ids, index) ==
    \A p, n \in Node : \A i : <<i, n>> \in index[p] => i = ids[n]

Indexed(f, ids, index, e) ==
    \A p, n \in Node :
        n # p /\ ~ Unsettled(f, e, p, n) => (<<ids[n], n>> \in index[p] <=> n \in Beneath(f, p))

Forgotten(f, ids, index, e) ==
    e # None /\ e.op = "id" /\ e.when = "BEFORE" =>
        \A p \in Node : OnRoute(f, e, p) /\ Visited(f, e, p) =>
            <<ids[e.object], e.object>> \notin index[p]

IndexOK(f, ids, index, e) ==
    Current(ids, index) /\ Indexed(f, ids, index, e) /\ Forgotten(f, ids, index, e)

Identified(ids) == \A n \in Node : ids[n] \in Id

RInv ==
    /\ NoCycle(m_parent) /\ Identified(id)
    /\ EventOK(m_parent, id, loaded, event, replaced)
    /\ IndexOK(m_parent, id, m_index, event)

LEMMA RInvPrimed ==
    RInv' <=> /\ NoCycle(m_parent') /\ Identified(id')
              /\ EventOK(m_parent', id', loaded', event', replaced')
              /\ IndexOK(m_parent', id', m_index', event')
<1>1. NoCycle(m_parent)' <=> NoCycle(m_parent')
  BY DEF NoCycle, Beneath
<1>2. Identified(id)' <=> Identified(id')
  BY DEF Identified
<1>3. EventOK(m_parent, id, loaded, event, replaced)' <=>
         EventOK(m_parent', id', loaded', event', replaced')
  BY DEF EventOK, OnRoute, IdEvent, AppendEvent, RemoveEvent, Whole, Beneath, None
<1>4. IndexOK(m_parent, id, m_index, event)' <=> IndexOK(m_parent', id', m_index', event')
  BY DEF IndexOK, Current, Indexed, Forgotten, Unsettled, Concerns, OnRoute, Visited, Beneath, None
<1> QED
  BY <1>1, <1>2, <1>3, <1>4 DEF RInv

-----------------------------------------------------------------------------
(* The way of an announcement.                                             *)

LEMMA JustBegun ==
    ASSUME NEW f, NoCycle(f), NEW e, e.source \in Node, e.at = e.source,
           NEW p \in Node, OnRoute(f, e, p)
    PROVE  ~ Visited(f, e, p)
<1> SUFFICES ASSUME p \in Beneath(f, e.source)
             PROVE  FALSE
  BY NodeAssumption DEF Visited
<1>1. p = e.source \/ e.source \in Beneath(f, p)
  BY DEF OnRoute
<1>2. e.source \in Beneath(f, p) => Beneath(f, p) \subseteq Beneath(f, e.source)
  BY BeneathTransitive
<1> QED
  BY <1>1, <1>2 DEF NoCycle

LEMMA ParentNotBelow ==
    ASSUME NEW f, NoCycle(f), NEW n \in Node, f[n] \in Node
    PROVE  f[n] \notin {n} \cup Beneath(f, n)
<1>1. n \in Beneath(f, f[n])
  BY ChildBeneath
<1>2. f[n] \in Beneath(f, n) => Beneath(f, f[n]) \subseteq Beneath(f, n)
  BY BeneathTransitive
<1> QED
  BY <1>1, <1>2 DEF NoCycle

\* A level is told, and the next is its parent.
LEMMA RouteAdvances ==
    ASSUME NEW f \in Parents, NoCycle(f), NEW e, e.at \in Node, OnRoute(f, e, e.at),
           NEW d, d.source = e.source, d.at = f[e.at], NEW p \in Node, OnRoute(f, e, p)
    PROVE  Visited(f, d, p) <=> Visited(f, e, p) \/ p = e.at
<1> DEFINE a == e.at
           b == f[a]
<1>1. a \in Node /\ b \in NodeOrNull /\ a # Null
  BY NodeAssumption DEF Parents
<1>2. p = a \/ p \in Beneath(f, a) \/ a \in Beneath(f, p)
  <2>1. (p = e.source \/ e.source \in Beneath(f, p)) /\ (a = e.source \/ e.source \in Beneath(f, a))
    BY DEF OnRoute
  <2> QED
    BY <2>1, BeneathComparable
<1>3. a \in Beneath(f, p) => b = p \/ b \in Beneath(f, p)
  BY ParentOfBeneath
<1>4. /\ Visited(f, e, p) <=> p \in Beneath(f, a)
      /\ Visited(f, d, p) <=> b = Null \/ p \in Beneath(f, b)
  BY <1>1 DEF Visited
<1>5. ASSUME b = Null
      PROVE  p = a \/ p \in Beneath(f, a)
  <2>1. Null \notin Beneath(f, p) /\ p # Null
    BY NodeAssumption DEF Beneath
  <2> QED
    BY <1>2, <1>3, <1>5, <2>1
<1>6. ASSUME b \in Node
      PROVE  /\ a \in Beneath(f, b)
             /\ p \in Beneath(f, a) => p \in Beneath(f, b)
             /\ p \in Beneath(f, b) => ~ (a \in Beneath(f, p))
  <2>1. a \in Beneath(f, b)
    BY <1>1, ChildBeneath
  <2>2. Beneath(f, a) \subseteq Beneath(f, b)
    BY <2>1, BeneathTransitive
  <2>3. ASSUME p \in Beneath(f, b), a \in Beneath(f, p)
        PROVE  FALSE
    <3>1. b = p \/ p \in Beneath(f, p)
      BY <1>3, <2>3, BeneathTransitive
    <3> QED
      BY <2>3, <3>1 DEF NoCycle
  <2> QED
    BY <2>1, <2>2, <2>3
<1>7. CASE b = Null
  BY <1>4, <1>5, <1>7
<1>8. CASE b \in Node
  <2>1. b # Null
    BY <1>8, NodeAssumption
  <2> QED
    BY <1>2, <1>4, <1>6, <1>8, <2>1
<1> QED
  BY <1>1, <1>7, <1>8 DEF NodeOrNull

LEMMA RouteGoesOn ==
    ASSUME NEW f, NEW e, e.at \in Node, OnRoute(f, e, e.at), f[e.at] \in Node
    PROVE  f[e.at] = e.source \/ e.source \in Beneath(f, f[e.at])
<1>1. e.at \in Beneath(f, f[e.at])
  BY ChildBeneath
<1> QED
  BY <1>1, BeneathTransitive DEF OnRoute

-----------------------------------------------------------------------------
(* A level brings its index up to date.                                    *)

\* Whether the entries of the nodes concerned are to be there.
Adds(e) == e.op = "append" \/ (e.op = "id" /\ e.when # "BEFORE")

LEMMA EntriesMeaning ==
    ASSUME Identified(id), NEW S \in SUBSET Node, NEW i, NEW n \in Node
    PROVE  <<i, n>> \in Entries(S) <=> n \in S /\ i = id[n]
<1>1. Entries(S) = {<<id[m], m>> : m \in S}
  BY IdAssumption DEF Entries, Identified
<1> QED
  BY <1>1

LEMMA ReachMeaning ==
    ASSUME NEW n, Whole(m_parent, loaded, n)
    PROVE  Reach(n) = {n} \cup Beneath(m_parent, n)
<1>1. Below(n) = Beneath(m_parent, n)
  BY BelowIsBeneath
<1>2. CASE loaded[n]
  BY <1>1, <1>2 DEF Reach
<1>3. CASE ~ loaded[n]
  <2>1. Beneath(m_parent, n) = {}
    BY <1>3, BeneathChildless DEF Whole
  <2> QED
    BY <1>3, <2>1 DEF Reach
<1> QED
  BY <1>2, <1>3

LEMMA ReindexedMeaning ==
    ASSUME TInv, RInv, event # None, NEW index, NEW i, NEW n \in Node
    PROVE  <<i, n>> \in Reindexed(index, event) <=>
              IF Concerns(m_parent, event, n) /\ i = id[n]
              THEN Adds(event) ELSE <<i, n>> \in index
<1> DEFINE o == event.object
           R == {o} \cup Beneath(m_parent, o)
<1>1. /\ event.op \in {"id", "append", "remove"} /\ event.when \in {"BEFORE", "CANCELLED", "AFTER"}
      /\ o \in Node \cup {Null} /\ Identified(id)
  BY EventFields DEF TInv, RInv, NodeOrNull
<1>2. CASE event.op = "id"
  <2>1. IdEvent(id, event, replaced)
    BY <1>2 DEF RInv, EventOK
  <2>2. event.value = id[o]
    BY <2>1 DEF IdEvent
  <2>3. Concerns(m_parent, event, n) <=> n = o
    BY <1>2 DEF Concerns
  <2>4. CASE event.when = "BEFORE"
    <3>1. Reindexed(index, event) = index \ {<<id[o], o>>}
      BY <1>2, <2>2, <2>4 DEF Reindexed
    <3> QED
      BY <1>2, <2>3, <2>4, <3>1 DEF Adds
  <2>5. CASE event.when # "BEFORE"
    <3>1. Reindexed(index, event) = index \cup {<<id[o], o>>}
      BY <1>2, <2>2, <2>5 DEF Reindexed
    <3> QED
      BY <1>2, <2>3, <2>5, <3>1 DEF Adds
  <2> QED
    BY <2>4, <2>5
<1>3. CASE event.op # "id" /\ event.when = "AFTER" /\ o # Null
  <2>1. Whole(m_parent, loaded, o)
    BY <1>1, <1>3 DEF RInv, EventOK, AppendEvent, RemoveEvent
  <2>2. <<i, n>> \in Entries(Reach(o)) <=> n \in R /\ i = id[n]
    <3>1. Reach(o) = R /\ R \in SUBSET Node
      BY <1>1, <1>3, <2>1, ReachMeaning DEF Beneath
    <3> QED
      BY <1>1, <3>1, EntriesMeaning
  <2>3. Concerns(m_parent, event, n) <=> n \in R
    BY <1>3 DEF Concerns
  <2>4. CASE event.op = "append"
    <3>1. Reindexed(index, event) = index \cup Entries(Reach(o))
      BY <1>3, <2>4 DEF Reindexed
    <3> QED
      BY <2>2, <2>3, <2>4, <3>1 DEF Adds
  <2>5. CASE event.op = "remove"
    <3>1. Reindexed(index, event) = index \ Entries(Reach(o))
      BY <1>3, <2>5 DEF Reindexed
    <3> QED
      BY <2>2, <2>3, <2>5, <3>1 DEF Adds
  <2> QED
    BY <1>1, <1>3, <2>4, <2>5
<1>4. CASE event.op # "id" /\ (event.when # "AFTER" \/ o = Null)
  <2>1. Reindexed(index, event) = index
    BY <1>1, <1>4 DEF Reindexed, TInv, ObjectInv
  <2>2. ~ Concerns(m_parent, event, n)
    BY <1>4 DEF Concerns
  <2> QED
    BY <2>1, <2>2
<1> QED
  BY <1>2, <1>3, <1>4

\* Where the route passes, what is concerned belongs below, or does not.
LEMMA ConcernedBelow ==
    ASSUME TInv, RInv, event # None, event.when # "BEFORE",
           NEW p \in Node, OnRoute(m_parent, event, p),
           NEW n \in Node, n # p, Concerns(m_parent, event, n)
    PROVE  n \in Beneath(m_parent, p) <=> Adds(event)
<1> DEFINE o == event.object
<1>1. /\ event.op \in {"id", "append", "remove"} /\ event.source \in Node
      /\ p = event.source \/ event.source \in Beneath(m_parent, p)
  BY EventFields DEF TInv, OnRoute
<1>2. CASE event.op = "id"
  <2>1. n = event.source
    BY <1>2 DEF Concerns, RInv, EventOK, IdEvent
  <2> QED
    BY <1>1, <1>2, <2>1 DEF Adds
<1>3. CASE event.op # "id"
  <2>1. o \in Node /\ event.when = "AFTER" /\ n \in {o} \cup Beneath(m_parent, o)
    BY <1>3, EventFields DEF Concerns, TInv, NodeOrNull
  <2>2. CASE event.op = "append"
    <3>1. m_parent[o] = event.source
      BY <2>1, <2>2, NodeAssumption DEF RInv, EventOK, AppendEvent
    <3>2. o \in Beneath(m_parent, p)
      BY <1>1, <2>1, <3>1, ChildBeneath
    <3> QED
      BY <2>1, <2>2, <3>2, BeneathTransitive DEF Adds
  <2>3. CASE event.op = "remove"
    <3>1. m_parent[o] = Null /\ event.source \notin {o} \cup Beneath(m_parent, o)
      BY <2>1, <2>3 DEF RInv, EventOK, RemoveEvent
    <3>2. o \notin Beneath(m_parent, p)
      <4>1. Null \notin Beneath(m_parent, p) \cup {p}
        BY NodeAssumption DEF Beneath
      <4> QED
        BY <3>1, <4>1, ParentOfBeneath
    <3>3. p \notin {o} \cup Beneath(m_parent, o)
      BY <1>1, <3>1, BeneathTransitive
    <3>4. n \notin Beneath(m_parent, p)
      BY <2>1, <3>2, <3>3, BeneathComparable
    <3> QED
      BY <2>3, <3>4 DEF Adds
  <2> QED
    BY <1>1, <1>3, <2>2, <2>3
<1> QED
  BY <1>2, <1>3

\* The entries after a level, told or vetoing, is up to date.
LEMMA LevelEntries ==
    ASSUME TInv, RInv, event # None, event.at # Null, Reindex
    PROVE  /\ event.at \in Node
           /\ \A p, n \in Node : \A i :
                 <<i, n>> \in m_index'[p] <=>
                    IF p = event.at /\ Concerns(m_parent, event, n) /\ i = id[n]
                    THEN Adds(event) ELSE <<i, n>> \in m_index[p]
           /\ Current(id, m_index')
<1>1. event.at \in Node
  BY EventFields DEF TInv, NodeOrNull
<1>2. /\ m_index'[event.at] = Reindexed(m_index[event.at], event)
      /\ \A p \in Node \ {event.at} : m_index'[p] = m_index[p]
  BY <1>1 DEF Reindex, TInv, TypeOK
<1>3. ASSUME NEW p \in Node, NEW n \in Node, NEW i
      PROVE  <<i, n>> \in m_index'[p] <=>
                IF p = event.at /\ Concerns(m_parent, event, n) /\ i = id[n]
                THEN Adds(event) ELSE <<i, n>> \in m_index[p]
  BY <1>2, ReindexedMeaning
<1>4. Current(id, m_index')
  BY <1>3 DEF Current, RInv, IndexOK
<1> QED
  BY <1>1, <1>3, <1>4

LEMMA NotifyRegular ==
    ASSUME TInv, RInv, Notify
    PROVE  RInv'
<1> DEFINE a == event.at
<1>1. /\ event # None /\ a \in Node /\ Reindex
      /\ UNCHANGED <<m_parent, id, loaded, replaced>>
      /\ m_parent \in Parents /\ NoCycle(m_parent) /\ m_parent[a] \in NodeOrNull
      /\ OnRoute(m_parent, event, a)
  BY EventFields DEF Notify, TInv, TypeOK, RInv, EventOK, Parents, NodeOrNull
<1>2. /\ event' # None
      /\ event'.op = event.op /\ event'.when = event.when
      /\ event'.source = event.source /\ event'.object = event.object
      /\ event'.value = event.value /\ event'.new = event.new
      /\ event'.at = m_parent[a]
  BY NotifyEvent DEF TInv
<1>3. /\ \A n : Concerns(m_parent, event', n) <=> Concerns(m_parent, event, n)
      /\ \A p : OnRoute(m_parent, event', p) <=> OnRoute(m_parent, event, p)
  BY <1>1, <1>2 DEF Concerns, OnRoute
<1>4. ASSUME NEW p \in Node, OnRoute(m_parent, event, p)
      PROVE  Visited(m_parent, event', p) <=> Visited(m_parent, event, p) \/ p = a
  BY <1>1, <1>2, <1>4, RouteAdvances
<1>5. ~ Visited(m_parent, event, a)
  BY <1>1, NodeAssumption DEF Visited, NoCycle
<1>6. \A p, n \in Node : \A i :
         <<i, n>> \in m_index'[p] <=>
            IF p = a /\ Concerns(m_parent, event, n) /\ i = id[n]
            THEN Adds(event) ELSE <<i, n>> \in m_index[p]
  BY <1>1, LevelEntries DEF Notify
<1>7. Indexed(m_parent, id, m_index', event')
  <2> SUFFICES ASSUME NEW p \in Node, NEW n \in Node, n # p, ~ Unsettled(m_parent, event', p, n)
               PROVE  <<id[n], n>> \in m_index'[p] <=> n \in Beneath(m_parent, p)
    BY DEF Indexed
  <2>1. ~ Unsettled(m_parent, event, p, n) =>
           (<<id[n], n>> \in m_index[p] <=> n \in Beneath(m_parent, p))
    BY DEF RInv, IndexOK, Indexed
  <2>2. CASE p # a \/ ~ Concerns(m_parent, event, n)
    <3>1. ~ Unsettled(m_parent, event, p, n)
      BY <1>2, <1>3, <1>4, <2>2 DEF Unsettled
    <3> QED
      BY <1>6, <2>1, <2>2, <3>1
  <2>3. CASE p = a /\ Concerns(m_parent, event, n)
    <3>1. event.when # "BEFORE"
      BY <1>1, <1>2, <1>3, <1>4, <2>3 DEF Unsettled
    <3>2. n \in Beneath(m_parent, p) <=> Adds(event)
      BY <1>1, <2>3, <3>1, ConcernedBelow
    <3> QED
      BY <1>6, <2>3, <3>2
  <2> QED
    BY <2>2, <2>3
<1>8. Forgotten(m_parent, id, m_index', event')
  <2> SUFFICES ASSUME event.op = "id", event.when = "BEFORE",
                      NEW p \in Node, OnRoute(m_parent, event, p), Visited(m_parent, event', p)
               PROVE  <<id[event.object], event.object>> \notin m_index'[p]
    BY <1>2, <1>3 DEF Forgotten
  <2>1. event.object \in Node /\ Concerns(m_parent, event, event.object)
    BY <1>1, EventFields DEF Concerns, TInv, ObjectInv, NodeOrNull
  <2>2. CASE p = a
    BY <1>6, <2>1, <2>2 DEF Adds
  <2>3. CASE p # a
    <3>1. <<id[event.object], event.object>> \notin m_index[p]
      BY <1>1, <1>4, <2>3 DEF RInv, IndexOK, Forgotten
    <3> QED
      BY <1>6, <2>1, <2>3, <3>1
  <2> QED
    BY <2>2, <2>3
<1>9. IndexOK(m_parent, id, m_index', event')
  BY <1>1, <1>7, <1>8, LevelEntries DEF IndexOK, Notify
<1>10. EventOK(m_parent, id, loaded, event', replaced)
  <2>1. event'.at # Null => OnRoute(m_parent, event', event'.at)
    BY <1>1, <1>2, RouteGoesOn DEF OnRoute, NodeOrNull
  <2>2. /\ IdEvent(id, event', replaced) <=> IdEvent(id, event, replaced)
        /\ AppendEvent(m_parent, loaded, event') <=> AppendEvent(m_parent, loaded, event)
        /\ RemoveEvent(m_parent, loaded, event', replaced) <=> RemoveEvent(m_parent, loaded, event, replaced)
    BY <1>2 DEF IdEvent, AppendEvent, RemoveEvent
  <2> QED
    BY <1>1, <1>2, <2>1, <2>2 DEF RInv, EventOK
<1> QED
  BY <1>1, <1>9, <1>10, RInvPrimed DEF RInv

LEMMA VetoRegular ==
    ASSUME TInv, RInv, Veto
    PROVE  RInv'
<1> DEFINE a == event.at
<1>1. /\ event # None /\ a \in Node /\ Reindex /\ event.when = "BEFORE"
      /\ UNCHANGED <<m_parent, id, loaded, replaced>>
      /\ NoCycle(m_parent) /\ event.source \in Node
      /\ OnRoute(m_parent, event, a)
      /\ event.op \in {"id", "append", "remove"}
  BY EventFields DEF Veto, TInv, RInv, EventOK, NodeOrNull
<1>2. /\ event' # None
      /\ event'.op = event.op /\ event'.when = "CANCELLED"
      /\ event'.source = event.source /\ event'.object = event.object
      /\ event'.value = event.value /\ event'.new = event.new
      /\ event'.at = event.source
  BY VetoEvent DEF TInv
<1>3. /\ \A n : Concerns(m_parent, event', n) <=> Concerns(m_parent, event, n)
      /\ \A p : OnRoute(m_parent, event', p) <=> OnRoute(m_parent, event, p)
  BY <1>1, <1>2 DEF Concerns, OnRoute
<1>4. ASSUME NEW p \in Node, OnRoute(m_parent, event, p)
      PROVE  ~ Visited(m_parent, event', p)
  BY <1>1, <1>2, <1>3, <1>4, JustBegun
<1>5. \A p, n \in Node : \A i :
         <<i, n>> \in m_index'[p] <=>
            IF p = a /\ Concerns(m_parent, event, n) /\ i = id[n]
            THEN Adds(event) ELSE <<i, n>> \in m_index[p]
  BY <1>1, LevelEntries DEF Veto
<1>6. Indexed(m_parent, id, m_index', event')
  <2> SUFFICES ASSUME NEW p \in Node, NEW n \in Node, n # p, ~ Unsettled(m_parent, event', p, n)
               PROVE  <<id[n], n>> \in m_index'[p] <=> n \in Beneath(m_parent, p)
    BY DEF Indexed
  <2>1. ~ Unsettled(m_parent, event, p, n) =>
           (<<id[n], n>> \in m_index[p] <=> n \in Beneath(m_parent, p))
    BY DEF RInv, IndexOK, Indexed
  <2>2. ~ (Concerns(m_parent, event, n) /\ OnRoute(m_parent, event, p))
    BY <1>2, <1>3, <1>4 DEF Unsettled
  <2>3. ~ Unsettled(m_parent, event, p, n)
    BY <2>2 DEF Unsettled
  <2>4. p = a => ~ Concerns(m_parent, event, n)
    BY <1>1, <2>2
  <2> QED
    BY <1>5, <2>1, <2>3, <2>4
<1>7. IndexOK(m_parent, id, m_index', event')
  <2>1. Forgotten(m_parent, id, m_index', event')
    BY <1>2 DEF Forgotten
  <2> QED
    BY <1>1, <1>6, <2>1, LevelEntries DEF IndexOK, Veto
<1>8. EventOK(m_parent, id, loaded, event', replaced)
  <2>1. OnRoute(m_parent, event', event'.at)
    BY <1>2 DEF OnRoute
  <2>2. /\ IdEvent(id, event', replaced) <=> IdEvent(id, event, replaced)
        /\ AppendEvent(m_parent, loaded, event') <=> AppendEvent(m_parent, loaded, event)
        /\ RemoveEvent(m_parent, loaded, event', replaced) <=> RemoveEvent(m_parent, loaded, event, replaced)
    BY <1>1, <1>2 DEF IdEvent, AppendEvent, RemoveEvent
  <2> QED
    BY <1>1, <1>2, <2>1, <2>2 DEF RInv, EventOK
<1> QED
  BY <1>1, <1>7, <1>8, RInvPrimed DEF RInv

-----------------------------------------------------------------------------
(* An announcement begins.                                                 *)

LEMMA BegunIndex ==
    ASSUME NEW f, NoCycle(f), NEW ids, NEW index, NEW e, IndexOK(f, ids, index, e),
           \A p, n \in Node : ~ Unsettled(f, e, p, n),
           NEW d, d.when = "BEFORE", d.source \in Node, d.at = d.source
    PROVE  IndexOK(f, ids, index, d)
<1>1. \A p \in Node : OnRoute(f, d, p) => ~ Visited(f, d, p)
  BY JustBegun
<1>2. Indexed(f, ids, index, d)
  BY DEF IndexOK, Indexed
<1>3. Forgotten(f, ids, index, d)
  BY <1>1 DEF Forgotten
<1> QED
  BY <1>2, <1>3 DEF IndexOK

LEMMA CallRegular ==
    ASSUME TInv, Regular, RInv,
           \/ \E n \in Node : setState(n) \/ \E v \in Id \cup {Unset} : setId(n, v)
           \/ \E p, n \in Node : insert(p, n) \/ removeChild(p, n)
           \/ \E p, n, old \in Node : replaceChild(p, n, old)
    PROVE  RInv'
<1>1. /\ event = None /\ replaced = Null
      /\ UNCHANGED <<m_parent, id, m_index>>
      /\ NoCycle(m_parent) /\ Identified(id)
      /\ IndexOK(m_parent, id, m_index, event)
  BY DEF setState, setId, insert, removeChild, replaceChild, Idle, RInv
<1>2. \A p, n \in Node : ~ Unsettled(m_parent, event, p, n)
  BY <1>1 DEF Unsettled, Concerns
<1>3. \A n \in Node : Movable(n) => Whole(m_parent, loaded, n)
  BY DEF Movable, Regular, Whole, Childless
<1>4. ASSUME event' # None, event'.when = "BEFORE", event'.source \in Node,
             event'.at = event'.source, UNCHANGED loaded,
             EventOK(m_parent, id, loaded, event', replaced')
      PROVE  RInv'
  <2>1. IndexOK(m_parent, id, m_index, event')
    BY <1>1, <1>2, <1>4, BegunIndex
  <2> QED
    BY <1>1, <1>4, <2>1, RInvPrimed
<1>5. ASSUME NEW n \in Node, setState(n)
      PROVE  RInv'
  <2>1. EventOK(m_parent, id, loaded', event', replaced')
    BY <1>1, <1>5 DEF setState, EventOK
  <2> QED
    BY <1>1, <1>5, <2>1, RInvPrimed DEF setState
<1>6. ASSUME NEW n \in Node, NEW v \in Id \cup {Unset}, setId(n, v)
      PROVE  RInv'
  <2>1. v \in Id /\ id[n] \in Id \cup {Unset}
    BY <1>1, <1>6 DEF setId, Regular, Identified
  <2>2. /\ event' # None /\ event'.op = "id" /\ event'.when = "BEFORE"
        /\ event'.source = n /\ event'.at = n /\ event'.object = n
        /\ event'.value = id[n] /\ event'.new = v
        /\ replaced' = Null /\ UNCHANGED loaded
    BY <1>1, <1>6, <2>1, AnnounceType DEF setId
  <2>3. EventOK(m_parent, id, loaded, event', replaced')
    BY <2>1, <2>2 DEF EventOK, IdEvent, OnRoute
  <2> QED
    BY <1>4, <2>2, <2>3
<1>7. ASSUME NEW p \in Node, NEW n \in Node, insert(p, n)
      PROVE  RInv'
  <2>1. p # n /\ p \notin Beneath(m_parent, n) /\ Whole(m_parent, loaded, n)
    BY <1>3, <1>7, BelowIsBeneath DEF insert
  <2>2. /\ event' # None /\ event'.op = "append" /\ event'.when = "BEFORE"
        /\ event'.source = p /\ event'.at = p /\ event'.object = n
        /\ replaced' = Null /\ UNCHANGED loaded
    BY <1>1, <1>7, AnnounceType DEF insert
  <2>3. EventOK(m_parent, id, loaded, event', replaced')
    BY <2>1, <2>2 DEF EventOK, AppendEvent, OnRoute
  <2> QED
    BY <1>4, <2>2, <2>3
<1>8. ASSUME NEW p \in Node, NEW n \in Node, removeChild(p, n)
      PROVE  RInv'
  <2>1. m_parent[n] = p /\ Whole(m_parent, loaded, n)
    BY <1>3, <1>8 DEF removeChild
  <2>2. p \notin {n} \cup Beneath(m_parent, n)
    BY <1>1, <2>1, ParentNotBelow
  <2>3. /\ event' # None /\ event'.op = "remove" /\ event'.when = "BEFORE"
        /\ event'.source = p /\ event'.at = p /\ event'.object = n
        /\ replaced' = Null /\ UNCHANGED loaded
    BY <1>1, <1>8, AnnounceType DEF removeChild
  <2>4. EventOK(m_parent, id, loaded, event', replaced')
    BY <2>1, <2>2, <2>3 DEF EventOK, RemoveEvent, OnRoute
  <2> QED
    BY <1>4, <2>3, <2>4
<1>9. ASSUME NEW p \in Node, NEW n \in Node, NEW old \in Node, replaceChild(p, n, old)
      PROVE  RInv'
  <2>1. /\ p # n /\ p \notin Beneath(m_parent, n) /\ Whole(m_parent, loaded, n)
        /\ m_parent[old] = p /\ Whole(m_parent, loaded, old) /\ n # old
    BY <1>3, <1>9, BelowIsBeneath DEF replaceChild
  <2>2. /\ event' # None /\ event'.op = "append" /\ event'.when = "BEFORE"
        /\ event'.source = p /\ event'.at = p /\ event'.object = n
        /\ replaced' = old /\ UNCHANGED loaded
    BY <1>9, AnnounceType DEF replaceChild
  <2>3. EventOK(m_parent, id, loaded, event', replaced')
    BY <2>1, <2>2 DEF EventOK, AppendEvent, OnRoute
  <2> QED
    BY <1>4, <2>2, <2>3
<1> QED
  BY <1>5, <1>6, <1>7, <1>8, <1>9

-----------------------------------------------------------------------------
(* The change is made.                                                     *)

\* Of the tree only what is concerned of the collections on the route changes.
LEMMA ChangedIndex ==
    ASSUME NEW f, NEW g, NoCycle(g), NEW ids, NEW index,
           NEW e, IndexOK(f, ids, index, e), \A p, n \in Node : ~ Unsettled(f, e, p, n),
           NEW d, d.when = "AFTER", d.source \in Node, d.at = d.source,
           \A p, n \in Node : \/ n \in Beneath(g, p) <=> n \in Beneath(f, p)
                              \/ Concerns(g, d, n) /\ OnRoute(g, d, p)
    PROVE  IndexOK(g, ids, index, d)
<1>1. \A p \in Node : OnRoute(g, d, p) => ~ Visited(g, d, p)
  BY JustBegun
<1>2. Indexed(g, ids, index, d)
  <2> SUFFICES ASSUME NEW p \in Node, NEW n \in Node, n # p, ~ Unsettled(g, d, p, n)
               PROVE  <<ids[n], n>> \in index[p] <=> n \in Beneath(g, p)
    BY DEF Indexed
  <2>1. n \in Beneath(g, p) <=> n \in Beneath(f, p)
    BY <1>1 DEF Unsettled
  <2> QED
    BY <2>1 DEF IndexOK, Indexed
<1> QED
  BY <1>2 DEF IndexOK, Forgotten

LEMMA CommitIdRegular ==
    ASSUME TInv, RInv, Commit, CommitId
    PROVE  RInv'
<1> DEFINE o == event.object
<1>1. /\ event # None /\ event.when = "BEFORE" /\ event.op = "id" /\ event.at = Null
      /\ UNCHANGED <<m_parent, loaded, m_index, replaced>>
      /\ o \in Node /\ o = event.source /\ event.new \in Id /\ replaced = Null
      /\ NoCycle(m_parent) /\ Identified(id)
      /\ IndexOK(m_parent, id, m_index, event)
  BY EventFields DEF Commit, CommitId, TInv, RInv, EventOK, IdEvent
<1>2. /\ event' # None /\ event'.op = "id" /\ event'.when = "AFTER"
      /\ event'.source = o /\ event'.at = o /\ event'.object = o
      /\ event'.value = event.new /\ event'.new = event.new
  BY <1>1, CommitEvent DEF TInv, CommitId
<1>3. id'[o] = event.new /\ \A n \in Node \ {o} : id'[n] = id[n]
  BY <1>1 DEF CommitId, TInv, TypeOK
<1>4. \A p \in Node : \A i : <<i, o>> \notin m_index[p]
  <2> SUFFICES ASSUME NEW p \in Node
               PROVE  <<id[o], o>> \notin m_index[p]
    BY <1>1 DEF IndexOK, Current
  <2>1. CASE OnRoute(m_parent, event, p)
    BY <1>1, <2>1 DEF IndexOK, Forgotten, Visited
  <2>2. CASE ~ OnRoute(m_parent, event, p)
    <3>1. o # p /\ o \notin Beneath(m_parent, p) /\ ~ Unsettled(m_parent, event, p, o)
      BY <1>1, <2>2 DEF OnRoute, Unsettled
    <3> QED
      BY <1>1, <3>1 DEF IndexOK, Indexed
  <2> QED
    BY <2>1, <2>2
<1>5. Current(id', m_index)
  BY <1>1, <1>3, <1>4 DEF IndexOK, Current
<1>6. Indexed(m_parent, id', m_index, event')
  <2> SUFFICES ASSUME NEW p \in Node, NEW n \in Node, n # p, ~ Unsettled(m_parent, event', p, n)
               PROVE  <<id'[n], n>> \in m_index[p] <=> n \in Beneath(m_parent, p)
    BY DEF Indexed
  <2>1. CASE n = o
    <3>1. Concerns(m_parent, event', o)
      BY <1>2 DEF Concerns
    <3>2. OnRoute(m_parent, event', p) => ~ Visited(m_parent, event', p)
      BY <1>1, <1>2, JustBegun
    <3>3. n \notin Beneath(m_parent, p)
      BY <1>2, <2>1, <3>1, <3>2 DEF Unsettled, OnRoute
    <3> QED
      BY <1>4, <2>1, <3>3
  <2>2. CASE n # o
    <3>1. ~ Unsettled(m_parent, event, p, n)
      BY <1>1, <2>2 DEF Unsettled, Concerns
    <3> QED
      BY <1>1, <1>3, <2>2, <3>1 DEF IndexOK, Indexed
  <2> QED
    BY <2>1, <2>2
<1>7. IndexOK(m_parent, id', m_index, event')
  BY <1>2, <1>5, <1>6 DEF IndexOK, Forgotten
<1>8. EventOK(m_parent, id', loaded, event', replaced)
  BY <1>1, <1>2, <1>3 DEF EventOK, IdEvent, OnRoute
<1>9. Identified(id')
  BY <1>1, <1>3 DEF Identified
<1> QED
  BY <1>1, <1>7, <1>8, <1>9, RInvPrimed

LEMMA CommitAppendRegular ==
    ASSUME TInv, RInv, Commit, CommitAppend
    PROVE  RInv'
<1> DEFINE o == event.object
           s == event.source
           f == m_parent
           g == m_parent'
<1>1. /\ event # None /\ event.when = "BEFORE" /\ event.op = "append" /\ event.at = Null
      /\ UNCHANGED <<id, loaded, m_index, replaced>>
      /\ o \in Node /\ s \in Node /\ f[o] = Null
      /\ g = [f EXCEPT ![o] = s] /\ f \in Parents
      /\ s # o /\ s \notin Beneath(f, o) /\ Whole(f, loaded, o)
      /\ NoCycle(f) /\ Identified(id)
      /\ IndexOK(f, id, m_index, event)
      /\ replaced # Null => f[replaced] = s /\ Whole(f, loaded, replaced) /\ replaced # o
      /\ replaced # Null => replaced \in Node
  BY EventFields
     DEF Commit, CommitAppend, TInv, TypeOK, ObjectInv, RInv, EventOK, AppendEvent, Parents, NodeOrNull
<1>2. /\ event' # None /\ event'.op = "append" /\ event'.when = "AFTER"
      /\ event'.source = s /\ event'.at = s /\ event'.object = o
  BY <1>1, CommitEvent DEF TInv, CommitAppend
<1>3. Attaches(f, o, s, g)
  BY <1>1 DEF Attaches
<1>4. NoCycle(g)
  BY <1>1, <1>3, NoCycleAttached
<1>5. g[o] = s /\ \A x \in Node \ {o} : g[x] = f[x]
  BY <1>1 DEF Parents
<1>6. ASSUME NEW p \in Node, NEW n \in Node, ~ (n \in Beneath(g, p) <=> n \in Beneath(f, p))
      PROVE  Concerns(g, event', n) /\ OnRoute(g, event', p)
  <2>1. \A q, m \in Node :
           m \in Beneath(g, q) <=>
              \/ m \in Beneath(f, q)
              \/ (q = s \/ s \in Beneath(f, q)) /\ (m = o \/ m \in Beneath(f, o))
    BY <1>3, BeneathAttached
  <2>2. (p = s \/ s \in Beneath(f, p)) /\ (n = o \/ n \in Beneath(f, o))
    BY <1>6, <2>1
  <2>3. (p = s \/ s \in Beneath(g, p)) /\ (n = o \/ n \in Beneath(g, o))
    BY <1>1, <2>1, <2>2
  <2> QED
    BY <1>1, <1>2, <2>3, NodeAssumption DEF Concerns, OnRoute
<1>7. IndexOK(g, id, m_index, event')
  <2>1. \A p, n \in Node : ~ Unsettled(f, event, p, n)
    BY <1>1 DEF Unsettled, Concerns
  <2> HIDE DEF f, g
  <2>2. \A p, n \in Node : \/ n \in Beneath(g, p) <=> n \in Beneath(f, p)
                           \/ Concerns(g, event', n) /\ OnRoute(g, event', p)
    BY <1>6
  <2> QED
    BY <1>1, <1>2, <1>4, <2>1, <2>2, ChangedIndex
<1>8. ASSUME NEW n \in Node, n # s, Whole(f, loaded, n)
      PROVE  Whole(g, loaded, n)
  BY <1>1, <1>5, <1>8 DEF Whole
<1>9. EventOK(g, id, loaded, event', replaced)
  <2>1. replaced # Null => replaced # s
    <3>1. ASSUME replaced = s
          PROVE  FALSE
      <4>1. s \in Beneath(f, s)
        BY <1>1, <3>1, NodeAssumption, ChildBeneath
      <4> QED
        BY <1>1, <4>1 DEF NoCycle
    <3> QED
      BY <3>1
  <2>2. AppendEvent(g, loaded, event')
    BY <1>1, <1>2, <1>5, <1>8 DEF AppendEvent
  <2>3. replaced # Null => g[replaced] = s /\ Whole(g, loaded, replaced) /\ replaced # o
    BY <1>1, <1>5, <1>8, <2>1
  <2> QED
    BY <1>2, <2>2, <2>3 DEF EventOK, OnRoute
<1> QED
  BY <1>1, <1>4, <1>7, <1>9, RInvPrimed

LEMMA CommitNothingRegular ==
    ASSUME TInv, RInv, Commit, CommitNothing
    PROVE  RInv'
<1>1. /\ event # None /\ event.when = "BEFORE" /\ event.op = "append"
      /\ UNCHANGED <<m_parent, id, loaded, m_index, replaced>>
      /\ NoCycle(m_parent) /\ Identified(id) /\ event.source \in Node
      /\ IndexOK(m_parent, id, m_index, event)
      /\ replaced # Null => m_parent[replaced] = event.source /\ Whole(m_parent, loaded, replaced)
  BY EventFields DEF Commit, CommitNothing, TInv, RInv, EventOK
<1>2. /\ event' # None /\ event'.op = "append" /\ event'.when = "AFTER"
      /\ event'.source = event.source /\ event'.at = event.source /\ event'.object = Null
  BY <1>1, CommitEvent DEF TInv, CommitNothing
<1>3. IndexOK(m_parent, id, m_index, event')
  <2>1. \A p, n \in Node : ~ Unsettled(m_parent, event, p, n)
    BY <1>1 DEF Unsettled, Concerns
  <2> QED
    BY <1>1, <1>2, <2>1, ChangedIndex
<1>4. EventOK(m_parent, id, loaded, event', replaced)
  BY <1>1, <1>2 DEF EventOK, AppendEvent, OnRoute
<1> QED
  BY <1>1, <1>3, <1>4, RInvPrimed

LEMMA CommitRemoveRegular ==
    ASSUME TInv, RInv, Commit, CommitRemove
    PROVE  RInv'
<1> DEFINE o == event.object
           s == event.source
           f == m_parent
           g == m_parent'
<1>1. /\ event # None /\ event.when = "BEFORE" /\ event.op = "remove" /\ event.at = Null
      /\ UNCHANGED <<id, loaded, m_index, replaced>>
      /\ o \in Node /\ s \in Node /\ f[o] = s
      /\ g = [f EXCEPT ![o] = Null] /\ f \in Parents
      /\ s # o /\ s \notin Beneath(f, o) /\ Whole(f, loaded, o) /\ replaced = Null
      /\ NoCycle(f) /\ Identified(id)
      /\ IndexOK(f, id, m_index, event)
  BY EventFields
     DEF Commit, CommitRemove, TInv, TypeOK, ObjectInv, RInv, EventOK, RemoveEvent, Parents, NodeOrNull
<1>2. /\ event' # None /\ event'.op = "remove" /\ event'.when = "AFTER"
      /\ event'.source = s /\ event'.at = s /\ event'.object = o
  BY <1>1, CommitEvent DEF TInv, CommitRemove
<1>2a. Detaches(f, o, g)
  BY <1>1 DEF Detaches
<1>3. NoCycle(g)
  BY <1>2a, NoCycleDetached
<1>4. g[o] = Null /\ \A x \in Node \ {o} : g[x] = f[x]
  BY <1>1 DEF Parents
<1>5. \A q, m \in Node :
         m \in Beneath(g, q) <=>
            /\ m \in Beneath(f, q)
            /\ ~ (o \in Beneath(f, q) /\ (m = o \/ m \in Beneath(f, o)))
  <2> HIDE DEF f, g, o
  <2> QED
    BY <1>2a, BeneathDetached
<1>6. ASSUME NEW p \in Node, NEW n \in Node, ~ (n \in Beneath(g, p) <=> n \in Beneath(f, p))
      PROVE  Concerns(g, event', n) /\ OnRoute(g, event', p)
  <2>1. o \in Beneath(f, p) /\ (n = o \/ n \in Beneath(f, o))
    BY <1>5, <1>6
  <2>2. p = s \/ s \in Beneath(f, p)
    BY <1>1, <2>1, ParentOfBeneath
  <2>3. p = s \/ s \in Beneath(g, p)
    BY <1>1, <1>5, <2>2
  <2>4. n = o \/ n \in Beneath(g, o)
    BY <1>1, <1>5, <2>1 DEF NoCycle
  <2> QED
    BY <1>1, <1>2, <2>3, <2>4, NodeAssumption DEF Concerns, OnRoute
<1>7. IndexOK(g, id, m_index, event')
  <2>1. \A p, n \in Node : ~ Unsettled(f, event, p, n)
    BY <1>1 DEF Unsettled, Concerns
  <2> HIDE DEF f, g
  <2>2. \A p, n \in Node : \/ n \in Beneath(g, p) <=> n \in Beneath(f, p)
                           \/ Concerns(g, event', n) /\ OnRoute(g, event', p)
    BY <1>6
  <2> QED
    BY <1>1, <1>2, <1>3, <2>1, <2>2, ChangedIndex
<1>8. EventOK(g, id, loaded, event', replaced)
  <2>1. Whole(g, loaded, o)
    BY <1>1, <1>4, NodeAssumption DEF Whole
  <2>2. s \notin {o} \cup Beneath(g, o)
    BY <1>1, <1>5
  <2>3. RemoveEvent(g, loaded, event', replaced)
    BY <1>1, <1>2, <1>4, <2>1, <2>2 DEF RemoveEvent
  <2> QED
    BY <1>1, <1>2, <2>3 DEF EventOK, OnRoute
<1> QED
  BY <1>1, <1>3, <1>7, <1>8, RInvPrimed

LEMMA ReturnRegular ==
    ASSUME TInv, RInv, Return
    PROVE  RInv'
<1>1. /\ event # None /\ event.when # "BEFORE" /\ event.at = Null
      /\ UNCHANGED <<m_parent, id, loaded, m_index>> /\ replaced' = Null
      /\ NoCycle(m_parent) /\ Identified(id) /\ event.source \in Node
      /\ IndexOK(m_parent, id, m_index, event)
      /\ replaced # Null => /\ m_parent[replaced] = event.source
                            /\ Whole(m_parent, loaded, replaced) /\ replaced \in Node
  BY EventFields DEF Return, TInv, TypeOK, RInv, EventOK, NodeOrNull
<1>2. \A p, n \in Node : ~ Unsettled(m_parent, event, p, n)
  BY <1>1 DEF Unsettled, Visited
<1>3. CASE replaced = Null
  <2>1. event' = None
    BY <1>3 DEF Return
  <2>2. IndexOK(m_parent, id, m_index, event')
    BY <1>1, <1>2, <2>1 DEF IndexOK, Indexed, Forgotten
  <2>3. EventOK(m_parent, id, loaded, event', replaced')
    BY <1>1, <2>1 DEF EventOK
  <2> QED
    BY <1>1, <2>2, <2>3, RInvPrimed
<1>4. CASE replaced # Null
  <2>1. /\ event' # None /\ event'.op = "remove" /\ event'.when = "BEFORE"
        /\ event'.source = event.source /\ event'.at = event.source /\ event'.object = replaced
    BY <1>1, <1>4, AnnounceType DEF Return
  <2>2. IndexOK(m_parent, id, m_index, event')
    BY <1>1, <1>2, <2>1, BegunIndex
  <2>3. event.source \notin {replaced} \cup Beneath(m_parent, replaced)
    BY <1>1, <1>4, ParentNotBelow
  <2>4. EventOK(m_parent, id, loaded, event', replaced')
    BY <1>1, <1>4, <2>1, <2>3 DEF EventOK, RemoveEvent, OnRoute
  <2> QED
    BY <1>1, <2>2, <2>4, RInvPrimed
<1> QED
  BY <1>3, <1>4

LEMMA IndexInvariant == Regular /\ Spec => []RInv
<1>1. Init /\ Regular => RInv
  <2> SUFFICES ASSUME Init, Regular
               PROVE  RInv
    OBVIOUS
  <2>1. ASSUME NEW p \in Node
        PROVE  Beneath(m_parent, p) = {}
    <3>1. \A x \in Node : m_parent[x] # p
      BY NodeAssumption DEF Init
    <3> QED
      BY <3>1, BeneathChildless
  <2>2. NoCycle(m_parent)
    BY <2>1 DEF NoCycle
  <2>3. Identified(id)
    BY DEF Init, Regular, Identified
  <2>4. EventOK(m_parent, id, loaded, event, replaced)
    BY DEF Init, EventOK
  <2>5. IndexOK(m_parent, id, m_index, event)
    BY <2>1 DEF Init, IndexOK, Current, Indexed, Forgotten
  <2> QED
    BY <2>2, <2>3, <2>4, <2>5 DEF RInv
<1>2. TInv /\ Regular /\ RInv /\ [Next]_vars => RInv'
  <2> SUFFICES ASSUME TInv, Regular, RInv, [Next]_vars
               PROVE  RInv'
    OBVIOUS
  <2>1. CASE UNCHANGED vars
    BY <2>1, RInvPrimed DEF vars, RInv
  <2>2. CASE Commit
    BY <2>2, CommitEvent, CommitIdRegular, CommitAppendRegular, CommitNothingRegular,
       CommitRemoveRegular DEF TInv
  <2> QED
    BY <2>1, <2>2, CallRegular, NotifyRegular, VetoRegular, ReturnRegular DEF Next
<1>3. Regular => Regular'
  BY DEF Regular
<1> QED
  BY <1>1, <1>2, <1>3, TypesInvariant, PTL DEF Spec

-----------------------------------------------------------------------------
(* The theorems.                                                           *)

\* The index of a collection whose entries are settled is exact.
LEMMA SettledExact ==
    ASSUME TInv, RInv, NEW p \in Node, \A n \in Node : ~ Unsettled(m_parent, event, p, n)
    PROVE  Exact(p)
<1>1. /\ p \notin Beneath(m_parent, p) /\ Below(p) = Beneath(m_parent, p)
      /\ \A n \in Node : id[n] \in Id
      /\ \A n \in Node : \A i : <<i, n>> \in m_index[p] => i = id[n]
      /\ \A n \in Node \ {p} : <<id[n], n>> \in m_index[p] <=> n \in Below(p)
      /\ Beneath(m_parent, p) \subseteq Node
  BY BelowIsBeneath DEF RInv, NoCycle, Identified, IndexOK, Current, Indexed, Beneath
<1>2. m_index[p] \subseteq (Id \cup {Unset}) \X Node
  BY DEF TInv, TypeOK
<1>3. ASSUME NEW i \in Id
      PROVE  getObject(p, i) \ {p} = {n \in Below(p) : id[n] = i}
  BY <1>1, <1>3, IdAssumption DEF getObject
<1>4. ASSUME NEW i \in Id, p \in getObject(p, i)
      PROVE  id[p] = i
  BY <1>1, <1>4 DEF getObject
<1>5. enumObjects(p) \ {id[p]} \subseteq {id[n] : n \in Below(p)} \ {Unset}
  <2> SUFFICES ASSUME NEW e \in m_index[p], e[1] # id[p]
               PROVE  e[1] \in {id[n] : n \in Below(p)} \ {Unset}
    BY DEF enumObjects
  <2>1. e = <<e[1], e[2]>> /\ e[2] \in Node
    BY <1>2
  <2>2. e[1] = id[e[2]] /\ e[2] # p
    BY <1>1, <2>1
  <2>3. e[2] \in Below(p)
    BY <1>1, <2>1, <2>2
  <2> QED
    BY <1>1, <2>1, <2>2, <2>3, IdAssumption
<1> QED
  BY <1>3, <1>4, <1>5 DEF Exact

\* If clients give every node an identifier and move only nodes that are loaded
\* or have no children, then between calls every collection finds by an
\* identifier the nodes below it that have it and no others, for trees of any
\* depth and whatever was inserted, removed, replaced, renamed or vetoed.
THEOREM IndexesAreExact == Regular /\ Spec => []IndexExact
<1>1. TInv /\ RInv => IndexExact
  <2> SUFFICES ASSUME TInv, RInv, Idle, NEW p \in Node
               PROVE  Exact(p)
    BY DEF IndexExact
  <2>1. \A n \in Node : ~ Unsettled(m_parent, event, p, n)
    BY DEF Idle, Unsettled, Concerns
  <2> QED
    BY <2>1, SettledExact
<1> QED
  BY <1>1, TypesInvariant, IndexInvariant, PTL

\* Under the same condition the listeners of a level, which are told after its
\* index was brought up to date, can already find by identifier what is there.
THEOREM ListenersFindIt == Regular /\ Spec => []AfterSeesIndex
<1>1. TInv /\ RInv => AfterSeesIndex
  <2> SUFFICES ASSUME TInv, RInv, event # None, event.when # "BEFORE", NEW p \in Node, Told(p)
               PROVE  Exact(p)
    BY DEF AfterSeesIndex
  <2>1. Visited(m_parent, event, p)
    BY BelowIsBeneath DEF Told, Visited
  <2>2. \A n \in Node : ~ Unsettled(m_parent, event, p, n)
    BY <2>1 DEF Unsettled
  <2> QED
    BY <2>2, SettledExact
<1> QED
  BY <1>1, TypesInvariant, IndexInvariant, PTL

=============================================================================
