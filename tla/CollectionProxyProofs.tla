------------------------ MODULE CollectionProxyProofs ------------------------
(***************************************************************************)
(* That a node has the same children in all its places, for any number of  *)
(* proxies and nodes, if no listener vetoes what a proxy does or asks for: *)
(* a change that clients ask of the object may be vetoed by anybody.       *)
(*                                                                         *)
(* The invariant says for each phase of a change which proxies are a row   *)
(* behind, or ahead: those that have been told of a removal are ahead of   *)
(* the object until it is made, and after a veto until they are told again; *)
(* those that have not been told of an insertion are behind it; and the    *)
(* proxy that asked for the change makes it last.                          *)
(***************************************************************************)
EXTENDS CollectionProxy, SequenceTheorems, TLAPS

\* Nobody vetoes but a change asked of the object.
Unopposed == Vetoes \subseteq {"object"}

Shape ==
    /\ kids \in Seq(Item)
    /\ mirror \in [Proxy -> Seq(Item)]
    /\ connected \subseteq Proxy

Changing ==
    /\ event = [action |-> event.action, when |-> event.when, item |-> event.item,
                row |-> event.row, origin |-> event.origin, own |-> event.own,
                told |-> event.told]
    /\ event.action \in {"APPEND", "REMOVE"}
    /\ event.when \in {"BEFORE", "CANCELLED", "AFTER"}
    /\ event.item \in Item
    /\ event.told \subseteq connected
    /\ event.origin \in connected \cup {Client}

\* A proxy asks for the change in the row where the object makes it.
SameRow == event.origin # Client => event.own = event.row /\ event.when # "CANCELLED"

\* The row is one of the object's list, with or without the child.
HasRow ==
    IF (event.action = "APPEND") # (event.when = "AFTER")
    THEN event.row \in 1 .. Len(kids) + 1
    ELSE event.row \in 1 .. Len(kids) /\ event.item = kids[event.row]

Told(q) == q \in event.told /\ q # event.origin

\* What a proxy shows in each phase of a change.
Follows(q) ==
    CASE event.action = "APPEND" /\ event.when # "AFTER" -> mirror[q] = kids
      [] event.action = "APPEND" /\ event.when = "AFTER" ->
            mirror[q] = IF Told(q) THEN kids ELSE Seqs!RemoveAt(kids, event.row)
      [] event.action = "REMOVE" /\ event.when = "BEFORE" ->
            mirror[q] = IF Told(q) THEN Seqs!RemoveAt(kids, event.row) ELSE kids
      [] event.action = "REMOVE" /\ event.when = "CANCELLED" ->
            \/ mirror[q] = kids
            \/ ~ Told(q) /\ mirror[q] = Seqs!RemoveAt(kids, event.row)
      [] event.action = "REMOVE" /\ event.when = "AFTER" ->
            mirror[q] = IF q = event.origin THEN Seqs!InsertAt(kids, event.row, event.item) ELSE kids

ChangeInv ==
    ~ Idle => /\ Changing /\ SameRow /\ HasRow
              /\ \A q \in connected : Follows(q)

IInv == Shape /\ MirrorExact /\ ChangeInv

-----------------------------------------------------------------------------
(* A row taken out of a list and put in again.                             *)

LEMMA InsertAtProperties ==
    ASSUME NEW S, NEW s \in Seq(S), NEW i \in 1 .. Len(s) + 1, NEW e \in S
    PROVE  /\ Seqs!InsertAt(s, i, e) \in Seq(S)
           /\ Len(Seqs!InsertAt(s, i, e)) = Len(s) + 1
           /\ \A j \in 1 .. i - 1 : Seqs!InsertAt(s, i, e)[j] = s[j]
           /\ Seqs!InsertAt(s, i, e)[i] = e
           /\ \A j \in i + 1 .. Len(s) + 1 : Seqs!InsertAt(s, i, e)[j] = s[j - 1]
<1> DEFINE front == SubSeq(s, 1, i - 1) \o <<e>>
           back  == SubSeq(s, i, Len(s))
<1>1. Seqs!InsertAt(s, i, e) = front \o back /\ Len(s) \in Nat
  BY LenProperties DEF Seqs!InsertAt
<1>2. /\ SubSeq(s, 1, i - 1) \in Seq(S) /\ Len(SubSeq(s, 1, i - 1)) = i - 1
      /\ \A j \in 1 .. i - 1 : SubSeq(s, 1, i - 1)[j] = s[j]
  BY <1>1, SubSeqProperties, LenProperties
<1>3. /\ back \in Seq(S) /\ Len(back) = Len(s) - i + 1
      /\ \A j \in 1 .. Len(s) - i + 1 : back[j] = s[i + j - 1]
  BY <1>1, SubSeqProperties, LenProperties
<1>4. <<e>> \in Seq(S) /\ Len(<<e>>) = 1 /\ <<e>>[1] = e
  OBVIOUS
<1>5. /\ front \in Seq(S) /\ Len(front) = i - 1 + 1
      /\ \A j \in 1 .. i - 1 + 1 :
            front[j] = IF j <= i - 1 THEN SubSeq(s, 1, i - 1)[j] ELSE <<e>>[j - (i - 1)]
  BY <1>1, <1>2, <1>4, ConcatProperties
<1>6. /\ Len(front) = i
       /\ \A j \in 1 .. i - 1 : front[j] = s[j]
       /\ front[i] = e
  <2>1. i \in Int /\ i - 1 + 1 = i /\ i - (i - 1) = 1 /\ ~ i <= i - 1
    BY <1>1
  <2> QED
    BY <1>2, <1>4, <1>5, <2>1
<1> HIDE DEF front, back
<1>7. /\ front \o back \in Seq(S)
      /\ Len(front \o back) = Len(front) + Len(back)
      /\ \A j \in 1 .. Len(front) + Len(back) :
            (front \o back)[j] = IF j <= Len(front) THEN front[j] ELSE back[j - Len(front)]
  BY <1>3, <1>5, ConcatProperties
<1>8. Len(front) + Len(back) = Len(s) + 1
  BY <1>1, <1>3, <1>5
<1>9. \A j \in 1 .. i : (front \o back)[j] = front[j]
  BY <1>1, <1>6, <1>7, <1>8
<1>10. ASSUME NEW j \in i + 1 .. Len(s) + 1
      PROVE  (front \o back)[j] = s[j - 1]
  <2>1. j - i \in 1 .. Len(s) - i + 1 /\ i + (j - i) - 1 = j - 1 /\ ~ j <= i
    BY <1>1
  <2>2. (front \o back)[j] = back[j - i]
    BY <1>1, <1>5, <1>7, <1>8, <2>1
  <2> QED
    BY <1>3, <2>1, <2>2
<1> QED
  BY <1>1, <1>5, <1>7, <1>8, <1>9, <1>10

LEMMA RemoveAtProperties ==
    ASSUME NEW S, NEW s \in Seq(S), NEW i \in 1 .. Len(s)
    PROVE  /\ Seqs!RemoveAt(s, i) \in Seq(S)
           /\ Len(Seqs!RemoveAt(s, i)) = Len(s) - 1
           /\ \A j \in 1 .. i - 1 : Seqs!RemoveAt(s, i)[j] = s[j]
           /\ \A j \in i .. Len(s) - 1 : Seqs!RemoveAt(s, i)[j] = s[j + 1]
<1> DEFINE front == SubSeq(s, 1, i - 1)
           back  == SubSeq(s, i + 1, Len(s))
<1>1. Seqs!RemoveAt(s, i) = front \o back /\ Len(s) \in Nat
  BY LenProperties DEF Seqs!RemoveAt
<1>2. /\ front \in Seq(S) /\ Len(front) = i - 1
      /\ \A j \in 1 .. i - 1 : front[j] = s[j]
  BY <1>1, SubSeqProperties, LenProperties
<1>3. /\ back \in Seq(S) /\ Len(back) = Len(s) - i
      /\ \A j \in 1 .. Len(s) - i : back[j] = s[i + j]
  BY <1>1, SubSeqProperties, LenProperties
<1> HIDE DEF front, back
<1>4. /\ front \o back \in Seq(S)
      /\ Len(front \o back) = Len(front) + Len(back)
      /\ \A j \in 1 .. Len(front) + Len(back) :
            (front \o back)[j] = IF j <= Len(front) THEN front[j] ELSE back[j - Len(front)]
  BY <1>2, <1>3, ConcatProperties
<1>5. Len(front) + Len(back) = Len(s) - 1
  BY <1>1, <1>2, <1>3
<1>6. \A j \in 1 .. i - 1 : (front \o back)[j] = s[j]
  BY <1>1, <1>2, <1>4, <1>5
<1>7. ASSUME NEW j \in i .. Len(s) - 1
      PROVE  (front \o back)[j] = s[j + 1]
  <2>1. j - (i - 1) \in 1 .. Len(s) - i /\ i + (j - (i - 1)) = j + 1 /\ ~ j <= i - 1
    BY <1>1
  <2>2. (front \o back)[j] = back[j - (i - 1)]
    BY <1>1, <1>2, <1>4, <1>5, <2>1
  <2> QED
    BY <1>3, <2>1, <2>2
<1> QED
  BY <1>1, <1>4, <1>5, <1>6, <1>7

LEMMA RemoveInserted ==
    ASSUME NEW S, NEW s \in Seq(S), NEW i \in 1 .. Len(s) + 1, NEW e \in S
    PROVE  Seqs!RemoveAt(Seqs!InsertAt(s, i, e), i) = s
<1> DEFINE t == Seqs!InsertAt(s, i, e)
<1>1. Len(s) \in Nat
  BY LenProperties
<1>2. /\ t \in Seq(S) /\ Len(t) = Len(s) + 1
      /\ \A j \in 1 .. i - 1 : t[j] = s[j]
      /\ \A j \in i + 1 .. Len(s) + 1 : t[j] = s[j - 1]
  BY InsertAtProperties
<1> HIDE DEF t
<1>3. i \in 1 .. Len(t)
  BY <1>1, <1>2
<1>4. /\ Seqs!RemoveAt(t, i) \in Seq(S) /\ Len(Seqs!RemoveAt(t, i)) = Len(t) - 1
      /\ \A j \in 1 .. i - 1 : Seqs!RemoveAt(t, i)[j] = t[j]
      /\ \A j \in i .. Len(t) - 1 : Seqs!RemoveAt(t, i)[j] = t[j + 1]
  BY <1>2, <1>3, RemoveAtProperties
<1>5. Len(Seqs!RemoveAt(t, i)) = Len(s)
  BY <1>1, <1>2, <1>4
<1>6. ASSUME NEW j \in 1 .. Len(s) PROVE Seqs!RemoveAt(t, i)[j] = s[j]
  <2>1. CASE j < i
    BY <1>1, <1>2, <1>4, <2>1
  <2>2. CASE j >= i
    <3>1. j \in i .. Len(t) - 1 /\ j + 1 \in i + 1 .. Len(s) + 1 /\ (j + 1) - 1 = j
      BY <1>1, <1>2, <2>2
    <3> QED
      BY <1>2, <1>4, <3>1
  <2> QED
    BY <1>1, <2>1, <2>2
<1>7. Seqs!RemoveAt(t, i) = s
  BY <1>4, <1>5, <1>6, SeqEqual
<1> QED
  BY <1>7 DEF t

LEMMA InsertRemoved ==
    ASSUME NEW S, NEW s \in Seq(S), NEW i \in 1 .. Len(s)
    PROVE  Seqs!InsertAt(Seqs!RemoveAt(s, i), i, s[i]) = s
<1> DEFINE t == Seqs!RemoveAt(s, i)
           u == Seqs!InsertAt(t, i, s[i])
<1>1. Len(s) \in Nat /\ s[i] \in S
  BY LenProperties, ElementOfSeq
<1>2. /\ t \in Seq(S) /\ Len(t) = Len(s) - 1
      /\ \A j \in 1 .. i - 1 : t[j] = s[j]
      /\ \A j \in i .. Len(s) - 1 : t[j] = s[j + 1]
  BY RemoveAtProperties
<1> HIDE DEF t
<1>3. i \in 1 .. Len(t) + 1
  BY <1>1, <1>2
<1>4. /\ u \in Seq(S) /\ Len(u) = Len(t) + 1
      /\ \A j \in 1 .. i - 1 : u[j] = t[j]
      /\ u[i] = s[i]
      /\ \A j \in i + 1 .. Len(t) + 1 : u[j] = t[j - 1]
  BY <1>1, <1>2, <1>3, InsertAtProperties
<1> HIDE DEF u
<1>5. Len(u) = Len(s)
  BY <1>1, <1>2, <1>4
<1>6. ASSUME NEW j \in 1 .. Len(s) PROVE u[j] = s[j]
  <2>1. CASE j < i
    BY <1>1, <1>2, <1>4, <2>1
  <2>2. CASE j = i
    BY <1>4, <2>2
  <2>3. CASE j > i
    <3>1. j \in i + 1 .. Len(t) + 1 /\ j - 1 \in i .. Len(s) - 1 /\ (j - 1) + 1 = j
      BY <1>1, <1>2, <2>3
    <3> QED
      BY <1>2, <1>4, <3>1
  <2> QED
    BY <1>1, <2>1, <2>2, <2>3
<1>7. u = s
  BY <1>4, <1>5, <1>6, SeqEqual
<1> QED
  BY <1>7 DEF t, u
-----------------------------------------------------------------------------
(* The lists of the object and of a proxy during a change.                 *)

\* Where a change begins, all lists are alike, and so are their rows.
LEMMA BeginInv ==
    ASSUME IInv, Idle, UNCHANGED <<kids, mirror, connected>>,
           event' = [action |-> event'.action, when |-> "BEFORE", item |-> event'.item,
                     row |-> event'.row, origin |-> event'.origin, own |-> event'.own,
                     told |-> {}],
           event'.action \in {"APPEND", "REMOVE"}, event'.item \in Item,
           event'.origin \in connected \cup {Client},
           event'.origin # Client => event'.own = event'.row,
           HasRow'
    PROVE  IInv'
<1>1. Shape' /\ ~ Idle'
  BY DEF IInv, Shape, Idle, None
<1>2. Changing' /\ SameRow'
  BY DEF Changing, SameRow
<1>3. \A q \in connected : mirror[q] = kids
  BY DEF IInv, MirrorExact
<1>4. event'.when = "BEFORE" /\ event'.told = {}
  OBVIOUS
<1>5. \A q \in connected' : Follows(q)'
  BY <1>2, <1>3, <1>4 DEF Follows, Told
<1> QED
  BY <1>1, <1>2, <1>5 DEF IInv, ChangeInv, MirrorExact

LEMMA PlaceRow ==
    ASSUME NEW S, NEW list \in Seq(S), NEW row \in 0 .. Len(list), NEW side \in Sides
    PROVE  Place(list, row, side) \in 1 .. Len(list) + 1
<1>1. Len(list) \in Nat
  BY LenProperties
<1> QED
  BY <1>1 DEF Place, Sides

LEMMA InsertBegins ==
    ASSUME IInv, NEW n \in Item, NEW row, NEW side \in Sides,
           insert(n, row, side) \/ \E q \in Proxy : proxyInsert(q, n, row, side)
    PROVE  IInv'
<1>1. CASE insert(n, row, side)
  <2>1. Place(kids, row, side) \in 1 .. Len(kids) + 1
    BY <1>1, PlaceRow DEF insert, IInv, Shape
  <2>2. HasRow'
    BY <1>1, <2>1 DEF insert, Inserting, HasRow
  <2>3. /\ event' = [action |-> "APPEND", when |-> "BEFORE", item |-> n,
                     row |-> Place(kids, row, side), origin |-> Client, own |-> 0,
                     told |-> {}]
        /\ Idle /\ UNCHANGED <<kids, mirror, connected>>
    BY <1>1 DEF insert, Inserting
  <2> QED
    BY <2>2, <2>3, BeginInv
<1>2. ASSUME NEW q \in Proxy, proxyInsert(q, n, row, side) PROVE IInv'
  <2>1. mirror[q] = kids /\ q \in connected /\ row \in 0 .. Len(kids)
    BY <1>2 DEF proxyInsert, IInv, MirrorExact
  <2>2. ObjectRow(row) = row
    BY <2>1 DEF ObjectRow, IInv, Shape
  <2>3. Place(kids, row, side) \in 1 .. Len(kids) + 1
    BY <2>1, PlaceRow DEF IInv, Shape
  <2>4. HasRow'
    BY <1>2, <2>2, <2>3 DEF proxyInsert, Inserting, HasRow
  <2>5. /\ event' = [action |-> "APPEND", when |-> "BEFORE", item |-> n,
                     row |-> Place(kids, row, side), origin |-> q,
                     own |-> Place(kids, row, side), told |-> {}]
        /\ Idle /\ UNCHANGED <<kids, mirror, connected>>
    BY <1>2, <2>1, <2>2 DEF proxyInsert, Inserting
  <2> QED
    BY <2>1, <2>4, <2>5, BeginInv
<1> QED
  BY <1>1, <1>2

LEMMA RemoveBegins ==
    ASSUME IInv, NEW row \in 1 .. MaxKids,
           removeChild(row) \/ \E q \in Proxy : proxyRemove(q, row)
    PROVE  IInv'
<1>1. CASE removeChild(row)
  <2>1. kids[row] \in Item
    BY <1>1, ElementOfSeq DEF removeChild, IInv, Shape
  <2>2. HasRow'
    BY <1>1 DEF removeChild, Removing, HasRow
  <2> QED
    BY <1>1, <2>1, <2>2, BeginInv DEF removeChild, Removing
<1>2. ASSUME NEW q \in Proxy, proxyRemove(q, row) PROVE IInv'
  <2>1. mirror[q] = kids /\ q \in connected /\ row \in 1 .. Len(kids)
    BY <1>2 DEF proxyRemove, IInv, MirrorExact
  <2>2. ObjectRow(row) = row /\ row # 0
    BY <2>1 DEF ObjectRow, IInv, Shape
  <2>3. kids[row] \in Item
    BY <2>1, ElementOfSeq DEF IInv, Shape
  <2>4. HasRow'
    BY <1>2, <2>1, <2>2 DEF proxyRemove, Removing, HasRow
  <2> QED
    BY <1>2, <2>1, <2>2, <2>3, <2>4, BeginInv DEF proxyRemove, Removing
<1> QED
  BY <1>1, <1>2
-----------------------------------------------------------------------------
(* An announcement goes round.                                             *)

LEMMA NotifyInv ==
    ASSUME IInv, NEW q \in Proxy, notify(q), Unopposed
    PROVE  IInv'
<1>1. /\ ~ Idle /\ Changing /\ SameRow /\ HasRow
      /\ q \in connected /\ q \notin event.told
      /\ \A r \in connected : Follows(r)
  BY DEF IInv, ChangeInv, notify
<1>2. /\ event' = [action |-> event.action, when |-> event.when, item |-> event.item,
                   row |-> event.row, origin |-> event.origin, own |-> event.own,
                   told |-> event.told \cup {q}]
      /\ kids' = kids /\ connected' = connected
  BY <1>1 DEF notify, Changing
<1>3. ~ Idle' /\ Changing' /\ SameRow' /\ HasRow'
  BY <1>1, <1>2 DEF Changing, SameRow, HasRow, Idle, None
<1>4. kids \in Seq(Item) /\ mirror \in [Proxy -> Seq(Item)] /\ Len(kids) \in Nat
  BY LenProperties DEF IInv, Shape
<1>5. ASSUME mirror' = [mirror EXCEPT ![q] = mirror'[q]], mirror'[q] \in Seq(Item), Follows(q)'
      PROVE  IInv'
  <2>1. ASSUME NEW r \in connected, r # q PROVE Follows(r)'
    <3>1. mirror'[r] = mirror[r] /\ (Told(r)' <=> Told(r))
      BY <1>1, <1>2, <1>4, <1>5, <2>1 DEF Told, IInv, Shape
    <3> QED
      BY <1>1, <1>2, <3>1 DEF Follows
  <2>2. \A r \in connected' : Follows(r)'
    BY <1>2, <1>5, <2>1
  <2>3. Shape'
    BY <1>2, <1>4, <1>5 DEF IInv, Shape
  <2> QED
    BY <1>3, <2>2, <2>3 DEF IInv, ChangeInv, MirrorExact
<1>6. CASE q = event.origin \/ ~ (Adds \/ Drops)
  <2>1. mirror' = mirror
    BY <1>6 DEF notify, Heeds
  <2>2. Follows(q)'
    <3>1. CASE q = event.origin
      BY <1>1, <1>2, <2>1, <3>1 DEF Follows, Told
    <3>2. CASE ~ (Adds \/ Drops)
      BY <1>1, <1>2, <2>1, <3>2 DEF Follows, Told, Adds, Drops, Changing
    <3> QED
      BY <1>6, <3>1, <3>2
  <2>3. mirror' = [mirror EXCEPT ![q] = mirror'[q]] /\ mirror'[q] \in Seq(Item)
    BY <1>4, <2>1
  <2> QED
    BY <1>5, <2>2, <2>3
<1>7. CASE q # event.origin /\ Adds
  <2>1. event.row \in 1 .. Len(kids) /\ event.item = kids[event.row] /\ Told(q)'
    BY <1>1, <1>2, <1>7 DEF HasRow, Adds, Told
  <2>2. mirror[q] = Seqs!RemoveAt(kids, event.row) \/ mirror[q] = kids
    BY <1>1, <1>7 DEF Follows, Adds, Told
  <2>3. MirrorInsert(q)
    BY <1>7 DEF notify, Heeds
  <2>4. mirror' = [mirror EXCEPT ![q] = kids]
    <3>1. CASE mirror[q] = Seqs!RemoveAt(kids, event.row)
      <4>1. Len(mirror[q]) = Len(kids) - 1
        BY <1>4, <2>1, <3>1, RemoveAtProperties
      <4>2. Seqs!InsertAt(mirror[q], event.row, event.item) = kids
        BY <1>4, <2>1, <3>1, InsertRemoved
      <4>3. (IF event.row <= Len(mirror[q]) THEN event.row ELSE Len(mirror[q]) + 1) = event.row
        BY <1>4, <2>1, <4>1
      <4>4. Show(q, Seqs!InsertAt(mirror[q], event.row, event.item))
        BY <1>4, <2>3, <4>1, <4>3 DEF MirrorInsert
      <4> QED
        BY <4>2, <4>4 DEF Show, Unopposed
    <3>2. CASE mirror[q] = kids
      <4>1. mirror' = mirror
        BY <1>4, <2>3, <3>2 DEF MirrorInsert
      <4> QED
        BY <1>4, <3>2, <4>1
    <3> QED
      BY <2>2, <3>1, <3>2
  <2>5. mirror'[q] = kids
    BY <1>1, <1>4, <2>4 DEF IInv, Shape
  <2>6. Follows(q)'
    BY <1>1, <1>2, <1>7, <2>1, <2>5 DEF Follows, Adds
  <2> QED
    BY <1>4, <1>5, <2>4, <2>5, <2>6
<1>8. CASE q # event.origin /\ Drops
  <2>1. event.row \in 1 .. Len(kids) /\ mirror[q] = kids /\ Told(q)'
    BY <1>1, <1>2, <1>8 DEF HasRow, Drops, Told, Follows
  <2>2. mirror' = [mirror EXCEPT ![q] = Seqs!RemoveAt(kids, event.row)]
    BY <1>4, <1>8, <2>1 DEF notify, Heeds, Adds, Drops, MirrorRemove, Show, Unopposed
  <2>3. mirror'[q] = Seqs!RemoveAt(kids, event.row) /\ mirror'[q] \in Seq(Item)
    BY <1>4, <2>1, <2>2, RemoveAtProperties
  <2>4. Follows(q)'
    BY <1>2, <1>8, <2>1, <2>3 DEF Follows, Drops
  <2> QED
    BY <1>5, <2>2, <2>3, <2>4
<1> QED
  BY <1>6, <1>7, <1>8

LEMMA VetoInv ==
    ASSUME IInv, Veto, Unopposed
    PROVE  IInv'
<1>1. ~ Idle /\ Changing /\ SameRow /\ HasRow /\ event.when = "BEFORE" /\ event.origin = Client
  BY DEF IInv, ChangeInv, Veto, Unopposed
<1>2. /\ event' = [action |-> event.action, when |-> "CANCELLED", item |-> event.item,
                   row |-> event.row, origin |-> event.origin, own |-> event.own,
                   told |-> {}]
      /\ UNCHANGED <<kids, mirror, connected>>
  BY <1>1 DEF Veto, Changing
<1>3. ~ Idle' /\ Changing' /\ SameRow' /\ HasRow'
  BY <1>1, <1>2 DEF Changing, SameRow, HasRow, Idle, None
<1>4. \A q \in connected : Follows(q)'
  BY <1>1, <1>2 DEF IInv, ChangeInv, Follows, Told, Changing
<1> QED
  BY <1>2, <1>3, <1>4 DEF IInv, Shape, ChangeInv, MirrorExact

\* The change is made; all but who asked for it know of a removal, none of an insertion.
LEMMA CommitInv ==
    ASSUME IInv, Commit
    PROVE  IInv'
<1>1. /\ ~ Idle /\ Changing /\ SameRow /\ HasRow
      /\ event.when = "BEFORE" /\ event.told = connected
      /\ \A q \in connected : Follows(q)
  BY DEF IInv, ChangeInv, Commit
<1>2. /\ event' = [action |-> event.action, when |-> "AFTER", item |-> event.item,
                   row |-> event.row, origin |-> event.origin, own |-> event.own,
                   told |-> {}]
      /\ UNCHANGED <<mirror, connected>>
  BY <1>1 DEF Commit, Changing
<1>3. kids \in Seq(Item) /\ Len(kids) \in Nat /\ event.item \in Item
  BY <1>1, LenProperties DEF IInv, Shape, Changing
<1>4. ~ Idle' /\ Changing' /\ SameRow'
  BY <1>1, <1>2 DEF Changing, SameRow, Idle, None
<1>5. CASE event.action = "APPEND"
  <2>1. event.row \in 1 .. Len(kids) + 1 /\ kids' = Seqs!InsertAt(kids, event.row, event.item)
    BY <1>1, <1>5 DEF HasRow, Commit
  <2>2. kids' \in Seq(Item) /\ Len(kids') = Len(kids) + 1 /\ kids'[event.row] = event.item
    BY <1>3, <2>1, InsertAtProperties
  <2>3. Seqs!RemoveAt(kids', event.row) = kids
    BY <1>3, <2>1, RemoveInserted
  <2>4. HasRow'
    BY <1>2, <1>3, <1>5, <2>1, <2>2 DEF HasRow
  <2>5. \A q \in connected : Follows(q)'
    BY <1>1, <1>2, <1>5, <2>3 DEF Follows, Told
  <2> QED
    BY <1>2, <1>4, <2>2, <2>4, <2>5 DEF IInv, Shape, ChangeInv, MirrorExact
<1>6. CASE event.action = "REMOVE"
  <2>1. /\ event.row \in 1 .. Len(kids) /\ kids[event.row] = event.item
        /\ kids' = Seqs!RemoveAt(kids, event.row)
    BY <1>1, <1>6 DEF HasRow, Commit
  <2>2. kids' \in Seq(Item) /\ Len(kids') = Len(kids) - 1
    BY <1>3, <2>1, RemoveAtProperties
  <2>3. Seqs!InsertAt(kids', event.row, event.item) = kids
    BY <1>3, <2>1, InsertRemoved
  <2>4. HasRow'
    BY <1>2, <1>3, <1>6, <2>1, <2>2 DEF HasRow
  <2>5. \A q \in connected : Follows(q)'
    BY <1>1, <1>2, <1>6, <2>1, <2>3 DEF Follows, Told
  <2> QED
    BY <1>2, <1>4, <2>2, <2>4, <2>5 DEF IInv, Shape, ChangeInv, MirrorExact
<1> QED
  BY <1>1, <1>5, <1>6 DEF Changing

LEMMA ReturnInv ==
    ASSUME IInv, Return, Unopposed
    PROVE  IInv'
<1>1. /\ ~ Idle /\ Changing /\ SameRow /\ HasRow
      /\ event.when \in {"CANCELLED", "AFTER"} /\ event.told = connected
      /\ \A q \in connected : Follows(q)
      /\ Idle' /\ UNCHANGED <<kids, connected>>
  BY DEF IInv, ChangeInv, Return, Changing, Idle
<1>2. \A q \in connected \ {event.origin} : mirror[q] = kids
  BY <1>1 DEF Follows, Told, Changing
<1>3. kids \in Seq(Item) /\ Len(kids) \in Nat /\ event.item \in Item
  BY <1>1, LenProperties DEF IInv, Shape, Changing
<1>4. CASE event.origin = Client
  <2>1. mirror' = mirror /\ Client \notin connected
    BY <1>4, ProxyAssumption DEF Return, IInv, Shape
  <2> QED
    BY <1>1, <1>2, <1>4, <2>1 DEF IInv, Shape, MirrorExact, ChangeInv
<1>5. CASE event.origin # Client
  <2> DEFINE q == event.origin
  <2>1. q \in connected /\ q \in Proxy /\ event.when = "AFTER" /\ event.own = event.row
    BY <1>1, <1>5 DEF Changing, SameRow, IInv, Shape
  <2>2. mirror' = [mirror EXCEPT ![q] = kids]
    <3>1. CASE event.action = "APPEND"
      <4>1. event.row \in 1 .. Len(kids) /\ event.item = kids[event.row]
        BY <1>1, <2>1, <3>1 DEF HasRow
      <4>2. mirror[q] = Seqs!RemoveAt(kids, event.row)
        BY <1>1, <2>1, <3>1 DEF Follows, Told
      <4>3. Seqs!InsertAt(mirror[q], event.own, event.item) = kids
        BY <1>3, <2>1, <4>1, <4>2, InsertRemoved
      <4> QED
        BY <1>5, <3>1, <4>3 DEF Return, Show, Unopposed
    <3>2. CASE event.action = "REMOVE"
      <4>1. event.row \in 1 .. Len(kids) + 1
        BY <1>1, <2>1, <3>2 DEF HasRow
      <4>2. mirror[q] = Seqs!InsertAt(kids, event.row, event.item)
        BY <1>1, <2>1, <3>2 DEF Follows, Told
      <4>3. Seqs!RemoveAt(mirror[q], event.own) = kids
        BY <1>3, <2>1, <4>1, <4>2, RemoveInserted
      <4> QED
        BY <1>5, <3>2, <4>3 DEF Return, Show, Unopposed
    <3> QED
      BY <1>1, <3>1, <3>2 DEF Changing
  <2> QED
    BY <1>1, <1>2, <1>3, <2>1, <2>2 DEF IInv, Shape, MirrorExact, ChangeInv
<1> QED
  BY <1>4, <1>5

-----------------------------------------------------------------------------
(* The theorems.                                                           *)

LEMMA InitInv == Init => IInv
BY DEF Init, IInv, Shape, MirrorExact, ChangeInv, Idle

LEMMA NextInv == Unopposed /\ IInv /\ [Next]_vars => IInv'
<1> SUFFICES ASSUME Unopposed, IInv, [Next]_vars PROVE IInv'
  OBVIOUS
<1>1. ASSUME NEW n \in Item, NEW row \in 0 .. MaxKids, NEW side \in Sides,
             insert(n, row, side) \/ \E q \in Proxy : proxyInsert(q, n, row, side)
      PROVE  IInv'
  BY <1>1, InsertBegins
<1>2. ASSUME NEW row \in 1 .. MaxKids,
             removeChild(row) \/ \E q \in Proxy : proxyRemove(q, row)
      PROVE  IInv'
  BY <1>2, RemoveBegins
<1>3. ASSUME NEW q \in Proxy, notify(q) PROVE IInv'
  BY <1>3, NotifyInv
<1>4. ASSUME NEW q \in Proxy, setExtendedObject(q) PROVE IInv'
  BY <1>4 DEF setExtendedObject, IInv, Shape, MirrorExact, ChangeInv, Idle
<1>5. ASSUME NEW q \in Proxy, unsetExtendedObject(q) PROVE IInv'
  BY <1>5 DEF unsetExtendedObject, IInv, Shape, MirrorExact, ChangeInv, Idle
<1>6. CASE Veto \/ Commit \/ Return
  BY <1>6, VetoInv, CommitInv, ReturnInv
<1>7. CASE UNCHANGED vars
  <2>1. UNCHANGED <<kids, mirror, connected, event>>
    BY <1>7 DEF vars
  <2> QED
    BY <2>1 DEF IInv, Shape, MirrorExact, ChangeInv, Idle, Changing, SameRow, HasRow, Follows, Told
<1> QED
  BY <1>1, <1>2, <1>3, <1>4, <1>5, <1>6, <1>7 DEF Next

LEMMA UnopposedStays == Unopposed => Unopposed'
BY DEF Unopposed

LEMMA Invariance == Unopposed /\ Spec => []IInv
BY InitInv, NextInv, UnopposedStays, PTL DEF Spec

\* Between calls a node has the same children in the same order in all its places.
THEOREM AllPlacesAlike == Unopposed /\ Spec => []MirrorExact
<1>1. IInv => MirrorExact
  BY DEF IInv
<1> QED
  BY <1>1, Invariance, PTL

\* During a change no place is more than the row behind that the change is about.
THEOREM AtMostOneRow == Unopposed /\ Spec => []OneRowBehind
<1>1. IInv => OneRowBehind
  <2> SUFFICES ASSUME IInv, ~ Idle, NEW q \in connected
               PROVE  \/ mirror[q] = kids
                      \/ mirror[q] = Seqs!RemoveAt(kids, event.row)
                      \/ /\ event.action = "REMOVE" /\ event.when = "AFTER" /\ q = event.origin
                         /\ kids = Seqs!RemoveAt(mirror[q], event.row)
    BY DEF OneRowBehind
  <2>1. Changing /\ HasRow /\ Follows(q)
    BY DEF IInv, ChangeInv
  <2>2. CASE event.action = "REMOVE" /\ event.when = "AFTER" /\ q = event.origin
    <3>1. mirror[q] = Seqs!InsertAt(kids, event.row, event.item)
      BY <2>1, <2>2 DEF Follows
    <3>2. event.row \in 1 .. Len(kids) + 1 /\ event.item \in Item /\ kids \in Seq(Item)
      BY <2>1, <2>2 DEF HasRow, Changing, IInv, Shape
    <3>3. kids = Seqs!RemoveAt(mirror[q], event.row)
      BY <3>1, <3>2, RemoveInserted
    <3> QED
      BY <2>2, <3>3
  <2>3. CASE ~ (event.action = "REMOVE" /\ event.when = "AFTER" /\ q = event.origin)
    BY <2>1, <2>3 DEF Follows, Changing
  <2> QED
    BY <2>2, <2>3
<1> QED
  BY <1>1, Invariance, PTL
=============================================================================
