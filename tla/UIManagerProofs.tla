-------------------------- MODULE UIManagerProofs --------------------------
(***************************************************************************)
(* That the folders of menus and tool bars are counted exactly, are shown  *)
(* and stand in order, for any windows, parts, descriptions and chains of  *)
(* managers that are Orderly.                                              *)
(*                                                                         *)
(* In the middle of a call a counter is ahead of, or behind, what the      *)
(* descriptions hold.  A pointer in them is a Claim until a removal has    *)
(* read it again; then its folder is Open until the removal comes to the   *)
(* end of it.  A counter is the number of Claims, and one more for an Open *)
(* folder (Counts); what is claimed or open is there (Accounted).          *)
(*                                                                         *)
(* Deleting a folder takes all that is in it, which must not be claimed.   *)
(* That holds since a description reaches a folder only by the one that it *)
(* is in (DescInv, RemoveInv): whoever claims what is in a folder claims   *)
(* the folder.  And it needs the folder that findChild gives to be in the  *)
(* one that is asked, which is what OneDepth is for: AddInv relates the    *)
(* depth reached to the depth in the description of the part, Described    *)
(* that of the folders there are.                                          *)
(*                                                                         *)
(* The second half is about what containers show.  Each thing is in a      *)
(* container once, a folder by the one that it is in (ShownInv): nothing   *)
(* shows a folder that is deleted, and no folder is lost from sight.  What *)
(* is written of items and separators never is a folder (SignInv), so that *)
(* their removal hides no folder.  Menus and what they contain stand in    *)
(* the order of the priorities that parts ask for (OrderInv), as what is   *)
(* inserted goes before the first thing of a greater number, and what is   *)
(* taken out leaves the rest in its order (Thinned).                       *)
(***************************************************************************)
EXTENDS UIManager, FiniteSetTheorems, SequenceTheorems, WellFoundedInduction, TLAPS

-----------------------------------------------------------------------------
(* Induction over natural numbers, as the smallest counterexample.         *)

Less == {ij \in Nat \X Nat : ij[1] < ij[2]}

\* A set of numbers has a least element.
LEMMA LeastNumber ==
    ASSUME NEW T \in SUBSET Nat, T # {}
    PROVE  \E i \in T : \A j \in T : i <= j
<1>1. IsWellFoundedOn(Less, Nat)
  BY NatLessThanWellFounded DEF OpToRel, Less
<1>2. PICK i \in T : \A j \in T : <<j, i>> \notin Less
  BY <1>1, WFMin
<1>3. ASSUME NEW j \in T
      PROVE  i <= j
  <2>1. <<j, i>> \in Nat \X Nat /\ <<j, i>>[1] = j /\ <<j, i>>[2] = i
    OBVIOUS
  <2>2. ~ j < i
    BY <1>2, <2>1 DEF Less
  <2> QED
    BY <2>2
<1> QED
  BY <1>3

-----------------------------------------------------------------------------
(* Paths: the names of containers, folders and what they show.             *)

Path == Seq(Bag \cup STRING)

\* f is c or contains it.
Within(f, c) == /\ Len(f) <= Len(c)
                /\ \A i \in 1 .. Len(f) : f[i] = c[i]

\* f is directly in c.
Child(c, f) == /\ c \in Path /\ f \in Path
               /\ Len(c) >= 1
               /\ Len(f) = Len(c) + 1
               /\ Within(c, f)

LEMMA PathLen == ASSUME NEW f \in Path PROVE Len(f) \in Nat /\ DOMAIN f = 1 .. Len(f)
BY DEF Path

LEMMA SamePath ==
    ASSUME NEW f \in Path, NEW g \in Path, Len(f) = Len(g),
           \A i \in 1 .. Len(f) : f[i] = g[i]
    PROVE  f = g
BY SeqEqual DEF Path

\* IsPrefix, which the code's deletion is written with, is Within.
LEMMA PrefixIsWithin ==
    ASSUME NEW f \in Path, NEW g \in Path
    PROVE  IsPrefix(f, g) <=> Within(f, g)
<1>1. SubSeq(f, 1, Len(f)) = f
  BY SubSeqFull DEF Path
<1>2. CASE Len(f) <= Len(g)
  <2>1. /\ SubSeq(g, 1, Len(f)) \in Path
        /\ Len(SubSeq(g, 1, Len(f))) = Len(f)
        /\ \A i \in 1 .. Len(f) : SubSeq(g, 1, Len(f))[i] = g[i]
    BY <1>2 DEF Path
  <2> QED
    BY <1>1, <1>2, <2>1, SamePath DEF IsPrefix, Within
<1> QED
  BY <1>2 DEF IsPrefix, Within

\* A folder is created in the one it is appended to.
LEMMA AppendIsChild ==
    ASSUME NEW c \in Path, Len(c) >= 1, NEW n \in Bag \cup STRING
    PROVE  /\ Child(c, Append(c, n))
           /\ Len(Append(c, n)) = Len(c) + 1
           /\ Last(Append(c, n)) = n
<1> DEFINE a == Append(c, n)
<1>1. /\ a \in Path /\ Len(a) = Len(c) + 1
      /\ \A i \in 1 .. Len(c) : a[i] = c[i]
      /\ a[Len(c) + 1] = n
  <2> DEFINE S == Bag \cup STRING
  <2>1. c \in Seq(S) /\ n \in S
    BY DEF Path
  <2> HIDE DEF S
  <2>2. /\ a \in Seq(S) /\ Len(a) = Len(c) + 1
        /\ \A i \in 1 .. Len(c) : a[i] = c[i]
        /\ a[Len(c) + 1] = n
    BY <2>1, AppendProperties
  <2> QED
    BY <2>2 DEF Path, S
<1>2. Len(c) \in Nat
  BY PathLen
<1> HIDE DEF a
<1>3. Child(c, a) /\ Last(a) = n
  BY <1>1, <1>2 DEF Child, Within, Last
<1> QED
  BY <1>1, <1>3 DEF a

LEMMA ContainerPath ==
    ASSUME NEW b \in Bag
    PROVE  Container(b) \in Path /\ Len(Container(b)) = 1 /\ Container(b)[1] = b
BY DEF Container, Path

\* A folder is in one folder.
LEMMA OneParent ==
    ASSUME NEW c, NEW d, NEW f, Child(c, f), Child(d, f)
    PROVE  c = d
<1>1. Len(c) = Len(d) /\ \A i \in 1 .. Len(c) : c[i] = d[i]
  BY PathLen DEF Child, Within
<1> QED
  BY <1>1, SamePath DEF Child

\* What contains f is f or contains the folder that f is in.
LEMMA AboveChild ==
    ASSUME NEW c, NEW f, Child(c, f), NEW g \in Path
    PROVE  Within(g, f) <=> g = f \/ Within(g, c)
<1>1. Len(c) \in Nat /\ Len(f) \in Nat /\ Len(g) \in Nat
  BY PathLen DEF Child
<1>2. ASSUME Within(g, f), g # f
      PROVE  Within(g, c)
  <2>1. Len(g) # Len(f)
    BY <1>2, SamePath DEF Within, Child
  <2> QED
    BY <1>1, <1>2, <2>1 DEF Within, Child
<1>3. ASSUME Within(g, c)
      PROVE  Within(g, f)
  BY <1>1, <1>3 DEF Within, Child
<1>4. Within(f, f)
  BY <1>1 DEF Within
<1> QED
  BY <1>2, <1>3, <1>4
-----------------------------------------------------------------------------
(* The tags of a description.                                              *)

\* path[i] is what the tags before tag i have opened in container b.
IsWalk(b, tags, path) ==
    /\ Len(tags) \in Nat
    /\ path \in [1 .. Len(tags) + 1 -> Path]
    /\ path[1] = Container(b)
    /\ \A i \in 1 .. Len(tags) :
          /\ tags[i].tag = "folder" => Child(path[i], tags[i].o) /\ path[i + 1] = tags[i].o
          /\ tags[i].tag = "end" => Child(path[i + 1], path[i])
          /\ tags[i].tag \notin {"folder", "end"} => path[i + 1] = path[i]

\* The tags lead to c.
Reaches(b, tags, c) ==
    \E path : IsWalk(b, tags, path) /\ path[Len(tags) + 1] = c

\* The tags are complete, and those before tag i lead to c.
Passes(b, tags, i, c) ==
    \E path : /\ IsWalk(b, tags, path)
              /\ path[Len(tags) + 1] = Container(b)
              /\ path[i] = c

Written == [tag : {"folder", "item", "separator"}, o : Path] \cup [tag : {"end"}]

LEMMA ReachesStart ==
    ASSUME NEW b \in Bag
    PROVE  Reaches(b, <<>>, Container(b))
<1> DEFINE path == [i \in 1 .. 1 |-> Container(b)]
           tags == <<>>
<1>1. Len(tags) = 0
  OBVIOUS
<1> HIDE DEF tags
<1>2. IsWalk(b, tags, path) /\ path[Len(tags) + 1] = Container(b)
  BY <1>1, ContainerPath DEF IsWalk
<1> HIDE DEF path
<1> QED
  BY <1>2 DEF Reaches, tags

\* One tag more.
LEMMA ReachesOn ==
    ASSUME NEW b \in Bag, NEW tags \in Seq(Written), NEW c, NEW t \in Written, NEW d \in Path,
           Reaches(b, tags, c),
           /\ t.tag = "folder" => Child(c, t.o) /\ d = t.o
           /\ t.tag = "end" => Child(d, c)
           /\ t.tag \notin {"folder", "end"} => d = c
    PROVE  Reaches(b, Append(tags, t), d)
<1> DEFINE n == Len(tags)
           more == Append(tags, t)
<1>1. PICK path : IsWalk(b, tags, path) /\ path[n + 1] = c
  BY DEF Reaches
<1> DEFINE longer == [i \in 1 .. n + 2 |-> IF i = n + 2 THEN d ELSE path[i]]
<1>2. /\ n \in Nat /\ Len(more) = n + 1 /\ more[n + 1] = t
      /\ \A i \in 1 .. n : more[i] = tags[i]
  BY AppendProperties
<1> HIDE DEF n, more
<1>3. path \in [1 .. n + 1 -> Path] /\ path[1] = Container(b)
  BY <1>1 DEF IsWalk, n
<1>4. longer \in [1 .. n + 2 -> Path] /\ longer[1] = Container(b) /\ longer[n + 2] = d
  BY <1>2, <1>3
<1>5. ASSUME NEW i \in 1 .. n + 1
      PROVE  /\ more[i].tag = "folder" => Child(longer[i], more[i].o) /\ longer[i + 1] = more[i].o
             /\ more[i].tag = "end" => Child(longer[i + 1], longer[i])
             /\ more[i].tag \notin {"folder", "end"} => longer[i + 1] = longer[i]
  <2>1. CASE i = n + 1
    <3>1. longer[i] = c /\ longer[i + 1] = d /\ more[i] = t
      BY <1>1, <1>2, <1>4, <2>1
    <3> HIDE DEF longer
    <3> QED
      BY <3>1
  <2>2. CASE i \in 1 .. n
    <3>1. longer[i] = path[i] /\ longer[i + 1] = path[i + 1] /\ more[i] = tags[i]
      BY <1>2, <2>2
    <3>2. /\ tags[i].tag = "folder" => Child(path[i], tags[i].o) /\ path[i + 1] = tags[i].o
          /\ tags[i].tag = "end" => Child(path[i + 1], path[i])
          /\ tags[i].tag \notin {"folder", "end"} => path[i + 1] = path[i]
      BY <1>1, <2>2 DEF IsWalk, n
    <3> HIDE DEF longer
    <3> QED
      BY <3>1, <3>2
  <2> QED
    BY <1>2, <2>1, <2>2
<1> HIDE DEF longer
<1>6. Len(more) + 1 = n + 2
  BY <1>2
<1>7. IsWalk(b, more, longer) /\ longer[Len(more) + 1] = d
  BY <1>2, <1>4, <1>5, <1>6 DEF IsWalk
<1> QED
  BY <1>7 DEF Reaches, more

LEMMA PassesStart ==
    ASSUME NEW b, NEW tags, Reaches(b, tags, Container(b))
    PROVE  Passes(b, tags, 1, Container(b))
BY DEF Reaches, Passes, IsWalk

\* A tag leads on by what it is: into a folder, out of it, or nowhere.
LEMMA PassesOn ==
    ASSUME NEW b, NEW tags, NEW i \in 1 .. Len(tags), NEW c, Passes(b, tags, i, c)
    PROVE  /\ c \in Path
           /\ tags[i].tag = "folder" => /\ Child(c, tags[i].o)
                                        /\ Passes(b, tags, i + 1, tags[i].o)
           /\ tags[i].tag = "end" => \E d : Child(d, c) /\ Passes(b, tags, i + 1, d)
           /\ tags[i].tag \notin {"folder", "end"} => Passes(b, tags, i + 1, c)
<1>1. PICK path : /\ IsWalk(b, tags, path)
                  /\ path[Len(tags) + 1] = Container(b)
                  /\ path[i] = c
  BY DEF Passes
<1>2. Passes(b, tags, i + 1, path[i + 1])
  BY <1>1 DEF Passes
<1>3. i \in 1 .. Len(tags) + 1
  BY <1>1 DEF IsWalk
<1> QED
  BY <1>1, <1>2, <1>3 DEF IsWalk

LEMMA PassesEnd ==
    ASSUME NEW b, NEW tags, NEW c, Passes(b, tags, Len(tags) + 1, c)
    PROVE  c = Container(b)
BY DEF Passes

\* To get into f, tags must open it.
LEMMA Opened ==
    ASSUME NEW b, NEW tags, NEW i \in Nat \ {0}, NEW c, Passes(b, tags, i, c),
           NEW f \in Path, ~ Within(f, c),
           NEW j \in 1 .. Len(tags), i <= j,
           tags[j].tag = "folder", Within(f, tags[j].o)
    PROVE  \E l \in 1 .. Len(tags) : i <= l /\ tags[l].tag = "folder" /\ tags[l].o = f
<1>1. PICK path : IsWalk(b, tags, path) /\ path[i] = c
  BY DEF Passes
<1>2. /\ Len(tags) \in Nat
      /\ path \in [1 .. Len(tags) + 1 -> Path]
  BY <1>1 DEF IsWalk
<1> DEFINE T == {l \in 1 .. Len(tags) + 1 : i <= l /\ Within(f, path[l])}
<1>3. j + 1 \in T
  BY <1>1, <1>2 DEF IsWalk
<1>4. PICK l \in T : \A k \in T : l <= k
  <2>1. T \in SUBSET Nat /\ T # {}
    BY <1>2, <1>3
  <2> HIDE DEF T
  <2> QED
    BY <2>1, LeastNumber
<1>5. l # i
  BY <1>1, <1>4
<1>6. l \in 1 .. Len(tags) + 1 /\ i <= l /\ Within(f, path[l])
  BY <1>4
<1>7. l - 1 \in 1 .. Len(tags) /\ i <= l - 1 /\ l - 1 + 1 = l
  BY <1>2, <1>5, <1>6
<1>8. ~ Within(f, path[l - 1])
  <2>1. l - 1 \notin T
    BY <1>4, <1>6
  <2> QED
    BY <1>2, <1>7, <2>1
<1> DEFINE k == l - 1
<1>9. /\ k \in 1 .. Len(tags) /\ i <= k
      /\ ~ Within(f, path[k]) /\ Within(f, path[k + 1])
  BY <1>6, <1>7, <1>8
<1> HIDE DEF k
<1>10. /\ tags[k].tag = "folder" => Child(path[k], tags[k].o) /\ path[k + 1] = tags[k].o
       /\ tags[k].tag = "end" => Child(path[k + 1], path[k])
       /\ tags[k].tag \notin {"folder", "end"} => path[k + 1] = path[k]
  BY <1>1, <1>9 DEF IsWalk
<1>11. tags[k].tag # "end"
  BY <1>9, <1>10, AboveChild
<1>12. tags[k].tag = "folder"
  BY <1>9, <1>10, <1>11
<1>13. tags[k].o = f
  BY <1>9, <1>10, <1>12, AboveChild
<1> QED
  BY <1>9, <1>12, <1>13

-----------------------------------------------------------------------------
(* What is left of a sequence.                                             *)

\* t is s without its first r elements.
Suffix(t, s, r) == /\ r \in 0 .. Len(s)
                   /\ t = SubSeq(s, r + 1, Len(s))

LEMMA SuffixAll ==
    ASSUME NEW S, NEW s \in Seq(S)
    PROVE  Suffix(s, s, 0)
BY SubSeqFull DEF Suffix

LEMMA SuffixByIndex ==
    ASSUME NEW S, NEW s \in Seq(S), NEW r, NEW t, Suffix(t, s, r)
    PROVE  /\ r \in Nat /\ Len(s) \in Nat /\ r <= Len(s) /\ t = SubSeq(s, r + 1, Len(s))
           /\ t \in Seq(S) /\ Len(t) \in Nat /\ Len(t) = Len(s) - r
           /\ \A j \in 1 .. Len(t) : t[j] = s[r + j]
<1>1. r \in Nat /\ Len(s) \in Nat /\ r <= Len(s) /\ t = SubSeq(s, r + 1, Len(s))
  BY DEF Suffix
<1>2. \A i \in r + 1 .. Len(s) : s[i] \in S
  BY <1>1
<1>3. /\ SubSeq(s, r + 1, Len(s)) \in Seq(S)
      /\ Len(SubSeq(s, r + 1, Len(s))) = IF r + 1 <= Len(s) THEN Len(s) - (r + 1) + 1 ELSE 0
      /\ \A i \in 1 .. Len(s) - (r + 1) + 1 : SubSeq(s, r + 1, Len(s))[i] = s[r + 1 + i - 1]
  BY <1>1, <1>2, SubSeqProperties
<1> QED
  BY <1>1, <1>3

LEMMA SuffixOf ==
    ASSUME NEW S, NEW s \in Seq(S), NEW r, NEW t, Suffix(t, s, r)
    PROVE  /\ t # <<>> => /\ r + 1 \in 1 .. Len(s)
                          /\ Head(t) = s[r + 1] /\ t[1] = s[r + 1]
                          /\ Suffix(Tail(t), s, r + 1)
           /\ t = <<>> => r = Len(s)
<1>1. /\ r \in Nat /\ Len(s) \in Nat /\ r <= Len(s) /\ t = SubSeq(s, r + 1, Len(s))
      /\ t \in Seq(S) /\ Len(t) \in Nat /\ Len(t) = Len(s) - r
      /\ \A j \in 1 .. Len(t) : t[j] = s[r + j]
  BY SuffixByIndex
<1>2. ASSUME t # <<>>
      PROVE  /\ r + 1 \in 1 .. Len(s)
             /\ Head(t) = s[r + 1] /\ t[1] = s[r + 1]
             /\ Suffix(Tail(t), s, r + 1)
  <2>1. r + 1 \in 1 .. Len(s) /\ 1 \in 1 .. Len(t)
    BY <1>1, <1>2
  <2>2. Tail(t) = SubSeq(s, r + 1 + 1, Len(s)) /\ Head(t) = s[r + 1]
    BY <1>1, <2>1, HeadTailOfSubSeq
  <2> QED
    BY <1>1, <2>1, <2>2 DEF Suffix
<1>3. ASSUME t = <<>>
      PROVE  r = Len(s)
  <2>1. Len(t) = 0
    BY <1>3
  <2> QED
    BY <1>1, <2>1
<1> QED
  BY <1>2, <1>3

LEMMA SuffixLater ==
    ASSUME NEW S, NEW s \in Seq(S), NEW r, NEW t, Suffix(t, s, r),
           NEW k \in 0 .. Len(t)
    PROVE  Suffix(SubSeq(t, k + 1, Len(t)), s, r + k)
<1> DEFINE u == SubSeq(t, k + 1, Len(t))
           v == SubSeq(s, r + k + 1, Len(s))
<1>1. /\ t \in Seq(S) /\ r \in Nat /\ Len(s) \in Nat /\ r <= Len(s)
      /\ Len(t) \in Nat /\ Len(t) = Len(s) - r
      /\ \A j \in 1 .. Len(t) : t[j] = s[r + j]
  BY SuffixByIndex
<1>2. Suffix(u, t, k)
  BY DEF Suffix
<1>3. r + k \in 0 .. Len(s)
  BY <1>1
<1>4. Suffix(v, s, r + k)
  BY <1>3 DEF Suffix
<1> HIDE DEF u, v
<1>5. /\ u \in Seq(S) /\ Len(u) = Len(t) - k
      /\ \A j \in 1 .. Len(u) : u[j] = t[k + j]
  <2>1. t \in Seq(S)
    BY <1>1
  <2> QED
    BY <2>1, <1>2, SuffixByIndex, SMTT(30)
<1>6. /\ v \in Seq(S) /\ Len(v) = Len(s) - (r + k)
      /\ \A j \in 1 .. Len(v) : v[j] = s[r + k + j]
  <2> DEFINE q == r + k
  <2>1. Suffix(v, s, q)
    BY <1>4
  <2> HIDE DEF q
  <2>2. /\ v \in Seq(S) /\ Len(v) = Len(s) - q
        /\ \A j \in 1 .. Len(v) : v[j] = s[q + j]
    BY <2>1, SuffixByIndex
  <2> QED
    BY <2>2 DEF q
<1>7. Len(u) = Len(v)
  BY <1>1, <1>5, <1>6
<1>8. \A j \in 1 .. Len(u) : u[j] = v[j]
  <2> TAKE j \in 1 .. Len(u)
  <2>1. k + j \in 1 .. Len(t) /\ r + (k + j) = r + k + j
    BY <1>1, <1>5
  <2> QED
    BY <1>1, <1>5, <1>6, <1>7, <2>1
<1>9. u = v
  BY <1>5, <1>6, <1>7, <1>8, SeqEqual
<1> QED
  BY <1>4, <1>9 DEF u

-----------------------------------------------------------------------------
(* Depths.                                                                 *)

LEMMA DepthStart == ASSUME NEW tags PROVE Depth(tags, 1) = 0
<1>1. ASSUME NEW t
      PROVE  {j \in 1 .. 1 - 1 : tags[j].tag = t} = {}
  OBVIOUS
<1> QED
  BY <1>1, FS_EmptySet DEF Depth

LEMMA DepthOn ==
    ASSUME NEW tags, NEW i \in Nat \ {0}
    PROVE  /\ Depth(tags, i) \in Int
           /\ Depth(tags, i + 1) = Depth(tags, i) + (IF tags[i].tag = "folder" THEN 1
                                                     ELSE IF tags[i].tag = "end" THEN -1 ELSE 0)
<1> DEFINE C(t, k) == {j \in 1 .. k : tags[j].tag = t}
<1>1. ASSUME NEW t
      PROVE  /\ IsFiniteSet(C(t, i - 1)) /\ Cardinality(C(t, i - 1)) \in Nat
             /\ Cardinality(C(t, i)) = Cardinality(C(t, i - 1))
                                       + (IF tags[i].tag = t THEN 1 ELSE 0)
  <2>1. IsFiniteSet(1 .. i - 1)
    BY FS_Interval
  <2>2. C(t, i - 1) \in SUBSET (1 .. i - 1) /\ i \notin C(t, i - 1)
    OBVIOUS
  <2>3. C(t, i) = IF tags[i].tag = t THEN C(t, i - 1) \cup {i} ELSE C(t, i - 1)
    OBVIOUS
  <2> HIDE DEF C
  <2>4. IsFiniteSet(C(t, i - 1))
    BY <2>1, <2>2, FS_Subset
  <2>5. Cardinality(C(t, i - 1)) \in Nat
    BY <2>4, FS_CardinalityType
  <2>6. Cardinality(C(t, i - 1) \cup {i}) = Cardinality(C(t, i - 1)) + 1
    BY <2>2, <2>4, FS_AddElement
  <2> QED
    BY <2>3, <2>4, <2>5, <2>6
<1>2. /\ Depth(tags, i) = Cardinality(C("folder", i - 1)) - Cardinality(C("end", i - 1))
      /\ Depth(tags, i + 1) = Cardinality(C("folder", i)) - Cardinality(C("end", i))
  <2>1. i + 1 - 1 = i
    OBVIOUS
  <2> QED
    BY <2>1 DEF Depth
<1> HIDE DEF C
<1>3. tags[i].tag = "folder" => tags[i].tag # "end"
  OBVIOUS
<1>4. /\ Cardinality(C("folder", i - 1)) \in Nat /\ Cardinality(C("end", i - 1)) \in Nat
      /\ Cardinality(C("folder", i)) = Cardinality(C("folder", i - 1))
                                       + (IF tags[i].tag = "folder" THEN 1 ELSE 0)
      /\ Cardinality(C("end", i)) = Cardinality(C("end", i - 1))
                                    + (IF tags[i].tag = "end" THEN 1 ELSE 0)
  BY <1>1
<1> DEFINE a == Cardinality(C("folder", i - 1))
           b == Cardinality(C("end", i - 1))
<1>5. /\ a \in Nat /\ b \in Nat
      /\ Depth(tags, i) = a - b
      /\ Depth(tags, i + 1) = (a + (IF tags[i].tag = "folder" THEN 1 ELSE 0))
                              - (b + (IF tags[i].tag = "end" THEN 1 ELSE 0))
  BY <1>2, <1>4
<1> HIDE DEF a, b
<1> QED
  BY <1>3, <1>5

\* Depths within what is left of the tags.
LEMMA DepthOfSuffix ==
    ASSUME NEW S, NEW s \in Seq(S), NEW r, NEW t, Suffix(t, s, r)
    PROVE  \A j \in 1 .. Len(t) + 1 : Depth(t, j) = Depth(s, r + j) - Depth(s, r + 1)
<1> DEFINE T == {j \in 1 .. Len(t) + 1 : Depth(t, j) # Depth(s, r + j) - Depth(s, r + 1)}
<1> SUFFICES ASSUME T # {}
             PROVE  FALSE
  OBVIOUS
<1>1. /\ r \in Nat /\ Len(t) \in Nat
      /\ \A j \in 1 .. Len(t) : t[j] = s[r + j]
  BY SuffixByIndex
<1>2. PICK j \in T : \A k \in T : j <= k
  <2>1. T \in SUBSET Nat
    BY <1>1
  <2> HIDE DEF T
  <2> QED
    BY <2>1, LeastNumber
<1>3. j \in 1 .. Len(t) + 1 /\ Depth(t, j) # Depth(s, r + j) - Depth(s, r + 1)
  BY <1>2
<1>4. Depth(s, r + 1) \in Int
  BY <1>1, DepthOn
<1>5. j # 1
  BY <1>3, <1>4, DepthStart
<1> DEFINE i == j - 1
<1>6. i \in 1 .. Len(t) /\ i + 1 = j /\ r + i + 1 = r + j /\ i < j
  BY <1>1, <1>3, <1>5
<1>7. Depth(t, i) = Depth(s, r + i) - Depth(s, r + 1)
  <2>1. i \notin T
    BY <1>2, <1>3, <1>6
  <2> QED
    BY <1>1, <1>6, <2>1
<1> HIDE DEF i
<1>8. Depth(s, r + j) = Depth(s, r + i) + (IF s[r + i].tag = "folder" THEN 1
                                           ELSE IF s[r + i].tag = "end" THEN -1 ELSE 0)
      /\ Depth(s, r + i) \in Int
  <2>1. r + i \in Nat \ {0}
    BY <1>1, <1>6
  <2> QED
    BY <1>6, <2>1, DepthOn
<1>9. Depth(t, j) = Depth(t, i) + (IF t[i].tag = "folder" THEN 1
                                   ELSE IF t[i].tag = "end" THEN -1 ELSE 0)
  <2>1. i \in Nat \ {0}
    BY <1>1, <1>6
  <2> QED
    BY <1>6, <2>1, DepthOn
<1>10. t[i] = s[r + i]
  BY <1>1, <1>6
<1> QED
  BY <1>3, <1>4, <1>7, <1>8, <1>9, <1>10

\* A folder is skipped up to its end, where the depth is what it was before.
LEMMA SkippedFolder ==
    ASSUME NEW S, NEW s \in Seq(S), Balanced(s), NEW r, NEW t, Suffix(t, s, r),
           t # <<>>, t[1].tag = "folder"
    PROVE  \E q : Suffix(Skipped(t), s, q) /\ Depth(s, q + 1) = Depth(s, r + 1)
<1>1. /\ r \in Nat /\ Len(s) \in Nat /\ Len(t) \in Nat /\ Len(t) = Len(s) - r
      /\ r + 1 \in 1 .. Len(s)
  BY SuffixOf, SuffixByIndex
<1>2. \A j \in 1 .. Len(t) + 1 : Depth(t, j) = Depth(s, r + j) - Depth(s, r + 1)
  BY DepthOfSuffix
<1>3. \A j \in Nat \ {0} : /\ Depth(t, j) \in Int
                           /\ Depth(t, j + 1) >= Depth(t, j) - 1
  <2> TAKE j \in Nat \ {0}
  <2>1. /\ Depth(t, j) \in Int
        /\ Depth(t, j + 1) = Depth(t, j) + (IF t[j].tag = "folder" THEN 1
                                            ELSE IF t[j].tag = "end" THEN -1 ELSE 0)
    BY DepthOn
  <2> QED
    BY <2>1
<1>4. Depth(t, 2) = 1
  <2>1. 1 + 1 = 2
    OBVIOUS
  <2> QED
    BY <2>1, DepthOn, DepthStart, SMTT(30)
<1>5. Depth(t, Len(t) + 1) <= 0
  <2>1. Len(t) + 1 \in 1 .. Len(t) + 1 /\ r + (Len(t) + 1) = Len(s) + 1
    BY <1>1
  <2>2. Depth(s, r + 1) \in Int /\ Depth(s, r + 1) >= 0 /\ Depth(s, Len(s) + 1) = 0
    <3>1. r + 1 \in Nat \ {0}
      BY <1>1
    <3>2. Depth(s, r + 1) \in Int
      BY <3>1, DepthOn
    <3> QED
      BY <1>1, <3>2 DEF Balanced
  <2> QED
    BY <1>2, <2>1, <2>2
<1> DEFINE closed == {k \in 1 .. Len(t) : Depth(t, k + 1) = 0}
           T == {j \in 2 .. Len(t) + 1 : Depth(t, j) <= 0}
<1>6. closed # {}
  <2>1. Len(t) + 1 \in T
    BY <1>1, <1>5
  <2>2. PICK j \in T : \A k \in T : j <= k
    <3>1. T \in SUBSET Nat /\ T # {}
      BY <1>1, <2>1
    <3> HIDE DEF T
    <3> QED
      BY <3>1, LeastNumber
  <2>3. j \in 2 .. Len(t) + 1 /\ Depth(t, j) <= 0
    BY <2>2
  <2>4. j # 2
    BY <1>4, <2>3
  <2>5. j - 1 \notin T /\ j - 1 \in 2 .. Len(t) /\ j - 1 + 1 = j
    BY <1>1, <2>2, <2>3, <2>4
  <2>6. j - 1 \in 2 .. Len(t) + 1 /\ ~ Depth(t, j - 1) <= 0
    BY <1>1, <2>5
  <2>7. Depth(t, j - 1) \in Int /\ Depth(t, j) >= Depth(t, j - 1) - 1 /\ Depth(t, j) \in Int
    <3>1. j - 1 \in Nat \ {0} /\ j \in Nat \ {0}
      BY <1>1, <2>5
    <3> QED
      BY <1>3, <2>5, <3>1
  <2>8. Depth(t, j) = 0
    BY <2>3, <2>6, <2>7
  <2>9. j - 1 \in closed
    BY <1>1, <2>5, <2>8
  <2> QED
    BY <2>9
<1> DEFINE k == CHOOSE k \in closed : \A j \in closed : k <= j
<1>7. Skipped(t) = SubSeq(t, k + 1, Len(t))
  BY DEF Skipped
<1>8. k \in closed
  <2>1. closed \in SUBSET Nat
    BY <1>1
  <2> HIDE DEF closed
  <2>2. \E i \in closed : \A j \in closed : i <= j
    BY <1>6, <2>1, LeastNumber
  <2> QED
    BY <2>2
<1> HIDE DEF k
<1>9. k \in 1 .. Len(t) /\ Depth(t, k + 1) = 0
  BY <1>8
<1>10. Suffix(Skipped(t), s, r + k)
  <2>1. k \in 0 .. Len(t)
    BY <1>1, <1>9
  <2> QED
    BY <1>7, <2>1, SuffixLater
<1>11. Depth(s, r + k + 1) = Depth(s, r + 1)
  <2>1. k + 1 \in 1 .. Len(t) + 1 /\ r + (k + 1) = r + k + 1 /\ r + k + 1 \in Nat \ {0} /\ r + 1 \in Nat \ {0}
    BY <1>1, <1>9
  <2>2. 0 = Depth(s, r + k + 1) - Depth(s, r + 1)
    BY <1>2, <1>9, <2>1
  <2>3. Depth(s, r + k + 1) \in Int /\ Depth(s, r + 1) \in Int
    BY <2>1, DepthOn
  <2> QED
    BY <2>2, <2>3
<1> QED
  BY <1>10, <1>11

-----------------------------------------------------------------------------
(* The elements of a sequence that are in a set.                           *)

Once(s) == \A i, j \in 1 .. Len(s) : s[i] = s[j] => i = j

\* kept[i] is what is kept of the first i elements.
IsKept(s, S, n, kept) ==
    kept = [i \in 0 .. n |-> IF i = 0 THEN <<>>
                             ELSE IF s[i] \in S THEN Append(kept[i - 1], s[i]) ELSE kept[i - 1]]

LEMMA KeptExists ==
    ASSUME NEW s, NEW S, NEW n \in Nat
    PROVE  \E kept : IsKept(s, S, n, kept)
<1> DEFINE T == {k \in Nat : ~ \E kept : IsKept(s, S, k, kept)}
<1> SUFFICES ASSUME T # {}
             PROVE  FALSE
  OBVIOUS
<1>1. PICK k \in T : \A j \in T : k <= j
  <2> HIDE DEF T
  <2>1. T \in SUBSET Nat
    BY DEF T
  <2> QED
    BY <2>1, LeastNumber
<1>2. k \in Nat /\ ~ \E kept : IsKept(s, S, k, kept)
  BY <1>1
<1>3. k # 0
  <2> DEFINE none == [i \in 0 .. 0 |-> <<>>]
  <2>1. IsKept(s, S, 0, none)
    BY DEF IsKept
  <2> QED
    BY <1>2, <2>1
<1>4. k - 1 \in Nat /\ k - 1 \notin T
  BY <1>1, <1>2, <1>3
<1>5. PICK less : IsKept(s, S, k - 1, less)
  BY <1>4
<1> DEFINE last == IF s[k] \in S THEN Append(less[k - 1], s[k]) ELSE less[k - 1]
           more == [i \in 0 .. k |-> IF i = k THEN last ELSE less[i]]
<1>6. less = [i \in 0 .. k - 1 |-> IF i = 0 THEN <<>>
                                   ELSE IF s[i] \in S THEN Append(less[i - 1], s[i]) ELSE less[i - 1]]
  BY <1>5 DEF IsKept
<1>7. \A i \in 0 .. k : more[i] = IF i = 0 THEN <<>>
                                  ELSE IF s[i] \in S THEN Append(more[i - 1], s[i]) ELSE more[i - 1]
  <2> TAKE i \in 0 .. k
  <2>1. CASE i = k
    <3>1. more[i] = last /\ more[i - 1] = less[k - 1] /\ i # 0
      BY <1>2, <1>3, <2>1
    <3> HIDE DEF more
    <3> QED
      BY <2>1, <3>1
  <2>2. CASE i \in 1 .. k - 1
    <3>1. more[i] = less[i] /\ more[i - 1] = less[i - 1] /\ i # 0 /\ i \in 0 .. k - 1
      BY <1>2, <2>2
    <3>2. less[i] = IF s[i] \in S THEN Append(less[i - 1], s[i]) ELSE less[i - 1]
      BY <1>6, <3>1
    <3> HIDE DEF more, last
    <3> QED
      BY <3>1, <3>2
  <2>3. CASE i = 0
    <3>1. more[0] = less[0] /\ less[0] = <<>>
      BY <1>2, <1>3, <1>4, <1>6
    <3> HIDE DEF more
    <3> QED
      BY <2>3, <3>1
  <2> QED
    BY <1>2, <2>1, <2>2, <2>3
<1>8. more = [i \in 0 .. k |-> more[i]]
  OBVIOUS
<1> HIDE DEF more
<1>9. IsKept(s, S, k, more)
  BY <1>7, <1>8 DEF IsKept
<1> QED
  BY <1>2, <1>9

LEMMA OnlyIsKept ==
    ASSUME NEW s, NEW S, Len(s) \in Nat
    PROVE  \E kept : IsKept(s, S, Len(s), kept) /\ Only(s, S) = kept[Len(s)]
<1> DEFINE kept == CHOOSE kept : IsKept(s, S, Len(s), kept)
<1>1. IsKept(s, S, Len(s), kept)
  BY KeptExists
<1>2. Only(s, S) = kept[Len(s)]
  BY DEF Only, IsKept
<1> QED
  BY <1>1, <1>2

\* What is kept of a sequence are its elements in S, each as often as before.
LEMMA OnlyProperties ==
    ASSUME NEW X, NEW s \in Seq(X), NEW S
    PROVE  /\ Only(s, S) \in Seq(X)
           /\ ToSet(Only(s, S)) = ToSet(s) \cap S
           /\ Once(s) => Once(Only(s, S))
<1> DEFINE n == Len(s)
<1>1. n \in Nat /\ DOMAIN s = 1 .. n /\ \A i \in 1 .. n : s[i] \in X
  OBVIOUS
<1>2. PICK kept : IsKept(s, S, n, kept) /\ Only(s, S) = kept[n]
  BY <1>1, OnlyIsKept
<1> DEFINE Holds(x, i) == \E j \in 1 .. Len(kept[i]) : kept[i][j] = x
           P(i) == /\ kept[i] \in Seq(X)
                   /\ \A x : Holds(x, i) <=> x \in S /\ \E j \in 1 .. i : s[j] = x
                   /\ Once(s) => Once(kept[i])
<1>3. \A i \in 0 .. n : P(i)
  <2> DEFINE T == {i \in 0 .. n : ~ P(i)}
  <2> SUFFICES ASSUME T # {}
               PROVE  FALSE
    OBVIOUS
  <2>1. PICK i \in T : \A j \in T : i <= j
    <3>1. T \in SUBSET Nat
      BY <1>1
    <3> HIDE DEF T
    <3> QED
      BY <3>1, LeastNumber
  <2>2. i \in 0 .. n /\ ~ P(i)
    BY <2>1
  <2>3. kept[i] = IF i = 0 THEN <<>>
                  ELSE IF s[i] \in S THEN Append(kept[i - 1], s[i]) ELSE kept[i - 1]
    BY <1>2, <2>2 DEF IsKept
  <2>4. i # 0
    <3> SUFFICES ASSUME i = 0
                 PROVE  P(i)
      BY <2>2
    <3>1. kept[i] = <<>> /\ kept[i] \in Seq(X) /\ Len(kept[i]) = 0
      BY <2>3
    <3> QED
      BY <3>1 DEF Once
  <2> DEFINE h == i - 1
             old == kept[h]
  <2>5. h \in 0 .. n /\ h + 1 = i /\ h < i
    BY <1>1, <2>2, <2>4
  <2>6. P(h)
    <3> HIDE DEF P, h, T
    <3>1. h \notin T
      BY <1>1, <2>1, <2>2, <2>5
    <3> QED
      BY <2>5, <3>1 DEF T
  <2>7. s[i] \in X /\ i \in 1 .. n
    BY <1>1, <2>2, <2>4
  <2>8. \A x : (\E j \in 1 .. i : s[j] = x) <=> x = s[i] \/ \E j \in 1 .. h : s[j] = x
    BY <2>2, <2>5, <2>7
  <2>9. CASE s[i] \notin S
    <3>1. kept[i] = old
      BY <2>3, <2>4, <2>9
    <3>2. P(i)
      BY <2>6, <2>8, <2>9, <3>1
    <3> QED
      BY <2>2, <3>2
  <2>10. CASE s[i] \in S
    <3>1. kept[i] = Append(old, s[i])
      BY <2>3, <2>4, <2>10
    <3>2. old \in Seq(X) /\ Len(old) \in Nat
      BY <2>6
    <3> HIDE DEF old, h
    <3>3. /\ kept[i] \in Seq(X) /\ Len(kept[i]) = Len(old) + 1
          /\ \A j \in 1 .. Len(old) : kept[i][j] = old[j]
          /\ kept[i][Len(old) + 1] = s[i]
      BY <2>7, <3>1, <3>2, AppendProperties
    <3>4. \A x : Holds(x, i) <=> x = s[i] \/ \E j \in 1 .. Len(old) : old[j] = x
      <4> DEFINE new == kept[i]
      <4>1. Len(old) \in Nat /\ Len(new) = Len(old) + 1
        BY <3>2, <3>3
      <4>2. \A j \in 1 .. Len(new) : j = Len(old) + 1 \/ j \in 1 .. Len(old)
        BY <4>1
      <4>3. Len(old) + 1 \in 1 .. Len(new) /\ \A j \in 1 .. Len(old) : j \in 1 .. Len(new)
        BY <4>1
      <4> QED
        BY <3>3, <4>2, <4>3
    <3>5. \A x : (\E j \in 1 .. Len(old) : old[j] = x) <=> x \in S /\ \E j \in 1 .. h : s[j] = x
      BY <2>6 DEF old
    <3>6. ASSUME Once(s)
          PROVE  Once(kept[i])
      <4>1. Once(old)
        BY <2>6, <3>6 DEF old
      <4>2. \A j \in 1 .. Len(old) : old[j] # s[i]
        <5> SUFFICES ASSUME NEW j \in 1 .. Len(old), old[j] = s[i]
                     PROVE  FALSE
          OBVIOUS
        <5>1. PICK l \in 1 .. h : s[l] = s[i]
          BY <3>5
        <5>2. l \in 1 .. n /\ l # i
          <6>1. l \in Nat /\ l <= h /\ 1 <= l
            BY <2>5
          <6> HIDE <3>5, <5>1
          <6> QED
            BY <1>1, <2>2, <2>5, <6>1
        <5> QED
          BY <2>7, <3>6, <5>1, <5>2 DEF Once
      <4> QED
        BY <3>2, <3>3, <4>1, <4>2, SMTT(30) DEF Once
    <3>7. P(i)
      BY <2>8, <2>10, <3>3, <3>4, <3>5, <3>6
    <3> QED
      BY <2>2, <3>7
  <2> QED
    BY <2>9, <2>10
<1>4. P(n)
  <2> HIDE DEF P
  <2>1. n \in 0 .. n
    BY <1>1
  <2> QED
    BY <1>3, <2>1
<1> DEFINE t == Only(s, S)
<1>5. /\ t \in Seq(X) /\ DOMAIN t = 1 .. Len(t)
      /\ \A x : (\E j \in 1 .. Len(t) : t[j] = x) <=> x \in S /\ \E j \in 1 .. n : s[j] = x
      /\ Once(s) => Once(t)
  BY <1>2, <1>4
<1> HIDE DEF t, n
<1>6. ToSet(t) = ToSet(s) \cap S
  BY <1>1, <1>5 DEF ToSet
<1> QED
  BY <1>5, <1>6 DEF t

\* A sequence without repetitions is as long as its elements are many.
LEMMA OnceIsCounted ==
    ASSUME NEW X, NEW s \in Seq(X), Once(s)
    PROVE  IsFiniteSet(ToSet(s)) /\ Len(s) = Cardinality(ToSet(s))
<1> DEFINE n == Len(s)
           T == ToSet(s)
<1>1. n \in Nat /\ DOMAIN s = 1 .. n /\ s \in [1 .. n -> T]
  BY DEF ToSet
<1>2. s \in Bijection(1 .. n, T)
  BY <1>1 DEF Bijection, Injection, Surjection, IsInjective, Once, ToSet
<1>3. ExistsBijection(1 .. n, T)
  BY <1>2 DEF ExistsBijection
<1>4. IsFiniteSet(1 .. n) /\ Cardinality(1 .. n) = n
  BY <1>1, FS_Interval
<1> HIDE DEF T, n
<1>5. IsFiniteSet(T) /\ Cardinality(T) = n
  BY <1>3, <1>4, FS_Bijection
<1> QED
  BY <1>5 DEF T, n

-----------------------------------------------------------------------------
(* The invariant.                                                          *)

DescribedBag == [bag : STRING, tags : Seq(Element)]
WrittenBag == [bag : Bag, tags : Seq(Written)]

AddJob == [op : {"add"}, part : Part, m : Level, left : Seq(DescribedBag),
           bags : Seq(DescribedBag), tags : Seq(Element), at : Seq(Path)]
RemoveJob == [op : {"remove", "clear"}, part : Part \cup {None}, m : Level,
              bags : Seq(WrittenBag), tags : Seq(Written), at : Seq(Path)]

JobType == job = None \/ job \in AddJob \/ job \in RemoveJob

DescType == /\ DOMAIN m_uidescs = Level
            /\ \A m \in Level : /\ DOMAIN m_uidescs[m] \subseteq Part
                                /\ \A p \in DOMAIN m_uidescs[m] :
                                      m_uidescs[m][p] \in Seq(WrittenBag)

\* The description that is being written or read.
Current == m_uidescs[job.m][job.part]

\* Entry k of what manager m has for part p is being written.
Writes(m, p, k) == /\ Adding /\ job.at # <<>>
                   /\ m = job.m /\ p = job.part
                   /\ k = Len(m_uidescs[m][p])

\* Descriptions are about containers that are installed, and lead back to them.
DescInv ==
    /\ m_containers \subseteq Bag
    /\ \A m \in Level : \A p \in DOMAIN m_uidescs[m] : \A k \in 1 .. Len(m_uidescs[m][p]) :
          LET e == m_uidescs[m][p][k]
          IN /\ e.bag \in m_containers /\ BagLevel(e.bag) = m
             /\ Reaches(e.bag, e.tags, IF Writes(m, p, k) THEN Here ELSE Container(e.bag))

\* `at' is the way from container b to a folder.
Chain(at, b) == /\ Len(at) \in Nat /\ Len(at) >= 1
                /\ at[1] = Container(b)
                /\ \A i \in 1 .. Len(at) : at[i] \in Path /\ Len(at[i]) = i /\ at[i][1] = b
                /\ \A i \in 1 .. Len(at) - 1 : Child(at[i], at[i + 1])

\* The tags to come are the rest of a bag of the part, at the depth reached.
AddsBag == \E e \in ToSet(uidef(job.part)) : \E r :
              LET b == Current[Len(Current)].bag
              IN /\ Len(Current) >= 1
                 /\ e.bag = BagName(b)
                 /\ Chain(job.at, b)
                 /\ Suffix(job.tags, e.tags, r)
                 /\ Depth(e.tags, r + 1) = Len(job.at) - 1

AddInv == Adding =>
    /\ job.part \in DOMAIN m_uidescs[job.m]
    /\ \A m \in Level : m > job.m => job.part \notin DOMAIN m_uidescs[m]
    /\ ToSet(job.left) \subseteq ToSet(uidef(job.part))
    /\ ToSet(job.bags) \subseteq ToSet(uidef(job.part))
    /\ job.at # <<>> => AddsBag

\* The tags to come are the rest of entry k, which leads here.
RemovesBag(k) == \E i :
    /\ k \in 1 .. Len(Current)
    /\ Chain(job.at, Current[k].bag)
    /\ Suffix(job.tags, Current[k].tags, i)
    /\ Passes(Current[k].bag, Current[k].tags, i + 1, Here)

RemoveInv == Removing =>
    /\ job.at = <<>> => job.tags = <<>>
    /\ job.part = None => job.at = <<>>
    /\ job.part # None =>
          /\ job.part \in DOMAIN m_uidescs[job.m]
          /\ \E k : /\ Suffix(job.bags, Current, k)
                    /\ job.at # <<>> => RemovesBag(k)

\* Of the entries d, bags are left, and tags of the entry before them.
Behind(d, bags, tags, k, i) ==
    LET now == Len(d) - Len(bags)
    IN k < now \/ (k = now /\ i <= Len(d[k].tags) - Len(tags))

\* Tag i of entry k has been removed.
Passed(m, p, k, i) == /\ Removing /\ m = job.m /\ p = job.part
                      /\ Behind(m_uidescs[m][p], job.bags, job.tags, k, i)

\* Tag i of entry k has a pointer to f that is counted.
Claim(m, p, k, i, f) ==
    LET d == m_uidescs[m][p]
    IN /\ m \in Level /\ p \in Part /\ p \in DOMAIN m_uidescs[m]
       /\ k \in DOMAIN d /\ i \in DOMAIN d[k].tags
       /\ d[k].tags[i].tag = "folder" /\ d[k].tags[i].o = f
       /\ ~ Passed(m, p, k, i)

Mark(m, p, k, i, f) == [m |-> m, p |-> p, e |-> k, at |-> i, o |-> f]

Claims(f) == {h \in Held : h.o = f /\ ~ Passed(h.m, h.p, h.e, h.at)}

\* The tag of f has been read again, but not its end.
Open(f) == Removing /\ job.at # <<>> /\ Len(f) >= 2 /\ Within(f, Here)

\* Some part has a folder of the name and at the depth of f.
Described(f) ==
    \E p \in Part : \E e \in ToSet(uidef(p)) : \E j \in DOMAIN e.tags :
        /\ e.bag = BagName(f[1])
        /\ e.tags[j].tag = "folder" /\ e.tags[j].n = Last(f)
        /\ Depth(e.tags, j) = Len(f) - 2

FolderType == \A f \in DOMAIN refs : f \in Path /\ Len(f) >= 2 /\ f[1] \in Bag /\ Described(f)

Counts == \A f \in DOMAIN refs :
             /\ IsFiniteSet(Claims(f))
             /\ refs[f] = Cardinality(Claims(f)) + (IF Open(f) THEN 1 ELSE 0)
             /\ Open(f) \/ Claims(f) # {}

Accounted == /\ \A m, p, k, i, f : Claim(m, p, k, i, f) => f \in DOMAIN refs
             /\ \A f \in Path : Open(f) => f \in DOMAIN refs

CountInv == FolderType /\ Counts /\ Accounted

ShapeInv == /\ DOMAIN layout = DOMAIN refs \cup {Container(b) : b \in Bag}
            /\ born \in Seq(Path) /\ Once(born) /\ ToSet(born) = DOMAIN refs

IInv == JobType /\ DescType /\ DescInv /\ AddInv /\ RemoveInv /\ CountInv /\ ShapeInv

\* Parts agree on the depth of folders that they name alike, and a container
\* stays while parts are in it.
Orderly == OneDepth /\ ~ RemovesUsed

-----------------------------------------------------------------------------
(* Counters and claims.                                                    *)

LEMMA ClaimsAre ==
    /\ \A f, h : h \in Claims(f) <=> \E m, p, k, i : h = Mark(m, p, k, i, f) /\ Claim(m, p, k, i, f)
    /\ \A f, h : h \in Claims(f)' <=> \E m, p, k, i : h = Mark(m, p, k, i, f) /\ Claim(m, p, k, i, f)'
<1>1. ASSUME NEW f, NEW h
      PROVE  h \in Claims(f) <=> \E m, p, k, i : h = Mark(m, p, k, i, f) /\ Claim(m, p, k, i, f)
  <2>1. ASSUME h \in Claims(f)
        PROVE  \E m, p, k, i : h = Mark(m, p, k, i, f) /\ Claim(m, p, k, i, f)
    <3>1. PICK m \in Level, p \in Part : h \in FolderTags(m, p)
      BY <2>1 DEF Claims, Held
    <3>2. h.o = f /\ ~ Passed(h.m, h.p, h.e, h.at)
      BY <2>1 DEF Claims
    <3>3. p \in DOMAIN m_uidescs[m]
      BY <3>1 DEF FolderTags
    <3>4. PICK k \in DOMAIN m_uidescs[m][p] : \E i \in DOMAIN m_uidescs[m][p][k].tags :
               /\ m_uidescs[m][p][k].tags[i].tag = "folder"
               /\ h = Mark(m, p, k, i, m_uidescs[m][p][k].tags[i].o)
      BY <3>1, <3>3 DEF FolderTags, Mark
    <3> PICK i \in DOMAIN m_uidescs[m][p][k].tags :
               /\ m_uidescs[m][p][k].tags[i].tag = "folder"
               /\ h = Mark(m, p, k, i, m_uidescs[m][p][k].tags[i].o)
      BY <3>4
    <3>5. /\ m_uidescs[m][p][k].tags[i].o = f /\ h = Mark(m, p, k, i, f)
          /\ ~ Passed(m, p, k, i)
      BY <3>2, <3>4 DEF Mark
    <3>6. Claim(m, p, k, i, f)
      BY <3>1, <3>3, <3>4, <3>5 DEF Claim
    <3> QED
      BY <3>5, <3>6
  <2>2. ASSUME NEW m, NEW p, NEW k, NEW i, h = Mark(m, p, k, i, f), Claim(m, p, k, i, f)
        PROVE  h \in Claims(f)
    <3>1. h \in FolderTags(m, p) /\ m \in Level /\ p \in Part
      <4> DEFINE d == m_uidescs[m][p]
      <4>1. /\ m \in Level /\ p \in Part /\ p \in DOMAIN m_uidescs[m]
            /\ k \in DOMAIN d /\ i \in DOMAIN d[k].tags
            /\ d[k].tags[i].tag = "folder" /\ h = Mark(m, p, k, i, d[k].tags[i].o)
        BY <2>2 DEF Claim
      <4>2. h \in {Mark(m, p, k, j, d[k].tags[j].o) :
                      j \in {j \in DOMAIN d[k].tags : d[k].tags[j].tag = "folder"}}
        BY <4>1
      <4>3. h \in UNION {{Mark(m, p, l, j, d[l].tags[j].o) :
                             j \in {j \in DOMAIN d[l].tags : d[l].tags[j].tag = "folder"}} :
                          l \in DOMAIN d}
        BY <4>1, <4>2
      <4> QED
        BY <4>1, <4>3 DEF FolderTags, Mark
    <3>2. h.o = f /\ h.m = m /\ h.p = p /\ h.e = k /\ h.at = i
      BY <2>2 DEF Mark
    <3>3. ~ Passed(h.m, h.p, h.e, h.at)
      BY <2>2, <3>2 DEF Claim
    <3> QED
      BY <3>1, <3>2, <3>3 DEF Claims, Held
  <2> QED
    BY <2>1, <2>2
<1>2. ASSUME NEW f, NEW h
      PROVE  h \in Claims(f)' <=> \E m, p, k, i : h = Mark(m, p, k, i, f) /\ Claim(m, p, k, i, f)'
  <2>1. ASSUME h \in Claims(f)'
        PROVE  \E m, p, k, i : h = Mark(m, p, k, i, f) /\ Claim(m, p, k, i, f)'
    <3>1. PICK m \in Level, p \in Part : h \in FolderTags(m, p)'
      BY <2>1 DEF Claims, Held
    <3>2. h.o = f /\ ~ Passed(h.m, h.p, h.e, h.at)'
      BY <2>1 DEF Claims
    <3>3. p \in DOMAIN m_uidescs'[m]
      BY <3>1 DEF FolderTags
    <3>4. PICK k \in DOMAIN m_uidescs'[m][p] : \E i \in DOMAIN m_uidescs'[m][p][k].tags :
               /\ m_uidescs'[m][p][k].tags[i].tag = "folder"
               /\ h = Mark(m, p, k, i, m_uidescs'[m][p][k].tags[i].o)
      BY <3>1, <3>3 DEF FolderTags, Mark
    <3> PICK i \in DOMAIN m_uidescs'[m][p][k].tags :
               /\ m_uidescs'[m][p][k].tags[i].tag = "folder"
               /\ h = Mark(m, p, k, i, m_uidescs'[m][p][k].tags[i].o)
      BY <3>4
    <3>5. /\ m_uidescs'[m][p][k].tags[i].o = f /\ h = Mark(m, p, k, i, f)
          /\ ~ Passed(m, p, k, i)'
      BY <3>2, <3>4 DEF Mark
    <3>6. Claim(m, p, k, i, f)'
      BY <3>1, <3>3, <3>4, <3>5 DEF Claim
    <3> QED
      BY <3>5, <3>6
  <2>2. ASSUME NEW m, NEW p, NEW k, NEW i, h = Mark(m, p, k, i, f), Claim(m, p, k, i, f)'
        PROVE  h \in Claims(f)'
    <3>1. h \in FolderTags(m, p)' /\ m \in Level /\ p \in Part
      <4> DEFINE d == m_uidescs'[m][p]
      <4>1. /\ m \in Level /\ p \in Part /\ p \in DOMAIN m_uidescs'[m]
            /\ k \in DOMAIN d /\ i \in DOMAIN d[k].tags
            /\ d[k].tags[i].tag = "folder" /\ h = Mark(m, p, k, i, d[k].tags[i].o)
        BY <2>2 DEF Claim
      <4>2. h \in {Mark(m, p, k, j, d[k].tags[j].o) :
                      j \in {j \in DOMAIN d[k].tags : d[k].tags[j].tag = "folder"}}
        BY <4>1
      <4>3. h \in UNION {{Mark(m, p, l, j, d[l].tags[j].o) :
                             j \in {j \in DOMAIN d[l].tags : d[l].tags[j].tag = "folder"}} :
                          l \in DOMAIN d}
        BY <4>1, <4>2
      <4> QED
        BY <4>1, <4>3 DEF FolderTags, Mark
    <3>2. h.o = f /\ h.m = m /\ h.p = p /\ h.e = k /\ h.at = i
      BY <2>2 DEF Mark
    <3>3. ~ Passed(h.m, h.p, h.e, h.at)'
      BY <2>2, <3>2 DEF Claim
    <3> QED
      BY <3>1, <3>2, <3>3 DEF Claims, Held
  <2> QED
    BY <2>1, <2>2
<1> QED
  BY <1>1, <1>2

LEMMA SameClaims ==
    ASSUME NEW f, \A m, p, k, i : Claim(m, p, k, i, f)' <=> Claim(m, p, k, i, f)
    PROVE  Claims(f)' = Claims(f)
BY ClaimsAre

\* One claim comes to the others.
LEMMA OneClaimMore ==
    ASSUME NEW f, NEW m, NEW p, NEW k, NEW i, ~ Claim(m, p, k, i, f), IsFiniteSet(Claims(f)),
           \A m1, p1, k1, i1 : Claim(m1, p1, k1, i1, f)' <=>
              Claim(m1, p1, k1, i1, f) \/ <<m1, p1, k1, i1>> = <<m, p, k, i>>
    PROVE  /\ IsFiniteSet(Claims(f)') /\ Claims(f)' # {}
           /\ Cardinality(Claims(f)') = Cardinality(Claims(f)) + 1
<1> DEFINE h == Mark(m, p, k, i, f)
<1>1. h \notin Claims(f)
  <2> SUFFICES ASSUME NEW m1, NEW p1, NEW k1, NEW i1, h = Mark(m1, p1, k1, i1, f),
                      Claim(m1, p1, k1, i1, f)
               PROVE  FALSE
    BY ClaimsAre
  <2>1. m1 = m /\ p1 = p /\ k1 = k /\ i1 = i
    BY DEF Mark
  <2> QED
    BY <2>1
<1>2. Claims(f)' = Claims(f) \cup {h}
  BY ClaimsAre
<1> QED
  BY <1>1, <1>2, FS_AddElement

\* One of the claims goes.
LEMMA OneClaimLess ==
    ASSUME NEW f, NEW m, NEW p, NEW k, NEW i, Claim(m, p, k, i, f), IsFiniteSet(Claims(f)),
           \A m1, p1, k1, i1 : Claim(m1, p1, k1, i1, f)' <=>
              Claim(m1, p1, k1, i1, f) /\ <<m1, p1, k1, i1>> # <<m, p, k, i>>
    PROVE  /\ IsFiniteSet(Claims(f)')
           /\ Cardinality(Claims(f)') = Cardinality(Claims(f)) - 1
<1> DEFINE h == Mark(m, p, k, i, f)
<1>1. h \in Claims(f)
  BY ClaimsAre
<1>2. Claims(f)' = Claims(f) \ {h}
  <2>1. ASSUME NEW m1, NEW p1, NEW k1, NEW i1
        PROVE  Mark(m1, p1, k1, i1, f) = h <=> <<m1, p1, k1, i1>> = <<m, p, k, i>>
    BY DEF Mark
  <2> HIDE DEF h
  <2>2. ASSUME NEW g
        PROVE  g \in Claims(f)' <=> g \in Claims(f) /\ g # h
    BY <2>1, ClaimsAre
  <2> QED
    BY <2>2
<1> QED
  BY <1>1, <1>2, FS_RemoveElement

\* Counters stay right while nothing about claims changes.
LEMMA CountsKept ==
    ASSUME CountInv, refs' = refs,
           \A m, p, k, i, f : Claim(m, p, k, i, f)' <=> Claim(m, p, k, i, f),
           \A f \in Path : Open(f)' <=> Open(f)
    PROVE  CountInv'
<1>1. \A f : Claims(f)' = Claims(f)
  BY SameClaims
<1>2. FolderType'
  BY DEF CountInv, FolderType
<1>3. Counts'
  <2> SUFFICES ASSUME NEW f \in DOMAIN refs
               PROVE  /\ IsFiniteSet(Claims(f)')
                      /\ refs[f] = Cardinality(Claims(f)') + (IF Open(f)' THEN 1 ELSE 0)
                      /\ Open(f)' \/ Claims(f)' # {}
    BY DEF Counts
  <2>1. f \in Path
    BY DEF CountInv, FolderType
  <2> QED
    BY <1>1, <2>1 DEF CountInv, Counts
<1>4. Accounted'
  <2>1. Accounted
    BY DEF CountInv
  <2>2. \A m, p, k, i, f : Claim(m, p, k, i, f)' => f \in DOMAIN refs'
    BY <2>1 DEF Accounted
  <2>3. \A f \in Path : Open(f)' => f \in DOMAIN refs'
    BY <2>1 DEF Accounted
  <2> QED
    BY <2>2, <2>3 DEF Accounted
<1> QED
  BY <1>2, <1>3, <1>4 DEF CountInv

\* A folder is counted when its pointer is written.
LEMMA CountsMore ==
    ASSUME CountInv, NEW g \in Path, Len(g) >= 2, g[1] \in Bag, Described(g),
           refs' = Counted(g),
           NEW m, NEW p, NEW k, NEW i, ~ Claim(m, p, k, i, g),
           \A m1, p1, k1, i1, f : Claim(m1, p1, k1, i1, f)' <=>
              Claim(m1, p1, k1, i1, f) \/ (f = g /\ <<m1, p1, k1, i1>> = <<m, p, k, i>>),
           \A f \in Path : ~ Open(f) /\ ~ Open(f)'
    PROVE  /\ CountInv'
           /\ DOMAIN refs' = DOMAIN refs \cup {g}
<1>1. /\ DOMAIN refs' = DOMAIN refs \cup {g}
      /\ \A f \in DOMAIN refs : f # g => refs'[f] = refs[f]
      /\ refs'[g] = IF g \in DOMAIN refs THEN refs[g] + 1 ELSE 1
  BY DEF Counted, With
<1>2. \A f : f # g => Claims(f)' = Claims(f)
  BY SameClaims
<1>3. FolderType'
  BY <1>1 DEF CountInv, FolderType
<1>4. Accounted'
  <2>1. \A m1, p1, k1, i1, f : Claim(m1, p1, k1, i1, f)' => f \in DOMAIN refs'
    BY <1>1 DEF CountInv, Accounted
  <2> QED
    BY <2>1 DEF Accounted
<1>5. IsFiniteSet(Claims(g)) /\ (g \in DOMAIN refs => refs[g] = Cardinality(Claims(g)))
  <2>1. CASE g \in DOMAIN refs
    BY <2>1, FS_CardinalityType DEF CountInv, Counts
  <2>2. CASE g \notin DOMAIN refs
    <3>1. Claims(g) = {}
      BY <2>2, ClaimsAre DEF CountInv, Accounted
    <3> QED
      BY <2>2, <3>1, FS_EmptySet
  <2> QED
    BY <2>1, <2>2
<1>6. g \notin DOMAIN refs => Cardinality(Claims(g)) = 0
  <2> SUFFICES ASSUME g \notin DOMAIN refs
               PROVE  Claims(g) = {}
    BY FS_EmptySet
  <2> QED
    BY ClaimsAre DEF CountInv, Accounted
<1>7. /\ IsFiniteSet(Claims(g)') /\ Claims(g)' # {}
      /\ Cardinality(Claims(g)') = Cardinality(Claims(g)) + 1
  BY <1>5, OneClaimMore
<1>8. Counts'
  <2> SUFFICES ASSUME NEW f \in DOMAIN refs'
               PROVE  /\ IsFiniteSet(Claims(f)')
                      /\ refs'[f] = Cardinality(Claims(f)') + (IF Open(f)' THEN 1 ELSE 0)
                      /\ Open(f)' \/ Claims(f)' # {}
    BY DEF Counts
  <2>1. f \in Path
    BY <1>3 DEF FolderType
  <2>2. ~ Open(f) /\ ~ Open(f)'
    BY <2>1
  <2>3. CASE f = g
    <3>1. Cardinality(Claims(g)') \in Nat /\ Cardinality(Claims(g)) \in Nat
      BY <1>5, <1>7, FS_CardinalityType
    <3>2. refs'[g] = Cardinality(Claims(g)')
      BY <1>1, <1>5, <1>6, <1>7, <3>1
    <3> QED
      BY <1>7, <2>2, <2>3, <3>1, <3>2
  <2>4. CASE f # g
    <3>1. f \in DOMAIN refs /\ refs'[f] = refs[f] /\ Claims(f)' = Claims(f)
      BY <1>1, <1>2, <2>4
    <3> QED
      BY <2>2, <3>1 DEF CountInv, Counts
  <2> QED
    BY <2>3, <2>4
<1> QED
  BY <1>1, <1>3, <1>4, <1>8 DEF CountInv

\* A pointer that is read again is open instead of in the description.
LEMMA CountsOpen ==
    ASSUME CountInv, refs' = refs, NEW g \in Path, ~ Open(g),
           NEW m, NEW p, NEW k, NEW i, Claim(m, p, k, i, g),
           \A m1, p1, k1, i1, f : Claim(m1, p1, k1, i1, f)' <=>
              Claim(m1, p1, k1, i1, f) /\ ~ (f = g /\ <<m1, p1, k1, i1>> = <<m, p, k, i>>),
           \A f \in Path : Open(f)' <=> Open(f) \/ f = g
    PROVE  CountInv'
<1>1. \A f : f # g => Claims(f)' = Claims(f)
  BY SameClaims
<1>2. FolderType'
  BY DEF CountInv, FolderType
<1>3. g \in DOMAIN refs
  BY DEF CountInv, Accounted
<1>4. Accounted'
  <2>1. \A m1, p1, k1, i1, f : Claim(m1, p1, k1, i1, f)' => f \in DOMAIN refs'
    BY DEF CountInv, Accounted
  <2>2. \A f \in Path : Open(f)' => f \in DOMAIN refs'
    BY <1>3 DEF CountInv, Accounted
  <2> QED
    BY <2>1, <2>2 DEF Accounted
<1>5. /\ IsFiniteSet(Claims(g)')
      /\ Cardinality(Claims(g)') = Cardinality(Claims(g)) - 1
  BY <1>3, OneClaimLess DEF CountInv, Counts
<1>6. Counts'
  <2> SUFFICES ASSUME NEW f \in DOMAIN refs
               PROVE  /\ IsFiniteSet(Claims(f)')
                      /\ refs[f] = Cardinality(Claims(f)') + (IF Open(f)' THEN 1 ELSE 0)
                      /\ Open(f)' \/ Claims(f)' # {}
    BY DEF Counts
  <2>1. f \in Path
    BY DEF CountInv, FolderType
  <2>2. CASE f = g
    <3>1. refs[g] = Cardinality(Claims(g)) /\ Cardinality(Claims(g)) \in Nat
      BY <1>3, FS_CardinalityType DEF CountInv, Counts
    <3>2. Open(g)'
      OBVIOUS
    <3> QED
      BY <1>5, <2>2, <3>1, <3>2
  <2>3. CASE f # g
    <3>1. Claims(f)' = Claims(f) /\ (Open(f)' <=> Open(f))
      BY <1>1, <2>1, <2>3
    <3> QED
      BY <3>1 DEF CountInv, Counts
  <2> QED
    BY <2>2, <2>3
<1> QED
  BY <1>2, <1>4, <1>6 DEF CountInv

\* When its end is read the pointer is not counted any more.
LEMMA CountsLess ==
    ASSUME CountInv, NEW g \in Path, Open(g),
           IF refs[g] <= 1 THEN refs' = [f \in DOMAIN refs \ {g} |-> refs[f]]
           ELSE refs' = [refs EXCEPT ![g] = @ - 1],
           \A m, p, k, i, f : Claim(m, p, k, i, f)' <=> Claim(m, p, k, i, f),
           \A f \in Path : Open(f)' <=> Open(f) /\ f # g
    PROVE  CountInv'
<1>1. \A f : Claims(f)' = Claims(f)
  BY SameClaims
<1>2. /\ g \in DOMAIN refs
      /\ IsFiniteSet(Claims(g)) /\ Cardinality(Claims(g)) \in Nat
      /\ refs[g] = Cardinality(Claims(g)) + 1
  BY FS_CardinalityType DEF CountInv, Counts, Accounted
<1>3. /\ DOMAIN refs' = IF refs[g] <= 1 THEN DOMAIN refs \ {g} ELSE DOMAIN refs
      /\ \A f \in DOMAIN refs' : refs'[f] = IF f = g THEN refs[g] - 1 ELSE refs[f]
  BY <1>2
<1>4. FolderType'
  BY <1>3 DEF CountInv, FolderType
<1>5. refs[g] <= 1 <=> Claims(g) = {}
  BY <1>2, FS_EmptySet
<1>6. Accounted'
  <2>1. ASSUME NEW m, NEW p, NEW k, NEW i, NEW f, Claim(m, p, k, i, f)
        PROVE  f \in DOMAIN refs'
    <3>1. f \in DOMAIN refs
      BY <2>1 DEF CountInv, Accounted
    <3>2. f = g => Claims(g) # {}
      BY <2>1, ClaimsAre
    <3> QED
      BY <1>3, <1>5, <3>1, <3>2
  <2>2. \A f \in Path : Open(f)' => f \in DOMAIN refs'
    BY <1>3 DEF CountInv, Accounted
  <2>3. \A m, p, k, i, f : Claim(m, p, k, i, f)' => f \in DOMAIN refs'
    BY <2>1
  <2> QED
    BY <2>2, <2>3 DEF Accounted
<1>7. Counts'
  <2> SUFFICES ASSUME NEW f \in DOMAIN refs'
               PROVE  /\ IsFiniteSet(Claims(f)')
                      /\ refs'[f] = Cardinality(Claims(f)') + (IF Open(f)' THEN 1 ELSE 0)
                      /\ Open(f)' \/ Claims(f)' # {}
    BY DEF Counts
  <2>1. f \in Path /\ f \in DOMAIN refs
    BY <1>3, <1>4 DEF FolderType
  <2>2. CASE f = g
    <3>1. ~ refs[g] <= 1 /\ refs'[g] = refs[g] - 1 /\ ~ Open(g)'
      BY <1>3, <2>2
    <3> QED
      BY <1>1, <1>2, <1>5, <2>2, <3>1
  <2>3. CASE f # g
    <3>1. Claims(f)' = Claims(f) /\ (Open(f)' <=> Open(f)) /\ refs'[f] = refs[f]
      BY <1>1, <1>3, <2>1, <2>3
    <3> QED
      BY <2>1, <3>1 DEF CountInv, Counts
  <2> QED
    BY <2>2, <2>3
<1> QED
  BY <1>4, <1>6, <1>7 DEF CountInv

-----------------------------------------------------------------------------
(* Between calls, and where calls begin and end.                           *)

LEMMA JobKinds ==
    ASSUME JobType
    PROVE  /\ Adding => job \in AddJob /\ ~ Removing /\ ~ Idle
           /\ Removing => job \in RemoveJob /\ ~ Adding /\ ~ Idle
           /\ Idle => ~ Adding /\ ~ Removing
           /\ job # None => Adding \/ Removing
<1>1. job \in AddJob => job.op = "add"
  BY DEF AddJob
<1>2. job \in RemoveJob => job.op \in {"remove", "clear"}
  BY DEF RemoveJob
<1>3. None.op = "none"
  BY DEF None
<1> QED
  BY <1>1, <1>2, <1>3 DEF JobType, Adding, Removing, Idle

\* A place in the descriptions.
Real(m, p, k) == /\ m \in Level /\ p \in Part /\ p \in DOMAIN m_uidescs[m]
                 /\ k \in DOMAIN m_uidescs[m][p]

\* Between calls nothing is written and nothing read.
LEMMA NoJob ==
    ASSUME job' = None
    PROVE  /\ JobType' /\ AddInv' /\ RemoveInv'
           /\ \A m, p, k : ~ Writes(m, p, k)'
           /\ \A m, p, k, i : ~ Passed(m, p, k, i)'
           /\ \A f : ~ Open(f)'
<1>1. ~ Adding' /\ ~ Removing'
  BY DEF None, Adding, Removing
<1>2. \A m, p, k, i : ~ Passed(m, p, k, i)'
  BY <1>1 DEF Passed
<1> QED
  BY <1>1, <1>2 DEF JobType, AddInv, RemoveInv, Writes, Open

\* A removal begins with the whole description, or that of no part.
LEMMA FreshRemoval ==
    ASSUME job' \in RemoveJob, job'.tags = <<>>, job'.at = <<>>, DescType',
           job'.part = None \/ /\ job'.part \in DOMAIN m_uidescs'[job'.m]
                               /\ job'.bags = m_uidescs'[job'.m][job'.part]
    PROVE  /\ JobType' /\ AddInv' /\ RemoveInv'
           /\ \A m, p, k : ~ Writes(m, p, k)'
           /\ \A m, p, k, i : Real(m, p, k)' => ~ Passed(m, p, k, i)'
           /\ \A f : ~ Open(f)'
<1>1. Removing' /\ ~ Adding' /\ job'.m \in Level
  BY DEF Removing, Adding, RemoveJob
<1>2. RemoveInv'
  <2>1. ASSUME job'.part # None
        PROVE  Suffix(job'.bags, m_uidescs'[job'.m][job'.part], 0)
    BY <1>1, <2>1, SuffixAll DEF DescType
  <2> QED
    BY <2>1 DEF RemoveInv, Current
<1>3. ASSUME NEW m, NEW p, NEW k, NEW i, Real(m, p, k)', Passed(m, p, k, i)'
      PROVE  FALSE
  <2>1. m = job'.m /\ p = job'.part /\ p # None
    BY <1>3, NoneAssumption DEF Real, Passed
  <2>2. /\ job'.bags = m_uidescs'[m][p]
        /\ m_uidescs'[m][p] \in Seq(WrittenBag)
        /\ k \in DOMAIN m_uidescs'[m][p]
    BY <1>1, <1>3, <2>1 DEF DescType, Real
  <2>3. k \in Nat /\ k >= 1 /\ Len(m_uidescs'[m][p]) \in Nat
    BY <2>2
  <2>4. Len(m_uidescs'[m][p]) - Len(job'.bags) = 0
    BY <2>2, <2>3
  <2>5. k < 0 \/ k = 0
    BY <1>3, <2>4 DEF Passed, Behind
  <2> QED
    BY <2>3, <2>5
<1>4. \A m, p, k, i : Real(m, p, k)' => ~ Passed(m, p, k, i)'
  BY <1>3
<1> QED
  BY <1>1, <1>2, <1>4 DEF JobType, AddInv, Writes, Open

\* What was not passed and is not passed is claimed as before.
LEMMA ClaimsStay ==
    ASSUME m_uidescs' = m_uidescs,
           \A m, p, k, i : Real(m, p, k) => ~ Passed(m, p, k, i),
           \A m, p, k, i : Real(m, p, k)' => ~ Passed(m, p, k, i)'
    PROVE  \A m, p, k, i, f : Claim(m, p, k, i, f)' <=> Claim(m, p, k, i, f)
<1>1. \A m, p, k : Real(m, p, k)' <=> Real(m, p, k)
  BY DEF Real
<1> QED
  BY <1>1 DEF Claim, Real

\* The same descriptions, of which none is being written.
LEMMA DescKept ==
    ASSUME DescInv, m_uidescs' = m_uidescs, m_containers' = m_containers,
           \A m, p, k : ~ Writes(m, p, k), \A m, p, k : ~ Writes(m, p, k)'
    PROVE  DescInv'
BY DEF DescInv

LEMMA NotWriting ==
    ASSUME Removing \/ Idle \/ job.at = <<>>
    PROVE  \A m, p, k : ~ Writes(m, p, k)
BY DEF Writes, Removing, Adding, Idle, None

\* install, remove and the end of clear leave the containers that are used.
LEMMA ContainersChange ==
    ASSUME IInv, UNCHANGED <<refs, born, layout, m_uidescs, job>>,
           m_containers' \subseteq Bag,
           \A m \in Level : \A p \in DOMAIN m_uidescs[m] :
              \A k \in 1 .. Len(m_uidescs[m][p]) : m_uidescs[m][p][k].bag \in m_containers'
    PROVE  IInv'
<1>1. JobType' /\ DescType' /\ ShapeInv'
  BY DEF IInv, JobType, DescType, ShapeInv
<1>2. AddInv'
  BY DEF IInv, AddInv, AddsBag, Adding, Current
<1>3. RemoveInv'
  BY DEF IInv, RemoveInv, RemovesBag, Removing, Current, Here
<1>4. CountInv'
  <2>1. \A m, p, k, i, f : Claim(m, p, k, i, f)' <=> Claim(m, p, k, i, f)
    BY DEF Claim, Passed, Removing
  <2>2. \A f \in Path : Open(f)' <=> Open(f)
    BY DEF Open, Removing, Here
  <2> QED
    BY <2>1, <2>2, CountsKept DEF IInv
<1>5. DescInv'
  BY DEF IInv, DescInv, Writes, Adding, Here
<1> QED
  BY <1>1, <1>2, <1>3, <1>4, <1>5 DEF IInv

\* In the code `Used' is what must not be replaced or removed.
LEMMA UsedIs ==
    ASSUME DescType, NEW m \in Level, NEW p \in DOMAIN m_uidescs[m],
           NEW k \in 1 .. Len(m_uidescs[m][p])
    PROVE  m_uidescs[m][p][k].bag \in Used
<1>1. m_uidescs[m][p] \in Seq(WrittenBag)
  BY DEF DescType
<1>2. m_uidescs[m][p][k] \in WrittenBag /\ m_uidescs[m][p][k] \in ToSet(m_uidescs[m][p])
  BY <1>1 DEF ToSet
<1>3. m_uidescs[m][p][k].bag \in Bag
  BY <1>2 DEF WrittenBag
<1> QED
  BY <1>2, <1>3 DEF Used

\* A container that replaces another is not one that parts are in.
LEMMA InstallStep ==
    ASSUME IInv, Orderly, NEW b \in Bag, install(b)
    PROVE  IInv'
<1> DEFINE others == Known(BagLevel(b), BagName(b)) \ {b}
<1>1. m_containers' = (m_containers \ others) \cup {b} /\ others \cap Used = {}
  BY DEF install, Orderly
<1> HIDE DEF others
<1>2. m_containers' \subseteq Bag
  BY <1>1 DEF IInv, DescInv
<1>3. ASSUME NEW m \in Level, NEW p \in DOMAIN m_uidescs[m], NEW k \in 1 .. Len(m_uidescs[m][p])
      PROVE  m_uidescs[m][p][k].bag \in m_containers'
  BY <1>1, <1>3, UsedIs DEF IInv, DescInv
<1> QED
  BY <1>2, <1>3, ContainersChange DEF install

\* A container goes while no part is in it.
LEMMA RemoveStep ==
    ASSUME IInv, Orderly, NEW b \in Bag, remove(b)
    PROVE  IInv'
<1>1. m_containers' = m_containers \ {b} /\ b \notin Used
  BY DEF remove, Orderly
<1>2. m_containers' \subseteq Bag
  BY <1>1 DEF IInv, DescInv
<1>3. ASSUME NEW m \in Level, NEW p \in DOMAIN m_uidescs[m], NEW k \in 1 .. Len(m_uidescs[m][p])
      PROVE  m_uidescs[m][p][k].bag \in m_containers'
  BY <1>1, <1>3, UsedIs DEF IInv, DescInv
<1> QED
  BY <1>2, <1>3, ContainersChange DEF remove

\* A job that removes nothing yet follows one that removes nothing any more.
LEMMA JobChanges ==
    ASSUME IInv, UNCHANGED <<m_containers, refs, born, layout, m_uidescs>>,
           JobType', AddInv', RemoveInv',
           \A m, p, k : ~ Writes(m, p, k), \A m, p, k : ~ Writes(m, p, k)',
           \A m, p, k, i : Real(m, p, k) => ~ Passed(m, p, k, i),
           \A m, p, k, i : Real(m, p, k)' => ~ Passed(m, p, k, i)',
           \A f : ~ Open(f), \A f : ~ Open(f)'
    PROVE  IInv'
<1>1. DescType' /\ ShapeInv'
  BY DEF IInv, DescType, ShapeInv
<1>2. DescInv'
  BY DescKept DEF IInv
<1>3. CountInv'
  <2>1. \A m, p, k, i, f : Claim(m, p, k, i, f)' <=> Claim(m, p, k, i, f)
    BY ClaimsStay
  <2>2. \A f \in Path : Open(f)' <=> Open(f)
    OBVIOUS
  <2> QED
    BY <2>1, <2>2, CountsKept DEF IInv
<1> QED
  BY <1>1, <1>2, <1>3 DEF IInv

LEMMA IdleRemovesNothing ==
    ASSUME Idle
    PROVE  /\ \A m, p, k : ~ Writes(m, p, k)
           /\ \A m, p, k, i : ~ Passed(m, p, k, i)
           /\ \A f : ~ Open(f)
<1>1. ~ Adding /\ ~ Removing
  BY DEF Idle, None, Adding, Removing
<1> QED
  BY <1>1 DEF Writes, Passed, Open

\* Between two parts clear reads nothing.
LEMMA NoPartRemovesNothing ==
    ASSUME IInv, Removing, job.part = None
    PROVE  /\ \A m, p, k : ~ Writes(m, p, k)
           /\ \A m, p, k, i : Real(m, p, k) => ~ Passed(m, p, k, i)
           /\ \A f : ~ Open(f)
<1>1. job.at = <<>> /\ ~ Adding
  BY JobKinds DEF IInv, RemoveInv
<1> QED
  BY <1>1, NoneAssumption DEF Writes, Passed, Open, Real

LEMMA ClearStep ==
    ASSUME IInv, NEW m \in Level, clear(m)
    PROVE  IInv'
<1>1. Idle /\ UNCHANGED <<m_containers, refs, born, layout, m_uidescs>>
  BY DEF clear
<1>2. job' \in RemoveJob /\ job'.tags = <<>> /\ job'.at = <<>> /\ job'.part = None
  <2>1. job' = [op |-> "clear", part |-> None, m |-> m,
                bags |-> <<>>, tags |-> <<>>, at |-> <<>>]
    BY DEF clear
  <2> QED
    BY <2>1 DEF RemoveJob
<1>3. DescType'
  BY <1>1 DEF IInv, DescType
<1> QED
  BY <1>1, <1>2, <1>3, FreshRemoval, IdleRemovesNothing, JobChanges

LEMMA ClearNextStep ==
    ASSUME IInv, ClearNext
    PROVE  IInv'
<1>1. Removing /\ job.part = None /\ UNCHANGED <<m_containers, refs, born, layout, m_uidescs>>
  BY DEF ClearNext, Removing
<1>2. PICK p \in DOMAIN m_uidescs[job.m] : job' = [job EXCEPT !.part = p, !.bags = m_uidescs[job.m][p]]
  BY DEF ClearNext
<1>3. job \in RemoveJob /\ job.at = <<>> /\ job.tags = <<>>
  BY <1>1, JobKinds DEF IInv, RemoveInv
<1>4. job.m \in Level /\ p \in Part /\ m_uidescs[job.m][p] \in Seq(WrittenBag)
  BY <1>3 DEF RemoveJob, IInv, DescType
<1>5. /\ job' \in RemoveJob /\ job'.tags = <<>> /\ job'.at = <<>>
      /\ job'.part = p /\ job'.m = job.m /\ job'.bags = m_uidescs[job.m][p]
  BY <1>2, <1>3, <1>4 DEF RemoveJob
<1>6. DescType'
  BY <1>1 DEF IInv, DescType
<1> QED
  BY <1>1, <1>5, <1>6, FreshRemoval, NoPartRemovesNothing, JobChanges

LEMMA ClearEndsStep ==
    ASSUME IInv, ClearEnds
    PROVE  IInv'
<1>1. /\ Removing /\ job.part = None /\ UNCHANGED <<refs, born, layout, m_uidescs>>
      /\ DOMAIN m_uidescs[job.m] = {}
      /\ m_containers' = {b \in m_containers : BagLevel(b) # job.m}
      /\ job' = None
  BY DEF ClearEnds, Removing
<1>2. DescType' /\ ShapeInv'
  BY <1>1 DEF IInv, DescType, ShapeInv
<1>3. DescInv'
  <2> SUFFICES ASSUME NEW m \in Level, NEW p \in DOMAIN m_uidescs[m],
                      NEW k \in 1 .. Len(m_uidescs[m][p])
               PROVE  LET e == m_uidescs[m][p][k]
                      IN /\ e.bag \in m_containers' /\ BagLevel(e.bag) = m
                         /\ Reaches(e.bag, e.tags, Container(e.bag))
    BY <1>1, NoJob DEF DescInv, IInv
  <2>1. ~ Writes(m, p, k)
    BY <1>1, NoPartRemovesNothing
  <2>2. m # job.m
    BY <1>1
  <2> QED
    BY <1>1, <2>1, <2>2 DEF IInv, DescInv
<1>4. CountInv'
  <2>1. \A m, p, k, i, f : Claim(m, p, k, i, f)' <=> Claim(m, p, k, i, f)
    BY <1>1, NoPartRemovesNothing, NoJob, ClaimsStay
  <2>2. \A f \in Path : Open(f)' <=> Open(f)
    BY <1>1, NoPartRemovesNothing, NoJob
  <2> QED
    BY <1>1, <2>1, <2>2, CountsKept DEF IInv
<1> QED
  BY <1>1, <1>2, <1>3, <1>4, NoJob DEF IInv

LEMMA RemoveUIStep ==
    ASSUME IInv, NEW p \in Part, removeUI(p)
    PROVE  IInv'
<1>1. Idle /\ UNCHANGED <<m_containers, refs, born, layout, m_uidescs>>
  BY DEF removeUI
<1>2. PICK m \in Added(p) : Removes(p, m)
  BY DEF removeUI
<1>3. m \in Level /\ p \in DOMAIN m_uidescs[m] /\ m_uidescs[m][p] \in Seq(WrittenBag)
  BY <1>2 DEF Added, IInv, DescType
<1>4. /\ job' \in RemoveJob /\ job'.tags = <<>> /\ job'.at = <<>>
      /\ job'.part = p /\ job'.m = m /\ job'.bags = m_uidescs[m][p]
  <2>1. job' = [op |-> "remove", part |-> p, m |-> m, bags |-> m_uidescs[m][p],
                tags |-> <<>>, at |-> <<>>]
    BY <1>2 DEF Removes
  <2> QED
    BY <1>3, <2>1 DEF RemoveJob
<1>5. DescType'
  BY <1>1 DEF IInv, DescType
<1> QED
  BY <1>1, <1>3, <1>4, <1>5, FreshRemoval, IdleRemovesNothing, JobChanges

\* A part is forgotten when its description is read to the end.
LEMMA RemoveEndsStep ==
    ASSUME IInv, RemoveEnds
    PROVE  IInv'
<1> DEFINE m == job.m
           p == job.part
<1>1. /\ Removing /\ p # None /\ job.at = <<>> /\ job.bags = <<>>
      /\ UNCHANGED <<m_containers, refs, born, layout>>
      /\ m_uidescs' = [m_uidescs EXCEPT ![m] = [q \in DOMAIN @ \ {p} |-> @[q]]]
  BY DEF RemoveEnds, AtEnd
<1>2. job \in RemoveJob /\ m \in Level /\ job.tags = <<>> /\ p \in DOMAIN m_uidescs[m]
  BY <1>1, JobKinds DEF IInv, RemoveInv, RemoveJob
<1>3. /\ DOMAIN m_uidescs' = Level /\ DOMAIN m_uidescs'[m] = DOMAIN m_uidescs[m] \ {p}
      /\ \A n \in Level : n # m => m_uidescs'[n] = m_uidescs[n]
      /\ \A q \in DOMAIN m_uidescs[m] \ {p} : m_uidescs'[m][q] = m_uidescs[m][q]
  BY <1>1, <1>2 DEF IInv, DescType
<1>4. /\ \A n \in Level : DOMAIN m_uidescs'[n] \subseteq DOMAIN m_uidescs[n]
      /\ \A n \in Level : \A q \in DOMAIN m_uidescs'[n] : m_uidescs'[n][q] = m_uidescs[n][q]
  BY <1>3
<1>5. DescType' /\ ShapeInv'
  BY <1>1, <1>3, <1>4 DEF IInv, DescType, ShapeInv
<1>6. /\ JobType' /\ AddInv' /\ RemoveInv'
      /\ \A n, q, k : ~ Writes(n, q, k)'
      /\ \A n, q, k, i : Real(n, q, k)' => ~ Passed(n, q, k, i)'
      /\ \A f : ~ Open(f)'
  <2>1. CASE job.op = "clear"
    <3>1. job' = [job EXCEPT !.part = None]
      BY <2>1 DEF RemoveEnds
    <3>2. job' \in RemoveJob /\ job'.tags = <<>> /\ job'.at = <<>> /\ job'.part = None
      BY <1>1, <1>2, <3>1 DEF RemoveJob
    <3> QED
      BY <1>5, <3>2, FreshRemoval
  <2>2. CASE job.op # "clear" /\ job' = None
    <3>1. \A n, q, k, i : Real(n, q, k)' => ~ Passed(n, q, k, i)'
      BY <2>2, NoJob
    <3> QED
      BY <2>2, <3>1, NoJob
  <2>3. CASE job.op # "clear" /\ job' # None
    <3>1. PICK n \in Added(p) : n < m /\ Removes(p, n)
      BY <2>3 DEF RemoveEnds
    <3>2. /\ n \in Level /\ n # m /\ p \in DOMAIN m_uidescs[n] /\ p \in Part
          /\ m_uidescs[n][p] \in Seq(WrittenBag) /\ m_uidescs'[n] = m_uidescs[n]
      BY <1>3, <3>1 DEF Added, IInv, DescType, Level
    <3>3. /\ job' \in RemoveJob /\ job'.tags = <<>> /\ job'.at = <<>>
          /\ job'.part = p /\ job'.m = n /\ job'.bags = m_uidescs'[n][p]
      <4>1. job' = [op |-> "remove", part |-> p, m |-> n, bags |-> m_uidescs[n][p],
                    tags |-> <<>>, at |-> <<>>]
        BY <3>1 DEF Removes
      <4> QED
        BY <3>2, <4>1 DEF RemoveJob
    <3> HIDE DEF p, m
    <3> QED
      BY <1>5, <3>2, <3>3, FreshRemoval
  <2> QED
    BY <2>1, <2>2, <2>3
<1>7. \A n, q, k : ~ Writes(n, q, k)
  BY <1>1, NotWriting
<1>8. DescInv'
  <2>1. m_containers \subseteq Bag /\ m_containers' = m_containers
    BY <1>1 DEF IInv, DescInv
  <2> SUFFICES ASSUME NEW n \in Level, NEW q \in DOMAIN m_uidescs'[n],
                      NEW k \in 1 .. Len(m_uidescs'[n][q])
               PROVE  LET e == m_uidescs'[n][q][k]
                      IN /\ e.bag \in m_containers /\ BagLevel(e.bag) = n
                         /\ Reaches(e.bag, e.tags, Container(e.bag))
    BY <1>6, <2>1 DEF DescInv
  <2> QED
    BY <1>4, <1>7 DEF IInv, DescInv
<1>9. CountInv'
  <2>1. ASSUME NEW n, NEW q, NEW k, NEW i, NEW f
        PROVE  Claim(n, q, k, i, f)' <=> Claim(n, q, k, i, f)
    <3>1. CASE n = m /\ q = p
      <4>1. ~ Claim(n, q, k, i, f)'
        BY <1>3, <3>1 DEF Claim
      <4>2. ASSUME Claim(n, q, k, i, f)
            PROVE  FALSE
        <5>1. /\ m_uidescs[m][p] \in Seq(WrittenBag)
              /\ k \in DOMAIN m_uidescs[m][p]
              /\ i \in DOMAIN m_uidescs[m][p][k].tags
              /\ ~ Passed(m, p, k, i)
          BY <1>2, <3>1, <4>2 DEF Claim, IInv, DescType
        <5>2. m_uidescs[m][p][k] \in WrittenBag /\ k \in Nat /\ k <= Len(m_uidescs[m][p])
              /\ Len(m_uidescs[m][p]) \in Nat
          BY <5>1
        <5>3. m_uidescs[m][p][k].tags \in Seq(Written)
          BY <5>2 DEF WrittenBag
        <5>4. i \in Nat /\ i <= Len(m_uidescs[m][p][k].tags) /\ Len(m_uidescs[m][p][k].tags) \in Nat
          BY <5>1, <5>3, SMTT(30)
        <5>5. Len(job.bags) = 0 /\ Len(job.tags) = 0
          BY <1>1, <1>2
        <5>6. Passed(m, p, k, i)
          <6> DEFINE d == m_uidescs[m][p]
                     now == Len(d) - Len(job.bags)
          <6>1. now = Len(d)
            BY <5>2, <5>5
          <6>2. k < now \/ (k = now /\ i <= Len(d[k].tags) - Len(job.tags))
            BY <5>2, <5>4, <5>5, <6>1
          <6> QED
            BY <1>1, <6>2 DEF Passed, Behind
        <5> QED
          BY <5>1, <5>6
      <4> QED
        BY <4>1, <4>2
    <3>2. CASE ~ (n = m /\ q = p)
      <4>1. Real(n, q, k)' <=> Real(n, q, k)
        BY <1>3, <3>2 DEF Real
      <4>2. Real(n, q, k) => m_uidescs'[n][q] = m_uidescs[n][q]
        BY <1>3, <3>2 DEF Real
      <4>3. ~ Passed(n, q, k, i)
        BY <3>2 DEF Passed
      <4>4. Real(n, q, k)' => ~ Passed(n, q, k, i)'
        BY <1>6
      <4> QED
        BY <4>1, <4>2, <4>3, <4>4 DEF Claim, Real
    <3> QED
      BY <3>1, <3>2
  <2>2. \A f \in Path : Open(f)' <=> Open(f)
    BY <1>1, <1>6 DEF Open
  <2> QED
    BY <1>1, <2>1, <2>2, CountsKept DEF IInv
<1> QED
  BY <1>5, <1>6, <1>8, <1>9 DEF IInv

\* A manager begins with a part: its description is empty.
LEMMA BeginsStep ==
    ASSUME IInv, UNCHANGED <<m_containers, refs, born, layout>>,
           NEW p \in Part, NEW m \in Level, NEW bags, Begins(p, m, bags),
           bags \in Seq(DescribedBag), ToSet(bags) \subseteq ToSet(uidef(p)),
           \A n \in Level : n >= m => p \notin DOMAIN m_uidescs[n],
           Idle \/ (Adding /\ job.at = <<>>)
    PROVE  IInv'
<1>1. /\ job' = [op |-> "add", part |-> p, m |-> m, left |-> bags,
                 bags |-> bags, tags |-> <<>>, at |-> <<>>]
      /\ m_uidescs' = [m_uidescs EXCEPT ![m] = With(@, p, <<>>)]
  BY DEF Begins
<1>2. /\ job' \in AddJob /\ job'.op = "add" /\ job'.part = p /\ job'.m = m
      /\ job'.left = bags /\ job'.bags = bags /\ job'.at = <<>>
  BY <1>1 DEF AddJob
<1>3. /\ DOMAIN m_uidescs' = Level /\ DOMAIN m_uidescs'[m] = DOMAIN m_uidescs[m] \cup {p}
      /\ \A n \in Level : n # m => m_uidescs'[n] = m_uidescs[n]
      /\ \A q \in DOMAIN m_uidescs[m] : m_uidescs'[m][q] = m_uidescs[m][q]
      /\ m_uidescs'[m][p] = <<>>
  <2>1. m >= m
    BY DEF Level
  <2>2. p \notin DOMAIN m_uidescs[m]
    BY <2>1
  <2> QED
    BY <1>1, <2>2 DEF IInv, DescType, With
<1>4. ASSUME NEW n \in Level, NEW q \in DOMAIN m_uidescs'[n]
      PROVE  \/ q \in DOMAIN m_uidescs[n] /\ m_uidescs'[n][q] = m_uidescs[n][q]
             \/ m_uidescs'[n][q] = <<>>
  BY <1>3
<1>5. DescType'
  <2>1. ASSUME NEW n \in Level
        PROVE  DOMAIN m_uidescs'[n] \subseteq Part
    <3>1. DOMAIN m_uidescs[n] \subseteq Part
      BY DEF IInv, DescType
    <3> QED
      BY <1>3, <3>1
  <2>2. ASSUME NEW n \in Level, NEW q \in DOMAIN m_uidescs'[n]
        PROVE  m_uidescs'[n][q] \in Seq(WrittenBag)
    <3>1. q \in DOMAIN m_uidescs[n] => m_uidescs[n][q] \in Seq(WrittenBag)
      BY DEF IInv, DescType
    <3>2. CASE q \in DOMAIN m_uidescs[n] /\ m_uidescs'[n][q] = m_uidescs[n][q]
      BY <3>1, <3>2
    <3>3. CASE m_uidescs'[n][q] = <<>>
      BY <3>3
    <3> QED
      BY <1>4, <3>2, <3>3
  <2> QED
    BY <1>3, <2>1, <2>2 DEF DescType
<1>6. ShapeInv' /\ JobType'
  BY <1>2 DEF IInv, ShapeInv, JobType
<1>7. Adding' /\ ~ Removing'
  BY <1>2 DEF Adding, Removing
<1>8. AddInv' /\ RemoveInv'
  <2>1. \A n \in Level : n > m => p \notin DOMAIN m_uidescs'[n]
    <3> TAKE n \in Level
    <3> QED
      BY <1>3 DEF Level
  <2> QED
    BY <1>2, <1>3, <1>7, <2>1 DEF AddInv, RemoveInv
<1>9. /\ \A n, q, k : ~ Writes(n, q, k) /\ ~ Writes(n, q, k)'
      /\ ~ Removing
  BY <1>2, JobKinds DEF Writes, IInv, Idle
<1>10. DescInv'
  <2> SUFFICES ASSUME NEW n \in Level, NEW q \in DOMAIN m_uidescs'[n],
                      NEW k \in 1 .. Len(m_uidescs'[n][q])
               PROVE  LET e == m_uidescs'[n][q][k]
                      IN /\ e.bag \in m_containers /\ BagLevel(e.bag) = n
                         /\ Reaches(e.bag, e.tags, Container(e.bag))
    BY <1>9 DEF DescInv, IInv
  <2>1. m_uidescs'[n][q] # <<>>
    <3> SUFFICES ASSUME m_uidescs'[n][q] = <<>>
                 PROVE  FALSE
      OBVIOUS
    <3>1. Len(m_uidescs'[n][q]) = 0
      OBVIOUS
    <3> QED
      BY <3>1
  <2>2. q \in DOMAIN m_uidescs[n] /\ m_uidescs'[n][q] = m_uidescs[n][q]
    BY <1>4, <2>1
  <2> QED
    BY <1>9, <2>2 DEF IInv, DescInv
<1>11. CountInv'
  <2>1. ASSUME NEW n, NEW q, NEW k, NEW i, NEW f
        PROVE  Claim(n, q, k, i, f)' <=> Claim(n, q, k, i, f)
    <3>1. ~ Passed(n, q, k, i) /\ ~ Passed(n, q, k, i)'
      BY <1>7, <1>9 DEF Passed
    <3>2. Real(n, q, k)' <=> Real(n, q, k)
      <4>1. CASE n = m /\ q = p
        <5>1. DOMAIN m_uidescs'[m][p] = {}
          BY <1>3
        <5>2. p \notin DOMAIN m_uidescs[m]
          <6>1. m >= m
            BY DEF Level
          <6> QED
            BY <6>1
        <5> QED
          BY <4>1, <5>1, <5>2 DEF Real
      <4>2. CASE ~ (n = m /\ q = p)
        BY <1>3, <4>2 DEF Real
      <4> QED
        BY <4>1, <4>2
    <3>3. Real(n, q, k) => m_uidescs'[n][q] = m_uidescs[n][q]
      BY <1>3 DEF Real
    <3> QED
      BY <3>1, <3>2, <3>3 DEF Claim, Real
  <2>2. \A f \in Path : Open(f)' <=> Open(f)
    BY <1>7, <1>9 DEF Open
  <2> QED
    BY <2>1, <2>2, CountsKept DEF IInv
<1> QED
  BY <1>5, <1>6, <1>8, <1>10, <1>11 DEF IInv

\* A part is added where it is not yet.
LEMMA AddUIStep ==
    ASSUME IInv, NEW p \in Part, addUI(p)
    PROVE  IInv'
<1>1. /\ Idle /\ Begins(p, Entry(p), uidef(p)) /\ Added(p) = {}
      /\ UNCHANGED <<m_containers, refs, born, layout>>
  BY DEF addUI
<1>2. Entry(p) \in Level
  BY LevelsAssumption DEF Level
<1>3. uidef(p) \in Seq(DescribedBag)
  BY DescriptionAssumption DEF DescribedBag
<1>4. \A n \in Level : p \notin DOMAIN m_uidescs[n]
  BY <1>1 DEF Added
<1> QED
  BY <1>1, <1>2, <1>3, <1>4, BeginsStep

\* The next manager begins, which cannot have the part either.
LEMMA AddEndsStep ==
    ASSUME IInv, AddEnds
    PROVE  IInv'
<1>1. /\ Adding /\ job.at = <<>>
      /\ UNCHANGED <<m_containers, refs, born, layout>>
  BY DEF AddEnds, AtEnd, Adding
<1>2. /\ job \in AddJob /\ ~ Removing
      /\ job.m \in Level /\ job.part \in Part /\ job.left \in Seq(DescribedBag)
  BY <1>1, JobKinds DEF IInv, AddJob
<1>3. CASE job.m = Levels
  <2>1. job' = None /\ UNCHANGED m_uidescs
    BY <1>3 DEF AddEnds
  <2>2. \A m, p, k : ~ Writes(m, p, k)
    BY <1>1, NotWriting
  <2>3. /\ \A m, p, k, i : Real(m, p, k) => ~ Passed(m, p, k, i)
        /\ \A f : ~ Open(f)
    BY <1>2 DEF Passed, Open
  <2>4. /\ JobType' /\ AddInv' /\ RemoveInv'
        /\ \A m, p, k : ~ Writes(m, p, k)'
        /\ \A m, p, k, i : Real(m, p, k)' => ~ Passed(m, p, k, i)'
        /\ \A f : ~ Open(f)'
    BY <2>1, NoJob
  <2> QED
    BY <1>1, <2>1, <2>2, <2>3, <2>4, JobChanges
<1>4. CASE job.m # Levels
  <2> DEFINE left == purgeUI(job.m, job.left)
  <2>1. Begins(job.part, job.m + 1, left)
    BY <1>4 DEF AddEnds
  <2>2. job.m + 1 \in Level /\ \A n \in Level : n >= job.m + 1 => n > job.m
    BY <1>2, <1>4, LevelsAssumption DEF Level
  <2>3. left \in Seq(DescribedBag) /\ ToSet(left) \subseteq ToSet(job.left)
    BY <1>2, OnlyProperties DEF purgeUI
  <2>4. ToSet(left) \subseteq ToSet(uidef(job.part))
    BY <1>1, <2>3 DEF IInv, AddInv
  <2>5. \A n \in Level : n >= job.m + 1 => job.part \notin DOMAIN m_uidescs[n]
    BY <1>1, <2>2 DEF IInv, AddInv
  <2> HIDE DEF left
  <2> QED
    BY <1>1, <1>2, <2>1, <2>2, <2>3, <2>4, <2>5, BeginsStep
<1> QED
  BY <1>3, <1>4

-----------------------------------------------------------------------------
(* The bags that a part is added to.                                       *)

LEMMA ChainStart ==
    ASSUME NEW b \in Bag
    PROVE  /\ Chain(<<Container(b)>>, b)
           /\ <<Container(b)>> \in Seq(Path) /\ Len(<<Container(b)>>) = 1
           /\ Last(<<Container(b)>>) = Container(b)
<1> DEFINE c == Container(b)
           at == <<c>>
<1>1. c \in Path /\ Len(c) = 1 /\ c[1] = b
  BY ContainerPath
<1> HIDE DEF c
<1>2. at \in Seq(Path) /\ Len(at) = 1 /\ at[1] = c
  BY <1>1
<1> HIDE DEF at
<1>3. Chain(at, b)
  BY <1>1, <1>2 DEF Chain, c
<1>4. Last(at) = c
  BY <1>2 DEF Last
<1> QED
  BY <1>2, <1>3, <1>4 DEF at, c

LEMMA ChainHere ==
    ASSUME NEW at, NEW b, Chain(at, b)
    PROVE  /\ Last(at) \in Path /\ Len(Last(at)) = Len(at) /\ Last(at)[1] = b
           /\ Len(at) \in Nat \ {0} /\ at # <<>>
           /\ Len(at) = 1 => Last(at) = Container(b)
<1>1. Len(at) \in Nat \ {0}
  BY DEF Chain
<1>2. at # <<>>
  <2> SUFFICES ASSUME at = <<>>
               PROVE  Len(at) = 0
    BY <1>1
  <2> QED
    OBVIOUS
<1> QED
  BY <1>1, <1>2 DEF Chain, Last

LEMMA ChainOn ==
    ASSUME NEW b, NEW at \in Seq(Path), Chain(at, b), NEW f, Child(Last(at), f)
    PROVE  /\ Append(at, f) \in Seq(Path) /\ Chain(Append(at, f), b)
           /\ Len(Append(at, f)) = Len(at) + 1 /\ Last(Append(at, f)) = f
<1> DEFINE n == Len(at)
           more == Append(at, f)
<1>1. /\ n \in Nat /\ n >= 1
      /\ Last(at) = at[n] /\ at[n] \in Path /\ Len(at[n]) = n /\ at[n][1] = b
  BY ChainHere DEF Chain, Last
<1>2. f \in Path /\ Len(f) = n + 1 /\ f[1] = b /\ Child(at[n], f)
  BY <1>1 DEF Child, Within
<1>3. /\ more \in Seq(Path) /\ Len(more) = n + 1 /\ more[n + 1] = f
      /\ \A i \in 1 .. n : more[i] = at[i]
  BY <1>2, AppendProperties
<1> HIDE DEF more
<1>4. \A i \in 1 .. n + 1 : more[i] \in Path /\ Len(more[i]) = i /\ more[i][1] = b
  <2> TAKE i \in 1 .. n + 1
  <2>1. CASE i = n + 1
    BY <1>2, <1>3, <2>1
  <2>2. CASE i \in 1 .. n
    BY <1>3, <2>2 DEF Chain
  <2> QED
    BY <1>1, <2>1, <2>2
<1>5. \A i \in 1 .. n + 1 - 1 : Child(more[i], more[i + 1])
  <2> TAKE i \in 1 .. n + 1 - 1
  <2>1. CASE i = n
    <3>1. more[i] = at[n] /\ more[i + 1] = f
      BY <1>1, <1>3, <2>1
    <3> QED
      BY <1>2, <3>1
  <2>2. CASE i \in 1 .. n - 1
    <3>1. more[i] = at[i] /\ more[i + 1] = at[i + 1]
      BY <1>1, <1>3, <2>2
    <3> QED
      BY <2>2, <3>1 DEF Chain
  <2> QED
    BY <1>1, <2>1, <2>2
<1>6. more[1] = Container(b)
  BY <1>1, <1>3 DEF Chain
<1>7. Chain(more, b) /\ Last(more) = f
  BY <1>1, <1>3, <1>4, <1>5, <1>6 DEF Chain, Last
<1> QED
  BY <1>3, <1>7 DEF more

LEMMA ChainOff ==
    ASSUME NEW b, NEW at \in Seq(Path), Chain(at, b), Len(at) >= 2
    PROVE  /\ Front(at) \in Seq(Path) /\ Chain(Front(at), b)
           /\ Len(Front(at)) = Len(at) - 1 /\ Child(Last(Front(at)), Last(at))
<1> DEFINE n == Len(at) - 1
           less == Front(at)
<1>1. n \in Nat /\ n >= 1 /\ n + 1 = Len(at)
  OBVIOUS
<1>2. /\ less \in Seq(Path) /\ Len(less) = n
      /\ \A i \in 1 .. n : less[i] = at[i]
  BY <1>1 DEF Front
<1> HIDE DEF less, n
<1>3. \A i \in 1 .. n : less[i] \in Path /\ Len(less[i]) = i /\ less[i][1] = b
  BY <1>1, <1>2 DEF Chain
<1>4. \A i \in 1 .. n - 1 : Child(less[i], less[i + 1])
  <2> TAKE i \in 1 .. n - 1
  <2>1. less[i] = at[i] /\ less[i + 1] = at[i + 1] /\ i \in 1 .. Len(at) - 1
    BY <1>1, <1>2
  <2> QED
    BY <2>1 DEF Chain
<1>5. less[1] = Container(b)
  BY <1>1, <1>2 DEF Chain
<1>6. Chain(less, b)
  BY <1>1, <1>2, <1>3, <1>4, <1>5 DEF Chain
<1>7. Last(less) = at[n] /\ Last(at) = at[n + 1] /\ n \in 1 .. Len(at) - 1
  BY <1>1, <1>2 DEF Last
<1>8. Child(Last(less), Last(at))
  BY <1>7 DEF Chain
<1> QED
  BY <1>2, <1>6, <1>8 DEF less, n

\* What an addition is about.
LEMMA AddingIs ==
    ASSUME IInv, Adding
    PROVE  /\ job \in AddJob /\ ~ Removing
           /\ job.m \in Level /\ job.part \in Part /\ job.part \in DOMAIN m_uidescs[job.m]
           /\ job.bags \in Seq(DescribedBag) /\ job.tags \in Seq(Element) /\ job.at \in Seq(Path)
           /\ Current \in Seq(WrittenBag) /\ Len(Current) \in Nat
           /\ \A f : ~ Open(f)
           /\ \A m, p, k, i : ~ Passed(m, p, k, i)
<1>1. job \in AddJob /\ ~ Removing
  BY JobKinds DEF IInv
<1>2. job.part \in DOMAIN m_uidescs[job.m]
  BY DEF IInv, AddInv
<1>3. /\ job.m \in Level /\ job.part \in Part
      /\ job.bags \in Seq(DescribedBag) /\ job.tags \in Seq(Element) /\ job.at \in Seq(Path)
  BY <1>1 DEF AddJob
<1>4. Current \in Seq(WrittenBag)
  BY <1>2, <1>3 DEF IInv, DescType, Current
<1>5. Len(Current) \in Nat
  BY <1>4
<1>6. /\ \A f : ~ Open(f)
      /\ \A m, p, k, i : ~ Passed(m, p, k, i)
  BY <1>1 DEF Open, Passed
<1> QED
  BY <1>1, <1>2, <1>3, <1>4, <1>5, <1>6

\* The bag that is being filled.
LEMMA AddingTo ==
    ASSUME IInv, Adding, job.at # <<>>,
           NEW b, b = Current[Len(Current)].bag
    PROVE  /\ b \in Bag /\ Len(Current) >= 1 /\ Len(Current) \in DOMAIN Current
           /\ Chain(job.at, b)
           /\ Current[Len(Current)].tags \in Seq(Written)
           /\ Reaches(b, Current[Len(Current)].tags, Here)
           /\ \E e \in ToSet(uidef(job.part)) : \E r :
                 /\ e.bag = BagName(b) /\ e.tags \in Seq(Element) /\ Balanced(e.tags)
                 /\ Suffix(job.tags, e.tags, r)
                 /\ Depth(e.tags, r + 1) = Len(job.at) - 1
<1>1. AddsBag
  BY DEF IInv, AddInv
<1>2. PICK e \in ToSet(uidef(job.part)) : \E r :
         /\ e.bag = BagName(b)
         /\ Suffix(job.tags, e.tags, r)
         /\ Depth(e.tags, r + 1) = Len(job.at) - 1
  BY <1>1 DEF AddsBag
<1>3. Len(Current) >= 1 /\ Chain(job.at, b)
  BY <1>1 DEF AddsBag
<1>4. /\ job.m \in Level /\ job.part \in Part /\ job.part \in DOMAIN m_uidescs[job.m]
      /\ Current \in Seq(WrittenBag) /\ Len(Current) \in Nat
  BY AddingIs
<1>5. e.tags \in Seq(Element) /\ Balanced(e.tags)
  <2>1. uidef(job.part) \in Seq(DescribedBag) /\ \A h \in ToSet(uidef(job.part)) : Balanced(h.tags)
    BY <1>4, DescriptionAssumption DEF DescribedBag
  <2>2. e \in DescribedBag
    BY <2>1 DEF ToSet
  <2> QED
    BY <2>1, <2>2 DEF DescribedBag
<1>6. Len(Current) \in DOMAIN Current /\ Current[Len(Current)] \in WrittenBag
  BY <1>3, <1>4
<1>7. b \in Bag /\ Current[Len(Current)].tags \in Seq(Written)
  BY <1>6 DEF WrittenBag
<1>8. Reaches(b, Current[Len(Current)].tags, Here)
  <2>1. Len(Current) \in 1 .. Len(Current)
    BY <1>3, <1>4
  <2>2. Writes(job.m, job.part, Len(Current))
    BY DEF Writes, Current
  <2> QED
    BY <1>4, <2>1, <2>2 DEF IInv, DescInv, Current
<1> QED
  BY <1>2, <1>3, <1>5, <1>6, <1>7, <1>8

\* A bag is begun at the container found for it.
LEMMA OpenBagStep ==
    ASSUME IInv, OpenBag
    PROVE  IInv'
<1> DEFINE m == job.m
           p == job.part
           d == Current
           e == Head(job.bags)
<1>1. /\ Adding /\ job.at = <<>> /\ job.bags # <<>>
      /\ UNCHANGED <<m_containers, refs, born, layout>>
  BY DEF OpenBag
<1>2. /\ job \in AddJob /\ ~ Removing
      /\ m \in Level /\ p \in Part /\ p \in DOMAIN m_uidescs[m]
      /\ job.bags \in Seq(DescribedBag)
      /\ d \in Seq(WrittenBag) /\ Len(d) \in Nat /\ d = m_uidescs[m][p]
      /\ \A f : ~ Open(f)
      /\ \A n, q, k, i : ~ Passed(n, q, k, i)
  BY <1>1, AddingIs DEF Current
<1>3. /\ e \in DescribedBag /\ e \in ToSet(job.bags)
      /\ Tail(job.bags) \in Seq(DescribedBag) /\ ToSet(Tail(job.bags)) \subseteq ToSet(job.bags)
  <2>1. job.bags \in Seq(DescribedBag) /\ job.bags # <<>>
    BY <1>1, <1>2
  <2> QED
    BY <2>1 DEF ToSet
<1>4. /\ \A n \in Level : n > m => p \notin DOMAIN m_uidescs[n]
      /\ ToSet(job.left) \subseteq ToSet(uidef(p))
      /\ ToSet(job.bags) \subseteq ToSet(uidef(p))
  BY <1>1 DEF IInv, AddInv
<1>5. \A n, q, k : ~ Writes(n, q, k)
  BY <1>1, NotWriting
<1> HIDE DEF e, d
<1>6. CASE job' = [job EXCEPT !.bags = Tail(@)] /\ UNCHANGED m_uidescs
  <2>1. /\ job' \in AddJob /\ job'.part = p /\ job'.m = m /\ job'.left = job.left
        /\ job'.bags = Tail(job.bags) /\ job'.at = <<>> /\ job'.op = "add"
    BY <1>1, <1>2, <1>3, <1>6 DEF AddJob
  <2>2. JobType' /\ Adding' /\ ~ Removing'
    BY <2>1 DEF JobType, Adding, Removing
  <2>3. AddInv'
    BY <1>1, <1>2, <1>3, <1>4, <1>6, <2>1 DEF AddInv
  <2>4. /\ RemoveInv'
        /\ \A n, q, k : ~ Writes(n, q, k)'
        /\ \A n, q, k, i : ~ Passed(n, q, k, i)'
        /\ \A f : ~ Open(f)'
    BY <2>1, <2>2 DEF RemoveInv, Writes, Passed, Open
  <2> QED
    BY <1>1, <1>2, <1>5, <1>6, <2>2, <2>3, <2>4, JobChanges
<1>7. CASE \E b \in Known(m, e.bag) :
              /\ job' = [job EXCEPT !.bags = Tail(@), !.tags = e.tags, !.at = <<Container(b)>>]
              /\ m_uidescs' = [m_uidescs EXCEPT ![m][p] = Append(@, [bag |-> b, tags |-> <<>>])]
  <2>1. PICK b \in Known(m, e.bag) :
              /\ job' = [job EXCEPT !.bags = Tail(@), !.tags = e.tags, !.at = <<Container(b)>>]
              /\ m_uidescs' = [m_uidescs EXCEPT ![m][p] = Append(@, [bag |-> b, tags |-> <<>>])]
    BY <1>7
  <2>2. b \in m_containers /\ b \in Bag /\ BagLevel(b) = m /\ BagName(b) = e.bag
    BY <2>1 DEF Known, IInv, DescInv
  <2> DEFINE at == <<Container(b)>>
             new == [bag |-> b, tags |-> <<>>]
             more == Append(d, new)
  <2>3. /\ Chain(at, b) /\ at \in Seq(Path) /\ Len(at) = 1 /\ Last(at) = Container(b)
        /\ at # <<>>
    BY <2>2, ChainStart, ChainHere
  <2>4. /\ new \in WrittenBag /\ new.bag = b /\ new.tags = <<>>
    BY <2>2 DEF WrittenBag
  <2>5. /\ job' = [job EXCEPT !.bags = Tail(@), !.tags = e.tags, !.at = at]
        /\ m_uidescs' = [m_uidescs EXCEPT ![m][p] = Append(@, new)]
    BY <2>1
  <2> HIDE DEF at, new
  <2>6. /\ more \in Seq(WrittenBag) /\ Len(more) = Len(d) + 1
        /\ more[Len(d) + 1] = new
        /\ \A k \in 1 .. Len(d) : more[k] = d[k]
    BY <1>2, <2>4, AppendProperties
  <2>7. /\ DOMAIN m_uidescs' = Level
        /\ \A n \in Level : DOMAIN m_uidescs'[n] = DOMAIN m_uidescs[n]
        /\ m_uidescs'[m][p] = more
        /\ \A n \in Level : \A q \in DOMAIN m_uidescs[n] :
              n # m \/ q # p => m_uidescs'[n][q] = m_uidescs[n][q]
    BY <1>2, <2>5 DEF IInv, DescType
  <2> HIDE DEF more
  <2>8. DescType' /\ ShapeInv'
    BY <1>1, <2>6, <2>7 DEF IInv, DescType, ShapeInv
  <2>9. e.tags \in Seq(Element)
    BY <1>3 DEF DescribedBag
  <2>10. /\ job' \in AddJob /\ job'.part = p /\ job'.m = m /\ job'.left = job.left
         /\ job'.bags = Tail(job.bags) /\ job'.tags = e.tags /\ job'.at = at /\ job'.op = "add"
    BY <1>2, <1>3, <2>3, <2>5, <2>9 DEF AddJob
  <2>11. JobType' /\ Adding' /\ ~ Removing'
    BY <2>10 DEF JobType, Adding, Removing
  <2>12. AddInv'
    <3>1. Suffix(e.tags, e.tags, 0) /\ Depth(e.tags, 0 + 1) = Len(at) - 1
      BY <2>3, <2>9, SuffixAll, DepthStart
    <3>2. e \in ToSet(uidef(p))
      BY <1>3, <1>4
    <3>3. Current' = more /\ Len(more) >= 1 /\ more[Len(more)].bag = b
      BY <1>2, <2>4, <2>6, <2>7, <2>10 DEF Current
    <3>4. AddsBag'
      BY <2>2, <2>3, <2>10, <3>1, <3>2, <3>3 DEF AddsBag
    <3>5. p \in DOMAIN m_uidescs'[m] /\ \A n \in Level : n > m => p \notin DOMAIN m_uidescs'[n]
      BY <1>2, <1>4, <2>7
    <3> QED
      BY <1>3, <1>4, <2>10, <3>4, <3>5 DEF AddInv
  <2>13. RemoveInv' /\ \A f : ~ Open(f)'
    BY <2>11 DEF RemoveInv, Open
  <2>14. DescInv'
    <3>1. m_containers \subseteq Bag /\ m_containers' = m_containers
      BY <1>1 DEF IInv, DescInv
    <3> SUFFICES ASSUME NEW n \in Level, NEW q \in DOMAIN m_uidescs'[n],
                        NEW k \in 1 .. Len(m_uidescs'[n][q])
                 PROVE  LET h == m_uidescs'[n][q][k]
                        IN /\ h.bag \in m_containers /\ BagLevel(h.bag) = n
                           /\ Reaches(h.bag, h.tags,
                                      IF Writes(n, q, k)' THEN Here' ELSE Container(h.bag))
      BY <3>1 DEF DescInv
    <3>2. CASE n = m /\ q = p /\ k = Len(d) + 1
      <4>1. m_uidescs'[n][q][k] = new
        BY <2>6, <2>7, <3>2
      <4>2. Here' = Container(b)
        BY <2>3, <2>10 DEF Here
      <4>3. Reaches(b, <<>>, Container(b))
        BY <2>2, ReachesStart
      <4>4. (IF Writes(n, q, k)' THEN Here' ELSE Container(new.bag)) = Container(b)
        BY <2>4, <4>2
      <4> QED
        BY <2>2, <2>4, <3>2, <4>1, <4>3, <4>4
    <3>3. CASE ~ (n = m /\ q = p /\ k = Len(d) + 1)
      <4>1. ~ Writes(n, q, k)'
        BY <2>6, <2>7, <2>10, <3>3 DEF Writes
      <4>2. q \in DOMAIN m_uidescs[n] /\ k \in 1 .. Len(m_uidescs[n][q])
            /\ m_uidescs'[n][q][k] = m_uidescs[n][q][k]
        <5>1. q \in DOMAIN m_uidescs[n]
          BY <2>7
        <5>2. CASE n = m /\ q = p
          <6>1. k \in 1 .. Len(more) /\ k # Len(d) + 1
            BY <2>7, <3>3, <5>2
          <6>2. k \in 1 .. Len(d)
            BY <1>2, <2>6, <6>1
          <6> QED
            BY <1>2, <2>6, <2>7, <5>1, <5>2, <6>2
        <5>3. CASE ~ (n = m /\ q = p)
          BY <2>7, <5>1, <5>3
        <5> QED
          BY <5>2, <5>3
      <4> QED
        BY <1>5, <4>1, <4>2 DEF IInv, DescInv
    <3> QED
      BY <3>2, <3>3
  <2>15. CountInv'
    <3>1. ASSUME NEW n, NEW q, NEW k, NEW i, NEW f
          PROVE  Claim(n, q, k, i, f)' <=> Claim(n, q, k, i, f)
      <4>1. ~ Passed(n, q, k, i) /\ ~ Passed(n, q, k, i)'
        BY <1>2, <2>11 DEF Passed
      <4>2. CASE n = m /\ q = p
        <5>1. DOMAIN d = 1 .. Len(d) /\ DOMAIN more = 1 .. Len(d) + 1
          BY <1>2, <2>6
        <5>2. i \notin DOMAIN new.tags
          BY <2>4
        <5>3. k \in DOMAIN more /\ i \in DOMAIN more[k].tags =>
                 k \in DOMAIN d /\ more[k] = d[k]
          BY <1>2, <2>6, <5>1, <5>2
        <5>4. k \in DOMAIN d => k \in DOMAIN more /\ more[k] = d[k]
          BY <1>2, <2>6, <5>1
        <5> QED
          BY <1>2, <2>7, <4>1, <4>2, <5>3, <5>4 DEF Claim
      <4>3. CASE ~ (n = m /\ q = p)
        BY <2>7, <4>1, <4>3 DEF Claim
      <4> QED
        BY <4>2, <4>3
    <3>2. \A f \in Path : Open(f)' <=> Open(f)
      BY <1>2, <2>13
    <3> QED
      BY <1>1, <3>1, <3>2, CountsKept DEF IInv
  <2> QED
    BY <2>8, <2>11, <2>12, <2>13, <2>14, <2>15 DEF IInv
<1>8. \/ job' = [job EXCEPT !.bags = Tail(@)] /\ UNCHANGED m_uidescs
      \/ \E b \in Known(m, e.bag) :
              /\ job' = [job EXCEPT !.bags = Tail(@), !.tags = e.tags, !.at = <<Container(b)>>]
              /\ m_uidescs' = [m_uidescs EXCEPT ![m][p] = Append(@, [bag |-> b, tags |-> <<>>])]
  BY DEF OpenBag, e
<1> QED
  BY <1>6, <1>7, <1>8

\* A bag ends where its description leads back to the container.
LEMMA CloseBagStep ==
    ASSUME IInv, CloseBag
    PROVE  IInv'
<1>1. /\ job # None /\ job.at # <<>> /\ job.tags = <<>>
      /\ job' = [job EXCEPT !.at = <<>>]
      /\ UNCHANGED <<m_containers, refs, born, layout, m_uidescs>>
  BY DEF CloseBag, InBag, Idle
<1> DEFINE none == <<>>
<1>a. none \in Seq(Path) /\ none = <<>>
  OBVIOUS
<1> HIDE DEF none
<1>b. job' = [job EXCEPT !.at = none]
  BY <1>1, <1>a
<1>2. DescType' /\ ShapeInv'
  BY <1>1 DEF IInv, DescType, ShapeInv
<1>3. CASE Adding
  <2>1. job \in AddJob /\ ~ Removing
    BY <1>3, AddingIs
  <2>2. /\ job' \in AddJob /\ job'.op = job.op /\ job'.part = job.part /\ job'.m = job.m
        /\ job'.left = job.left /\ job'.bags = job.bags /\ job'.at = <<>>
    BY <1>a, <1>b, <2>1 DEF AddJob
  <2>3. JobType' /\ AddInv' /\ Adding' /\ ~ Removing'
    BY <1>1, <1>3, <2>1, <2>2 DEF JobType, IInv, AddInv, Adding, Removing
  <2>4. RemoveInv' /\ (\A n, q, k : ~ Writes(n, q, k)')
    BY <2>2, <2>3 DEF RemoveInv, Writes
  <2>5. Here = Container(Current[Len(Current)].bag)
    <3> DEFINE b == Current[Len(Current)].bag
    <3>1. PICK e \in ToSet(uidef(job.part)) : \E r :
             /\ e.bag = BagName(b) /\ e.tags \in Seq(Element) /\ Balanced(e.tags)
             /\ Suffix(job.tags, e.tags, r)
             /\ Depth(e.tags, r + 1) = Len(job.at) - 1
      BY <1>1, <1>3, AddingTo
    <3>2. PICK r : /\ e.tags \in Seq(Element) /\ Balanced(e.tags)
                   /\ Suffix(job.tags, e.tags, r)
                   /\ Depth(e.tags, r + 1) = Len(job.at) - 1
      BY <3>1
    <3>3. r = Len(e.tags)
      BY <1>1, <3>2, SuffixOf
    <3>4. 0 = Len(job.at) - 1
      BY <3>2, <3>3 DEF Balanced
    <3>5. Chain(job.at, b)
      BY <1>1, <1>3, AddingTo
    <3> HIDE DEF b
    <3>6. Len(job.at) \in Nat /\ (Len(job.at) = 1 => Last(job.at) = Container(b))
      BY <3>5, ChainHere
    <3> QED
      BY <3>4, <3>6 DEF Here, b
  <2>6. DescInv'
    <3>1. m_containers \subseteq Bag
      BY DEF IInv, DescInv
    <3> SUFFICES ASSUME NEW n \in Level, NEW q \in DOMAIN m_uidescs[n],
                        NEW k \in 1 .. Len(m_uidescs[n][q])
                 PROVE  LET h == m_uidescs[n][q][k]
                        IN /\ h.bag \in m_containers /\ BagLevel(h.bag) = n
                           /\ Reaches(h.bag, h.tags, Container(h.bag))
      BY <1>1, <2>4, <3>1 DEF DescInv
    <3>2. Writes(n, q, k) => Here = Container(m_uidescs[n][q][k].bag)
      BY <2>5 DEF Writes, Current
    <3> QED
      BY <3>2 DEF IInv, DescInv
  <2>7. CountInv'
    <3>1. \A m, p, k, i, f : Claim(m, p, k, i, f)' <=> Claim(m, p, k, i, f)
      <4>1. \A m, p, k, i : ~ Passed(m, p, k, i) /\ ~ Passed(m, p, k, i)'
        BY <2>1, <2>3 DEF Passed
      <4> QED
        BY <1>1, <4>1 DEF Claim
    <3>2. \A f \in Path : Open(f)' <=> Open(f)
      BY <2>1, <2>3 DEF Open
    <3> QED
      BY <1>1, <3>1, <3>2, CountsKept DEF IInv
  <2> QED
    BY <1>2, <2>3, <2>4, <2>6, <2>7 DEF IInv
<1>4. CASE Removing
  <2>1. job \in RemoveJob /\ ~ Adding
    BY <1>4, JobKinds DEF IInv
  <2>2. /\ job' \in RemoveJob /\ job'.op = job.op /\ job'.part = job.part /\ job'.m = job.m
        /\ job'.bags = job.bags /\ job'.tags = job.tags /\ job'.at = <<>>
    BY <1>a, <1>b, <2>1 DEF RemoveJob
  <2>3. JobType' /\ Removing' /\ ~ Adding'
    BY <1>4, <2>1, <2>2 DEF JobType, Adding, Removing
  <2>4. job.part # None
    BY <1>1, <1>4 DEF IInv, RemoveInv
  <2>5. RemoveInv' /\ AddInv'
    BY <1>1, <1>4, <2>2, <2>3, <2>4 DEF IInv, RemoveInv, AddInv, Current
  <2>6. DescInv'
    BY <1>1, <2>1, <2>3, DescKept DEF IInv, Writes
  <2>7. Here \in Path /\ Len(Here) = 1
    <3>1. PICK k : RemovesBag(k)
      BY <1>1, <1>4, <2>4 DEF IInv, RemoveInv
    <3>2. PICK i : /\ k \in 1 .. Len(Current)
                   /\ Suffix(job.tags, Current[k].tags, i)
                   /\ Passes(Current[k].bag, Current[k].tags, i + 1, Here)
      BY <3>1 DEF RemovesBag
    <3>3. Current \in Seq(WrittenBag)
      BY <1>4, <2>1, <2>4 DEF IInv, RemoveInv, RemoveJob, DescType, Current
    <3>4. Current[k] \in WrittenBag
      BY <3>2, <3>3
    <3>5. Current[k].tags \in Seq(Written) /\ Current[k].bag \in Bag
      BY <3>4 DEF WrittenBag
    <3>6. i = Len(Current[k].tags)
      BY <1>1, <3>2, <3>5, SuffixOf
    <3>7. Here = Container(Current[k].bag)
      BY <3>2, <3>6, PassesEnd
    <3> QED
      BY <3>5, <3>7, ContainerPath
  <2>8. CountInv'
    <3>1. \A m, p, k, i, f : Claim(m, p, k, i, f)' <=> Claim(m, p, k, i, f)
      <4>1. \A m, p, k, i : Passed(m, p, k, i)' <=> Passed(m, p, k, i)
        BY <1>1, <1>4, <2>2, <2>3 DEF Passed
      <4> QED
        BY <1>1, <4>1 DEF Claim
    <3>2. \A f \in Path : Open(f)' <=> Open(f)
      <4> SUFFICES ASSUME NEW f \in Path
                   PROVE  ~ Open(f)' /\ ~ Open(f)
        OBVIOUS
      <4>1. ~ Open(f)'
        BY <2>2 DEF Open
      <4>2. ~ Open(f)
        BY <2>7, PathLen DEF Open, Within
      <4> QED
        BY <4>1, <4>2
    <3> QED
      BY <1>1, <3>1, <3>2, CountsKept DEF IInv
  <2> QED
    BY <1>2, <2>3, <2>5, <2>6, <2>8 DEF IInv
<1> QED
  BY <1>1, <1>3, <1>4, JobKinds DEF IInv

-----------------------------------------------------------------------------
(* The tags that are added.                                                *)

\* The tag t is at the end of what is written.
WrittenAlso(t) ==
    LET new == m_uidescs'[job.m][job.part]
        n   == Len(Current)
    IN /\ DOMAIN m_uidescs' = Level
       /\ \A m \in Level : DOMAIN m_uidescs'[m] = DOMAIN m_uidescs[m]
       /\ \A m \in Level : \A p \in DOMAIN m_uidescs[m] :
             m # job.m \/ p # job.part => m_uidescs'[m][p] = m_uidescs[m][p]
       /\ new \in Seq(WrittenBag) /\ Len(new) = n
       /\ \A k \in 1 .. n : k # n => new[k] = Current[k]
       /\ new[n].bag = Current[n].bag
       /\ new[n].tags = Append(Current[n].tags, t)

LEMMA NotedIs ==
    ASSUME IInv, Adding, job.at # <<>>, NEW t \in Written, m_uidescs' = Noted(t)
    PROVE  WrittenAlso(t) /\ DescType'
<1> DEFINE m == job.m
           p == job.part
           d == Current
           n == Len(d)
           last == [d[n] EXCEPT !.tags = Append(@, t)]
           new == [d EXCEPT ![n] = last]
<1>1. /\ m \in Level /\ p \in Part /\ p \in DOMAIN m_uidescs[m]
      /\ d \in Seq(WrittenBag) /\ n \in Nat /\ d = m_uidescs[m][p]
  BY AddingIs DEF Current
<1>2. n >= 1 /\ n \in DOMAIN d /\ d[n].tags \in Seq(Written)
  BY AddingTo
<1>3. m_uidescs' = [m_uidescs EXCEPT ![m][p] = new]
  BY <1>1 DEF Noted
<1>4. d[n] \in WrittenBag
  BY <1>1, <1>2
<1>5. Append(d[n].tags, t) \in Seq(Written)
  BY <1>2, AppendProperties
<1>6. last \in WrittenBag /\ last.bag = d[n].bag /\ last.tags = Append(d[n].tags, t)
  BY <1>4, <1>5 DEF WrittenBag
<1> HIDE DEF last, d
<1>7. /\ new \in Seq(WrittenBag) /\ Len(new) = n /\ new[n] = last
      /\ \A k \in 1 .. n : k # n => new[k] = d[k]
  <2>a. d \in Seq(WrittenBag) /\ last \in WrittenBag /\ Len(d) = n
    BY <1>1, <1>6
  <2>b. n \in Nat /\ n >= 1
    BY <1>1, <1>2
  <2>1. d \in Seq(WrittenBag) /\ n \in 1 .. Len(d) /\ last \in WrittenBag /\ Len(d) = n
    BY <2>a, <2>b
  <2> HIDE DEF n
  <2>2. /\ new \in Seq(WrittenBag) /\ Len(new) = Len(d)
        /\ \A k \in 1 .. Len(d) : new[k] = IF k = n THEN last ELSE d[k]
    BY <2>1, ExceptSeq
  <2> HIDE DEF new
  <2> QED
    BY <2>1, <2>2
<1> HIDE DEF new, n
<1>8. /\ DOMAIN m_uidescs' = Level
      /\ \A l \in Level : DOMAIN m_uidescs'[l] = DOMAIN m_uidescs[l]
      /\ \A l \in Level : \A q \in DOMAIN m_uidescs[l] :
            l # m \/ q # p => m_uidescs'[l][q] = m_uidescs[l][q]
      /\ m_uidescs'[m][p] = new
  BY <1>1, <1>3 DEF IInv, DescType
<1>9. DescType'
  <2>1. ASSUME NEW l \in Level, NEW q \in DOMAIN m_uidescs'[l]
        PROVE  m_uidescs'[l][q] \in Seq(WrittenBag)
    BY <1>7, <1>8 DEF IInv, DescType
  <2>2. \A l \in Level : DOMAIN m_uidescs'[l] \subseteq Part
    BY <1>8 DEF IInv, DescType
  <2> QED
    BY <1>8, <2>1, <2>2 DEF DescType
<1>10. WrittenAlso(t)
  BY <1>6, <1>7, <1>8 DEF WrittenAlso, d, n
<1> QED
  BY <1>9, <1>10

\* The description leads to where the addition is.
LEMMA NotedDescs ==
    ASSUME IInv, Adding, job.at # <<>>, NEW t \in Written, WrittenAlso(t),
           Adding', job'.m = job.m, job'.part = job.part, job'.at # <<>>,
           m_containers' = m_containers, NEW c \in Path, Here' = c,
           /\ t.tag = "folder" => Child(Here, t.o) /\ c = t.o
           /\ t.tag = "end" => Child(c, Here)
           /\ t.tag \notin {"folder", "end"} => c = Here
    PROVE  DescInv'
<1> DEFINE n == Len(Current)
           b == Current[n].bag
           old == Current[n].tags
           new == m_uidescs'[job.m][job.part]
<1>1. /\ b \in Bag /\ n >= 1 /\ n \in DOMAIN Current
      /\ old \in Seq(Written) /\ Reaches(b, old, Here)
  BY AddingTo
<1>2. Reaches(b, Append(old, t), c)
  <2> HIDE DEF b, old
  <2> QED
    BY <1>1, ReachesOn
<1>3. /\ \A m \in Level : DOMAIN m_uidescs'[m] = DOMAIN m_uidescs[m]
      /\ \A m \in Level : \A p \in DOMAIN m_uidescs[m] :
            m # job.m \/ p # job.part => m_uidescs'[m][p] = m_uidescs[m][p]
      /\ Len(new) = n
      /\ \A k \in 1 .. n : k # n => new[k] = Current[k]
      /\ new[n].bag = b
      /\ new[n].tags = Append(old, t)
  BY DEF WrittenAlso
<1>4. n \in 1 .. n /\ Current = m_uidescs[job.m][job.part]
      /\ job.m \in Level /\ job.part \in DOMAIN m_uidescs[job.m]
  <2>1. job.m \in Level /\ job.part \in DOMAIN m_uidescs[job.m] /\ n \in Nat
    BY AddingIs
  <2>2. n \in 1 .. n
    BY <1>1, <2>1
  <2> QED
    BY <2>1, <2>2 DEF Current
<1>5. b \in m_containers /\ BagLevel(b) = job.m /\ m_containers \subseteq Bag
  BY <1>4 DEF IInv, DescInv
<1> HIDE DEF new, b, old, n
<1> SUFFICES ASSUME NEW m \in Level, NEW p \in DOMAIN m_uidescs'[m],
                    NEW k \in 1 .. Len(m_uidescs'[m][p])
             PROVE  LET e == m_uidescs'[m][p][k]
                    IN /\ e.bag \in m_containers /\ BagLevel(e.bag) = m
                       /\ Reaches(e.bag, e.tags, IF Writes(m, p, k)' THEN Here' ELSE Container(e.bag))
  BY <1>5 DEF DescInv
<1>6. CASE m = job.m /\ p = job.part /\ k = n
  <2>1. Writes(m, p, k)'
    BY <1>3, <1>6 DEF Writes, new
  <2>2. m_uidescs'[m][p][k] = new[n]
    BY <1>6 DEF new
  <2> QED
    BY <1>2, <1>3, <1>5, <1>6, <2>1, <2>2
<1>7. CASE ~ (m = job.m /\ p = job.part /\ k = n)
  <2>1. ~ Writes(m, p, k)' /\ ~ Writes(m, p, k)
    BY <1>3, <1>4, <1>7 DEF Writes, new, n
  <2>2. p \in DOMAIN m_uidescs[m] /\ k \in 1 .. Len(m_uidescs[m][p])
        /\ m_uidescs'[m][p][k] = m_uidescs[m][p][k]
    BY <1>3, <1>4, <1>7 DEF new, n
  <2> QED
    BY <2>1, <2>2 DEF IInv, DescInv
<1> QED
  BY <1>6, <1>7

\* The pointer to a folder is counted when it is written.
LEMMA NotedClaims ==
    ASSUME IInv, Adding, job.at # <<>>, NEW t \in Written, WrittenAlso(t), ~ Removing'
    PROVE  LET n == Len(Current)
               i == Len(Current[n].tags) + 1
           IN /\ \A l, q, k, j, f : Claim(l, q, k, j, f)' <=>
                    \/ Claim(l, q, k, j, f)
                    \/ /\ t.tag = "folder" /\ f = t.o
                       /\ <<l, q, k, j>> = <<job.m, job.part, n, i>>
              /\ \A f : ~ Claim(job.m, job.part, n, i, f)
<1> DEFINE n == Len(Current)
           old == Current[n].tags
           i == Len(old) + 1
           new == m_uidescs'[job.m][job.part]
<1>1. /\ job.m \in Level /\ job.part \in Part /\ job.part \in DOMAIN m_uidescs[job.m]
      /\ Current = m_uidescs[job.m][job.part]
      /\ Current \in Seq(WrittenBag) /\ n \in Nat
      /\ \A l, q, k, j : ~ Passed(l, q, k, j)
  BY AddingIs DEF Current
<1>2. n >= 1 /\ old \in Seq(Written)
  BY AddingTo
<1>3. /\ \A m \in Level : DOMAIN m_uidescs'[m] = DOMAIN m_uidescs[m]
      /\ \A m \in Level : \A p \in DOMAIN m_uidescs[m] :
            m # job.m \/ p # job.part => m_uidescs'[m][p] = m_uidescs[m][p]
      /\ new \in Seq(WrittenBag) /\ Len(new) = n
      /\ \A k \in 1 .. n : k # n => new[k] = Current[k]
      /\ new[n].tags = Append(old, t)
  BY DEF WrittenAlso
<1>4. DOMAIN new = 1 .. n /\ DOMAIN Current = 1 .. n
  <2>1. Len(new) = n /\ new \in Seq(WrittenBag)
    BY <1>3
  <2>2. Current \in Seq(WrittenBag)
    BY <1>1
  <2> HIDE DEF new
  <2> QED
    BY <2>1, <2>2
<1>5. \A l, q, k, j : ~ Passed(l, q, k, j)'
  BY DEF Passed
<1>6. /\ DOMAIN old = 1 .. i - 1 /\ i \in Nat \ {0} /\ DOMAIN Append(old, t) = 1 .. i
      /\ Append(old, t)[i] = t
      /\ \A j \in 1 .. i - 1 : Append(old, t)[j] = old[j]
  <2> HIDE DEF old
  <2> QED
    BY <1>2, AppendProperties
<1> HIDE DEF new, old, i, n
<1>7. \A f : ~ Claim(job.m, job.part, n, i, f)
  <2>1. i \notin DOMAIN old
    BY <1>6
  <2>2. \A f : Claim(job.m, job.part, n, i, f) => i \in DOMAIN Current[n].tags
    BY <1>1 DEF Claim
  <2> QED
    BY <2>1, <2>2 DEF old
<1>8. ASSUME NEW l, NEW q, NEW k, NEW j, NEW f
      PROVE  Claim(l, q, k, j, f)' <=>
                    \/ Claim(l, q, k, j, f)
                    \/ /\ t.tag = "folder" /\ f = t.o
                       /\ <<l, q, k, j>> = <<job.m, job.part, n, i>>
  <2>1. CASE l = job.m /\ q = job.part /\ k = n
    <3>1. m_uidescs'[l][q][k].tags = Append(old, t) /\ m_uidescs[l][q][k].tags = old
      BY <1>1, <1>3, <2>1 DEF new, old
    <3>2. /\ k \in DOMAIN m_uidescs'[l][q] /\ k \in DOMAIN m_uidescs[l][q]
          /\ l \in Level /\ q \in Part /\ q \in DOMAIN m_uidescs[l] /\ q \in DOMAIN m_uidescs'[l]
      BY <1>1, <1>2, <1>3, <1>4, <2>1 DEF new
    <3>3. Claim(l, q, k, j, f)' <=> /\ j \in 1 .. i
                                    /\ Append(old, t)[j].tag = "folder"
                                    /\ Append(old, t)[j].o = f
      BY <1>5, <1>6, <3>1, <3>2 DEF Claim
    <3>4. Claim(l, q, k, j, f) <=> /\ j \in 1 .. i - 1
                                   /\ old[j].tag = "folder"
                                   /\ old[j].o = f
      BY <1>1, <1>6, <3>1, <3>2 DEF Claim
    <3> QED
      BY <1>6, <2>1, <3>3, <3>4
  <2>2. CASE ~ (l = job.m /\ q = job.part /\ k = n)
    <3>1. Real(l, q, k)' <=> Real(l, q, k)
      <4>1. CASE l = job.m /\ q = job.part
        BY <1>1, <1>3, <1>4, <4>1 DEF Real, new
      <4>2. CASE ~ (l = job.m /\ q = job.part)
        BY <1>3, <4>2 DEF Real
      <4> QED
        BY <4>1, <4>2
    <3>2. Real(l, q, k) => m_uidescs'[l][q][k] = m_uidescs[l][q][k]
      <4>1. CASE l = job.m /\ q = job.part
        BY <1>1, <1>3, <1>4, <2>2, <4>1 DEF Real, new
      <4>2. CASE ~ (l = job.m /\ q = job.part)
        BY <1>3, <4>2 DEF Real
      <4> QED
        BY <4>1, <4>2
    <3>3. <<l, q, k, j>> # <<job.m, job.part, n, i>>
      BY <2>2
    <3> QED
      BY <1>1, <1>5, <3>1, <3>2, <3>3 DEF Claim, Real
  <2> QED
    BY <2>1, <2>2
<1> QED
  BY <1>7, <1>8 DEF n, old, i

\* The tag that is next in the description of the part.
LEMMA AddTag ==
    ASSUME IInv, Adding, job.at # <<>>, job.tags # <<>>,
           NEW b, b = Current[Len(Current)].bag
    PROVE  /\ Tag \in Element /\ Tail(job.tags) \in Seq(Element) /\ job.tags[1] = Tag
           /\ \E e \in ToSet(uidef(job.part)) : \E r :
                 /\ e.bag = BagName(b) /\ e.tags \in Seq(Element) /\ Balanced(e.tags)
                 /\ Suffix(job.tags, e.tags, r)
                 /\ r + 1 \in DOMAIN e.tags /\ e.tags[r + 1] = Tag
                 /\ Depth(e.tags, r + 1) = Len(job.at) - 1
                 /\ Suffix(Tail(job.tags), e.tags, r + 1)
                 /\ Depth(e.tags, r + 1 + 1) = Len(job.at) - 1
                                               + (IF Tag.tag = "folder" THEN 1
                                                  ELSE IF Tag.tag = "end" THEN -1 ELSE 0)
                 /\ Tag.tag = "end" => Len(job.at) >= 2
<1>1. job.tags \in Seq(Element) /\ job.tags # <<>>
  BY AddingIs
<1>2. Tag \in Element /\ Tail(job.tags) \in Seq(Element) /\ job.tags[1] = Tag
  BY <1>1 DEF Tag
<1>3. PICK e \in ToSet(uidef(job.part)) : \E r :
         /\ e.bag = BagName(b) /\ e.tags \in Seq(Element) /\ Balanced(e.tags)
         /\ Suffix(job.tags, e.tags, r)
         /\ Depth(e.tags, r + 1) = Len(job.at) - 1
  BY AddingTo
<1>4. PICK r :
         /\ e.bag = BagName(b) /\ e.tags \in Seq(Element) /\ Balanced(e.tags)
         /\ Suffix(job.tags, e.tags, r)
         /\ Depth(e.tags, r + 1) = Len(job.at) - 1
  BY <1>3
<1>5. /\ r + 1 \in 1 .. Len(e.tags)
      /\ Head(job.tags) = e.tags[r + 1]
      /\ Suffix(Tail(job.tags), e.tags, r + 1)
  <2> DEFINE s == e.tags
             t == job.tags
  <2>1. s \in Seq(Element) /\ Suffix(t, s, r) /\ t # <<>>
    BY <1>1, <1>4
  <2> HIDE DEF s, t
  <2>2. /\ r + 1 \in 1 .. Len(s)
        /\ Head(t) = s[r + 1]
        /\ Suffix(Tail(t), s, r + 1)
    BY <2>1, SuffixOf
  <2> QED
    BY <2>2 DEF s, t
<1>6. DOMAIN e.tags = 1 .. Len(e.tags) /\ Len(e.tags) \in Nat
  BY <1>4
<1>7. e.tags[r + 1] = Tag /\ r + 1 \in DOMAIN e.tags /\ r + 1 \in Nat \ {0}
  BY <1>5, <1>6 DEF Tag
<1>8. Depth(e.tags, r + 1 + 1) = Len(job.at) - 1 + (IF Tag.tag = "folder" THEN 1
                                                    ELSE IF Tag.tag = "end" THEN -1 ELSE 0)
  BY <1>4, <1>7, DepthOn
<1>9. Tag.tag = "end" => Len(job.at) >= 2
  <2>1. Depth(e.tags, r + 1 + 1) >= 0
    <3>1. CASE r + 1 = Len(e.tags)
      BY <1>4, <3>1 DEF Balanced
    <3>2. CASE r + 1 # Len(e.tags)
      <4>1. r + 1 + 1 \in DOMAIN e.tags
        BY <1>5, <1>6, <3>2
      <4> QED
        BY <1>4, <4>1 DEF Balanced
    <3> QED
      BY <3>1, <3>2
  <2>2. Len(job.at) \in Nat
    BY AddingIs
  <2> QED
    BY <1>8, <2>1, <2>2
<1> QED
  BY <1>2, <1>4, <1>5, <1>7, <1>8, <1>9

\* The tags are the rest of a bag of the part, at the depth of the end of `at'.
Remain(tags, at, b) ==
    \E e \in ToSet(uidef(job.part)) : \E r :
       /\ e.bag = BagName(b)
       /\ Suffix(tags, e.tags, r)
       /\ Depth(e.tags, r + 1) = Len(at) - 1

\* An addition goes on with tags that are left, at the depth reached.
LEMMA AddGoesOn ==
    ASSUME IInv, Adding, job.at # <<>>,
           NEW tags \in Seq(Element), NEW at \in Seq(Path),
           job' = [job EXCEPT !.tags = tags, !.at = at],
           UNCHANGED m_uidescs \/ \E t \in Written : WrittenAlso(t),
           NEW b, b = Current[Len(Current)].bag, Chain(at, b),
           Remain(tags, at, b)
    PROVE  /\ JobType' /\ AddInv' /\ RemoveInv'
           /\ Adding' /\ ~ Removing' /\ job'.m = job.m /\ job'.part = job.part
           /\ job'.at # <<>> /\ Here' = Last(at)
           /\ \A f : ~ Open(f)'
           /\ \A m, p, k, i : ~ Passed(m, p, k, i)'
<1>1. /\ job \in AddJob /\ job.m \in Level /\ job.part \in DOMAIN m_uidescs[job.m]
      /\ Len(Current) >= 1
  BY AddingIs, AddingTo
<1>2. /\ job' \in AddJob /\ job'.op = job.op /\ job'.part = job.part /\ job'.m = job.m
      /\ job'.left = job.left /\ job'.bags = job.bags /\ job'.tags = tags /\ job'.at = at
  BY <1>1 DEF AddJob
<1>3. JobType' /\ Adding' /\ ~ Removing'
  BY <1>2 DEF JobType, Adding, Removing
<1>4. at # <<>> /\ Here' = Last(at)
  BY <1>2, ChainHere DEF Here
<1>5. /\ \A m \in Level : DOMAIN m_uidescs'[m] = DOMAIN m_uidescs[m]
      /\ Len(Current') = Len(Current)
      /\ Current'[Len(Current)].bag = b
  <2>1. CASE UNCHANGED m_uidescs
    BY <1>2, <2>1 DEF Current
  <2>2. CASE \E t \in Written : WrittenAlso(t)
    BY <1>2, <2>2 DEF WrittenAlso, Current
  <2> QED
    BY <2>1, <2>2
<1>6. AddsBag'
  BY <1>1, <1>2, <1>5 DEF AddsBag, Remain
<1>7. AddInv'
  BY <1>1, <1>2, <1>5, <1>6 DEF IInv, AddInv
<1>8. /\ \A f : ~ Open(f)'
      /\ \A m, p, k, i : ~ Passed(m, p, k, i)'
      /\ RemoveInv'
  BY <1>3 DEF Open, Passed, RemoveInv
<1> QED
  BY <1>2, <1>3, <1>4, <1>7, <1>8

\* Once a tag is read, the next ones remain.
LEMMA TheNextRemain ==
    ASSUME IInv, Adding, job.at # <<>>, job.tags # <<>>,
           NEW b, b = Current[Len(Current)].bag,
           NEW at, Len(at) = Len(job.at) + (IF Tag.tag = "folder" THEN 1
                                            ELSE IF Tag.tag = "end" THEN -1 ELSE 0)
    PROVE  Tail(job.tags) \in Seq(Element) /\ Remain(Tail(job.tags), at, b)
<1>1. PICK e \in ToSet(uidef(job.part)) : \E r :
               /\ e.bag = BagName(b)
               /\ Suffix(Tail(job.tags), e.tags, r + 1)
               /\ Depth(e.tags, r + 1 + 1) = Len(job.at) - 1
                                             + (IF Tag.tag = "folder" THEN 1
                                                ELSE IF Tag.tag = "end" THEN -1 ELSE 0)
  BY AddTag
<1>2. Tail(job.tags) \in Seq(Element)
  BY AddTag
<1>3. PICK r : /\ e.bag = BagName(b)
               /\ Suffix(Tail(job.tags), e.tags, r + 1)
               /\ Depth(e.tags, r + 1 + 1) = Len(job.at) - 1
                                             + (IF Tag.tag = "folder" THEN 1
                                                ELSE IF Tag.tag = "end" THEN -1 ELSE 0)
  BY <1>1
<1> DEFINE q == r + 1
<1>4. /\ Suffix(Tail(job.tags), e.tags, q)
      /\ Depth(e.tags, q + 1) = Len(at) - 1
  <2> DEFINE delta == IF Tag.tag = "folder" THEN 1 ELSE IF Tag.tag = "end" THEN -1 ELSE 0
  <2>1. delta \in Int
    OBVIOUS
  <2>2. Len(at) = Len(job.at) + delta /\ Depth(e.tags, q + 1) = Len(job.at) - 1 + delta
    BY <1>3
  <2> HIDE DEF delta
  <2>3. Len(job.at) \in Nat
    BY AddingIs
  <2> DEFINE depth == Depth(e.tags, q + 1)
             before == Len(job.at)
             after == Len(at)
  <2>4. Len(at) = Len(job.at) + delta /\ depth = Len(job.at) - 1 + delta
    BY <2>2
  <2> HIDE DEF depth
  <2>5. before \in Nat /\ after = before + delta /\ depth = before - 1 + delta
    BY <2>3, <2>4
  <2> HIDE DEF before, after
  <2>6. depth = after - 1
    BY <2>1, <2>5
  <2>7. depth = Len(at) - 1
    BY <2>6 DEF after
  <2>8. Suffix(Tail(job.tags), e.tags, q)
    BY <1>3
  <2> QED
    BY <2>7, <2>8 DEF depth
<1> HIDE DEF q
<1> QED
  BY <1>2, <1>3, <1>4 DEF Remain

\* A tag for which nothing is written.
LEMMA LeftOut ==
    ASSUME IInv, Adding, job.at # <<>>,
           UNCHANGED <<m_containers, refs, born, m_uidescs>>, DOMAIN layout' = DOMAIN layout,
           NEW tags \in Seq(Element), job' = [job EXCEPT !.tags = tags],
           NEW b, b = Current[Len(Current)].bag,
           Remain(tags, job.at, b)
    PROVE  IInv'
<1>1. job \in AddJob /\ job.at \in Seq(Path) /\ Chain(job.at, b)
      /\ (\A f : ~ Open(f)) /\ (\A m, p, k, i : ~ Passed(m, p, k, i))
  BY AddingIs, AddingTo
<1>2. job' = [job EXCEPT !.tags = tags, !.at = job.at]
  BY <1>1 DEF AddJob
<1>3. /\ JobType' /\ AddInv' /\ RemoveInv'
      /\ Adding' /\ job'.m = job.m /\ job'.part = job.part
      /\ job'.at # <<>> /\ Here' = Here
      /\ \A f : ~ Open(f)'
      /\ \A m, p, k, i : ~ Passed(m, p, k, i)'
  BY <1>1, <1>2, AddGoesOn DEF Here
<1>4. DescType' /\ ShapeInv'
  BY DEF IInv, DescType, ShapeInv
<1>5. DescInv'
  <2>1. \A m, p, k : Writes(m, p, k)' <=> Writes(m, p, k)
    BY <1>3 DEF Writes
  <2> QED
    BY <1>3, <2>1 DEF IInv, DescInv
<1>6. CountInv'
  <2>1. \A m, p, k, i, f : Claim(m, p, k, i, f)' <=> Claim(m, p, k, i, f)
    BY <1>1, <1>3 DEF Claim
  <2>2. \A f \in Path : Open(f)' <=> Open(f)
    BY <1>1, <1>3
  <2> QED
    BY <2>1, <2>2, CountsKept DEF IInv
<1> QED
  BY <1>3, <1>4, <1>5, <1>6 DEF IInv

\* A tag for which one is written, that is not a folder.
LEMMA PutIn ==
    ASSUME IInv, Adding, job.at # <<>>,
           UNCHANGED <<m_containers, refs, born>>, DOMAIN layout' = DOMAIN layout,
           NEW t \in Written, t.tag # "folder", m_uidescs' = Noted(t),
           NEW at \in Seq(Path), job' = [Pop EXCEPT !.at = at],
           NEW b, b = Current[Len(Current)].bag, Chain(at, b),
           IF t.tag = "end" THEN Child(Last(at), Here) ELSE Last(at) = Here,
           job.tags # <<>>,
           Len(at) = Len(job.at) + (IF Tag.tag = "folder" THEN 1
                                    ELSE IF Tag.tag = "end" THEN -1 ELSE 0)
    PROVE  IInv'
<1>1. job \in AddJob /\ (\A f : ~ Open(f)) /\ Len(job.at) \in Nat
  BY AddingIs
<1>2. Tail(job.tags) \in Seq(Element) /\ Remain(Tail(job.tags), at, b)
  BY TheNextRemain
<1>3. job' = [job EXCEPT !.tags = Tail(job.tags), !.at = at]
  BY <1>1 DEF AddJob, Pop
<1>4. WrittenAlso(t) /\ DescType'
  BY NotedIs
<1>5. /\ JobType' /\ AddInv' /\ RemoveInv'
      /\ Adding' /\ ~ Removing' /\ job'.m = job.m /\ job'.part = job.part
      /\ job'.at # <<>> /\ Here' = Last(at)
      /\ \A f : ~ Open(f)'
  <2> DEFINE rest == Tail(job.tags)
  <2>1. /\ rest \in Seq(Element) /\ job' = [job EXCEPT !.tags = rest, !.at = at]
        /\ Remain(rest, at, b)
    BY <1>2, <1>3
  <2> HIDE DEF rest
  <2>2. \E w \in Written : WrittenAlso(w)
    BY <1>4
  <2> QED
    BY <2>1, <2>2, AddGoesOn
<1>6. Last(at) \in Path
  BY ChainHere
<1>7. DescInv'
  BY <1>4, <1>5, <1>6, NotedDescs
<1>8. ShapeInv'
  BY DEF IInv, ShapeInv
<1>9. CountInv'
  <2>1. \A m, p, k, i, f : Claim(m, p, k, i, f)' <=> Claim(m, p, k, i, f)
    BY <1>4, <1>5, NotedClaims
  <2>2. \A f \in Path : Open(f)' <=> Open(f)
    BY <1>1, <1>5
  <2> QED
    BY <2>1, <2>2, CountsKept DEF IInv
<1> QED
  BY <1>4, <1>5, <1>7, <1>8, <1>9 DEF IInv

\* The end of a folder is written, and the addition is back where it was.
LEMMA FolderAddedStep ==
    ASSUME IInv, FolderAdded
    PROVE  IInv'
<1> DEFINE b == Current[Len(Current)].bag
           t == [tag |-> "end"]
           at == Front(job.at)
<1>1. /\ Adding /\ job.at # <<>> /\ job.tags # <<>> /\ Tag.tag = "end"
      /\ UNCHANGED <<m_containers, refs, born, layout>>
      /\ m_uidescs' = Noted(t)
  BY DEF FolderAdded, HasTag, InBag
<1>2. job \in AddJob /\ job.at \in Seq(Path) /\ Chain(job.at, b) /\ Len(job.at) \in Nat
  BY <1>1, AddingIs, AddingTo
<1>3. Len(job.at) >= 2
  BY <1>1, AddTag
<1>4. job' = [Pop EXCEPT !.at = at]
  BY <1>2 DEF FolderAdded, Pop, AddJob
<1>5. /\ at \in Seq(Path) /\ Chain(at, b)
      /\ Len(at) = Len(job.at) - 1 /\ Child(Last(at), Here)
  BY <1>2, <1>3, ChainOff DEF Here
<1>6. t \in Written /\ t.tag = "end"
  BY DEF Written
<1>7. Len(at) = Len(job.at) + (IF Tag.tag = "folder" THEN 1
                               ELSE IF Tag.tag = "end" THEN -1 ELSE 0)
  BY <1>1, <1>2, <1>5
<1> HIDE DEF b, t, at
<1> QED
  BY <1>1, <1>4, <1>5, <1>6, <1>7, PutIn DEF b

\* An item or separator stays where the addition is.
LEMMA PutHere ==
    ASSUME IInv, Adding, job.at # <<>>, job.tags # <<>>, Tag.tag \in {"item", "separator"},
           UNCHANGED <<m_containers, refs, born>>, DOMAIN layout' = DOMAIN layout,
           job' = Pop,
           \/ UNCHANGED m_uidescs
           \/ \E t \in Written : t.tag \notin {"folder", "end"} /\ m_uidescs' = Noted(t)
    PROVE  IInv'
<1> DEFINE b == Current[Len(Current)].bag
<1>1. job \in AddJob /\ job.at \in Seq(Path) /\ Chain(job.at, b) /\ Len(job.at) \in Nat
  BY AddingIs, AddingTo
<1>2. Len(job.at) = Len(job.at) + (IF Tag.tag = "folder" THEN 1
                                   ELSE IF Tag.tag = "end" THEN -1 ELSE 0)
  <2> DEFINE n == Len(job.at)
             delta == IF Tag.tag = "folder" THEN 1 ELSE IF Tag.tag = "end" THEN -1 ELSE 0
  <2>1. n \in Nat /\ delta = 0
    BY <1>1
  <2> HIDE DEF n, delta
  <2>2. n = n + delta
    BY <2>1
  <2> QED
    BY <2>2 DEF n, delta
<1>3. CASE UNCHANGED m_uidescs
  <2> DEFINE rest == Tail(job.tags)
  <2>1. rest \in Seq(Element) /\ Remain(rest, job.at, b)
    BY <1>2, TheNextRemain
  <2>2. job' = [job EXCEPT !.tags = rest]
    BY DEF Pop
  <2> HIDE DEF rest, b
  <2> QED
    BY <1>3, <2>1, <2>2, LeftOut DEF b
<1>4. CASE \E t \in Written : t.tag \notin {"folder", "end"} /\ m_uidescs' = Noted(t)
  <2> DEFINE at == job.at
  <2>1. PICK t \in Written : t.tag \notin {"folder", "end"} /\ m_uidescs' = Noted(t)
    BY <1>4
  <2>2. job' = [Pop EXCEPT !.at = at]
    BY <1>1 DEF Pop, AddJob
  <2>3. Last(at) = Here
    BY DEF Here
  <2> HIDE DEF b
  <2> QED
    BY <1>1, <1>2, <2>1, <2>2, <2>3, PutIn DEF b
<1> QED
  BY <1>3, <1>4

LEMMA ShowsIs ==
    ASSUME NEW o, Shows(o)
    PROVE  DOMAIN layout' = DOMAIN layout
BY DEF Shows

\* Items count nothing.
LEMMA AddItemStep ==
    ASSUME IInv, addItem
    PROVE  IInv'
<1>1. /\ Adding /\ job.at # <<>> /\ job.tags # <<>> /\ Tag.tag = "item"
      /\ UNCHANGED <<m_containers, refs, born>> /\ job' = Pop
  BY DEF addItem, HasTag, InBag
<1>2. DOMAIN layout' = DOMAIN layout
  BY ShowsIs DEF addItem
<1>3. Tag \in Element
  BY <1>1, AddTag
<1>4. [tag |-> "item", o |-> <<Tag.n>>] \in Written
  <2>1. Tag.n \in Bag \cup STRING
    BY <1>3 DEF Element
  <2>2. <<Tag.n>> \in Path
    BY <2>1 DEF Path
  <2> QED
    BY <2>2 DEF Written
<1>5. \/ UNCHANGED m_uidescs
      \/ \E t \in Written : t.tag \notin {"folder", "end"} /\ m_uidescs' = Noted(t)
  <2> DEFINE t == [tag |-> "item", o |-> <<Tag.n>>]
  <2>1. t \in Written /\ t.tag \notin {"folder", "end"}
    BY <1>4
  <2>2. UNCHANGED m_uidescs \/ m_uidescs' = Noted(t)
    BY DEF addItem
  <2> HIDE DEF t
  <2> QED
    BY <2>1, <2>2
<1> QED
  BY <1>1, <1>2, <1>5, PutHere

LEMMA HereIs ==
    ASSUME IInv, Adding, job.at # <<>>, NEW b, b = Current[Len(Current)].bag
    PROVE  Here \in Path /\ Len(Here) = Len(job.at) /\ Here[1] = b /\ Len(Here) >= 1 /\ b \in Bag
<1>1. Chain(job.at, b) /\ b \in Bag
  BY AddingTo
<1> QED
  BY <1>1, ChainHere DEF Here

\* Nor do separators.
LEMMA AddSeparatorStep ==
    ASSUME IInv, addSeparator
    PROVE  IInv'
<1>1. /\ Adding /\ job.at # <<>> /\ job.tags # <<>> /\ Tag.tag = "separator"
      /\ UNCHANGED <<m_containers, refs, born>> /\ job' = Pop
  BY DEF addSeparator, HasTag, InBag
<1>2. DOMAIN layout' = DOMAIN layout
  BY ShowsIs DEF addSeparator
<1>3. Tag \in Element
  BY <1>1, AddTag
<1> DEFINE t == [tag |-> "separator", o |-> Append(Here, Tag.n)]
<1>4. t \in Written /\ t.tag \notin {"folder", "end"}
  <2>1. Tag.n \in Bag \cup STRING
    BY <1>3 DEF Element
  <2>2. Here \in Path /\ Len(Here) >= 1
    BY <1>1, HereIs
  <2>3. Append(Here, Tag.n) \in Path
    BY <2>1, <2>2, AppendIsChild DEF Child
  <2> QED
    BY <2>3 DEF Written
<1>5. UNCHANGED m_uidescs \/ m_uidescs' = Noted(t)
  BY DEF addSeparator
<1> HIDE DEF t
<1> QED
  BY <1>1, <1>2, <1>4, <1>5, PutHere

\* What is skipped ends at the depth where it began.
LEMMA SkipFolderStep ==
    ASSUME IInv, SkipFolder
    PROVE  IInv'
<1> DEFINE b == Current[Len(Current)].bag
           rest == Skipped(job.tags)
<1>1. /\ Adding /\ job.at # <<>> /\ job.tags # <<>> /\ Tag.tag = "folder"
      /\ UNCHANGED <<m_containers, refs, born, layout, m_uidescs>>
      /\ job' = [job EXCEPT !.tags = rest]
  BY DEF SkipFolder, HasTag, InBag
<1>2. rest \in Seq(Element) /\ Remain(rest, job.at, b)
  <2>1. PICK e \in ToSet(uidef(job.part)) : \E r :
                 /\ e.bag = BagName(b) /\ e.tags \in Seq(Element) /\ Balanced(e.tags)
                 /\ Suffix(job.tags, e.tags, r)
                 /\ Depth(e.tags, r + 1) = Len(job.at) - 1
    BY <1>1, AddTag
  <2>2. PICK r : /\ e.bag = BagName(b) /\ e.tags \in Seq(Element) /\ Balanced(e.tags)
                 /\ Suffix(job.tags, e.tags, r)
                 /\ Depth(e.tags, r + 1) = Len(job.at) - 1
    BY <2>1
  <2>3. job.tags[1].tag = "folder"
    BY <1>1, AddTag
  <2> DEFINE s == e.tags
             u == job.tags
  <2>4. s \in Seq(Element) /\ Balanced(s) /\ Suffix(u, s, r) /\ u # <<>> /\ u[1].tag = "folder"
    BY <1>1, <2>2, <2>3
  <2> HIDE DEF s, u
  <2>5. PICK q : Suffix(Skipped(u), s, q) /\ Depth(s, q + 1) = Depth(s, r + 1)
    BY <2>4, SkippedFolder
  <2>6. Skipped(u) \in Seq(Element)
    BY <2>4, <2>5, SuffixByIndex
  <2>7. Suffix(rest, e.tags, q) /\ Depth(e.tags, q + 1) = Len(job.at) - 1
    BY <2>2, <2>5 DEF s, u
  <2> QED
    BY <2>2, <2>6, <2>7 DEF u, Remain
<1> HIDE DEF b, rest
<1> QED
  BY <1>1, <1>2, LeftOut DEF b

\* What OneDepth says of two folders of one name.
LEMMA OneDepthIs ==
    ASSUME Orderly, NEW p \in Part, NEW q \in Part,
           NEW e \in ToSet(uidef(p)), NEW h \in ToSet(uidef(q)), e.bag = h.bag,
           NEW i \in DOMAIN e.tags, NEW j \in DOMAIN h.tags,
           e.tags[i].tag = "folder", h.tags[j].tag = "folder", e.tags[i].n = h.tags[j].n
    PROVE  Depth(e.tags, i) = Depth(h.tags, j)
<1>1. e \in UNION {ToSet(uidef(r)) : r \in Part} /\ h \in UNION {ToSet(uidef(r)) : r \in Part}
  OBVIOUS
<1> QED
  BY <1>1 DEF Orderly, OneDepth

\* The folder that is found is directly in the one that the addition is in.
LEMMA FoundIs ==
    ASSUME IInv, Orderly, Adding, HasTag("folder"),
           NEW f \in findChild(Here, Tag.n)
    PROVE  f = Append(Here, Tag.n) /\ f \in DOMAIN refs
<1> DEFINE b == Current[Len(Current)].bag
           n == Tag.n
<1>1. job.at # <<>> /\ job.tags # <<>> /\ Tag.tag = "folder"
  BY DEF HasTag, InBag
<1>2. f \in DOMAIN refs /\ IsStrictPrefix(Here, f) /\ Last(f) = n
  BY DEF findChild
<1>3. Here \in Path /\ Len(Here) = Len(job.at) /\ Here[1] = b /\ Len(Here) >= 1 /\ b \in Bag
      /\ Len(job.at) \in Nat
  BY <1>1, HereIs, AddingIs
<1>4. f \in Path /\ Len(f) >= 2 /\ f[1] \in Bag /\ Described(f)
  BY <1>2 DEF IInv, CountInv, FolderType
<1>5. Within(Here, f)
  BY <1>2, <1>3, <1>4, PrefixIsWithin DEF IsStrictPrefix
<1>6. f[1] = b
  BY <1>3, <1>5 DEF Within
<1>7. PICK q \in Part : \E h \in ToSet(uidef(q)) : \E j \in DOMAIN h.tags :
         /\ h.bag = BagName(b)
         /\ h.tags[j].tag = "folder" /\ h.tags[j].n = n
         /\ Depth(h.tags, j) = Len(f) - 2
  BY <1>2, <1>4, <1>6 DEF Described
<1> PICK h \in ToSet(uidef(q)) : \E j \in DOMAIN h.tags :
         /\ h.bag = BagName(b)
         /\ h.tags[j].tag = "folder" /\ h.tags[j].n = n
         /\ Depth(h.tags, j) = Len(f) - 2
  BY <1>7
<1>18. PICK j \in DOMAIN h.tags :
         /\ h.bag = BagName(b)
         /\ h.tags[j].tag = "folder" /\ h.tags[j].n = n
         /\ Depth(h.tags, j) = Len(f) - 2
  OBVIOUS
<1>8. PICK e \in ToSet(uidef(job.part)) : \E r :
                 /\ e.bag = BagName(b)
                 /\ r + 1 \in DOMAIN e.tags /\ e.tags[r + 1] = Tag
                 /\ Depth(e.tags, r + 1) = Len(job.at) - 1
  BY <1>1, AddTag
<1>9. PICK r :   /\ e.bag = BagName(b)
                 /\ r + 1 \in DOMAIN e.tags /\ e.tags[r + 1] = Tag
                 /\ Depth(e.tags, r + 1) = Len(job.at) - 1
  BY <1>8
<1> DEFINE i == r + 1
<1>10. /\ i \in DOMAIN e.tags /\ e.tags[i].tag = "folder" /\ e.tags[i].n = n
       /\ Depth(e.tags, i) = Len(job.at) - 1 /\ e.bag = h.bag
  BY <1>1, <1>18, <1>9
<1> HIDE DEF i
<1>11. job.part \in Part
  BY AddingIs
<1>12. Depth(e.tags, i) = Depth(h.tags, j)
  <2>1. e.tags[i].n = h.tags[j].n /\ h.tags[j].tag = "folder"
    BY <1>18, <1>10
  <2> QED
    BY <1>10, <1>11, <2>1, OneDepthIs
<1>13. Len(f) = Len(Here) + 1
  <2>1. Len(f) \in Nat
    BY <1>4, PathLen
  <2>2. Len(job.at) - 1 = Len(f) - 2
    BY <1>18, <1>10, <1>12
  <2> QED
    BY <1>3, <2>1, <2>2
<1>14. n \in Bag \cup STRING
  <2>1. Tag \in Element
    BY <1>1, AddTag
  <2> QED
    BY <2>1 DEF Element
<1> DEFINE g == Append(Here, n)
<1>15. Child(Here, g) /\ Len(g) = Len(Here) + 1 /\ Last(g) = n
  BY <1>3, <1>14, AppendIsChild
<1> HIDE DEF g, n
<1>16. \A k \in 1 .. Len(f) : f[k] = g[k]
  <2> TAKE k \in 1 .. Len(f)
  <2>1. CASE k = Len(f)
    BY <1>2, <1>13, <1>15, <2>1 DEF Last
  <2>2. CASE k \in 1 .. Len(Here)
    BY <1>5, <1>15, <2>2 DEF Within, Child
  <2> QED
    BY <1>3, <1>13, <2>1, <2>2
<1>17. f = g
  BY <1>4, <1>13, <1>15, <1>16, SamePath DEF Child
<1> QED
  BY <1>2, <1>17 DEF g, n

\* What findChild does not give at any depth is not there.
LEMMA NotFoundIs ==
    ASSUME NEW c \in Path, Len(c) >= 1, NEW n \in Bag \cup STRING, findChild(c, n) = {}
    PROVE  Append(c, n) \notin DOMAIN refs
<1> DEFINE g == Append(c, n)
<1>1. Child(c, g) /\ Len(g) = Len(c) + 1 /\ Last(g) = n /\ Len(c) \in Nat
  BY AppendIsChild, PathLen
<1> HIDE DEF g
<1>2. IsStrictPrefix(c, g)
  <2>1. c # g
    BY <1>1
  <2> QED
    BY <1>1, <2>1, PrefixIsWithin DEF IsStrictPrefix, Child
<1> QED
  BY <1>1, <1>2 DEF findChild, g

\* A folder is found or made, counted, and its pointer written.
LEMMA AddFolderStep ==
    ASSUME IInv, Orderly, addFolder
    PROVE  IInv'
<1> DEFINE b == Current[Len(Current)].bag
           found == findChild(Here, Tag.n)
           g == Append(Here, Tag.n)
           t == [tag |-> "folder", o |-> g]
           at == Append(job.at, g)
<1>1. /\ Adding /\ HasTag("folder")
      /\ job.at # <<>> /\ job.tags # <<>> /\ Tag.tag = "folder"
      /\ m_containers' = m_containers
  BY DEF addFolder, HasTag, InBag
<1>2. /\ job \in AddJob /\ job.at \in Seq(Path) /\ Chain(job.at, b) /\ Len(job.at) \in Nat
      /\ \A f : ~ Open(f)
  BY <1>1, AddingIs, AddingTo
<1>3. Here \in Path /\ Len(Here) = Len(job.at) /\ Here[1] = b /\ Len(Here) >= 1 /\ b \in Bag
  BY <1>1, HereIs
<1>4. Tag.n \in Bag \cup STRING
  <2>1. Tag \in Element
    BY <1>1, AddTag
  <2> QED
    BY <2>1 DEF Element
<1>5. Child(Here, g) /\ Len(g) = Len(Here) + 1 /\ Last(g) = Tag.n
  BY <1>3, <1>4, AppendIsChild
<1>6. /\ found # {} => g \in DOMAIN refs
      /\ found = {} => g \notin DOMAIN refs
      /\ found \subseteq {g}
  BY <1>1, <1>3, <1>4, FoundIs, NotFoundIs
<1> DEFINE InPlace(f) ==
              /\ refs' = Counted(f)
              /\ IF found # {} THEN UNCHANGED <<born, layout, priority>>
                 ELSE /\ born' = Append(born, f)
                      /\ IF ShowsFolders(Here)
                         THEN /\ priority' = WithPriority(Here, f, Tag.p)
                              /\ layout' = With([layout EXCEPT ![Here] =
                                                     Inserted(priority', Here, f, Tag.p)],
                                                 f, <<>>)
                         ELSE layout' = With(layout, f, <<>>) /\ UNCHANGED priority
              /\ m_uidescs' = Noted([tag |-> "folder", o |-> f])
              /\ job' = [Pop EXCEPT !.at = Append(@, f)]
<1>7. InPlace(g)
  <2>1. PICK f \in IF found # {} THEN found ELSE {g} : InPlace(f)
    BY DEF addFolder
  <2>2. f = g
    BY <1>6, <2>1
  <2> QED
    BY <2>1, <2>2
<1>8. /\ refs' = Counted(g) /\ m_uidescs' = Noted(t)
      /\ DOMAIN layout' = DOMAIN layout \cup (IF found # {} THEN {} ELSE {g})
      /\ born' = IF found # {} THEN born ELSE Append(born, g)
  BY <1>7 DEF With
<1>9. job' = [job EXCEPT !.tags = Tail(job.tags), !.at = at]
  BY <1>2, <1>7 DEF Pop, AddJob
<1>10. t \in Written /\ t.tag = "folder" /\ t.o = g /\ g \in Path
  BY <1>5 DEF Written, Child
<1> HIDE DEF t, found, InPlace
<1>11. /\ at \in Seq(Path) /\ Chain(at, b)
       /\ Len(at) = Len(job.at) + 1 /\ Last(at) = g
  BY <1>2, <1>5, ChainOn DEF Here
<1> HIDE DEF at
<1>12. WrittenAlso(t) /\ DescType'
  BY <1>1, <1>8, <1>10, NotedIs
<1>13. Tail(job.tags) \in Seq(Element) /\ Remain(Tail(job.tags), at, b)
  <2>1. Len(at) = Len(job.at) + (IF Tag.tag = "folder" THEN 1
                                 ELSE IF Tag.tag = "end" THEN -1 ELSE 0)
    BY <1>1, <1>11
  <2> HIDE DEF b
  <2> QED
    BY <1>1, <2>1, TheNextRemain DEF b
<1>14. /\ JobType' /\ AddInv' /\ RemoveInv'
       /\ Adding' /\ ~ Removing' /\ job'.m = job.m /\ job'.part = job.part
       /\ job'.at # <<>> /\ Here' = g
       /\ \A f : ~ Open(f)'
  <2> DEFINE rest == Tail(job.tags)
  <2>1. /\ rest \in Seq(Element) /\ job' = [job EXCEPT !.tags = rest, !.at = at]
        /\ Remain(rest, at, b) /\ Chain(at, b) /\ at \in Seq(Path) /\ Last(at) = g
    BY <1>9, <1>11, <1>13
  <2>2. \E w \in Written : WrittenAlso(w)
    BY <1>10, <1>12
  <2> HIDE DEF rest, b, g
  <2> QED
    BY <1>1, <2>1, <2>2, AddGoesOn DEF b
<1>15. DescInv'
  BY <1>1, <1>5, <1>10, <1>12, <1>14, NotedDescs
<1>16. CountInv' /\ DOMAIN refs' = DOMAIN refs \cup {g}
  <2> DEFINE n == Len(Current)
             i == Len(Current[n].tags) + 1
  <2>1. /\ \A l, q, k, j, f : Claim(l, q, k, j, f)' <=>
              \/ Claim(l, q, k, j, f)
              \/ f = g /\ <<l, q, k, j>> = <<job.m, job.part, n, i>>
        /\ ~ Claim(job.m, job.part, n, i, g)
    <3>1. t \in Written /\ WrittenAlso(t) /\ Adding /\ ~ Removing' /\ job.at # <<>>
      BY <1>1, <1>10, <1>12, <1>14
    <3> HIDE DEF g
    <3>2. /\ \A l, q, k, j, f : Claim(l, q, k, j, f)' <=>
                \/ Claim(l, q, k, j, f)
                \/ /\ t.tag = "folder" /\ f = t.o
                   /\ <<l, q, k, j>> = <<job.m, job.part, n, i>>
          /\ \A f : ~ Claim(job.m, job.part, n, i, f)
      BY <3>1, NotedClaims
    <3> HIDE DEF n, i
    <3> QED
      BY <1>10, <3>2
  <2>2. g \in Path /\ Len(g) >= 2 /\ g[1] \in Bag
    <3>1. Len(Here) \in Nat
      BY <1>2, <1>3
    <3> QED
      BY <1>3, <1>5, <1>10, <3>1 DEF Child, Within
  <2>3. Described(g)
    <3>1. g[1] = b
      BY <1>2, <1>3, <1>5 DEF Child, Within
    <3>2. PICK e \in ToSet(uidef(job.part)) : \E r :
                 /\ e.bag = BagName(b)
                 /\ r + 1 \in DOMAIN e.tags /\ e.tags[r + 1] = Tag
                 /\ Depth(e.tags, r + 1) = Len(job.at) - 1
      BY <1>1, AddTag
    <3>3. PICK r : /\ e.bag = BagName(b)
                   /\ r + 1 \in DOMAIN e.tags /\ e.tags[r + 1] = Tag
                   /\ Depth(e.tags, r + 1) = Len(job.at) - 1
      BY <3>2
    <3> DEFINE j == r + 1
    <3>4. /\ e.bag = BagName(g[1]) /\ j \in DOMAIN e.tags
          /\ e.tags[j].tag = "folder" /\ e.tags[j].n = Last(g)
      BY <1>1, <1>5, <3>1, <3>3
    <3>5. Depth(e.tags, j) = Len(g) - 2
      <4>1. Depth(e.tags, j) = Len(job.at) - 1
        BY <3>3
      <4> HIDE DEF j
      <4>2. Len(g) = Len(job.at) + 1 /\ Len(job.at) \in Nat
        BY <1>2, <1>3, <1>5
      <4> QED
        BY <4>1, <4>2
    <3>6. job.part \in Part
      BY <1>1, AddingIs
    <3> HIDE DEF j, g
    <3> QED
      BY <3>4, <3>5, <3>6 DEF Described
  <2>4. \A f \in Path : ~ Open(f) /\ ~ Open(f)'
    BY <1>2, <1>14
  <2> HIDE DEF n, i, g
  <2> QED
    BY <1>8, <2>1, <2>2, <2>3, <2>4, CountsMore DEF IInv
<1>17. ShapeInv'
  <2>1. /\ DOMAIN layout = DOMAIN refs \cup {Container(x) : x \in Bag}
        /\ born \in Seq(Path) /\ Once(born) /\ ToSet(born) = DOMAIN refs
    BY DEF IInv, ShapeInv
  <2>2. DOMAIN layout' = DOMAIN refs' \cup {Container(x) : x \in Bag}
    BY <1>6, <1>8, <1>16, <2>1
  <2>3. born' \in Seq(Path) /\ Once(born') /\ ToSet(born') = DOMAIN refs'
    <3>1. CASE found # {}
      <4>1. DOMAIN refs' = DOMAIN refs /\ born' = born
        BY <1>6, <1>8, <1>16, <3>1
      <4> QED
        BY <2>1, <4>1
    <3>2. CASE found = {}
      <4> DEFINE more == Append(born, g)
                 n == Len(born)
      <4>1. /\ more \in Seq(Path) /\ Len(more) = n + 1 /\ more[n + 1] = g /\ n \in Nat
            /\ \A k \in 1 .. n : more[k] = born[k]
        BY <1>10, <2>1, AppendProperties
      <4>2. born' = more /\ g \notin DOMAIN refs /\ DOMAIN refs' = DOMAIN refs \cup {g}
        BY <1>6, <1>8, <1>16, <3>2
      <4>3. DOMAIN more = 1 .. n + 1 /\ DOMAIN born = 1 .. n
        BY <2>1, <4>1
      <4> HIDE DEF more, n, g
      <4>4. ToSet(more) = ToSet(born) \cup {g}
        BY <4>1, <4>3 DEF ToSet
      <4>5. \A k \in 1 .. n : born[k] # g
        BY <2>1, <4>2, <4>3 DEF ToSet
      <4>6. Once(more)
        <5> SUFFICES ASSUME NEW x \in 1 .. n + 1, NEW y \in 1 .. n + 1, more[x] = more[y]
                     PROVE  x = y
          BY <4>1 DEF Once
        <5>1. CASE x \in 1 .. n /\ y \in 1 .. n
          <6>1. Len(born) = n
            BY DEF n
          <6> QED
            BY <2>1, <4>1, <5>1, <6>1 DEF Once
        <5>2. CASE x = n + 1 \/ y = n + 1
          BY <4>1, <4>5, <5>2
        <5> QED
          BY <4>1, <5>1, <5>2
      <4> QED
        BY <2>1, <4>1, <4>2, <4>4, <4>6
    <3> QED
      BY <3>1, <3>2
  <2> QED
    BY <2>2, <2>3 DEF ShapeInv
<1> QED
  BY <1>12, <1>14, <1>15, <1>16, <1>17 DEF IInv

-----------------------------------------------------------------------------
(* The tags that are removed.                                              *)

\* What a removal is about.
LEMMA RemovingIs ==
    ASSUME IInv, Removing, job.part # None
    PROVE  /\ job \in RemoveJob /\ ~ Adding
           /\ job.m \in Level /\ job.part \in Part /\ job.part \in DOMAIN m_uidescs[job.m]
           /\ job.bags \in Seq(WrittenBag) /\ job.tags \in Seq(Written) /\ job.at \in Seq(Path)
           /\ Current \in Seq(WrittenBag) /\ Len(Current) \in Nat
           /\ Current = m_uidescs[job.m][job.part]
           /\ \A m, p, k : ~ Writes(m, p, k)
           /\ \E k : Suffix(job.bags, Current, k)
<1>1. job \in RemoveJob /\ ~ Adding
  BY JobKinds DEF IInv
<1>2. job.part \in DOMAIN m_uidescs[job.m] /\ \E k : Suffix(job.bags, Current, k)
  BY DEF IInv, RemoveInv
<1>3. /\ job.m \in Level
      /\ job.bags \in Seq(WrittenBag) /\ job.tags \in Seq(Written) /\ job.at \in Seq(Path)
  BY <1>1 DEF RemoveJob
<1>4. Current \in Seq(WrittenBag) /\ Current = m_uidescs[job.m][job.part] /\ job.part \in Part
  BY <1>2, <1>3 DEF IInv, DescType, Current
<1>5. Len(Current) \in Nat
  BY <1>4
<1>6. \A m, p, k : ~ Writes(m, p, k)
  BY NotWriting
<1> QED
  BY <1>1, <1>2, <1>3, <1>4, <1>5, <1>6

\* What was written for a container leads through it and back.
LEMMA DescribedIs ==
    ASSUME IInv, Removing, NEW m \in Level, NEW p \in DOMAIN m_uidescs[m],
           NEW k \in DOMAIN m_uidescs[m][p], NEW e, e = m_uidescs[m][p][k]
    PROVE  /\ e.bag \in Bag /\ e.bag \in m_containers /\ e.tags \in Seq(Written)
           /\ Passes(e.bag, e.tags, 1, Container(e.bag))
<1>1. m_uidescs[m][p] \in Seq(WrittenBag)
  BY DEF IInv, DescType
<1>2. k \in 1 .. Len(m_uidescs[m][p]) /\ e \in WrittenBag
  BY <1>1
<1>3. e.bag \in Bag /\ e.tags \in Seq(Written)
  BY <1>2 DEF WrittenBag
<1>4. ~ Writes(m, p, k)
  BY NotWriting
<1>5. e.bag \in m_containers /\ Reaches(e.bag, e.tags, Container(e.bag))
  BY <1>2, <1>4 DEF IInv, DescInv
<1> QED
  BY <1>3, <1>5, PassesStart

\* With entry k read up to tag i, that is what is passed.
UpTo(k, i, k1, i1) == k1 < k \/ (k1 = k /\ i1 <= i)

ReadUpTo(k, i, m, p, k1, i1) == m = job.m /\ p = job.part /\ UpTo(k, i, k1, i1)

LEMMA ReadUpToIs ==
    ASSUME NEW d \in Seq(WrittenBag), NEW bags, NEW tags,
           NEW k, Suffix(bags, d, k), NEW i \in Nat,
           k \in 1 .. Len(d) => Len(d[k].tags) - Len(tags) = i
    PROVE  \A k1 \in DOMAIN d : \A i1 \in Nat :
              Behind(d, bags, tags, k1, i1) <=> UpTo(k, i, k1, i1)
<1>1. /\ k \in Nat /\ Len(d) \in Nat /\ k <= Len(d)
      /\ Len(bags) = Len(d) - k
  BY SuffixByIndex
<1>2. Len(d) - Len(bags) = k
  BY <1>1
<1> SUFFICES ASSUME NEW k1 \in DOMAIN d, NEW i1 \in Nat
             PROVE  (\/ k1 < k
                     \/ k1 = k /\ i1 <= Len(d[k1].tags) - Len(tags))
                    <=> (k1 < k \/ (k1 = k /\ i1 <= i))
  BY <1>2 DEF Behind, UpTo
<1>3. k1 \in 1 .. Len(d)
  OBVIOUS
<1>4. k1 = k => Len(d[k1].tags) - Len(tags) = i
  BY <1>3
<1> QED
  BY <1>4

LEMMA PassedIs ==
    ASSUME Removing, NEW d \in Seq(WrittenBag), d = m_uidescs[job.m][job.part],
           NEW k, Suffix(job.bags, d, k), NEW i \in Nat,
           k \in 1 .. Len(d) => Len(d[k].tags) - Len(job.tags) = i
    PROVE  \A m, p, k1, i1 : Real(m, p, k1) /\ i1 \in Nat =>
              (Passed(m, p, k1, i1) <=> ReadUpTo(k, i, m, p, k1, i1))
<1>1. \A k1 \in DOMAIN d : \A i1 \in Nat :
              Behind(d, job.bags, job.tags, k1, i1) <=> UpTo(k, i, k1, i1)
  BY ReadUpToIs
<1> QED
  BY <1>1 DEF Passed, Real, ReadUpTo

LEMMA PassedNext ==
    ASSUME Removing', NEW d \in Seq(WrittenBag), d = m_uidescs'[job'.m][job'.part],
           job'.m = job.m, job'.part = job.part,
           NEW k, Suffix(job'.bags, d, k), NEW i \in Nat,
           k \in 1 .. Len(d) => Len(d[k].tags) - Len(job'.tags) = i
    PROVE  \A m, p, k1, i1 : Real(m, p, k1)' /\ i1 \in Nat =>
              (Passed(m, p, k1, i1)' <=> ReadUpTo(k, i, m, p, k1, i1))
<1>1. \A k1 \in DOMAIN d : \A i1 \in Nat :
              Behind(d, job'.bags, job'.tags, k1, i1) <=> UpTo(k, i, k1, i1)
  BY ReadUpToIs
<1> QED
  BY <1>1 DEF Passed, Real, ReadUpTo

\* Descriptions are read bag by bag.
LEMMA ReopenBagStep ==
    ASSUME IInv, ReopenBag
    PROVE  IInv'
<1> DEFINE d == Current
           e == Head(job.bags)
           at == <<Container(e.bag)>>
<1>1. /\ Removing /\ job.part # None /\ job.at = <<>> /\ job.bags # <<>>
      /\ UNCHANGED <<m_containers, refs, born, layout, m_uidescs>>
  BY DEF ReopenBag
<1>2. /\ job \in RemoveJob /\ ~ Adding
      /\ job.m \in Level /\ job.part \in Part /\ job.part \in DOMAIN m_uidescs[job.m]
      /\ job.bags \in Seq(WrittenBag)
      /\ d \in Seq(WrittenBag) /\ Len(d) \in Nat /\ d = m_uidescs[job.m][job.part]
      /\ \A m, p, k : ~ Writes(m, p, k)
  BY <1>1, RemovingIs
<1>3. PICK k : Suffix(job.bags, d, k)
  BY <1>1, RemovingIs
<1>4. job.tags = <<>>
  BY <1>1 DEF IInv, RemoveInv
<1> HIDE DEF d
<1>5. /\ k + 1 \in 1 .. Len(d) /\ e = d[k + 1] /\ k \in Nat
      /\ Suffix(Tail(job.bags), d, k + 1)
  <2> DEFINE u == job.bags
  <2>1. d \in Seq(WrittenBag) /\ Suffix(u, d, k) /\ u # <<>>
    BY <1>1, <1>2, <1>3
  <2> HIDE DEF u
  <2>2. /\ k + 1 \in 1 .. Len(d) /\ Head(u) = d[k + 1]
        /\ Suffix(Tail(u), d, k + 1)
    BY <2>1, SuffixOf
  <2>3. k \in Nat
    BY <2>1, SuffixByIndex
  <2> QED
    BY <2>2, <2>3 DEF u
<1>6. /\ e.bag \in Bag /\ e.bag \in m_containers /\ e.tags \in Seq(Written)
      /\ Passes(e.bag, e.tags, 1, Container(e.bag))
  <2>1. k + 1 \in DOMAIN d
    BY <1>2, <1>5
  <2> HIDE DEF e
  <2> QED
    BY <1>1, <1>2, <1>5, <2>1, DescribedIs
<1>7. /\ Chain(at, e.bag) /\ at \in Seq(Path) /\ Len(at) = 1 /\ Last(at) = Container(e.bag)
      /\ at # <<>>
  BY <1>6, ChainStart, ChainHere
<1>8. Tail(job.bags) \in Seq(WrittenBag)
  BY <1>1, <1>2
<1>9. job' = [job EXCEPT !.bags = Tail(@), !.tags = e.tags, !.at = at]
  BY <1>6 DEF ReopenBag
<1> HIDE DEF e, at
<1>10. /\ job' \in RemoveJob /\ job'.op = job.op /\ job'.part = job.part /\ job'.m = job.m
       /\ job'.bags = Tail(job.bags) /\ job'.tags = e.tags /\ job'.at = at
  BY <1>2, <1>6, <1>7, <1>8, <1>9 DEF RemoveJob
<1>11. JobType' /\ Removing' /\ ~ Adding' /\ Here' = Container(e.bag) /\ Current' = d
  BY <1>1, <1>2, <1>7, <1>10 DEF JobType, Removing, Adding, Here, Current
<1>12. RemoveInv' /\ AddInv'
  <2> DEFINE l == k + 1
  <2>1. Suffix(e.tags, d[l].tags, 0) /\ d[l] = e /\ l \in 1 .. Len(d)
    BY <1>5, <1>6, SuffixAll
  <2>2. Suffix(job'.bags, d, l)
    BY <1>5, <1>10
  <2> HIDE DEF l
  <2>3. Passes(e.bag, e.tags, 0 + 1, Container(e.bag))
    BY <1>6
  <2>4. RemovesBag(l)'
    BY <1>7, <1>10, <1>11, <2>1, <2>3 DEF RemovesBag
  <2>5. RemoveInv'
    BY <1>1, <1>2, <1>7, <1>10, <1>11, <2>2, <2>4 DEF RemoveInv
  <2> QED
    BY <1>11, <2>5 DEF AddInv
<1>13. \A m, p, l : ~ Writes(m, p, l)'
  BY <1>11 DEF Writes
<1>14. DescType' /\ ShapeInv' /\ DescInv'
  BY <1>1, <1>2, <1>13, DescKept DEF IInv, DescType, ShapeInv
<1>15. CountInv'
  <2>1. ASSUME NEW m, NEW p, NEW k1, NEW i1, NEW f
        PROVE  Claim(m, p, k1, i1, f)' <=> Claim(m, p, k1, i1, f)
    <3>1. \A m1, p1, k2, i2 : Real(m1, p1, k2)' /\ i2 \in Nat =>
             (Passed(m1, p1, k2, i2)' <=> ReadUpTo(k + 1, 0, m1, p1, k2, i2))
      <4> DEFINE l == k + 1
                 n == 0
      <4>1. Len(d[l].tags) - Len(job'.tags) = n /\ n \in Nat
        BY <1>5, <1>6, <1>10
      <4>2. Suffix(job'.bags, d, l) /\ d = m_uidescs'[job'.m][job'.part]
        BY <1>1, <1>2, <1>5, <1>10
      <4> HIDE DEF l, n
      <4>3. \A m1, p1, k2, i2 : Real(m1, p1, k2)' /\ i2 \in Nat =>
             (Passed(m1, p1, k2, i2)' <=> ReadUpTo(l, n, m1, p1, k2, i2))
        BY <1>2, <1>10, <1>11, <4>1, <4>2, PassedNext
      <4> QED
        BY <4>3 DEF l, n
    <3>2. Real(m, p, k1) <=> Real(m, p, k1)'
      BY <1>1 DEF Real
    <3>3. ASSUME Real(m, p, k1), i1 \in DOMAIN m_uidescs[m][p][k1].tags
          PROVE  Passed(m, p, k1, i1)' <=> Passed(m, p, k1, i1)
      <4>1. /\ m \in Level /\ p \in DOMAIN m_uidescs[m] /\ k1 \in DOMAIN m_uidescs[m][p]
            /\ m_uidescs[m][p] \in Seq(WrittenBag)
        BY <3>3 DEF Real, IInv, DescType
      <4>2. m_uidescs[m][p][k1].tags \in Seq(Written) /\ k1 \in Nat /\ k1 >= 1
        BY <1>1, <4>1, DescribedIs
      <4>3. i1 \in 1 .. Len(m_uidescs[m][p][k1].tags) /\ i1 \in Nat \ {0}
            /\ Len(m_uidescs[m][p][k1].tags) \in Nat
        BY <3>3, <4>2
      <4>4. Passed(m, p, k1, i1)' <=> /\ m = job.m /\ p = job.part
                                      /\ k1 <= k
        BY <1>5, <3>1, <3>2, <3>3, <4>2, <4>3 DEF ReadUpTo, UpTo
      <4>5. Passed(m, p, k1, i1) <=> /\ m = job.m /\ p = job.part
                                     /\ k1 <= k
        <5> DEFINE n == IF k = 0 THEN 0 ELSE Len(d[k].tags)
        <5>1. n \in Nat
          <6>1. CASE k # 0
            <7>1. k \in DOMAIN d
              BY <1>2, <1>5, <6>1
            <7>2. d[k].tags \in Seq(Written)
              BY <1>1, <1>2, <7>1, DescribedIs
            <7> QED
              BY <6>1, <7>2
          <6> QED
            BY <6>1
        <5>2. k \in 1 .. Len(d) => Len(d[k].tags) - Len(job.tags) = n
          <6>1. Len(job.tags) = 0
            BY <1>4
          <6> QED
            BY <5>1, <6>1
        <5>3. CASE m = job.m /\ p = job.part /\ k1 = k
          <6>1. i1 <= n /\ k1 <= k
            BY <1>2, <4>2, <4>3, <5>3
          <6> HIDE DEF n
          <6>2. Passed(m, p, k1, i1) <=> ReadUpTo(k, n, m, p, k1, i1)
            BY <1>1, <1>2, <1>3, <3>3, <4>3, <5>1, <5>2, PassedIs
          <6> QED
            BY <5>3, <6>1, <6>2 DEF ReadUpTo, UpTo
        <5>4. CASE ~ (m = job.m /\ p = job.part /\ k1 = k)
          <6> HIDE DEF n
          <6>1. Passed(m, p, k1, i1) <=> ReadUpTo(k, n, m, p, k1, i1)
            BY <1>1, <1>2, <1>3, <3>3, <4>3, <5>1, <5>2, PassedIs
          <6> QED
            BY <1>5, <4>2, <5>4, <6>1 DEF ReadUpTo, UpTo
        <5> QED
          BY <5>3, <5>4
      <4> QED
        BY <4>4, <4>5
    <3> QED
      BY <1>1, <3>2, <3>3 DEF Claim, Real
  <2>2. \A f \in Path : Open(f)' <=> Open(f)
    <3> SUFFICES ASSUME NEW f \in Path
                 PROVE  ~ Open(f)' /\ ~ Open(f)
      OBVIOUS
    <3>1. Len(f) \in Nat /\ Len(Container(e.bag)) = 1
      BY <1>6, PathLen, ContainerPath
    <3>2. ~ Open(f)'
      BY <1>11, <3>1 DEF Open, Within
    <3> QED
      BY <1>1, <3>2 DEF Open
  <2> QED
    BY <1>1, <2>1, <2>2, CountsKept DEF IInv
<1> QED
  BY <1>11, <1>12, <1>14, <1>15 DEF IInv

\* The next tag is number i + 1 of entry k.
Reading(k, i) ==
    LET e == Current[k]
    IN /\ k \in DOMAIN Current /\ i \in Nat
       /\ e.bag \in Bag /\ e.tags \in Seq(Written)
       /\ Suffix(job.bags, Current, k)
       /\ Chain(job.at, e.bag)
       /\ i + 1 \in DOMAIN e.tags /\ e.tags[i + 1] = Tag
       /\ Suffix(job.tags, e.tags, i)
       /\ Suffix(Tail(job.tags), e.tags, i + 1)
       /\ Passes(e.bag, e.tags, i + 1, Here)

\* There is a tag to be read.
LEMMA RemoveTag ==
    ASSUME IInv, Removing, job.at # <<>>, job.tags # <<>>
    PROVE  /\ job.part # None
           /\ Tag \in Written /\ Tail(job.tags) \in Seq(Written)
           /\ \E k, i : Reading(k, i)
<1>1. job.part # None
  BY DEF IInv, RemoveInv
<1>2. /\ job.tags \in Seq(Written) /\ Current \in Seq(WrittenBag)
      /\ job.m \in Level /\ job.part \in DOMAIN m_uidescs[job.m]
      /\ Current = m_uidescs[job.m][job.part]
  BY <1>1, RemovingIs
<1>3. Tag \in Written /\ Tail(job.tags) \in Seq(Written)
  BY <1>2 DEF Tag
<1>4. PICK k : Suffix(job.bags, Current, k) /\ RemovesBag(k)
  BY <1>1 DEF IInv, RemoveInv
<1> DEFINE e == Current[k]
<1>5. PICK i :
       /\ k \in 1 .. Len(Current)
       /\ Chain(job.at, e.bag)
       /\ Suffix(job.tags, e.tags, i)
       /\ Passes(e.bag, e.tags, i + 1, Here)
  BY <1>4 DEF RemovesBag
<1>6. k \in DOMAIN Current
  <2>1. Current \in Seq(WrittenBag) /\ k \in 1 .. Len(Current)
    BY <1>2, <1>5
  <2> HIDE DEF e
  <2> QED
    BY <2>1
<1>7. e.bag \in Bag /\ e.tags \in Seq(Written)
  BY <1>2, <1>6, DescribedIs
<1>8. /\ i + 1 \in DOMAIN e.tags /\ e.tags[i + 1] = Tag /\ i \in Nat
      /\ Suffix(Tail(job.tags), e.tags, i + 1)
  <2> DEFINE s == e.tags
             t == job.tags
  <2>1. s \in Seq(Written) /\ Suffix(t, s, i) /\ t # <<>>
    BY <1>5, <1>7
  <2> HIDE DEF s, t
  <2>2. /\ i + 1 \in 1 .. Len(s) /\ Head(t) = s[i + 1]
        /\ Suffix(Tail(t), s, i + 1)
    BY <2>1, SuffixOf
  <2>3. i \in Nat
    BY <2>1, SuffixByIndex
  <2>4. DOMAIN s = 1 .. Len(s)
    BY <2>1
  <2> QED
    BY <2>2, <2>3, <2>4 DEF s, t, Tag
<1>9. Reading(k, i)
  BY <1>4, <1>5, <1>6, <1>7, <1>8 DEF Reading
<1> QED
  BY <1>1, <1>3, <1>9

\* What is passed when tag i + 1 of entry k is next.
LEMMA ReadingIs ==
    ASSUME IInv, Removing, job.at # <<>>, job.tags # <<>>, NEW k, NEW i, Reading(k, i)
    PROVE  /\ \A m, p, k1, i1 : Real(m, p, k1) /\ i1 \in Nat =>
                 (Passed(m, p, k1, i1) <=> ReadUpTo(k, i, m, p, k1, i1))
           /\ Len(Current[k].tags) - Len(Tail(job.tags)) = i + 1
<1> DEFINE d == Current
           s == d[k].tags
<1>1. /\ k \in DOMAIN d /\ i \in Nat /\ s \in Seq(Written)
      /\ Suffix(job.bags, d, k) /\ Suffix(job.tags, s, i) /\ Suffix(Tail(job.tags), s, i + 1)
  BY DEF Reading
<1>2. d \in Seq(WrittenBag) /\ d = m_uidescs[job.m][job.part]
  BY RemoveTag, RemovingIs
<1> HIDE DEF d, s
<1>3. Len(s) - Len(job.tags) = i
  <2>1. Len(job.tags) = Len(s) - i /\ Len(s) \in Nat
    BY <1>1, SuffixByIndex
  <2> QED
    BY <1>1, <2>1
<1>4. Len(s) - Len(Tail(job.tags)) = i + 1
  <2> DEFINE r == i + 1
             t == Tail(job.tags)
  <2>1. Suffix(t, s, r) /\ r \in Nat
    BY <1>1
  <2> HIDE DEF r, t
  <2>0. s \in Seq(Written)
    BY <1>1
  <2>2. Len(t) = Len(s) - r /\ Len(s) \in Nat
    BY <2>0, <2>1, SuffixByIndex
  <2>3. Len(s) - Len(t) = r
    BY <2>1, <2>2
  <2> QED
    BY <2>3 DEF r, t
<1>5. \A m, p, k1, i1 : Real(m, p, k1) /\ i1 \in Nat =>
                 (Passed(m, p, k1, i1) <=> ReadUpTo(k, i, m, p, k1, i1))
  BY <1>1, <1>2, <1>3, PassedIs DEF s
<1> QED
  BY <1>4, <1>5 DEF d, s

\* A removal goes on behind the tag, which is not claimed any more.
LEMMA RemoveGoesOn ==
    ASSUME IInv, Removing, job.at # <<>>, job.tags # <<>>, NEW k, NEW i, Reading(k, i),
           UNCHANGED <<m_containers, m_uidescs>>,
           NEW at \in Seq(Path), job' = [job EXCEPT !.tags = Tail(job.tags), !.at = at],
           Chain(at, Current[k].bag),
           Passes(Current[k].bag, Current[k].tags, i + 1 + 1, Last(at))
    PROVE  /\ JobType' /\ DescType' /\ DescInv' /\ AddInv' /\ RemoveInv'
           /\ Removing' /\ job'.at # <<>> /\ Here' = Last(at)
           /\ \A m, p, k1, i1, f : Claim(m, p, k1, i1, f)' <=>
                 Claim(m, p, k1, i1, f) /\ <<m, p, k1, i1>> # <<job.m, job.part, k, i + 1>>
           /\ \A f : Claim(job.m, job.part, k, i + 1, f) <=> Tag.tag = "folder" /\ Tag.o = f
<1> DEFINE d == Current
           e == d[k]
           j == i + 1
<1>1. /\ job.part # None /\ job \in RemoveJob /\ ~ Adding
      /\ job.m \in Level /\ job.part \in Part /\ job.part \in DOMAIN m_uidescs[job.m]
      /\ d \in Seq(WrittenBag) /\ d = m_uidescs[job.m][job.part]
      /\ \A m, p, l : ~ Writes(m, p, l)
      /\ Tail(job.tags) \in Seq(Written)
  BY RemoveTag, RemovingIs
<1>2. /\ k \in DOMAIN d /\ i \in Nat /\ e.tags \in Seq(Written)
      /\ j \in DOMAIN e.tags /\ e.tags[j] = Tag
      /\ Suffix(job.bags, d, k) /\ Suffix(Tail(job.tags), e.tags, j)
      /\ Passes(e.bag, e.tags, j + 1, Last(at)) /\ Chain(at, e.bag)
  BY DEF Reading
<1>3. /\ \A m, p, k1, i1 : Real(m, p, k1) /\ i1 \in Nat =>
                 (Passed(m, p, k1, i1) <=> ReadUpTo(k, i, m, p, k1, i1))
      /\ Len(e.tags) - Len(Tail(job.tags)) = j
  BY ReadingIs
<1>4. /\ job' \in RemoveJob /\ job'.op = job.op /\ job'.part = job.part /\ job'.m = job.m
      /\ job'.bags = job.bags /\ job'.tags = Tail(job.tags) /\ job'.at = at
  BY <1>1 DEF RemoveJob
<1>5. JobType' /\ Removing' /\ ~ Adding' /\ Here' = Last(at) /\ Current' = d
  BY <1>1, <1>4 DEF JobType, Removing, Adding, Here, Current
<1>6. at # <<>>
  BY ChainHere
<1> HIDE DEF d, e, j
<1>7. RemoveInv' /\ AddInv'
  <2>1. k \in 1 .. Len(d)
    BY <1>1, <1>2
  <2>2. RemovesBag(k)'
    BY <1>2, <1>4, <1>5, <2>1 DEF RemovesBag, e
  <2>3. RemoveInv'
    BY <1>1, <1>2, <1>4, <1>5, <1>6, <2>2 DEF RemoveInv
  <2> QED
    BY <1>5, <2>3 DEF AddInv
<1>8. \A m, p, l : ~ Writes(m, p, l)'
  BY <1>5 DEF Writes
<1>9. DescType' /\ DescInv'
  BY <1>1, <1>8, DescKept DEF IInv, DescType
<1>10. \A m, p, k1, i1 : Real(m, p, k1)' /\ i1 \in Nat =>
             (Passed(m, p, k1, i1)' <=> ReadUpTo(k, j, m, p, k1, i1))
  <2>0. Len(d[k].tags) - Len(job'.tags) = j
    BY <1>3, <1>4 DEF e
  <2>00. i \in Nat
    BY <1>2
  <2>01. j \in Nat
    BY <2>00 DEF j
  <2>1. Len(d[k].tags) - Len(job'.tags) = j /\ j \in Nat
    BY <2>0, <2>01
  <2>2. Suffix(job'.bags, d, k) /\ d = m_uidescs'[job'.m][job'.part]
    BY <1>1, <1>2, <1>4
  <2> QED
    BY <1>1, <1>4, <1>5, <2>1, <2>2, PassedNext
<1>11. \A m, p, l : Real(m, p, l)' <=> Real(m, p, l)
  BY DEF Real
<1>12. ASSUME NEW m, NEW p, NEW k1, NEW i1, Real(m, p, k1), i1 \in DOMAIN m_uidescs[m][p][k1].tags
       PROVE  i1 \in Nat /\ k1 \in Nat
  <2>1. /\ m \in Level /\ p \in DOMAIN m_uidescs[m] /\ k1 \in DOMAIN m_uidescs[m][p]
        /\ m_uidescs[m][p] \in Seq(WrittenBag)
    BY <1>12 DEF Real, IInv, DescType
  <2> DEFINE t == m_uidescs[m][p][k1].tags
  <2>2. t \in Seq(Written) /\ i1 \in DOMAIN t
    BY <1>12, <2>1, DescribedIs
  <2> HIDE DEF t
  <2>3. i1 \in Nat
    BY <2>2
  <2>4. k1 \in Nat
    BY <2>1
  <2> QED
    BY <2>3, <2>4
<1>13. k \in Nat /\ j = i + 1
  BY <1>1, <1>2 DEF j
<1>14. ASSUME NEW m, NEW p, NEW k1, NEW i1, NEW f
       PROVE  Claim(m, p, k1, i1, f)' <=>
                 Claim(m, p, k1, i1, f) /\ <<m, p, k1, i1>> # <<job.m, job.part, k, j>>
  <2>1. CASE Real(m, p, k1) /\ i1 \in DOMAIN m_uidescs[m][p][k1].tags
    <3>1. i1 \in Nat /\ k1 \in Nat
      BY <1>12, <2>1
    <3>2. Passed(m, p, k1, i1) <=> ReadUpTo(k, i, m, p, k1, i1)
      BY <1>3, <2>1, <3>1
    <3>3. Passed(m, p, k1, i1)' <=> ReadUpTo(k, j, m, p, k1, i1)
      BY <1>10, <1>11, <2>1, <3>1
    <3>4. ReadUpTo(k, j, m, p, k1, i1) <=>
             ReadUpTo(k, i, m, p, k1, i1) \/ <<m, p, k1, i1>> = <<job.m, job.part, k, j>>
      BY <1>2, <1>13, <3>1 DEF ReadUpTo, UpTo
    <3> QED
      BY <2>1, <3>2, <3>3, <3>4 DEF Claim, Real
  <2>2. CASE ~ (Real(m, p, k1) /\ i1 \in DOMAIN m_uidescs[m][p][k1].tags)
    BY <1>11, <2>2 DEF Claim, Real
  <2> QED
    BY <2>1, <2>2
<1>15. ASSUME NEW f
       PROVE  Claim(job.m, job.part, k, j, f) <=> Tag.tag = "folder" /\ Tag.o = f
  <2>0. d = m_uidescs[job.m][job.part] /\ k \in DOMAIN d
    BY <1>1, <1>2
  <2>1. Real(job.m, job.part, k) /\ e = m_uidescs[job.m][job.part][k]
    BY <1>1, <2>0 DEF Real, e
  <2>2. j \in Nat /\ ~ j <= i
    <3>1. i \in Nat
      BY <1>2
    <3> QED
      BY <1>13, <3>1
  <2>3. Passed(job.m, job.part, k, j) <=> ReadUpTo(k, i, job.m, job.part, k, j)
    BY <1>3, <2>1, <2>2
  <2>4. ~ Passed(job.m, job.part, k, j)
    BY <1>13, <2>2, <2>3 DEF ReadUpTo, UpTo
  <2>5. j \in DOMAIN e.tags /\ e.tags[j] = Tag
    BY <1>2
  <2>6. Claim(job.m, job.part, k, j, f) <=>
            /\ job.m \in Level /\ job.part \in Part /\ job.part \in DOMAIN m_uidescs[job.m]
            /\ k \in DOMAIN d /\ j \in DOMAIN e.tags
            /\ e.tags[j].tag = "folder" /\ e.tags[j].o = f
            /\ ~ Passed(job.m, job.part, k, j)
    BY <2>0, <2>1 DEF Claim
  <2> QED
    BY <1>1, <2>0, <2>4, <2>5, <2>6
<1> QED
  BY <1>4, <1>5, <1>6, <1>7, <1>9, <1>14, <1>15 DEF j

\* The pointer of a folder is read: it is open from now on.
LEMMA RemoveFolderStep ==
    ASSUME IInv, removeFolder
    PROVE  IInv'
<1>1. /\ Removing /\ job.at # <<>> /\ job.tags # <<>> /\ Tag.tag = "folder"
      /\ job' = [job EXCEPT !.tags = Tail(job.tags), !.at = Append(job.at, Tag.o)]
      /\ UNCHANGED <<m_containers, refs, born, layout, priority, m_uidescs>>
  BY DEF removeFolder, HasTag, InBag, Pop
<1>2. PICK k, i : Reading(k, i)
  BY <1>1, RemoveTag
<1> DEFINE e == Current[k]
           j == i + 1
           g == Tag.o
           at == Append(job.at, g)
<1>3. /\ e.tags \in Seq(Written) /\ j \in DOMAIN e.tags /\ e.tags[j] = Tag
      /\ Passes(e.bag, e.tags, j, Here) /\ Chain(job.at, e.bag)
  BY <1>2 DEF Reading
<1>4. job.at \in Seq(Path)
  BY <1>1, RemoveTag, RemovingIs
<1> HIDE DEF e, j, g
<1>5. j \in 1 .. Len(e.tags)
  BY <1>3
<1>6. Child(Here, g) /\ Passes(e.bag, e.tags, j + 1, g)
  BY <1>1, <1>3, <1>5, PassesOn DEF g
<1>7. /\ at \in Seq(Path) /\ Chain(at, e.bag)
      /\ Len(at) = Len(job.at) + 1 /\ Last(at) = g
  BY <1>3, <1>4, <1>6, ChainOn DEF Here
<1>8. job' = [job EXCEPT !.tags = Tail(job.tags), !.at = at]
  BY <1>1 DEF g
<1> HIDE DEF at
<1>9. /\ JobType' /\ DescType' /\ DescInv' /\ AddInv' /\ RemoveInv'
      /\ Removing' /\ job'.at # <<>> /\ Here' = g
      /\ \A m, p, k1, i1, f : Claim(m, p, k1, i1, f)' <=>
            Claim(m, p, k1, i1, f) /\ <<m, p, k1, i1>> # <<job.m, job.part, k, j>>
      /\ \A f : Claim(job.m, job.part, k, j, f) <=> Tag.tag = "folder" /\ Tag.o = f
  <2>1. Passes(Current[k].bag, Current[k].tags, i + 1 + 1, Last(at)) /\ Chain(at, Current[k].bag)
    BY <1>6, <1>7 DEF e, j
  <2> QED
    BY <1>1, <1>2, <1>7, <1>8, <2>1, RemoveGoesOn DEF j
<1>10. g \in Path /\ Len(g) \in Nat /\ Len(Here) \in Nat /\ Len(g) = Len(Here) + 1 /\ Len(g) >= 2
  BY <1>6, PathLen DEF Child
<1>11. ~ Open(g) /\ Within(g, g)
  BY <1>10 DEF Open, Within
<1>12. \A f \in Path : Open(f)' <=> Open(f) \/ f = g
  <2> SUFFICES ASSUME NEW f \in Path
               PROVE  Open(f)' <=> Open(f) \/ f = g
    OBVIOUS
  <2>1. Open(f)' <=> Len(f) >= 2 /\ Within(f, g)
    BY <1>9 DEF Open, Within
  <2>2. Within(f, g) <=> f = g \/ Within(f, Here)
    BY <1>6, AboveChild
  <2> QED
    BY <1>1, <1>10, <2>1, <2>2 DEF Open
<1>13. \A m1, p1, k1, i1, f : Claim(m1, p1, k1, i1, f)' <=>
              Claim(m1, p1, k1, i1, f) /\ ~ (f = g /\ <<m1, p1, k1, i1>> = <<job.m, job.part, k, j>>)
  BY <1>9 DEF g
<1>14. Claim(job.m, job.part, k, j, g)
  BY <1>1, <1>9 DEF g
<1>15. CountInv'
  BY <1>1, <1>10, <1>11, <1>12, <1>13, <1>14, CountsOpen DEF IInv
<1>16. ShapeInv'
  BY <1>1 DEF IInv, ShapeInv
<1> QED
  BY <1>9, <1>15, <1>16 DEF IInv

\* An item or separator is taken out of what shows it.
LEMMA RemoveObjectStep ==
    ASSUME IInv, removeItem \/ removeSeparator
    PROVE  IInv'
<1>1. /\ Removing /\ job.at # <<>> /\ job.tags # <<>> /\ Tag.tag \notin {"folder", "end"}
      /\ job' = [job EXCEPT !.tags = Tail(job.tags)]
      /\ UNCHANGED <<m_containers, refs, born, m_uidescs>>
      /\ DOMAIN layout' = DOMAIN layout
  BY DEF removeItem, removeSeparator, RemoveObject, HasTag, InBag, Pop
<1>2. PICK k, i : Reading(k, i)
  BY <1>1, RemoveTag
<1> DEFINE e == Current[k]
           j == i + 1
<1>3. /\ e.tags \in Seq(Written) /\ j \in DOMAIN e.tags /\ e.tags[j] = Tag
      /\ Passes(e.bag, e.tags, j, Here) /\ Chain(job.at, e.bag)
  BY <1>2 DEF Reading
<1>4. job.at \in Seq(Path) /\ job \in RemoveJob
  BY <1>1, RemoveTag, RemovingIs
<1> HIDE DEF e, j
<1>5. j \in 1 .. Len(e.tags)
  BY <1>3
<1>6. Passes(e.bag, e.tags, j + 1, Here)
  BY <1>1, <1>3, <1>5, PassesOn
<1> DEFINE at == job.at
<1>7. at \in Seq(Path) /\ Chain(at, e.bag) /\ Last(at) = Here
  BY <1>3, <1>4 DEF Here
<1>8. job' = [job EXCEPT !.tags = Tail(job.tags), !.at = at]
  BY <1>1, <1>4 DEF RemoveJob
<1> HIDE DEF at
<1>9. /\ JobType' /\ DescType' /\ DescInv' /\ AddInv' /\ RemoveInv'
      /\ Removing' /\ job'.at # <<>> /\ Here' = Here
      /\ \A m, p, k1, i1, f : Claim(m, p, k1, i1, f)' <=>
            Claim(m, p, k1, i1, f) /\ <<m, p, k1, i1>> # <<job.m, job.part, k, j>>
      /\ \A f : Claim(job.m, job.part, k, j, f) <=> Tag.tag = "folder" /\ Tag.o = f
  <2>1. Passes(Current[k].bag, Current[k].tags, i + 1 + 1, Last(at)) /\ Chain(at, Current[k].bag)
    BY <1>6, <1>7 DEF e, j
  <2> QED
    BY <1>1, <1>2, <1>7, <1>8, <2>1, RemoveGoesOn DEF j
<1>10. \A f \in Path : Open(f)' <=> Open(f)
  BY <1>1, <1>9 DEF Open, Within
<1>11. \A m, p, k1, i1, f : Claim(m, p, k1, i1, f)' <=> Claim(m, p, k1, i1, f)
  BY <1>1, <1>9
<1>12. CountInv'
  BY <1>1, <1>10, <1>11, CountsKept DEF IInv
<1>13. ShapeInv'
  BY <1>1 DEF IInv, ShapeInv
<1> QED
  BY <1>9, <1>12, <1>13 DEF IInv

\* A folder of which only this pointer is left contains no folder: the parts
\* that use a folder within it have a pointer to it too.
LEMMA NothingWithin ==
    ASSUME IInv, Removing, job.at # <<>>, job.tags # <<>>, Tag.tag = "end",
           NEW k, NEW i, Reading(k, i),
           NEW d, Child(d, Here), Passes(Current[k].bag, Current[k].tags, i + 1 + 1, d),
           Len(Here) >= 2, Claims(Here) = {},
           NEW h \in DOMAIN refs, Within(Here, h)
    PROVE  h = Here
<1> DEFINE g == Here
           e == Current[k]
           j == i + 1
<1>1. /\ job.m \in Level /\ job.part \in DOMAIN m_uidescs[job.m]
      /\ Current = m_uidescs[job.m][job.part]
  BY RemoveTag, RemovingIs
<1>2. /\ k \in DOMAIN Current /\ i \in Nat /\ e.tags \in Seq(Written)
      /\ j \in DOMAIN e.tags /\ e.tags[j] = Tag
  BY DEF Reading
<1>3. \A m, p, k1, i1 : Real(m, p, k1) /\ i1 \in Nat =>
                 (Passed(m, p, k1, i1) <=> ReadUpTo(k, i, m, p, k1, i1))
  BY ReadingIs
<1>4. h \in Path
  BY DEF IInv, CountInv, FolderType
<1>5. g \in Path /\ Len(g) \in Nat /\ Len(d) \in Nat /\ Len(g) = Len(d) + 1
  BY PathLen DEF Child
<1> HIDE DEF e, j, g
<1>6. \A m, p, k1, i1 : ~ Claim(m, p, k1, i1, g)
  BY ClaimsAre DEF g
<1>7. Open(h) \/ Claims(h) # {}
  BY DEF IInv, CountInv, Counts
<1>8. CASE Open(h)
  <2>1. Within(h, g) /\ Within(g, h) /\ Len(h) \in Nat
    BY <1>4, <1>8, PathLen DEF Open, g
  <2> QED
    BY <1>4, <1>5, <2>1, SamePath DEF Within, g
<1>9. CASE Claims(h) # {}
  <2>1. PICK m, p, k1, i1 : Claim(m, p, k1, i1, h)
    BY <1>9, ClaimsAre
  <2> DEFINE s == m_uidescs[m][p][k1]
  <2>2. /\ m \in Level /\ p \in Part /\ p \in DOMAIN m_uidescs[m] /\ k1 \in DOMAIN m_uidescs[m][p]
        /\ i1 \in DOMAIN s.tags
        /\ s.tags[i1].tag = "folder" /\ s.tags[i1].o = h /\ ~ Passed(m, p, k1, i1)
    BY <2>1 DEF Claim
  <2>3. m_uidescs[m][p] \in Seq(WrittenBag)
    BY <2>2 DEF IInv, DescType
  <2>4. k1 \in Nat /\ Real(m, p, k1)
    BY <2>2, <2>3 DEF Real
  <2>5. /\ s.bag \in Bag /\ s.tags \in Seq(Written)
        /\ Passes(s.bag, s.tags, 1, Container(s.bag))
    BY <2>2, DescribedIs
  <2>6. \A l : l \in DOMAIN s.tags /\ s.tags[l].tag = "folder" /\ s.tags[l].o = g
               => Passed(m, p, k1, l)
    BY <1>6, <2>2 DEF Claim
  <2>7. m = job.m /\ p = job.part /\ k1 = k => s = e
    BY <1>1 DEF e
  <2> HIDE DEF s
  <2>8. DOMAIN s.tags = 1 .. Len(s.tags)
    BY <2>5
  <2>9. i1 \in Nat /\ i1 \in 1 .. Len(s.tags) /\ 1 <= i1
    BY <2>2, <2>8
  <2>10. ~ ReadUpTo(k, i, m, p, k1, i1)
    BY <1>3, <2>2, <2>4, <2>9
  <2>11. \A l \in 1 .. Len(s.tags) :
            s.tags[l].tag = "folder" /\ s.tags[l].o = g => ReadUpTo(k, i, m, p, k1, l)
    BY <1>3, <2>4, <2>6, <2>8
  <2>12. CASE m = job.m /\ p = job.part /\ k1 = k
    <3>1. s = e
      BY <2>7, <2>12
    <3>2. ~ i1 <= i
      BY <2>10, <2>12 DEF ReadUpTo, UpTo
    <3>3. i1 # j
      BY <1>2, <2>2, <3>1
    <3> DEFINE r == j + 1
    <3>4. r \in Nat \ {0} /\ r <= i1
      BY <1>2, <2>9, <3>2, <3>3 DEF j
    <3>5. Passes(s.bag, s.tags, r, d)
      BY <3>1 DEF e, j
    <3>6. ~ Within(g, d)
      BY <1>5 DEF Within
    <3>7. Within(g, s.tags[i1].o)
      BY <2>2 DEF g
    <3> HIDE DEF r
    <3>8. PICK l \in 1 .. Len(s.tags) : r <= l /\ s.tags[l].tag = "folder" /\ s.tags[l].o = g
      BY <1>5, <2>2, <2>9, <3>4, <3>5, <3>6, <3>7, Opened, SMTT(30)
    <3>9. l <= i
      <4>1. ReadUpTo(k, i, m, p, k1, l)
        BY <2>11, <3>8
      <4> QED
        BY <2>4, <2>12, <4>1 DEF ReadUpTo, UpTo
    <3>10. r <= l
      BY <3>8
    <3> QED
      BY <1>2, <3>9, <3>10 DEF r, j
  <2>13. CASE ~ (m = job.m /\ p = job.part /\ k1 = k)
    <3> DEFINE c == Container(s.bag)
               one == 1
    <3>1. ~ Within(g, c)
      <4>1. Len(c) = 1 /\ Len(g) >= 2
        BY <2>5, ContainerPath DEF g
      <4> QED
        BY <1>5, <4>1 DEF Within
    <3>2. Passes(s.bag, s.tags, one, c) /\ one \in Nat \ {0} /\ one <= i1
      BY <2>5, <2>9
    <3>3. Within(g, s.tags[i1].o)
      BY <2>2 DEF g
    <3> HIDE DEF c, one
    <3>4. PICK l \in 1 .. Len(s.tags) : one <= l /\ s.tags[l].tag = "folder" /\ s.tags[l].o = g
      BY <1>5, <2>2, <2>9, <3>1, <3>2, <3>3, Opened, SMTT(30)
    <3>5. ReadUpTo(k, i, m, p, k1, l)
      BY <2>11, <3>4
    <3> QED
      BY <2>10, <2>13, <3>5 DEF ReadUpTo, UpTo
  <2> QED
    BY <2>12, <2>13
<1> QED
  BY <1>7, <1>8, <1>9

\* g is deleted, and no folder is in it.
Gone(g) == /\ g \in DOMAIN refs
           /\ Deleted(g)
           /\ \A h \in DOMAIN refs : IsPrefix(g, h) <=> h = g

\* The end of a folder is read: its count goes down, and the last one deletes it.
LEMMA FolderRemovedStep ==
    ASSUME IInv, FolderRemoved
    PROVE  /\ IInv'
           /\ \/ Gone(Here)
              \/ DOMAIN refs' = DOMAIN refs /\ UNCHANGED <<layout, priority>>
<1> DEFINE g == Here
           at == Front(job.at)
<1>1. /\ Removing /\ job.at # <<>> /\ job.tags # <<>> /\ Tag.tag = "end"
      /\ job' = [job EXCEPT !.tags = Tail(job.tags), !.at = at]
      /\ UNCHANGED <<m_containers, m_uidescs>>
      /\ IF Unreferenced(refs[g] - 1) THEN Deleted(g)
         ELSE refs' = [refs EXCEPT ![g] = @ - 1] /\ UNCHANGED <<born, layout, priority>>
  BY DEF FolderRemoved, HasTag, InBag, Pop
<1>2. PICK k, i : Reading(k, i)
  BY <1>1, RemoveTag
<1> DEFINE e == Current[k]
           j == i + 1
<1>3. /\ e.tags \in Seq(Written) /\ j \in DOMAIN e.tags /\ e.tags[j] = Tag
      /\ Passes(e.bag, e.tags, j, g) /\ Chain(job.at, e.bag)
  BY <1>2 DEF Reading
<1>4. job.at \in Seq(Path)
  BY <1>1, RemoveTag, RemovingIs
<1>5. Len(job.at) = Len(g)
  BY <1>3, ChainHere DEF Here
<1> HIDE DEF e, j
<1>6. PICK d : Child(d, g) /\ Passes(e.bag, e.tags, j + 1, d)
  <2>1. j \in 1 .. Len(e.tags)
    BY <1>3
  <2> QED
    BY <1>1, <1>3, <2>1, PassesOn
<1>7. g \in Path /\ d \in Path /\ Len(d) \in Nat /\ Len(g) \in Nat /\ Len(g) = Len(d) + 1 /\ Len(g) >= 2
  BY <1>6, PathLen DEF Child
<1>8. /\ at \in Seq(Path) /\ Chain(at, e.bag) /\ Last(at) = d
  <2>1. /\ at \in Seq(Path) /\ Chain(at, e.bag) /\ Child(Last(at), Last(job.at))
    BY <1>3, <1>4, <1>5, <1>7, ChainOff
  <2> QED
    BY <1>6, <2>1, OneParent DEF Here
<1> HIDE DEF at
<1>9. /\ JobType' /\ DescType' /\ DescInv' /\ AddInv' /\ RemoveInv'
      /\ Removing' /\ job'.at # <<>> /\ Here' = d
      /\ \A m, p, k1, i1, f : Claim(m, p, k1, i1, f)' <=>
            Claim(m, p, k1, i1, f) /\ <<m, p, k1, i1>> # <<job.m, job.part, k, j>>
      /\ \A f : Claim(job.m, job.part, k, j, f) <=> Tag.tag = "folder" /\ Tag.o = f
  <2>1. Passes(Current[k].bag, Current[k].tags, i + 1 + 1, Last(at)) /\ Chain(at, Current[k].bag)
    BY <1>6, <1>8 DEF e, j
  <2> QED
    BY <1>1, <1>2, <1>8, <2>1, RemoveGoesOn DEF j
<1>10. Open(g) /\ g \in DOMAIN refs
  <2>1. Open(g)
    BY <1>1, <1>7 DEF Open, Within
  <2> QED
    BY <1>7, <2>1 DEF IInv, CountInv, Accounted
<1>11. \A f \in Path : Open(f)' <=> Open(f) /\ f # g
  <2> SUFFICES ASSUME NEW f \in Path
               PROVE  Open(f)' <=> Open(f) /\ f # g
    OBVIOUS
  <2>1. Open(f)' <=> Len(f) >= 2 /\ Within(f, d)
    BY <1>9 DEF Open, Within
  <2>2. Within(f, g) <=> f = g \/ Within(f, d)
    BY <1>6, AboveChild
  <2>3. ~ Within(g, d)
    BY <1>7 DEF Within
  <2> QED
    BY <1>1, <1>10, <2>1, <2>2, <2>3 DEF Open
<1>12. \A m, p, k1, i1, f : Claim(m, p, k1, i1, f)' <=> Claim(m, p, k1, i1, f)
  BY <1>1, <1>9
<1>13. /\ IsFiniteSet(Claims(g)) /\ refs[g] = Cardinality(Claims(g)) + 1
       /\ Cardinality(Claims(g)) \in Nat
  <2>1. IsFiniteSet(Claims(g)) /\ refs[g] = Cardinality(Claims(g)) + 1
    BY <1>10 DEF IInv, CountInv, Counts
  <2> QED
    BY <2>1, FS_CardinalityType
<1>14. Unreferenced(refs[g] - 1) <=> refs[g] <= 1
  BY <1>13 DEF Unreferenced
<1> HIDE DEF g
<1>15. CASE refs[g] <= 1
  <2>1. Claims(g) = {}
    <3>1. Cardinality(Claims(g)) = 0
      BY <1>13, <1>15
    <3> QED
      BY <1>13, <3>1, FS_EmptySet
  <2>2. \A h \in DOMAIN refs : Within(g, h) <=> h = g
    <3>1. Within(g, g)
      BY <1>7 DEF Within
    <3>2. ASSUME NEW h \in DOMAIN refs, Within(g, h)
          PROVE  h = g
      <4>1. Passes(Current[k].bag, Current[k].tags, i + 1 + 1, d)
        BY <1>6 DEF e, j
      <4> QED
        BY <1>1, <1>2, <1>6, <1>7, <2>1, <3>2, <4>1, NothingWithin DEF g
    <3> QED
      BY <3>1, <3>2
  <2>3. \A h \in DOMAIN refs : h \in Path
    BY DEF IInv, CountInv, FolderType
  <2>4. \A h \in DOMAIN refs : IsPrefix(g, h) <=> h = g
    BY <1>7, <2>2, <2>3, PrefixIsWithin
  <2>5. Deleted(g)
    BY <1>1, <1>14, <1>15
  <2>6. /\ refs' = [f \in DOMAIN refs \ {g} |-> refs[f]]
        /\ DOMAIN refs' = DOMAIN refs \ {g}
    <3>1. {f \in DOMAIN refs : ~ IsPrefix(g, f)} = DOMAIN refs \ {g}
      BY <2>4
    <3> QED
      BY <2>5, <3>1 DEF Deleted
  <2>7. CountInv'
    BY <1>7, <1>10, <1>11, <1>12, <1>15, <2>6, CountsLess DEF IInv
  <2>8. ShapeInv'
    <3>1. /\ DOMAIN layout = DOMAIN refs \cup {Container(b) : b \in Bag}
          /\ born \in Seq(Path) /\ Once(born) /\ ToSet(born) = DOMAIN refs
      BY DEF IInv, ShapeInv
    <3>2. born' = Only(born, DOMAIN refs') /\ DOMAIN layout' = {c \in DOMAIN layout : ~ IsPrefix(g, c)}
      BY <2>5 DEF Deleted
    <3>3. \A b \in Bag : ~ IsPrefix(g, Container(b))
      <4> SUFFICES ASSUME NEW b \in Bag
                   PROVE  ~ IsPrefix(g, Container(b))
        OBVIOUS
      <4>1. ~ Within(g, Container(b))
        BY <1>7, ContainerPath DEF Within
      <4> QED
        BY <1>7, <4>1, ContainerPath, PrefixIsWithin
    <3>4. DOMAIN layout' = DOMAIN refs' \cup {Container(b) : b \in Bag}
      BY <2>4, <2>6, <3>1, <3>2, <3>3
    <3>5. born' \in Seq(Path) /\ Once(born') /\ ToSet(born') = DOMAIN refs'
      <4> DEFINE S == DOMAIN refs'
      <4>1. S \subseteq DOMAIN refs
        BY <2>6
      <4> HIDE DEF S
      <4>2. Only(born, S) \in Seq(Path) /\ Once(Only(born, S)) /\ ToSet(Only(born, S)) = ToSet(born) \cap S
        BY <3>1, OnlyProperties
      <4>3. ToSet(Only(born, S)) = S
        BY <3>1, <4>1, <4>2
      <4> QED
        BY <3>2, <4>2, <4>3 DEF S
    <3> QED
      BY <3>4, <3>5 DEF ShapeInv
  <2>9. Gone(Here)
    BY <1>10, <2>4, <2>5 DEF Gone, g
  <2> QED
    BY <1>9, <2>7, <2>8, <2>9 DEF IInv
<1>16. CASE ~ refs[g] <= 1
  <2>1. refs' = [refs EXCEPT ![g] = @ - 1] /\ UNCHANGED <<born, layout, priority>>
    BY <1>1, <1>14, <1>16
  <2>2. CountInv'
    BY <1>7, <1>10, <1>11, <1>12, <1>16, <2>1, CountsLess DEF IInv
  <2>3. ShapeInv'
    BY <2>1 DEF IInv, ShapeInv
  <2>4. DOMAIN refs' = DOMAIN refs
    BY <2>1
  <2> QED
    BY <1>9, <2>1, <2>2, <2>3, <2>4 DEF IInv
<1> QED
  BY <1>15, <1>16

-----------------------------------------------------------------------------
(* The specification.                                                      *)

LEMMA InitInv == Init => IInv
<1> SUFFICES ASSUME Init
             PROVE  IInv
  OBVIOUS
<1>1. /\ m_containers = {} /\ refs = <<>> /\ born = <<>> /\ job = None
      /\ DOMAIN layout = {Container(b) : b \in Bag}
      /\ m_uidescs = [m \in Level |-> <<>>]
  BY DEF Init
<1>2. ~ Adding /\ ~ Removing
  BY <1>1 DEF Adding, Removing, None
<1>3. \A m \in Level : DOMAIN m_uidescs[m] = {}
  BY <1>1
<1>4. JobType /\ AddInv /\ RemoveInv
  BY <1>1, <1>2 DEF JobType, AddInv, RemoveInv
<1>5. DescType /\ DescInv
  BY <1>1, <1>3 DEF DescType, DescInv
<1>6. DOMAIN refs = {}
  BY <1>1
<1>7. CountInv
  <2>1. \A m, p, k, i, f : ~ Claim(m, p, k, i, f)
    BY <1>3 DEF Claim
  <2>2. \A f : ~ Open(f)
    BY <1>2 DEF Open
  <2> QED
    BY <1>6, <2>1, <2>2 DEF CountInv, FolderType, Counts, Accounted
<1>8. ShapeInv
  BY <1>1, <1>6 DEF ShapeInv, Once, ToSet
<1> QED
  BY <1>4, <1>5, <1>7, <1>8 DEF IInv

\* Nothing of the invariant is about priorities.
LEMMA StutterInv ==
    ASSUME IInv, UNCHANGED vars
    PROVE  IInv'
<1>1. UNCHANGED <<m_containers, refs, born, layout, m_uidescs, job>>
  BY DEF vars
<1>2. /\ Adding' <=> Adding
      /\ Removing' <=> Removing
      /\ Here' = Here /\ Current' = Current
  BY <1>1 DEF Adding, Removing, Here, Current
<1>3. JobType' /\ DescType'
  BY <1>1 DEF IInv, JobType, DescType
<1>4. DescInv'
  <2>1. \A m, p, k : Writes(m, p, k)' <=> Writes(m, p, k)
    BY <1>1, <1>2 DEF Writes
  <2> QED
    BY <1>1, <1>2, <2>1 DEF IInv, DescInv
<1>5. AddInv'
  <2>1. AddsBag' <=> AddsBag
    BY <1>1, <1>2 DEF AddsBag
  <2> QED
    BY <1>1, <1>2, <2>1 DEF IInv, AddInv
<1>6. RemoveInv'
  <2>1. \A k : RemovesBag(k)' <=> RemovesBag(k)
    BY <1>1, <1>2 DEF RemovesBag
  <2> QED
    BY <1>1, <1>2, <2>1 DEF IInv, RemoveInv
<1>7. CountInv'
  <2>1. \A m, p, k, i : Passed(m, p, k, i)' <=> Passed(m, p, k, i)
    BY <1>1, <1>2 DEF Passed
  <2>2. \A m, p, k, i, f : Claim(m, p, k, i, f)' <=> Claim(m, p, k, i, f)
    BY <1>1, <2>1 DEF Claim
  <2>3. \A f \in Path : Open(f)' <=> Open(f)
    BY <1>1, <1>2 DEF Open
  <2> QED
    BY <1>1, <2>2, <2>3, CountsKept DEF IInv
<1>8. ShapeInv'
  BY <1>1 DEF IInv, ShapeInv
<1> QED
  BY <1>3, <1>4, <1>5, <1>6, <1>7, <1>8 DEF IInv

\* Every action keeps the invariant.
LEMMA NextInv ==
    ASSUME IInv, Orderly, [Next]_vars
    PROVE  IInv'
<1>1. ASSUME NEW b \in Bag, install(b) \/ remove(b)
      PROVE  IInv'
  BY <1>1, InstallStep, RemoveStep
<1>2. ASSUME NEW m \in Level, clear(m)
      PROVE  IInv'
  BY <1>2, ClearStep
<1>3. CASE ClearNext
  BY <1>3, ClearNextStep
<1>4. CASE ClearEnds
  BY <1>4, ClearEndsStep
<1>5. ASSUME NEW p \in Part, addUI(p) \/ removeUI(p)
      PROVE  IInv'
  BY <1>5, AddUIStep, RemoveUIStep
<1>6. CASE AddEnds
  BY <1>6, AddEndsStep
<1>7. CASE OpenBag
  BY <1>7, OpenBagStep
<1>8. CASE CloseBag
  BY <1>8, CloseBagStep
<1>9. CASE addFolder
  BY <1>9, AddFolderStep
<1>10. CASE SkipFolder
  BY <1>10, SkipFolderStep
<1>11. CASE FolderAdded
  BY <1>11, FolderAddedStep
<1>12. CASE addItem
  BY <1>12, AddItemStep
<1>13. CASE addSeparator
  BY <1>13, AddSeparatorStep
<1>14. CASE RemoveEnds
  BY <1>14, RemoveEndsStep
<1>15. CASE ReopenBag
  BY <1>15, ReopenBagStep
<1>16. CASE removeFolder
  BY <1>16, RemoveFolderStep
<1>17. CASE FolderRemoved
  BY <1>17, FolderRemovedStep
<1>18. CASE removeItem \/ removeSeparator
  BY <1>18, RemoveObjectStep
<1>19. CASE UNCHANGED vars
  BY <1>19, StutterInv
<1> QED
  BY <1>1, <1>2, <1>3, <1>4, <1>5, <1>6, <1>7, <1>8, <1>9, <1>10, <1>11, <1>12, <1>13, <1>14,
     <1>15, <1>16, <1>17, <1>18, <1>19 DEF Next

\* Counters that are right are not 0.
LEMMA CountsAreTyped ==
    ASSUME IInv
    PROVE  TypeOK
<1>1. \A f \in DOMAIN refs : refs[f] \in Nat \ {0}
  <2> SUFFICES ASSUME NEW f \in DOMAIN refs
               PROVE  refs[f] \in Nat \ {0}
    OBVIOUS
  <2>1. /\ IsFiniteSet(Claims(f))
        /\ refs[f] = Cardinality(Claims(f)) + (IF Open(f) THEN 1 ELSE 0)
        /\ Open(f) \/ Claims(f) # {}
    BY DEF IInv, CountInv, Counts
  <2>2. Cardinality(Claims(f)) \in Nat /\ (Cardinality(Claims(f)) = 0 => Claims(f) = {})
    BY <2>1, FS_CardinalityType, FS_EmptySet
  <2> QED
    BY <2>1, <2>2
<1>2. ToSet(born) = DOMAIN refs /\ Len(born) = Cardinality(DOMAIN refs)
  BY OnceIsCounted DEF IInv, ShapeInv
<1> QED
  BY <1>1, <1>2 DEF TypeOK, IInv, DescInv, DescType, ShapeInv

\* Between calls the claims are all the pointers there are.
LEMMA FoldersAreCounted ==
    ASSUME IInv
    PROVE  FoldersExact
<1> SUFFICES ASSUME Idle
             PROVE  /\ DOMAIN refs = {h.o : h \in Held}
                    /\ \A f \in DOMAIN refs : refs[f] = Cardinality({h \in Held : h.o = f})
  BY DEF FoldersExact
<1>1. (\A m, p, k, i : ~ Passed(m, p, k, i)) /\ (\A f : ~ Open(f))
  BY IdleRemovesNothing
<1>2. \A f : Claims(f) = {h \in Held : h.o = f}
  BY <1>1 DEF Claims
<1>3. \A f \in DOMAIN refs : refs[f] = Cardinality(Claims(f)) /\ Claims(f) # {}
  <2> SUFFICES ASSUME NEW f \in DOMAIN refs
               PROVE  refs[f] = Cardinality(Claims(f)) /\ Claims(f) # {}
    OBVIOUS
  <2>1. /\ IsFiniteSet(Claims(f)) /\ ~ Open(f)
        /\ refs[f] = Cardinality(Claims(f)) + (IF Open(f) THEN 1 ELSE 0)
        /\ Open(f) \/ Claims(f) # {}
    BY <1>1 DEF IInv, CountInv, Counts
  <2>2. Cardinality(Claims(f)) \in Nat
    BY <2>1, FS_CardinalityType
  <2> QED
    BY <2>1, <2>2
<1>4. ASSUME NEW h \in Held
      PROVE  h.o \in DOMAIN refs
  <2>1. h \in Claims(h.o)
    BY <1>2
  <2>2. \E m, p, k, i : Claim(m, p, k, i, h.o)
    BY <2>1, ClaimsAre
  <2> QED
    BY <2>2 DEF IInv, CountInv, Accounted
<1>5. DOMAIN refs = {h.o : h \in Held}
  BY <1>2, <1>3, <1>4
<1>6. \A f \in DOMAIN refs : refs[f] = Cardinality({h \in Held : h.o = f})
  BY <1>2, <1>3
<1> QED
  BY <1>5, <1>6

LEMMA InvAlways == ASSUME Orderly PROVE Spec => []IInv
<1>1. IInv /\ [Next]_vars => IInv'
  BY NextInv
<1> QED
  BY InitInv, <1>1, PTL DEF Spec

\* With such descriptions, and as long as no container is removed that parts are
\* in: whatever is installed, added, removed and cleared, in any order, through
\* any chain of managers, every folder that there is has a count, the list of
\* folders has each once, and only folders and containers have a layout.
THEOREM TypeCorrect == ASSUME Orderly PROVE Spec => []TypeOK
BY InvAlways, CountsAreTyped, PTL

\* And between calls a folder counts exactly the pointers to it that descriptions
\* hold: none points to a deleted folder, and no folder outlives its last part.
THEOREM FoldersCounted == ASSUME Orderly PROVE Spec => []FoldersExact
BY InvAlways, FoldersAreCounted, PTL

-----------------------------------------------------------------------------
(* What is put in by priority.                                             *)

\* What is kept of a sequence stays in its order: t[x] was s[from[x]].
LEMMA OnlyKeepsOrder ==
    ASSUME NEW X, NEW s \in Seq(X), NEW S, NEW t, t = Only(s, S)
    PROVE  \E from \in [1 .. Len(t) -> 1 .. Len(s)] :
              /\ \A x \in 1 .. Len(t) : t[x] = s[from[x]]
              /\ \A x, y \in 1 .. Len(t) : x < y => from[x] < from[y]
<1> DEFINE n == Len(s)
<1>1. n \in Nat /\ DOMAIN s = 1 .. n /\ \A i \in 1 .. n : s[i] \in X
  OBVIOUS
<1>2. PICK kept : IsKept(s, S, n, kept) /\ Only(s, S) = kept[n]
  BY <1>1, OnlyIsKept
<1> DEFINE From(i, from) == /\ from \in [1 .. Len(kept[i]) -> 1 .. i]
                            /\ \A x \in 1 .. Len(kept[i]) : kept[i][x] = s[from[x]]
                            /\ \A x, y \in 1 .. Len(kept[i]) : x < y => from[x] < from[y]
           P(i) == kept[i] \in Seq(X) /\ \E from : From(i, from)
<1>3. \A i \in 0 .. n : P(i)
  <2> DEFINE T == {i \in 0 .. n : ~ P(i)}
  <2> SUFFICES ASSUME T # {}
               PROVE  FALSE
    OBVIOUS
  <2>1. PICK i \in T : \A j \in T : i <= j
    <3>1. T \in SUBSET Nat
      BY <1>1
    <3> HIDE DEF T
    <3> QED
      BY <3>1, LeastNumber
  <2>2. i \in 0 .. n /\ ~ P(i)
    BY <2>1
  <2>3. kept[i] = IF i = 0 THEN <<>>
                  ELSE IF s[i] \in S THEN Append(kept[i - 1], s[i]) ELSE kept[i - 1]
    BY <1>2, <2>2 DEF IsKept
  <2>4. i # 0
    <3> SUFFICES ASSUME i = 0
                 PROVE  FALSE
      OBVIOUS
    <3>1. kept[i] = <<>> /\ Len(kept[i]) = 0
      BY <2>3
    <3> DEFINE none == [x \in 1 .. 0 |-> 0]
    <3>2. From(i, none)
      BY <3>1
    <3>3. kept[i] \in Seq(X)
      BY <3>1
    <3> HIDE DEF From
    <3>4. P(i)
      BY <3>2, <3>3
    <3> QED
      BY <2>2, <3>4
  <2> DEFINE h == i - 1
  <2>5. h \in 0 .. n /\ h < i /\ i = h + 1 /\ h \in Nat
    BY <1>1, <2>2, <2>4
  <2>6. P(h)
    <3> HIDE DEF P
    <3>1. h \notin T
      BY <2>1, <2>5
    <3> QED
      BY <2>5, <3>1
  <2> DEFINE less == kept[h]
             m == Len(less)
  <2>7. less \in Seq(X) /\ m \in Nat
    BY <2>6
  <2>8. PICK from : From(h, from)
    BY <2>6
  <2>9. /\ from \in [1 .. m -> 1 .. h]
        /\ \A x \in 1 .. m : less[x] = s[from[x]]
        /\ \A x, y \in 1 .. m : x < y => from[x] < from[y]
    BY <2>8
  <2>10. \A a \in 1 .. h : a \in 1 .. i /\ a < i
    BY <2>5
  <2>11. i \in 1 .. i /\ s[i] \in X
    BY <1>1, <2>2, <2>4
  <2>12. CASE s[i] \notin S
    <3>1. kept[i] = less
      BY <2>3, <2>4, <2>12
    <3> HIDE DEF less, h
    <3>2. From(i, from)
      BY <2>9, <2>10, <3>1
    <3>3. P(i)
      BY <2>7, <3>1, <3>2
    <3> QED
      BY <2>2, <3>3
  <2>13. CASE s[i] \in S
    <3> DEFINE more == Append(less, s[i])
               l == m + 1
               also == [x \in 1 .. l |-> IF x = l THEN i ELSE from[x]]
    <3>1. kept[i] = more
      BY <2>3, <2>4, <2>13
    <3>2. /\ more \in Seq(X) /\ Len(more) = l /\ more[l] = s[i]
          /\ \A x \in 1 .. m : more[x] = less[x]
      <4> HIDE DEF less, h
      <4> QED
        BY <2>7, <2>11, AppendProperties
    <3> HIDE DEF more, less, h, m
    <3>3. \A x \in 1 .. l : x = l \/ (x \in 1 .. m /\ x # l /\ x < l)
      BY <2>7
    <3>4. also \in [1 .. l -> 1 .. i]
      BY <2>9, <2>10, <2>11, <3>3
    <3>5. \A x \in 1 .. l : more[x] = s[also[x]]
      BY <2>9, <3>2, <3>3
    <3>6. ASSUME NEW x \in 1 .. l, NEW y \in 1 .. l, x < y
          PROVE  also[x] < also[y]
      <4>1. x \in 1 .. m /\ also[x] = from[x]
        BY <2>7, <3>6
      <4>2. CASE y \in 1 .. m
        <5>1. also[y] = from[y]
          BY <2>7, <4>2
        <5> QED
          BY <2>9, <3>6, <4>1, <4>2, <5>1
      <4>3. CASE y = l
        <5>1. also[y] = i
          BY <4>3
        <5>2. from[x] < i
          BY <2>9, <2>10, <4>1
        <5> QED
          BY <4>1, <5>1, <5>2
      <4> QED
        BY <3>3, <4>2, <4>3
    <3> HIDE DEF also
    <3>7. From(i, also)
      BY <3>1, <3>2, <3>4, <3>5, <3>6
    <3> HIDE DEF From
    <3>8. P(i)
      BY <3>1, <3>2, <3>7
    <3> QED
      BY <2>2, <3>8
  <2> QED
    BY <2>12, <2>13
<1>4. P(n)
  <2> HIDE DEF P
  <2>1. n \in 0 .. n
    BY <1>1
  <2> QED
    BY <1>3, <2>1
<1> QED
  BY <1>2, <1>4

\* Without(s, x) is s but for x.
LEMMA WithoutIs ==
    ASSUME NEW X, NEW s \in Seq(X), Once(s), NEW x, NEW t, t = Without(s, x)
    PROVE  /\ t \in Seq(X) /\ Len(t) \in Nat /\ Once(t)
           /\ ToSet(t) = ToSet(s) \ {x}
           /\ \E from \in [1 .. Len(t) -> 1 .. Len(s)] :
                 /\ \A i \in 1 .. Len(t) : t[i] = s[from[i]]
                 /\ \A i, j \in 1 .. Len(t) : i < j => from[i] < from[j]
<1> DEFINE S == ToSet(s) \ {x}
<1>1. t = Only(s, S)
  BY DEF Without
<1> HIDE DEF S
<1>2. t \in Seq(X) /\ Once(t) /\ ToSet(t) = ToSet(s) \cap S
  BY <1>1, OnlyProperties
<1>3. \E from \in [1 .. Len(t) -> 1 .. Len(s)] :
         /\ \A i \in 1 .. Len(t) : t[i] = s[from[i]]
         /\ \A i, j \in 1 .. Len(t) : i < j => from[i] < from[j]
  BY <1>1, OnlyKeepsOrder
<1> QED
  BY <1>2, <1>3 DEF S

\* r is t with o at k.
IsPut(r, t, k, o) ==
    /\ Len(r) = Len(t) + 1
    /\ \A i \in 1 .. Len(t) + 1 : r[i] = IF i < k THEN t[i] ELSE IF i = k THEN o ELSE t[i - 1]

LEMMA InsertedAt ==
    ASSUME NEW X, NEW t \in Seq(X), NEW k \in 1 .. Len(t), NEW o \in X,
           NEW r, r = InsertAt(t, k, o)
    PROVE  r \in Seq(X) /\ IsPut(r, t, k, o)
<1> DEFINE n == Len(t)
           u == SubSeq(t, 1, k - 1)
           w == SubSeq(t, k, n)
           q == u \o <<o>>
<1>1. n \in Nat /\ k \in Nat /\ k >= 1 /\ k <= n
  OBVIOUS
<1>2. u \in Seq(X) /\ Len(u) = k - 1 /\ \A i \in 1 .. k - 1 : u[i] = t[i]
  BY <1>1
<1>3. w \in Seq(X) /\ Len(w) = n - k + 1 /\ \A i \in 1 .. n - k + 1 : w[i] = t[k + i - 1]
  BY <1>1
<1> HIDE DEF u, w
<1>4. q \in Seq(X) /\ Len(q) = k /\ (\A i \in 1 .. k - 1 : q[i] = t[i]) /\ q[k] = o
  BY <1>1, <1>2
<1>5. r = q \o w
  BY DEF InsertAt, u, w
<1> HIDE DEF q, n
<1>6. /\ r \in Seq(X) /\ Len(r) = n + 1
      /\ \A i \in 1 .. n + 1 : r[i] = IF i <= k THEN q[i] ELSE w[i - k]
  <2>1. q \o w \in Seq(X) /\ Len(q \o w) = k + (n - k + 1)
    <3>1. q \o w \in Seq(X) /\ Len(q \o w) = Len(q) + Len(w)
      BY <1>3, <1>4, ConcatProperties
    <3> QED
      BY <1>3, <1>4, <3>1
  <2>2. \A i \in 1 .. n + 1 : (q \o w)[i] = IF i <= k THEN q[i] ELSE w[i - k]
    BY <1>1, <1>3, <1>4
  <2>3. k + (n - k + 1) = n + 1
    BY <1>1
  <2> QED
    BY <1>5, <2>1, <2>2, <2>3
<1>7. ASSUME NEW i \in 1 .. n + 1
      PROVE  r[i] = IF i < k THEN t[i] ELSE IF i = k THEN o ELSE t[i - 1]
  <2>1. CASE i < k
    BY <1>1, <1>4, <1>6, <1>7, <2>1
  <2>2. CASE i = k
    BY <1>4, <1>6, <2>2
  <2>3. CASE i > k
    <3>1. i - k \in 1 .. n - k + 1 /\ k + (i - k) - 1 = i - 1
      BY <1>1, <1>7, <2>3
    <3>2. r[i] = w[i - k]
      BY <1>1, <1>6, <1>7, <2>3
    <3> QED
      BY <1>1, <1>3, <2>3, <3>1, <3>2
  <2> QED
    BY <1>1, <2>1, <2>2, <2>3
<1> QED
  BY <1>6, <1>7 DEF n, IsPut

\* What is put into a sequence of other things is in it once.
LEMMA InsertedOnce ==
    ASSUME NEW X, NEW t \in Seq(X), Once(t), NEW o \in X, o \notin ToSet(t), NEW r,
           r = Append(t, o) \/ \E k \in 1 .. Len(t) : r = InsertAt(t, k, o)
    PROVE  r \in Seq(X) /\ Once(r) /\ ToSet(r) = ToSet(t) \cup {o}
<1> DEFINE n == Len(t)
<1>1. PICK k \in 1 .. n + 1 : r \in Seq(X) /\ IsPut(r, t, k, o)
  <2>1. CASE r = Append(t, o)
    <3> DEFINE l == n + 1
    <3>1. /\ n \in Nat /\ r \in Seq(X) /\ Len(r) = l /\ r[l] = o
          /\ \A i \in 1 .. n : r[i] = t[i]
      BY <2>1, AppendProperties
    <3>2. \A i \in 1 .. l : r[i] = IF i < l THEN t[i] ELSE IF i = l THEN o ELSE t[i - 1]
      BY <3>1
    <3>3. l \in 1 .. l
      BY <3>1
    <3> QED
      BY <3>1, <3>2, <3>3 DEF IsPut
  <2>2. CASE \E k \in 1 .. Len(t) : r = InsertAt(t, k, o)
    <3>1. PICK k \in 1 .. Len(t) : r = InsertAt(t, k, o)
      BY <2>2
    <3>2. r \in Seq(X) /\ IsPut(r, t, k, o)
      BY <3>1, InsertedAt
    <3>3. k \in 1 .. n + 1
      OBVIOUS
    <3> QED
      BY <3>2, <3>3
  <2> QED
    BY <2>1, <2>2
<1>2. n \in Nat /\ DOMAIN t = 1 .. n /\ DOMAIN r = 1 .. n + 1
  BY <1>1 DEF IsPut
<1>3. \A i \in 1 .. n + 1 : r[i] = IF i < k THEN t[i] ELSE IF i = k THEN o ELSE t[i - 1]
  BY <1>1 DEF IsPut
<1>4. \A i \in 1 .. n : t[i] # o
  BY <1>2 DEF ToSet
<1> HIDE DEF n
<1>5. ASSUME NEW i \in 1 .. n + 1, NEW j \in 1 .. n + 1, r[i] = r[j]
      PROVE  i = j
  <2> DEFINE Was(l) == IF l < k THEN l ELSE l - 1
  <2>1. \A l \in 1 .. n + 1 : l # k => Was(l) \in 1 .. n /\ r[l] = t[Was(l)]
    BY <1>2, <1>3
  <2>2. r[k] = o
    BY <1>2, <1>3
  <2>3. CASE i = k \/ j = k
    BY <1>4, <1>5, <2>1, <2>2, <2>3
  <2>4. CASE i # k /\ j # k
    <3>1. Was(i) \in 1 .. n /\ Was(j) \in 1 .. n /\ t[Was(i)] = t[Was(j)]
      BY <1>5, <2>1, <2>4
    <3>2. Was(i) = Was(j)
      <4> HIDE DEF Was
      <4> QED
        BY <3>1 DEF Once, n
    <3> QED
      BY <1>2, <1>3, <2>4, <3>2
  <2> QED
    BY <2>3, <2>4
<1>6. ToSet(r) = ToSet(t) \cup {o}
  <2>1. ASSUME NEW i \in 1 .. n + 1
        PROVE  r[i] = o \/ \E l \in 1 .. n : r[i] = t[l]
    BY <1>2, <1>3
  <2>2. ASSUME NEW l \in 1 .. n
        PROVE  \E i \in 1 .. n + 1 : r[i] = t[l]
    <3>1. CASE l < k
      BY <1>2, <1>3, <3>1
    <3>2. CASE ~ l < k
      <4>1. l + 1 \in 1 .. n + 1 /\ ~ l + 1 < k /\ l + 1 # k /\ l + 1 - 1 = l
        BY <1>2, <3>2
      <4> QED
        BY <1>3, <4>1
    <3> QED
      BY <3>1, <3>2
  <2>3. \E i \in 1 .. n + 1 : r[i] = o
    <3>1. r[k] = o
      BY <1>2, <1>3
    <3> QED
      BY <3>1
  <2>4. ToSet(r) = {r[i] : i \in 1 .. n + 1} /\ ToSet(t) = {t[l] : l \in 1 .. n}
    BY <1>2 DEF ToSet
  <2> QED
    BY <2>1, <2>2, <2>3, <2>4
<1>7. Len(r) = n + 1
  BY <1>1 DEF IsPut, n
<1> QED
  BY <1>1, <1>5, <1>6, <1>7 DEF Once

\* r is t with o before the first candidate of a greater number than p.
IsPlaced(r, t, candidates, properties, c, o, p) ==
    \/ /\ r = Append(t, o)
       /\ \A a \in 1 .. Len(candidates) : ~ p < PriorityIn(properties, c, candidates[a])
    \/ \E k \in 1 .. Len(t), at \in 1 .. Len(candidates) :
          /\ r = InsertAt(t, k, o)
          /\ t[k] = candidates[at]
          /\ p < PriorityIn(properties, c, candidates[at])
          /\ \A a \in 1 .. Len(candidates) :
                a < at => ~ p < PriorityIn(properties, c, candidates[a])

LEMMA InsertedIs ==
    ASSUME NEW properties, NEW c, NEW o \in Path, NEW p \in Int,
           NEW s, s = layout[c], s \in Seq(Path), Once(s),
           NEW candidates, candidates = Candidates(c), candidates \in Seq(Path),
           ToSet(candidates) \ {o} \subseteq ToSet(s),
           PriorityIn(properties, c, o) = p,
           NEW t, t = Without(s, o),
           NEW r, r = Inserted(properties, c, o, p)
    PROVE  IsPlaced(r, t, candidates, properties, c, o, p)
<1>1. PICK at : at = positionByPriority(properties, c, candidates, p)
  OBVIOUS
<1> DEFINE I == {i \in 1 .. Len(candidates) : p < PriorityIn(properties, c, candidates[i])}
           K == {i \in 1 .. Len(t) : t[i] = candidates[at]}
           k == IF K # {} THEN Min(K) ELSE 0
<1>2. at = IF I # {} THEN Min(I) ELSE 0
  BY <1>1 DEF positionByPriority, SelectInSeq, Follows
<1>3. r = IF at = 0 THEN Append(t, o) ELSE InsertAt(t, k, o)
  BY <1>1 DEF Inserted, SelectInSeq
<1>4. I \in SUBSET Nat /\ I \subseteq 1 .. Len(candidates)
  OBVIOUS
<1>5. CASE I = {}
  <2>1. at = 0
    BY <1>2, <1>5
  <2>2. \A a \in 1 .. Len(candidates) : ~ p < PriorityIn(properties, c, candidates[a])
    BY <1>5
  <2>3. r = Append(t, o)
    BY <1>3, <2>1
  <2> QED
    BY <2>2, <2>3 DEF IsPlaced
<1>6. CASE I # {}
  <2>1. at \in I /\ \A a \in I : at <= a
    <3> HIDE DEF I
    <3>1. \E i \in I : \A j \in I : i <= j
      BY <1>4, <1>6, LeastNumber
    <3> QED
      BY <1>2, <1>6, <3>1 DEF Min
  <2>2. at \in 1 .. Len(candidates) /\ p < PriorityIn(properties, c, candidates[at])
    BY <2>1
  <2>3. \A a \in 1 .. Len(candidates) : a < at => ~ p < PriorityIn(properties, c, candidates[a])
    <3> SUFFICES ASSUME NEW a \in 1 .. Len(candidates), a < at,
                        p < PriorityIn(properties, c, candidates[a])
                 PROVE  FALSE
      OBVIOUS
    <3>1. a \in I
      OBVIOUS
    <3>2. at <= a /\ a \in Nat
      BY <2>1, <3>1
    <3>3. at \in Nat
      BY <2>2
    <3> HIDE DEF I
    <3> QED
      BY <3>2, <3>3
  <2> HIDE DEF I
  <2> DEFINE x == candidates[at]
  <2>4. x # o
    BY <2>2
  <2>5. x \in ToSet(t)
    <3>1. x \in ToSet(candidates)
      BY <2>2 DEF ToSet
    <3>2. ToSet(t) = ToSet(s) \ {o}
      BY WithoutIs
    <3> QED
      BY <2>4, <3>1, <3>2
  <2>6. t \in Seq(Path)
    BY WithoutIs
  <2>7. K \in SUBSET Nat /\ K # {}
    BY <2>5, <2>6 DEF ToSet
  <2>8. k \in K
    <3> HIDE DEF K
    <3>1. \E i \in K : \A j \in K : i <= j
      BY <2>7, LeastNumber
    <3> QED
      BY <2>7, <3>1 DEF Min
  <2>9. k \in 1 .. Len(t) /\ t[k] = x
    BY <2>8
  <2>10. r = InsertAt(t, k, o)
    BY <1>3, <2>2
  <2> HIDE DEF k
  <2> QED
    BY <2>2, <2>3, <2>9, <2>10 DEF IsPlaced
<1> QED
  BY <1>5, <1>6

\* The things of s are in the order of their numbers in c.
InOrder(properties, c, s) ==
    \A i, j \in 1 .. Len(s) : i < j => PriorityIn(properties, c, s[i]) <= PriorityIn(properties, c, s[j])

\* Where things are searched as shown, they stay in the order of their numbers.
LEMMA InsertedInOrder ==
    ASSUME NEW properties, NEW c, NEW o \in Path, NEW p \in Int,
           NEW s, s = layout[c], s \in Seq(Path), Once(s), s = Candidates(c),
           PriorityIn(properties, c, o) = p,
           \A x \in ToSet(s) : PriorityIn(properties, c, x) \in Int,
           \A i, j \in 1 .. Len(s) : i < j /\ s[i] # o /\ s[j] # o =>
              PriorityIn(properties, c, s[i]) <= PriorityIn(properties, c, s[j]),
           NEW r, r = Inserted(properties, c, o, p)
    PROVE  InOrder(properties, c, r)
<1> DEFINE V(x) == PriorityIn(properties, c, x)
<1>0. PICK t : t = Without(s, o)
  OBVIOUS
<1> DEFINE n == Len(t)
<1>1. /\ t \in Seq(Path) /\ n \in Nat /\ ToSet(t) = ToSet(s) \ {o}
      /\ \E from \in [1 .. n -> 1 .. Len(s)] :
            /\ \A i \in 1 .. n : t[i] = s[from[i]]
            /\ \A i, j \in 1 .. n : i < j => from[i] < from[j]
  BY <1>0, WithoutIs
<1>2. PICK from \in [1 .. n -> 1 .. Len(s)] :
         /\ \A i \in 1 .. n : t[i] = s[from[i]]
         /\ \A i, j \in 1 .. n : i < j => from[i] < from[j]
  BY <1>1
<1>3. \A i \in 1 .. n : t[i] \in ToSet(s) /\ t[i] # o /\ V(t[i]) \in Int
  <2>1. \A i \in 1 .. n : t[i] \in ToSet(t)
    BY <1>1 DEF ToSet
  <2> QED
    BY <1>1, <2>1
<1> HIDE DEF V
<1>4. \A i, j \in 1 .. n : i < j => V(t[i]) <= V(t[j])
  <2> SUFFICES ASSUME NEW i \in 1 .. n, NEW j \in 1 .. n, i < j
               PROVE  V(t[i]) <= V(t[j])
    OBVIOUS
  <2>1. from[i] \in 1 .. Len(s) /\ from[j] \in 1 .. Len(s) /\ from[i] < from[j]
    BY <1>2
  <2>2. t[i] = s[from[i]] /\ t[j] = s[from[j]] /\ t[i] # o /\ t[j] # o
    BY <1>2, <1>3
  <2> HIDE DEF n
  <2> QED
    BY <2>1, <2>2 DEF V
<1>5. V(o) = p
  BY DEF V
<1>6. \/ /\ r = Append(t, o)
         /\ \A a \in 1 .. Len(s) : ~ p < V(s[a])
      \/ \E k \in 1 .. n, at \in 1 .. Len(s) :
            /\ r = InsertAt(t, k, o)
            /\ t[k] = s[at] /\ p < V(s[at])
            /\ \A a \in 1 .. Len(s) : a < at => ~ p < V(s[a])
  <2>1. ToSet(s) \ {o} \subseteq ToSet(s)
    OBVIOUS
  <2>2. IsPlaced(r, t, s, properties, c, o, p)
    BY <1>0, <2>1, InsertedIs
  <2> QED
    BY <2>2 DEF IsPlaced, V
<1> HIDE DEF n
<1>7. CASE r = Append(t, o) /\ \A a \in 1 .. Len(s) : ~ p < V(s[a])
  <2>1. Len(r) = n + 1 /\ r[n + 1] = o /\ \A i \in 1 .. n : r[i] = t[i]
    BY <1>1, <1>7, AppendProperties DEF n
  <2>2. \A i \in 1 .. n : V(t[i]) <= p
    BY <1>2, <1>3, <1>7
  <2>3. ASSUME NEW i \in 1 .. n + 1, NEW j \in 1 .. n + 1, i < j
        PROVE  V(r[i]) <= V(r[j])
    <3>1. i \in 1 .. n
      BY <1>1, <2>3
    <3>2. CASE j = n + 1
      BY <1>5, <2>1, <2>2, <3>1, <3>2
    <3>3. CASE j # n + 1
      <4>1. j \in 1 .. n
        BY <1>1, <3>3
      <4> QED
        BY <1>4, <2>1, <2>3, <3>1, <4>1
    <3> QED
      BY <3>2, <3>3
  <2> QED
    BY <2>1, <2>3 DEF InOrder, V
<1>8. CASE \E k \in 1 .. n, at \in 1 .. Len(s) :
              /\ r = InsertAt(t, k, o)
              /\ t[k] = s[at] /\ p < V(s[at])
              /\ \A a \in 1 .. Len(s) : a < at => ~ p < V(s[a])
  <2>1. PICK k \in 1 .. n, at \in 1 .. Len(s) :
              /\ r = InsertAt(t, k, o)
              /\ t[k] = s[at] /\ p < V(s[at])
              /\ \A a \in 1 .. Len(s) : a < at => ~ p < V(s[a])
    BY <1>8
  <2>2. IsPut(r, t, k, o)
    BY <1>1, <2>1, InsertedAt DEF n
  <2>3. /\ Len(r) = n + 1
        /\ \A i \in 1 .. n + 1 : r[i] = IF i < k THEN t[i] ELSE IF i = k THEN o ELSE t[i - 1]
    BY <2>2 DEF IsPut, n
  <2>4. from[k] = at
    <3>1. from[k] \in 1 .. Len(s) /\ s[from[k]] = s[at]
      BY <1>2, <2>1
    <3> QED
      BY <3>1 DEF Once
  <2>5. \A i \in 1 .. n : i < k => V(t[i]) <= p
    <3> SUFFICES ASSUME NEW i \in 1 .. n, i < k
                 PROVE  V(t[i]) <= p
      OBVIOUS
    <3>1. from[i] \in 1 .. Len(s) /\ from[i] < at /\ t[i] = s[from[i]] /\ V(t[i]) \in Int
      BY <1>2, <1>3, <2>4
    <3>2. ~ p < V(s[from[i]])
      BY <2>1, <3>1
    <3> QED
      BY <3>1, <3>2
  <2>6. \A i \in 1 .. n : ~ i < k => p <= V(t[i])
    <3> SUFFICES ASSUME NEW i \in 1 .. n, ~ i < k
                 PROVE  p <= V(t[i])
      OBVIOUS
    <3>1. V(t[k]) \in Int /\ V(t[i]) \in Int /\ p < V(t[k])
      BY <1>3, <2>1
    <3>2. k = i \/ V(t[k]) <= V(t[i])
      BY <1>4
    <3> QED
      BY <3>1, <3>2
  <2> DEFINE Was(l) == IF l < k THEN l ELSE l - 1
  <2>7. \A l \in 1 .. n + 1 : l # k => Was(l) \in 1 .. n /\ r[l] = t[Was(l)]
    BY <1>1, <2>3
  <2>8. r[k] = o
    BY <1>1, <2>3
  <2>9. \A l, h \in 1 .. n + 1 : l # k /\ h # k /\ l < h => Was(l) < Was(h)
    BY <1>1
  <2>10. \A l \in 1 .. n + 1 : l # k => (Was(l) < k <=> l < k)
    BY <1>1
  <2>11. \A l \in 1 .. n + 1 : l # k => V(r[l]) \in Int
    <3> HIDE DEF Was
    <3> QED
      BY <1>3, <2>7
  <2> HIDE DEF Was
  <2>12. ASSUME NEW i \in 1 .. n + 1, NEW j \in 1 .. n + 1, i < j
         PROVE  V(r[i]) <= V(r[j])
    <3>1. CASE i = k
      <4>1. j # k /\ ~ j < k /\ Was(j) \in 1 .. n /\ ~ Was(j) < k /\ r[j] = t[Was(j)]
        BY <2>7, <2>10, <2>12, <3>1
      <4> QED
        BY <1>5, <2>6, <2>8, <3>1, <4>1
    <3>2. CASE j = k
      <4>1. i # k /\ i < k /\ Was(i) \in 1 .. n /\ Was(i) < k /\ r[i] = t[Was(i)]
        BY <2>7, <2>10, <2>12, <3>2
      <4> QED
        BY <1>5, <2>5, <2>8, <3>2, <4>1
    <3>3. CASE i # k /\ j # k
      <4>1. Was(i) \in 1 .. n /\ Was(j) \in 1 .. n /\ Was(i) < Was(j)
            /\ r[i] = t[Was(i)] /\ r[j] = t[Was(j)]
        BY <2>7, <2>9, <2>12, <3>3
      <4> QED
        BY <1>4, <4>1
    <3> QED
      BY <3>1, <3>2, <3>3
  <2> QED
    BY <2>3, <2>12 DEF InOrder, V
<1> QED
  BY <1>6, <1>7, <1>8

-----------------------------------------------------------------------------
(* What containers show.                                                   *)

\* Some part has a tag of the kind and the name.
IsTag(kind, n) ==
    \E p \in Part : \E e \in ToSet(uidef(p)) : \E i \in DOMAIN e.tags :
        e.tags[i].tag = kind /\ e.tags[i].n = n

\* What a container shows is an item, or a folder that is there or a separator,
\* in the container.
Fits(c, o) == \/ Len(o) = 1
              \/ Child(c, o) /\ (o \in DOMAIN refs \/ IsTag("separator", Last(o)))

ShownInv ==
    /\ \A c \in DOMAIN layout : /\ layout[c] \in Seq(Path) /\ Once(layout[c])
                                /\ \A o \in ToSet(layout[c]) : Fits(c, o)
    /\ \A f \in DOMAIN refs : /\ Front(f) \in DOMAIN layout /\ TakesFolders(Front(f))
                              /\ ShowsFolders(Front(f)) => f \in ToSet(layout[Front(f)])

HereInv == Adding /\ job.at # <<>> => Here \in DOMAIN layout

\* What was written of an item is not a folder, nor what was of a separator.
Signed(t) == /\ t.tag = "item" => Len(t.o) = 1
             /\ t.tag = "separator" => IsTag("separator", Last(t.o))

SignInv == \A m \in Level : \A p \in DOMAIN m_uidescs[m] : \A k \in 1 .. Len(m_uidescs[m][p]) :
              \A i \in 1 .. Len(m_uidescs[m][p][k].tags) : Signed(m_uidescs[m][p][k].tags[i])

LInv == ShownInv /\ HereInv /\ SignInv

\* The folder that f is in.
LEMMA ParentIs ==
    ASSUME NEW f \in Path, Len(f) >= 2
    PROVE  Child(Front(f), f) /\ \A c : Child(c, f) => Front(f) = c
<1> DEFINE n == Len(f) - 1
           c == Front(f)
<1>1. Len(f) \in Nat /\ n \in Nat /\ n >= 1 /\ n + 1 = Len(f)
  BY PathLen
<1>2. c \in Path /\ Len(c) = n /\ \A i \in 1 .. n : c[i] = f[i]
  BY <1>1 DEF Front, Path
<1> HIDE DEF c, n
<1>3. Child(c, f)
  BY <1>1, <1>2 DEF Child, Within
<1> QED
  BY <1>3, OneParent DEF c

\* No separator has the name of a folder.
LEMMA SeparatorIsNoFolder ==
    ASSUME SeparatorsApart, NEW n, IsTag("folder", n)
    PROVE  ~ IsTag("separator", n)
<1> SUFFICES ASSUME IsTag("separator", n)
             PROVE  FALSE
  OBVIOUS
<1> DEFINE tags == UNION {UNION {ToSet(e.tags) : e \in ToSet(uidef(p))} : p \in Part}
<1>1. ASSUME NEW kind, IsTag(kind, n)
      PROVE  \E t \in tags : t.tag = kind /\ t.n = n
  <2>1. PICK p \in Part : \E e \in ToSet(uidef(p)) : \E i \in DOMAIN e.tags :
                e.tags[i].tag = kind /\ e.tags[i].n = n
    BY <1>1 DEF IsTag
  <2>2. PICK e \in ToSet(uidef(p)) : \E i \in DOMAIN e.tags :
                e.tags[i].tag = kind /\ e.tags[i].n = n
    BY <2>1
  <2>3. PICK i \in DOMAIN e.tags : e.tags[i].tag = kind /\ e.tags[i].n = n
    BY <2>2
  <2>4. e.tags[i] \in ToSet(e.tags)
    BY DEF ToSet
  <2>5. e.tags[i] \in tags
    BY <2>4
  <2> QED
    BY <2>3, <2>5
<1>2. \A t, u \in tags : t.tag = "folder" /\ u.tag = "separator" => t.n # u.n
  BY DEF SeparatorsApart
<1> HIDE DEF tags
<1>3. PICK t \in tags : t.tag = "folder" /\ t.n = n
  BY <1>1
<1>4. PICK u \in tags : u.tag = "separator" /\ u.n = n
  BY <1>1
<1> QED
  BY <1>2, <1>3, <1>4

LEMMA FolderIsTag ==
    ASSUME IInv, NEW f \in DOMAIN refs
    PROVE  f \in Path /\ Len(f) >= 2 /\ f[1] \in Bag /\ IsTag("folder", Last(f))
<1>1. f \in Path /\ Len(f) >= 2 /\ f[1] \in Bag /\ Described(f)
  BY DEF IInv, CountInv, FolderType
<1> QED
  BY <1>1 DEF Described, IsTag

LEMMA ShownStays ==
    ASSUME ShownInv, layout' = layout, DOMAIN refs' = DOMAIN refs
    PROVE  ShownInv'
<1>1. \A c, o : Fits(c, o)' <=> Fits(c, o)
  BY DEF Fits
<1> QED
  BY <1>1 DEF ShownInv

LEMMA HereStays ==
    ASSUME HereInv, IInv', DOMAIN layout \subseteq DOMAIN layout',
           ~ Adding' \/ job'.at = <<>> \/ (Adding /\ job'.at = job.at)
    PROVE  HereInv'
BY DEF HereInv, Here

LEMMA SignStays ==
    ASSUME SignInv, m_uidescs' = m_uidescs
    PROVE  SignInv'
BY DEF SignInv

\* Entries are as before, or what they hold is signed.
LEMMA SignKept ==
    ASSUME SignInv,
           \A m \in Level : \A p \in DOMAIN m_uidescs'[m] :
              \A k \in 1 .. Len(m_uidescs'[m][p]) :
                 LET new == m_uidescs'[m][p][k].tags
                 IN \/ /\ p \in DOMAIN m_uidescs[m] /\ k \in 1 .. Len(m_uidescs[m][p])
                       /\ new = m_uidescs[m][p][k].tags
                    \/ \A i \in 1 .. Len(new) : Signed(new[i])
    PROVE  SignInv'
<1> SUFFICES ASSUME NEW m \in Level, NEW p \in DOMAIN m_uidescs'[m],
                    NEW k \in 1 .. Len(m_uidescs'[m][p])
             PROVE  \A i \in 1 .. Len(m_uidescs'[m][p][k].tags) : Signed(m_uidescs'[m][p][k].tags[i])
  BY DEF SignInv
<1> DEFINE new == m_uidescs'[m][p][k].tags
<1>1. \/ /\ p \in DOMAIN m_uidescs[m] /\ k \in 1 .. Len(m_uidescs[m][p])
         /\ new = m_uidescs[m][p][k].tags
      \/ \A i \in 1 .. Len(new) : Signed(new[i])
  OBVIOUS
<1> QED
  BY <1>1 DEF SignInv

\* Steps that change neither what is shown nor what was written.
LEMMA QuietStep ==
    ASSUME IInv, IInv', LInv, UNCHANGED <<refs, layout, m_uidescs>>,
           ~ Adding' \/ job'.at = <<>> \/ (Adding /\ job'.at = job.at)
    PROVE  LInv'
BY ShownStays, HereStays, SignStays DEF LInv

LEMMA QuietSteps ==
    ASSUME IInv, IInv', LInv,
           \/ \E b \in Bag : install(b) \/ remove(b)
           \/ \E m \in Level : clear(m)
           \/ ClearNext \/ ClearEnds
           \/ \E p \in Part : removeUI(p)
           \/ CloseBag \/ SkipFolder \/ ReopenBag \/ removeFolder
           \/ UNCHANGED vars
    PROVE  LInv'
<1>1. CASE \/ \E b \in Bag : install(b) \/ remove(b)
           \/ UNCHANGED vars
  <2>1. UNCHANGED <<refs, layout, m_uidescs, job>>
    BY <1>1 DEF install, remove, vars
  <2>2. ~ Adding' \/ job'.at = <<>> \/ (Adding /\ job'.at = job.at)
    BY <2>1 DEF Adding
  <2> QED
    BY <2>1, <2>2, QuietStep
<1>2. CASE (\E m \in Level : clear(m)) \/ (\E p \in Part : removeUI(p)) \/ ClearEnds
  <2>1. UNCHANGED <<refs, layout, m_uidescs>>
    BY <1>2 DEF clear, removeUI, ClearEnds
  <2>2. job'.op # "add"
    BY <1>2 DEF clear, removeUI, ClearEnds, Removes, None
  <2>3. ~ Adding'
    BY <2>2 DEF Adding
  <2> QED
    BY <2>1, <2>3, QuietStep
<1>3. CASE ClearNext \/ ReopenBag \/ removeFolder
  <2>1. UNCHANGED <<refs, layout, m_uidescs>> /\ Removing
    BY <1>3 DEF ClearNext, ReopenBag, removeFolder, Removing
  <2>2. job \in RemoveJob
    BY <2>1, JobKinds DEF IInv
  <2>3. job'.op = job.op
    BY <1>3, <2>2 DEF ClearNext, ReopenBag, removeFolder, RemoveJob, Pop
  <2>4. ~ Adding'
    BY <2>1, <2>3 DEF Adding, Removing
  <2> QED
    BY <2>1, <2>4, QuietStep
<1>4. CASE CloseBag
  <2>1. UNCHANGED <<refs, layout, m_uidescs>> /\ ~ Idle /\ job' = [job EXCEPT !.at = <<>>]
    BY <1>4 DEF CloseBag, InBag
  <2>2. job \in AddJob \/ job \in RemoveJob
    BY <2>1 DEF IInv, JobType, Idle
  <2>3. job'.at = <<>>
    BY <2>1, <2>2 DEF AddJob, RemoveJob
  <2> QED
    BY <2>1, <2>3, QuietStep
<1>5. CASE SkipFolder
  <2>1. UNCHANGED <<refs, layout, m_uidescs>> /\ Adding /\ job' = [job EXCEPT !.tags = Skipped(@)]
    BY <1>5 DEF SkipFolder
  <2>2. job \in AddJob
    BY <2>1, AddingIs
  <2>3. job'.at = job.at
    BY <2>1, <2>2 DEF AddJob
  <2> QED
    BY <2>1, <2>3, QuietStep
<1> QED
  BY <1>1, <1>2, <1>3, <1>4, <1>5

\* Descriptions begin empty, and with them bags.
LEMMA DescSteps ==
    ASSUME IInv, IInv', LInv, (\E p \in Part : addUI(p)) \/ AddEnds \/ OpenBag \/ RemoveEnds
    PROVE  LInv'
<1>1. UNCHANGED <<refs, layout>>
  BY DEF addUI, AddEnds, OpenBag, RemoveEnds
<1>2. DOMAIN m_uidescs = Level
  BY DEF IInv, DescType
<1>3. ASSUME NEW p \in Part, NEW m \in Level, NEW bags, Begins(p, m, bags)
      PROVE  SignInv' /\ job'.at = <<>>
  <2>1. job'.at = <<>> /\ m_uidescs' = [m_uidescs EXCEPT ![m] = With(@, p, <<>>)]
    BY <1>3 DEF Begins
  <2>2. ASSUME NEW n \in Level, NEW q \in DOMAIN m_uidescs'[n], m_uidescs'[n][q] # <<>>
        PROVE  q \in DOMAIN m_uidescs[n] /\ m_uidescs'[n][q] = m_uidescs[n][q]
    BY <1>2, <2>1, <2>2 DEF With
  <2>3. SignInv'
    <3> SUFFICES ASSUME NEW n \in Level, NEW q \in DOMAIN m_uidescs'[n],
                        NEW k \in 1 .. Len(m_uidescs'[n][q])
                 PROVE  /\ q \in DOMAIN m_uidescs[n] /\ k \in 1 .. Len(m_uidescs[n][q])
                        /\ m_uidescs'[n][q][k].tags = m_uidescs[n][q][k].tags
      BY SignKept DEF LInv
    <3>1. m_uidescs'[n][q] # <<>>
      OBVIOUS
    <3> QED
      BY <2>2, <3>1
  <2> QED
    BY <2>1, <2>3
<1>4. CASE \E p \in Part : addUI(p)
  <2>1. PICK p \in Part : Begins(p, Entry(p), uidef(p))
    BY <1>4 DEF addUI
  <2>2. Entry(p) \in Level
    BY LevelsAssumption DEF Level
  <2>3. SignInv' /\ job'.at = <<>>
    BY <1>3, <2>1, <2>2
  <2>4. ShownInv' /\ HereInv'
    BY <1>1, <2>3, ShownStays, HereStays DEF LInv
  <2> QED
    BY <2>3, <2>4 DEF LInv
<1>5. CASE AddEnds
  <2>1. CASE job.m = Levels
    <3>1. job' = None /\ UNCHANGED m_uidescs
      BY <1>5, <2>1 DEF AddEnds
    <3>2. ~ Adding'
      BY <3>1 DEF Adding, None
    <3> QED
      BY <1>1, <3>1, <3>2, QuietStep
  <2>2. CASE job.m # Levels
    <3>1. Adding /\ Begins(job.part, job.m + 1, purgeUI(job.m, job.left))
      BY <1>5, <2>2 DEF AddEnds, AtEnd, Adding
    <3>2. job.part \in Part /\ job.m \in Level
      BY <3>1, AddingIs
    <3>3. job.m + 1 \in Level
      BY <2>2, <3>2, LevelsAssumption DEF Level
    <3>4. SignInv' /\ job'.at = <<>>
      BY <1>3, <3>1, <3>2, <3>3
    <3>5. ShownInv' /\ HereInv'
      BY <1>1, <3>4, ShownStays, HereStays DEF LInv
    <3> QED
      BY <3>4, <3>5 DEF LInv
  <2> QED
    BY <2>1, <2>2
<1>6. CASE OpenBag
  <2> DEFINE m == job.m
             p == job.part
             d == m_uidescs[m][p]
  <2>1. Adding /\ job.at = <<>>
    BY <1>6 DEF OpenBag
  <2>2. job \in AddJob /\ m \in Level /\ p \in DOMAIN m_uidescs[m] /\ d \in Seq(WrittenBag)
    BY <2>1, AddingIs DEF Current
  <2>3. CASE UNCHANGED m_uidescs /\ job' = [job EXCEPT !.bags = Tail(@)]
    <3>1. job'.at = job.at
      BY <2>2, <2>3 DEF AddJob
    <3> QED
      BY <1>1, <2>1, <2>3, <3>1, QuietStep
  <2>4. CASE \E b \in Known(m, Head(job.bags).bag) :
                /\ job' = [job EXCEPT !.bags = Tail(@), !.tags = Head(job.bags).tags,
                                      !.at = <<Container(b)>>]
                /\ m_uidescs' = [m_uidescs EXCEPT ![m][p] = Append(@, [bag |-> b, tags |-> <<>>])]
    <3>1. PICK b \in Known(m, Head(job.bags).bag) :
                /\ job' = [job EXCEPT !.bags = Tail(@), !.tags = Head(job.bags).tags,
                                      !.at = <<Container(b)>>]
                /\ m_uidescs' = [m_uidescs EXCEPT ![m][p] = Append(@, [bag |-> b, tags |-> <<>>])]
      BY <2>4
    <3>2. b \in Bag
      BY DEF Known, IInv, DescInv
    <3>3. job'.at = <<Container(b)>>
      BY <2>2, <3>1 DEF AddJob
    <3>4. Here' = Container(b)
      BY <3>2, <3>3, ChainStart DEF Here
    <3>5. HereInv'
      <4>1. Container(b) \in DOMAIN layout
        BY <3>2 DEF IInv, ShapeInv
      <4> QED
        BY <1>1, <3>4, <4>1 DEF HereInv
    <3> DEFINE t == [bag |-> b, tags |-> <<>>]
               new == Append(d, t)
               n == Len(d)
    <3>6. /\ m_uidescs'[m][p] = new
          /\ \A l \in Level : DOMAIN m_uidescs'[l] = DOMAIN m_uidescs[l]
          /\ \A l \in Level : \A q \in DOMAIN m_uidescs[l] :
                l # m \/ q # p => m_uidescs'[l][q] = m_uidescs[l][q]
      BY <1>2, <2>2, <3>1
    <3>7. n \in Nat /\ Len(new) = n + 1 /\ new[n + 1] = t /\ \A k \in 1 .. n : new[k] = d[k]
      BY <2>2
    <3>8. t.tags = <<>> /\ Len(t.tags) = 0
      OBVIOUS
    <3> HIDE DEF t, new
    <3>9. SignInv'
      <4> SUFFICES ASSUME NEW l \in Level, NEW q \in DOMAIN m_uidescs'[l],
                          NEW k \in 1 .. Len(m_uidescs'[l][q])
                   PROVE  \/ /\ q \in DOMAIN m_uidescs[l] /\ k \in 1 .. Len(m_uidescs[l][q])
                             /\ m_uidescs'[l][q][k].tags = m_uidescs[l][q][k].tags
                          \/ \A i \in 1 .. Len(m_uidescs'[l][q][k].tags) :
                                Signed(m_uidescs'[l][q][k].tags[i])
        BY SignKept DEF LInv
      <4>1. CASE l # m \/ q # p
        BY <3>6, <4>1
      <4>2. CASE l = m /\ q = p /\ k = n + 1
        <5>1. Len(m_uidescs'[l][q][k].tags) = 0
          BY <3>6, <3>7, <3>8, <4>2
        <5> QED
          BY <5>1
      <4>3. CASE l = m /\ q = p /\ k # n + 1
        <5>1. k \in 1 .. n
          BY <3>6, <3>7, <4>3
        <5> QED
          BY <3>6, <3>7, <4>3, <5>1
      <4> QED
        BY <4>1, <4>2, <4>3
    <3>10. ShownInv'
      BY <1>1, ShownStays DEF LInv
    <3> QED
      BY <3>5, <3>9, <3>10 DEF LInv
  <2> QED
    BY <1>6, <2>3, <2>4 DEF OpenBag
<1>7. CASE RemoveEnds
  <2>1. Removing /\ m_uidescs' = [m_uidescs EXCEPT ![job.m] =
                                     [q \in DOMAIN @ \ {job.part} |-> @[q]]]
    BY <1>7 DEF RemoveEnds
  <2>2. job \in RemoveJob /\ job.m \in Level
    BY <2>1, JobKinds DEF IInv, RemoveJob
  <2>3. ASSUME NEW l \in Level, NEW q \in DOMAIN m_uidescs'[l]
        PROVE  q \in DOMAIN m_uidescs[l] /\ m_uidescs'[l][q] = m_uidescs[l][q]
    BY <1>2, <2>1, <2>2
  <2>4. SignInv'
    BY <2>3, SignKept DEF LInv
  <2>5. job'.op # "add"
    <3>1. CASE job.op = "clear"
      <4>1. job'.op = job.op
        BY <1>7, <2>2, <3>1 DEF RemoveEnds, RemoveJob
      <4> QED
        BY <3>1, <4>1
    <3>2. CASE job.op # "clear"
      BY <1>7, <3>2 DEF RemoveEnds, Removes, None
    <3> QED
      BY <3>1, <3>2
  <2>6. ~ Adding'
    BY <2>5 DEF Adding
  <2> QED
    BY <1>1, <2>4, <2>6, ShownStays, HereStays DEF LInv
<1> QED
  BY <1>4, <1>5, <1>6, <1>7

\* A signed tag is written.
LEMMA SignNoted ==
    ASSUME IInv, LInv, Adding, job.at # <<>>, NEW t \in Written, WrittenAlso(t), Signed(t)
    PROVE  SignInv'
<1> DEFINE n == Len(Current)
           old == Current[n].tags
           new == m_uidescs'[job.m][job.part]
<1>1. /\ job.m \in Level /\ job.part \in DOMAIN m_uidescs[job.m]
      /\ Current = m_uidescs[job.m][job.part] /\ n \in Nat
  BY AddingIs DEF Current
<1>2. n >= 1 /\ old \in Seq(Written)
  BY AddingTo
<1>3. /\ \A m \in Level : DOMAIN m_uidescs'[m] = DOMAIN m_uidescs[m]
      /\ \A m \in Level : \A p \in DOMAIN m_uidescs[m] :
            m # job.m \/ p # job.part => m_uidescs'[m][p] = m_uidescs[m][p]
      /\ Len(new) = n
      /\ \A k \in 1 .. n : k # n => new[k] = Current[k]
      /\ new[n].tags = Append(old, t)
  BY DEF WrittenAlso
<1>4. \A i \in 1 .. Len(old) : Signed(old[i])
  <2>1. n \in 1 .. Len(m_uidescs[job.m][job.part]) /\ old = m_uidescs[job.m][job.part][n].tags
    BY <1>1, <1>2
  <2> HIDE DEF n, old
  <2> QED
    BY <1>1, <2>1 DEF LInv, SignInv
<1> HIDE DEF n, old, new
<1> SUFFICES ASSUME NEW m \in Level, NEW p \in DOMAIN m_uidescs'[m],
                    NEW k \in 1 .. Len(m_uidescs'[m][p])
             PROVE  LET tags == m_uidescs'[m][p][k].tags
                    IN \/ /\ p \in DOMAIN m_uidescs[m] /\ k \in 1 .. Len(m_uidescs[m][p])
                          /\ tags = m_uidescs[m][p][k].tags
                       \/ \A i \in 1 .. Len(tags) : Signed(tags[i])
  BY SignKept DEF LInv
<1>5. CASE m = job.m /\ p = job.part /\ k = n
  <2> DEFINE more == Append(old, t)
  <2>1. Len(more) = Len(old) + 1 /\ Len(old) \in Nat
        /\ (\A i \in 1 .. Len(old) : more[i] = old[i]) /\ more[Len(old) + 1] = t
    BY <1>2, AppendProperties
  <2> HIDE DEF more
  <2>2. ASSUME NEW i \in 1 .. Len(more)
        PROVE  Signed(more[i])
    <3>1. CASE i = Len(old) + 1
      BY <2>1, <3>1
    <3>2. CASE i # Len(old) + 1
      <4>1. i \in 1 .. Len(old)
        BY <2>1, <3>2
      <4> QED
        BY <1>4, <2>1, <4>1
    <3> QED
      BY <3>1, <3>2
  <2>3. m_uidescs'[m][p][k].tags = more
    BY <1>3, <1>5 DEF new, more
  <2> QED
    BY <2>2, <2>3
<1>6. CASE ~ (m = job.m /\ p = job.part /\ k = n)
  BY <1>1, <1>3, <1>6 DEF n, new
<1> QED
  BY <1>5, <1>6

\* Containers show more.
LEMMA ShownMore ==
    ASSUME ShownInv, DOMAIN refs' = DOMAIN refs, DOMAIN layout' = DOMAIN layout,
           \A c \in DOMAIN layout :
              /\ layout'[c] \in Seq(Path) /\ Once(layout'[c])
              /\ ToSet(layout[c]) \subseteq ToSet(layout'[c])
              /\ \A o \in ToSet(layout'[c]) : o \in ToSet(layout[c]) \/ Fits(c, o)
    PROVE  ShownInv'
<1>1. \A c, o : Fits(c, o)' <=> Fits(c, o)
  BY DEF Fits
<1>2. ASSUME NEW c \in DOMAIN layout', NEW o \in ToSet(layout'[c])
      PROVE  Fits(c, o)'
  BY <1>1, <1>2 DEF ShownInv
<1>3. ASSUME NEW f \in DOMAIN refs'
      PROVE  /\ Front(f) \in DOMAIN layout' /\ TakesFolders(Front(f))
             /\ ShowsFolders(Front(f)) => f \in ToSet(layout'[Front(f)])
  BY <1>3 DEF ShownInv
<1> QED
  BY <1>2, <1>3 DEF ShownInv

\* The priority that is set is the one found.
LEMMA PrioritySet ==
    ASSUME NEW c, NEW o, NEW p, NEW properties, properties = WithPriority(c, o, p)
    PROVE  /\ PriorityIn(properties, c, o) = p
           /\ properties[<<o, Last(c)>>] = p
           /\ DOMAIN properties = DOMAIN priority \cup {<<o, Last(c)>>}
           /\ \A x \in DOMAIN priority : x # <<o, Last(c)>> => properties[x] = priority[x]
           /\ \A d, x : <<x, Last(d)>> # <<o, Last(c)>> =>
                 PriorityIn(properties, d, x) = PriorityIn(priority, d, x)
<1> DEFINE key == <<o, Last(c)>>
<1>1. properties = [y \in DOMAIN priority \cup {key} |-> IF y = key THEN p ELSE priority[y]]
  BY DEF WithPriority, With
<1> HIDE DEF key
<1>2. /\ DOMAIN properties = DOMAIN priority \cup {key} /\ properties[key] = p
      /\ \A x \in DOMAIN priority : x # key => properties[x] = priority[x]
  BY <1>1
<1> QED
  BY <1>2 DEF PriorityIn, key

\* No folder is below a tool bar: all below a window are its own.
LEMMA BarsAreNear ==
    ASSUME IInv, ShownInv, NEW c \in DOMAIN layout, Kind(c) = "window",
           NEW f \in DOMAIN refs, IsStrictPrefix(c, f)
    PROVE  Front(f) = c
<1>1. f \in Path /\ Len(f) >= 2 /\ Len(f) \in Nat
  BY PathLen DEF IInv, CountInv, FolderType
<1>2. Len(c) = 1 /\ BagKind(c[1]) = "window" /\ c \in Path
  <2>1. Len(c) = 1
    BY DEF Kind
  <2>2. c \notin DOMAIN refs
    <3>1. \A g \in DOMAIN refs : Len(g) >= 2
      BY DEF IInv, CountInv, FolderType
    <3>2. ~ 1 >= 2
      OBVIOUS
    <3> QED
      BY <2>1, <3>1, <3>2
  <2>3. \E b \in Bag : c = Container(b)
    BY <2>2 DEF IInv, ShapeInv
  <2>4. c \in Path
    BY <2>3 DEF Container, Path
  <2> QED
    BY <2>1, <2>4 DEF Kind
<1>3. f[1] = c[1]
  <2>1. Within(c, f)
    BY <1>1, <1>2, PrefixIsWithin DEF IsStrictPrefix
  <2> QED
    BY <1>2, <2>1 DEF Within
<1> DEFINE g == Front(f)
<1>4. g \in Path /\ Len(g) = Len(f) - 1 /\ g[1] = f[1]
  <2>1. Child(g, f) /\ g \in Path
    <3>1. Child(g, f)
      BY <1>1, ParentIs
    <3>2. g \in Path
      BY <1>1 DEF Front, Path
    <3> QED
      BY <3>1, <3>2
  <2> QED
    BY <1>1, <2>1 DEF Child, Within
<1>5. TakesFolders(g)
  BY DEF ShownInv
<1> HIDE DEF g
<1>6. Len(g) = 1
  <2>1. Len(g) # 1 => Kind(g) = "toolbar"
    BY <1>2, <1>3, <1>4 DEF Kind
  <2> QED
    BY <1>5, <2>1 DEF TakesFolders
<1>7. Child(c, f)
  <2>1. Within(c, f)
    BY <1>1, <1>2, <1>3 DEF Within
  <2>2. Len(f) = 2
    <3>1. Len(f) - 1 = 1
      BY <1>4, <1>6
    <3> QED
      BY <1>1, <3>1
  <2> QED
    BY <1>1, <1>2, <2>1, <2>2 DEF Child
<1> QED
  BY <1>1, <1>7, ParentIs

\* What is inserted into a container is in it once.
LEMMA InsertedIsShown ==
    ASSUME IInv, ShownInv, NEW c \in DOMAIN layout, NEW o \in Path, NEW p \in Int,
           ShowsFolders(c) \/ ShowsActions(c),
           NEW r, r = Inserted(WithPriority(c, o, p), c, o, p)
    PROVE  r \in Seq(Path) /\ Once(r) /\ ToSet(r) = ToSet(layout[c]) \cup {o}
<1>1. PICK s : s = layout[c]
  OBVIOUS
<1>2. PICK candidates : candidates = Candidates(c)
  OBVIOUS
<1>3. PICK properties : properties = WithPriority(c, o, p)
  OBVIOUS
<1>4. s \in Seq(Path) /\ Once(s)
  BY <1>1 DEF ShownInv
<1>5. PriorityIn(properties, c, o) = p
  BY <1>3 DEF PriorityIn, WithPriority, With
<1>6. candidates \in Seq(Path) /\ ToSet(candidates) \subseteq ToSet(s)
  <2>1. CASE Kind(c) = "window"
    <3> DEFINE S == {f \in ToSet(born) : IsStrictPrefix(c, f)}
    <3>1. candidates = Only(born, S) /\ born \in Seq(Path)
      BY <1>2, <2>1 DEF Candidates, IInv, ShapeInv
    <3>2. candidates \in Seq(Path) /\ ToSet(candidates) = ToSet(born) \cap S
      <4> HIDE DEF S
      <4> QED
        BY <3>1, OnlyProperties
    <3>3. ShowsFolders(c)
      BY <2>1 DEF ShowsFolders
    <3>4. ASSUME NEW f \in S
          PROVE  f \in ToSet(s)
      <4>1. f \in DOMAIN refs /\ IsStrictPrefix(c, f) /\ f \in Path /\ Len(f) >= 2
        BY <3>4 DEF IInv, ShapeInv, CountInv, FolderType
      <4>2. Front(f) = c
        BY <2>1, <4>1, BarsAreNear
      <4> QED
        BY <1>1, <3>3, <4>1, <4>2 DEF ShownInv
    <3> QED
      BY <3>2, <3>4
  <2>2. CASE Kind(c) # "window"
    BY <1>1, <1>2, <1>4, <2>2 DEF Candidates
  <2> QED
    BY <2>1, <2>2
<1>7. PICK t : t = Without(s, o)
  OBVIOUS
<1>8. ToSet(candidates) \ {o} \subseteq ToSet(s)
  BY <1>6
<1>9. r = Inserted(properties, c, o, p)
  BY <1>3
<1>10. IsPlaced(r, t, candidates, properties, c, o, p)
  BY <1>1, <1>2, <1>4, <1>5, <1>6, <1>7, <1>8, <1>9, InsertedIs
<1>11. r = Append(t, o) \/ \E k \in 1 .. Len(t) : r = InsertAt(t, k, o)
  BY <1>10 DEF IsPlaced
<1>12. t \in Seq(Path) /\ Once(t) /\ ToSet(t) = ToSet(s) \ {o}
  BY <1>4, <1>7, WithoutIs
<1>13. o \notin ToSet(t)
  BY <1>12
<1>14. r \in Seq(Path) /\ Once(r) /\ ToSet(r) = ToSet(t) \cup {o}
  BY <1>11, <1>12, <1>13, InsertedOnce
<1> QED
  BY <1>1, <1>12, <1>14

\* An item or a separator is shown where the addition is.
LEMMA ShowsIsShown ==
    ASSUME IInv, LInv, Adding, job.at # <<>>, Tag \in Element,
           NEW o \in Path, Fits(Here, o), Shows(o), DOMAIN refs' = DOMAIN refs
    PROVE  ShownInv'
<1>1. Here \in DOMAIN layout /\ ShownInv
  BY DEF LInv, HereInv
<1>2. Tag.p \in Int
  BY DEF Element
<1>3. \A c \in DOMAIN layout : layout[c] \in Seq(Path) /\ Once(layout[c])
  BY <1>1 DEF ShownInv
<1>4. CASE ShowsActions(Here)
  <2> DEFINE r == Inserted(priority', Here, o, Tag.p)
  <2>1. priority' = WithPriority(Here, o, Tag.p) /\ layout' = [layout EXCEPT ![Here] = r]
    BY <1>4 DEF Shows, ShowsActions
  <2>2. r \in Seq(Path) /\ Once(r) /\ ToSet(r) = ToSet(layout[Here]) \cup {o}
    BY <1>1, <1>2, <1>4, <2>1, InsertedIsShown
  <2> HIDE DEF r
  <2>3. ASSUME NEW c \in DOMAIN layout
        PROVE  /\ layout'[c] \in Seq(Path) /\ Once(layout'[c])
               /\ ToSet(layout[c]) \subseteq ToSet(layout'[c])
               /\ \A x \in ToSet(layout'[c]) : x \in ToSet(layout[c]) \/ Fits(c, x)
    <3>1. CASE c = Here
      BY <1>1, <2>1, <2>2, <3>1
    <3>2. CASE c # Here
      BY <1>3, <2>1, <3>2
    <3> QED
      BY <3>1, <3>2
  <2> QED
    BY <1>1, <2>1, <2>3, ShownMore
<1>5. CASE Kind(Here) = "stack"
  <2> DEFINE t == Without(layout[Here], o)
             r == Append(t, o)
  <2>1. layout' = [layout EXCEPT ![Here] = r]
    BY <1>5 DEF Shows, ShowsActions
  <2>2. t \in Seq(Path) /\ Once(t) /\ ToSet(t) = ToSet(layout[Here]) \ {o}
    BY <1>1, <1>3, WithoutIs
  <2> HIDE DEF t
  <2>3. r \in Seq(Path) /\ Once(r) /\ ToSet(r) = ToSet(layout[Here]) \cup {o}
    <3>1. r = Append(t, o) \/ \E k \in 1 .. Len(t) : r = InsertAt(t, k, o)
      OBVIOUS
    <3>2. o \notin ToSet(t)
      BY <2>2
    <3> HIDE DEF r
    <3>3. r \in Seq(Path) /\ Once(r) /\ ToSet(r) = ToSet(t) \cup {o}
      BY <2>2, <3>1, <3>2, InsertedOnce
    <3> QED
      BY <2>2, <3>3
  <2> HIDE DEF r
  <2>4. ASSUME NEW c \in DOMAIN layout
        PROVE  /\ layout'[c] \in Seq(Path) /\ Once(layout'[c])
               /\ ToSet(layout[c]) \subseteq ToSet(layout'[c])
               /\ \A x \in ToSet(layout'[c]) : x \in ToSet(layout[c]) \/ Fits(c, x)
    <3>1. CASE c = Here
      BY <1>1, <2>1, <2>3, <3>1
    <3>2. CASE c # Here
      BY <1>3, <2>1, <3>2
    <3> QED
      BY <3>1, <3>2
  <2> QED
    BY <1>1, <2>1, <2>4, ShownMore
<1>6. CASE ~ ShowsActions(Here) /\ Kind(Here) # "stack"
  <2>1. layout' = layout
    BY <1>6 DEF Shows
  <2> QED
    BY <1>1, <2>1, ShownStays
<1> QED
  BY <1>4, <1>5, <1>6

\* The tag that is read is in a description of the part.
LEMMA TagIsTag ==
    ASSUME IInv, Adding, job.at # <<>>, job.tags # <<>>
    PROVE  Tag \in Element /\ IsTag(Tag.tag, Tag.n)
<1> DEFINE b == Current[Len(Current)].bag
<1>1. /\ Tag \in Element
      /\ \E e \in ToSet(uidef(job.part)) : \E r : r + 1 \in DOMAIN e.tags /\ e.tags[r + 1] = Tag
  BY AddTag
<1>2. job.part \in Part
  BY AddingIs
<1>3. PICK e \in ToSet(uidef(job.part)) : \E r : r + 1 \in DOMAIN e.tags /\ e.tags[r + 1] = Tag
  BY <1>1
<1>4. PICK i \in DOMAIN e.tags : e.tags[i] = Tag
  BY <1>3
<1> QED
  BY <1>1, <1>2, <1>4 DEF IsTag

LEMMA ItemsShown ==
    ASSUME IInv, IInv', LInv, addItem \/ addSeparator
    PROVE  LInv'
<1>1. /\ Adding /\ job.at # <<>> /\ job.tags # <<>>
      /\ refs' = refs /\ job' = Pop
  BY DEF addItem, addSeparator, HasTag, InBag
<1>2. job \in AddJob
  BY <1>1, AddingIs
<1>3. job'.at = job.at
  BY <1>1, <1>2 DEF Pop, AddJob
<1>4. Tag \in Element /\ IsTag(Tag.tag, Tag.n) /\ Tag.n \in Bag \cup STRING
  BY <1>1, TagIsTag DEF Element
<1> DEFINE g == Append(Here, Tag.n)
           i == <<Tag.n>>
<1>5. Child(Here, g) /\ Last(g) = Tag.n /\ g \in Path
  <2>1. Here \in Path /\ Len(Here) >= 1
    BY <1>1, HereIs
  <2> QED
    BY <1>4, <2>1, AppendIsChild DEF Child
<1>6. i \in Path /\ Len(i) = 1
  BY <1>4 DEF Path
<1> HIDE DEF g, i
<1>7. ASSUME NEW t \in Written, m_uidescs' = Noted(t), Signed(t), t.o \in Path, Fits(Here, t.o), Shows(t.o)
      PROVE  LInv'
  <2>1. WrittenAlso(t)
    BY <1>1, <1>7, NotedIs
  <2>2. SignInv'
    BY <1>1, <1>7, <2>1, SignNoted
  <2>3. ShownInv' /\ DOMAIN layout' = DOMAIN layout
    BY <1>1, <1>4, <1>7, ShowsIsShown, ShowsIs
  <2>4. HereInv'
    BY <1>1, <1>3, <2>3, HereStays DEF LInv
  <2> QED
    BY <2>2, <2>3, <2>4 DEF LInv
<1>8. CASE UNCHANGED <<layout, m_uidescs>>
  BY <1>1, <1>3, <1>8, QuietStep
<1>9. CASE addItem /\ ~ UNCHANGED <<layout, m_uidescs>>
  <2> DEFINE t == [tag |-> "item", o |-> i]
  <2>1. m_uidescs' = Noted(t) /\ Shows(t.o)
    BY <1>9 DEF addItem, i
  <2>2. t \in Written /\ Signed(t) /\ t.o \in Path /\ Fits(Here, t.o)
    BY <1>6 DEF Written, Signed, Fits
  <2> HIDE DEF t
  <2> QED
    BY <1>7, <2>1, <2>2
<1>10. CASE addSeparator /\ ~ UNCHANGED <<layout, m_uidescs>>
  <2> DEFINE t == [tag |-> "separator", o |-> g]
  <2>1. m_uidescs' = Noted(t) /\ Shows(t.o) /\ Tag.tag = "separator"
    BY <1>10 DEF addSeparator, HasTag, g
  <2>2. t \in Written /\ Signed(t) /\ t.o \in Path /\ Fits(Here, t.o)
    BY <1>4, <1>5, <2>1 DEF Written, Signed, Fits
  <2> HIDE DEF t
  <2> QED
    BY <1>7, <2>1, <2>2
<1> QED
  BY <1>8, <1>9, <1>10

\* Back in the folder that the folder is in.
LEMMA EndShown ==
    ASSUME IInv, IInv', LInv, FolderAdded
    PROVE  LInv'
<1> DEFINE b == Current[Len(Current)].bag
           t == [tag |-> "end"]
<1>1. /\ Adding /\ job.at # <<>> /\ job.tags # <<>> /\ Tag.tag = "end"
      /\ UNCHANGED <<refs, layout>> /\ m_uidescs' = Noted(t)
  BY DEF FolderAdded, HasTag, InBag
<1>2. job \in AddJob /\ job.at \in Seq(Path) /\ Chain(job.at, b)
  BY <1>1, AddingIs, AddingTo
<1>3. Len(job.at) >= 2
  BY <1>1, AddTag
<1>4. job'.at = Front(job.at)
  BY <1>2 DEF FolderAdded, Pop, AddJob
<1>5. Child(Last(Front(job.at)), Here)
  BY <1>2, <1>3, ChainOff DEF Here
<1>6. t \in Written /\ Signed(t)
  BY DEF Written, Signed
<1> HIDE DEF t, b
<1>7. SignInv'
  <2>1. WrittenAlso(t)
    BY <1>1, <1>6, NotedIs
  <2> QED
    BY <1>1, <1>6, <2>1, SignNoted
<1>8. Here' = Last(Front(job.at))
  BY <1>4 DEF Here
<1>9. Here \in Path /\ Len(Here) >= 2
  <2>1. Here \in Path /\ Len(Here) = Len(job.at)
    BY <1>1, HereIs
  <2> QED
    BY <1>3, <2>1
<1>10. Here' = Front(Here)
  BY <1>5, <1>8, <1>9, ParentIs
<1>11. Here \in DOMAIN refs
  <2>1. Here \in DOMAIN layout
    BY <1>1 DEF LInv, HereInv
  <2>2. \A c \in Bag : Here # Container(c)
    <3> SUFFICES ASSUME NEW c \in Bag, Here = Container(c)
                 PROVE  FALSE
      OBVIOUS
    <3>1. Len(Here) = 1
      BY ContainerPath
    <3> QED
      BY <1>9, <3>1
  <2> QED
    BY <2>1, <2>2 DEF IInv, ShapeInv
<1>12. Here' \in DOMAIN layout'
  BY <1>1, <1>10, <1>11 DEF LInv, ShownInv
<1>13. HereInv'
  BY <1>12 DEF HereInv
<1>14. ShownInv'
  BY <1>1, ShownStays DEF LInv
<1> QED
  BY <1>7, <1>13, <1>14 DEF LInv

\* What addFolder does with the folder g of where the addition is: it is there,
\* or it is made and placed.
FolderIsPlaced(g) ==
    \/ g \in DOMAIN refs /\ DOMAIN refs' = DOMAIN refs /\ UNCHANGED <<layout, priority>>
    \/ /\ g \notin DOMAIN refs /\ DOMAIN refs' = DOMAIN refs \cup {g}
       /\ \E r : /\ layout' = With([layout EXCEPT ![Here] = r], g, <<>>)
                 /\ IF ShowsFolders(Here)
                    THEN /\ priority' = WithPriority(Here, g, Tag.p)
                         /\ r = Inserted(WithPriority(Here, g, Tag.p), Here, g, Tag.p)
                    ELSE r = layout[Here] /\ priority' = priority

LEMMA FolderPlaced ==
    ASSUME IInv, Orderly, addFolder, NEW g, g = Append(Here, Tag.n)
    PROVE  /\ Adding /\ job.at # <<>> /\ job.tags # <<>> /\ Tag.tag = "folder" /\ Tag \in Element
           /\ g \in Path /\ Child(Here, g) /\ Len(g) >= 2 /\ Last(g) = Tag.n
           /\ m_uidescs' = Noted([tag |-> "folder", o |-> g])
           /\ Here' = g
           /\ FolderIsPlaced(g)
<1> DEFINE found == findChild(Here, Tag.n)
<1>1. /\ Adding /\ HasTag("folder")
      /\ job.at # <<>> /\ job.tags # <<>> /\ Tag.tag = "folder"
  BY DEF addFolder, HasTag, InBag
<1>2. job \in AddJob /\ job.at \in Seq(Path) /\ Tag \in Element /\ Tag.n \in Bag \cup STRING
  <2>1. Tag \in Element
    BY <1>1, AddTag
  <2> QED
    BY <1>1, <2>1, AddingIs DEF Element
<1>3. Here \in Path /\ Len(Here) >= 1
  BY <1>1, HereIs
<1>4. Child(Here, g) /\ Len(g) = Len(Here) + 1 /\ Last(g) = Tag.n
  BY <1>2, <1>3, AppendIsChild
<1>5. g \in Path /\ Len(g) >= 2
  BY <1>3, <1>4, PathLen DEF Child
<1>6. /\ found # {} => g \in DOMAIN refs
      /\ found = {} => g \notin DOMAIN refs
      /\ found \subseteq {g}
  BY <1>1, <1>2, <1>3, FoundIs, NotFoundIs
<1> DEFINE InPlace(f) ==
              /\ refs' = Counted(f)
              /\ IF found # {} THEN UNCHANGED <<born, layout, priority>>
                 ELSE /\ born' = Append(born, f)
                      /\ IF ShowsFolders(Here)
                         THEN /\ priority' = WithPriority(Here, f, Tag.p)
                              /\ layout' = With([layout EXCEPT ![Here] =
                                                     Inserted(priority', Here, f, Tag.p)],
                                                 f, <<>>)
                         ELSE layout' = With(layout, f, <<>>) /\ UNCHANGED priority
              /\ m_uidescs' = Noted([tag |-> "folder", o |-> f])
              /\ job' = [Pop EXCEPT !.at = Append(@, f)]
<1>7. InPlace(g)
  <2>1. PICK f \in IF found # {} THEN found ELSE {g} : InPlace(f)
    BY DEF addFolder
  <2>2. f = g
    BY <1>6, <2>1
  <2> QED
    BY <2>1, <2>2
<1>8. DOMAIN refs' = DOMAIN refs \cup {g} /\ m_uidescs' = Noted([tag |-> "folder", o |-> g])
  BY <1>7 DEF Counted, With
<1>9. Here' = g
  <2> DEFINE at == Append(job.at, g)
             n == Len(job.at)
  <2>1. job'.at = at
    BY <1>2, <1>7 DEF Pop, AddJob
  <2>2. Len(at) = n + 1 /\ at[n + 1] = g
    BY <1>2, <1>5, AppendProperties
  <2> HIDE DEF at, n
  <2> QED
    BY <2>1, <2>2 DEF Here, Last
<1>10. CASE found # {}
  BY <1>1, <1>2, <1>4, <1>5, <1>6, <1>7, <1>8, <1>9, <1>10 DEF FolderIsPlaced
<1>11. CASE found = {}
  <2>1. g \notin DOMAIN refs
    BY <1>6, <1>11
  <2>2. CASE ShowsFolders(Here)
    <3> DEFINE r == Inserted(WithPriority(Here, g, Tag.p), Here, g, Tag.p)
    <3>1. /\ priority' = WithPriority(Here, g, Tag.p)
          /\ layout' = With([layout EXCEPT ![Here] = Inserted(priority', Here, g, Tag.p)], g, <<>>)
      BY <1>7, <1>11, <2>2
    <3>2. layout' = With([layout EXCEPT ![Here] = r], g, <<>>)
      BY <3>1
    <3>3. FolderIsPlaced(g)
      BY <1>8, <2>1, <2>2, <3>1, <3>2 DEF FolderIsPlaced
    <3> QED
      BY <1>1, <1>2, <1>4, <1>5, <1>8, <1>9, <3>3
  <2>3. CASE ~ ShowsFolders(Here)
    <3> DEFINE r == layout[Here]
    <3>1. priority' = priority /\ layout' = With(layout, g, <<>>)
      BY <1>7, <1>11, <2>3
    <3>2. layout' = With([layout EXCEPT ![Here] = r], g, <<>>)
      BY <3>1 DEF With
    <3>3. FolderIsPlaced(g)
      BY <1>8, <2>1, <2>3, <3>1, <3>2 DEF FolderIsPlaced
    <3> QED
      BY <1>1, <1>2, <1>4, <1>5, <1>8, <1>9, <3>3
  <2> QED
    BY <2>2, <2>3
<1> QED
  BY <1>10, <1>11

\* A folder that is made has no layout yet.
LEMMA NewHasNoLayout ==
    ASSUME IInv, NEW g \in Path, Len(g) >= 2, g \notin DOMAIN refs
    PROVE  g \notin DOMAIN layout
<1>1. \A b \in Bag : Len(Container(b)) = 1
  BY ContainerPath
<1> QED
  BY <1>1 DEF IInv, ShapeInv

LEMMA NothingShown == <<>> \in Seq(Path) /\ Once(<<>>) /\ ToSet(<<>>) = {}
<1>1. DOMAIN <<>> = {} /\ Len(<<>>) = 0
  OBVIOUS
<1>2. <<>> \in Seq(Path)
  OBVIOUS
<1> QED
  BY <1>1, <1>2 DEF Once, ToSet

\* Containers show a folder that is made where it is.
LEMMA FolderShows ==
    ASSUME IInv, ShownInv, NEW h \in DOMAIN layout, NEW g \in Path, Child(h, g),
           TakesFolders(h), g \notin DOMAIN layout, DOMAIN refs' = DOMAIN refs \cup {g},
           NEW r, layout' = With([layout EXCEPT ![h] = r], g, <<>>),
           r \in Seq(Path), Once(r), Len(g) >= 2,
           \/ ToSet(r) = ToSet(layout[h]) \cup {g}
           \/ r = layout[h] /\ ~ ShowsFolders(h)
    PROVE  ShownInv'
<1>1. /\ DOMAIN layout' = DOMAIN layout \cup {g}
      /\ layout'[g] = <<>> /\ layout'[h] = r
      /\ \A c \in DOMAIN layout : c # h => layout'[c] = layout[c]
  BY DEF With
<1>2. Front(g) = h
  BY ParentIs
<1>3. ASSUME NEW c, NEW o, Fits(c, o)
      PROVE  Fits(c, o)'
  BY <1>3 DEF Fits
<1>4. Fits(h, g)'
  BY DEF Fits
<1>5. ASSUME NEW c \in DOMAIN layout'
      PROVE  /\ layout'[c] \in Seq(Path) /\ Once(layout'[c])
             /\ \A o \in ToSet(layout'[c]) : Fits(c, o)'
  <2>1. CASE c = g
    BY <1>1, <2>1, NothingShown
  <2>2. CASE c = h
    <3>1. \A o \in ToSet(r) : o = g \/ Fits(h, o)
      BY DEF ShownInv
    <3>2. \A o \in ToSet(r) : Fits(h, o)'
      BY <1>3, <1>4, <3>1
    <3> QED
      BY <1>1, <2>2, <3>2
  <2>3. CASE c # g /\ c # h
    <3>1. c \in DOMAIN layout /\ layout'[c] = layout[c]
      BY <1>1, <2>3
    <3> QED
      BY <1>3, <3>1 DEF ShownInv
  <2> QED
    BY <2>1, <2>2, <2>3
<1>6. ASSUME NEW f \in DOMAIN refs'
      PROVE  /\ Front(f) \in DOMAIN layout' /\ TakesFolders(Front(f))
             /\ ShowsFolders(Front(f)) => f \in ToSet(layout'[Front(f)])
  <2>1. CASE f = g
    BY <1>1, <1>2, <2>1
  <2>2. CASE f # g
    <3>1. /\ Front(f) \in DOMAIN layout /\ TakesFolders(Front(f))
          /\ ShowsFolders(Front(f)) => f \in ToSet(layout[Front(f)])
      BY <2>2 DEF ShownInv
    <3> QED
      BY <1>1, <3>1
  <2> QED
    BY <2>1, <2>2
<1> QED
  BY <1>5, <1>6 DEF ShownInv

LEMMA FolderShown ==
    ASSUME IInv, IInv', Orderly, LInv, addFolder
    PROVE  LInv'
<1> DEFINE t(g) == [tag |-> "folder", o |-> g]
<1>1. PICK g : g = Append(Here, Tag.n)
  OBVIOUS
<1>2. /\ Adding /\ job.at # <<>> /\ job.tags # <<>> /\ Tag.tag = "folder" /\ Tag \in Element
      /\ g \in Path /\ Child(Here, g) /\ Len(g) >= 2 /\ Last(g) = Tag.n
      /\ m_uidescs' = Noted(t(g))
      /\ Here' = g
      /\ FolderIsPlaced(g)
  BY <1>1, FolderPlaced
<1>3. t(g) \in Written /\ Signed(t(g))
  BY <1>2 DEF Written, Signed
<1>4. SignInv'
  <2> DEFINE w == t(g)
  <2>1. w \in Written /\ Signed(w) /\ m_uidescs' = Noted(w)
    BY <1>2, <1>3
  <2> HIDE DEF w
  <2>2. WrittenAlso(w)
    BY <1>2, <2>1, NotedIs
  <2> QED
    BY <1>2, <2>1, <2>2, SignNoted
<1>5. Here \in DOMAIN layout
  BY <1>2 DEF LInv, HereInv
<1>6. ShownInv'
  <2>1. CASE DOMAIN refs' = DOMAIN refs /\ UNCHANGED <<layout, priority>>
    BY <2>1, ShownStays DEF LInv
  <2>2. CASE ~ (DOMAIN refs' = DOMAIN refs /\ UNCHANGED <<layout, priority>>)
    <3>1. /\ g \notin DOMAIN refs /\ DOMAIN refs' = DOMAIN refs \cup {g}
          /\ \E r : /\ layout' = With([layout EXCEPT ![Here] = r], g, <<>>)
                    /\ IF ShowsFolders(Here)
                       THEN /\ priority' = WithPriority(Here, g, Tag.p)
                            /\ r = Inserted(WithPriority(Here, g, Tag.p), Here, g, Tag.p)
                       ELSE r = layout[Here] /\ priority' = priority
      BY <1>2, <2>2 DEF FolderIsPlaced
    <3>2. PICK r : /\ layout' = With([layout EXCEPT ![Here] = r], g, <<>>)
                   /\ IF ShowsFolders(Here)
                      THEN /\ priority' = WithPriority(Here, g, Tag.p)
                           /\ r = Inserted(WithPriority(Here, g, Tag.p), Here, g, Tag.p)
                      ELSE r = layout[Here] /\ priority' = priority
      BY <3>1
    <3>3. g \notin DOMAIN layout
      BY <1>2, <3>1, NewHasNoLayout
    <3>4. /\ r \in Seq(Path) /\ Once(r)
          /\ \/ ToSet(r) = ToSet(layout[Here]) \cup {g}
             \/ r = layout[Here] /\ ~ ShowsFolders(Here)
      <4>1. CASE ShowsFolders(Here)
        <5>1. r = Inserted(WithPriority(Here, g, Tag.p), Here, g, Tag.p) /\ Tag.p \in Int
          BY <1>2, <3>2, <4>1 DEF Element
        <5>2. ShownInv
          BY DEF LInv
        <5> QED
          BY <1>2, <1>5, <4>1, <5>1, <5>2, InsertedIsShown
      <4>2. CASE ~ ShowsFolders(Here)
        BY <1>5, <3>2, <4>2 DEF LInv, ShownInv
      <4> QED
        BY <4>1, <4>2
    <3> QED
      <4>1. TakesFolders(Here)
        BY DEF addFolder
      <4> QED
        BY <1>2, <1>5, <3>1, <3>2, <3>3, <3>4, <4>1, FolderShows DEF LInv
  <2> QED
    BY <2>1, <2>2
<1>7. HereInv'
  <2>1. g \in DOMAIN refs'
    BY <1>2 DEF FolderIsPlaced
  <2>2. g \in DOMAIN layout'
    BY <2>1 DEF IInv, ShapeInv
  <2> QED
    BY <1>2, <2>2 DEF HereInv
<1> QED
  BY <1>4, <1>6, <1>7 DEF LInv

\* What a removal reads is signed.
LEMMA TagIsSigned ==
    ASSUME IInv, SignInv, Removing, job.at # <<>>, job.tags # <<>>
    PROVE  Signed(Tag) /\ Tag \in Written
<1>1. job.part # None /\ Tag \in Written /\ \E k, i : Reading(k, i)
  BY RemoveTag
<1>2. PICK k, i : Reading(k, i)
  BY <1>1
<1>3. /\ job.m \in Level /\ job.part \in DOMAIN m_uidescs[job.m]
      /\ Current = m_uidescs[job.m][job.part] /\ Current \in Seq(WrittenBag)
  BY <1>1, RemovingIs
<1> DEFINE tags == Current[k].tags
           j == i + 1
<1>4. k \in DOMAIN Current /\ tags \in Seq(Written) /\ j \in DOMAIN tags /\ tags[j] = Tag
  BY <1>2 DEF Reading
<1>5. k \in 1 .. Len(Current) /\ j \in 1 .. Len(tags)
  <2> HIDE DEF tags
  <2> QED
    BY <1>3, <1>4
<1> HIDE DEF j
<1>6. Signed(tags[j])
  BY <1>3, <1>5 DEF SignInv
<1> QED
  BY <1>1, <1>4, <1>6

\* It is not a folder.
LEMMA ObjectIsNoFolder ==
    ASSUME IInv, SeparatorsApart, NEW t \in Written, t.tag \in {"item", "separator"}, Signed(t)
    PROVE  t.o \in Path /\ t.o \notin DOMAIN refs
<1>1. t.o \in Path
  BY DEF Written
<1> SUFFICES ASSUME t.o \in DOMAIN refs
             PROVE  FALSE
  BY <1>1
<1>2. Len(t.o) # 1 /\ IsTag("folder", Last(t.o))
  <2>1. \A n \in Nat : n >= 2 => n # 1
    OBVIOUS
  <2> QED
    BY <1>1, <2>1, FolderIsTag, PathLen
<1>3. CASE t.tag = "item"
  BY <1>2, <1>3 DEF Signed
<1>4. CASE t.tag = "separator"
  BY <1>2, <1>4, SeparatorIsNoFolder DEF Signed
<1> QED
  BY <1>3, <1>4

\* Containers show less, but no folder less.
LEMMA ShownLess ==
    ASSUME ShownInv, DOMAIN refs' = DOMAIN refs, DOMAIN layout' = DOMAIN layout,
           NEW x, x \notin DOMAIN refs,
           \A c \in DOMAIN layout :
              /\ layout'[c] \in Seq(Path) /\ Once(layout'[c])
              /\ ToSet(layout'[c]) \subseteq ToSet(layout[c])
              /\ ToSet(layout[c]) \ {x} \subseteq ToSet(layout'[c])
    PROVE  ShownInv'
<1>1. ASSUME NEW c, NEW o, Fits(c, o)
      PROVE  Fits(c, o)'
  BY <1>1 DEF Fits
<1>2. ASSUME NEW c \in DOMAIN layout', NEW o \in ToSet(layout'[c])
      PROVE  Fits(c, o)'
  BY <1>1, <1>2 DEF ShownInv
<1>3. ASSUME NEW f \in DOMAIN refs'
      PROVE  /\ Front(f) \in DOMAIN layout' /\ TakesFolders(Front(f))
             /\ ShowsFolders(Front(f)) => f \in ToSet(layout'[Front(f)])
  BY <1>3 DEF ShownInv
<1> QED
  BY <1>2, <1>3 DEF ShownInv

\* The removal of an item or a separator is written as steps.
LEMMA ObjectOut ==
    ASSUME IInv, LInv, SeparatorsApart, removeItem \/ removeSeparator
    PROVE  /\ Tag.o \in Path /\ Tag.o \notin DOMAIN refs
           /\ UNCHANGED <<refs, m_uidescs>> /\ ~ Adding'
           /\ layout' = [layout EXCEPT ![Here] = Without(@, Tag.o)]
           /\ priority' = [x \in DOMAIN priority \ {<<Tag.o, Last(Here)>>} |-> priority[x]]
<1>1. /\ Removing /\ job.at # <<>> /\ job.tags # <<>> /\ Tag.tag \in {"item", "separator"}
      /\ UNCHANGED <<refs, m_uidescs>> /\ job' = Pop
      /\ layout' = [layout EXCEPT ![Here] = Without(@, Tag.o)]
      /\ priority' = [x \in DOMAIN priority \ {<<Tag.o, Last(Here)>>} |-> priority[x]]
  BY DEF removeItem, removeSeparator, RemoveObject, HasTag, InBag
<1>2. Signed(Tag) /\ Tag \in Written
  BY <1>1, TagIsSigned DEF LInv
<1>3. Tag.o \in Path /\ Tag.o \notin DOMAIN refs
  BY <1>1, <1>2, ObjectIsNoFolder
<1>4. job \in RemoveJob
  BY <1>1, JobKinds DEF IInv
<1>5. ~ Adding'
  <2>1. job'.op = job.op
    BY <1>1, <1>4 DEF Pop, RemoveJob
  <2> QED
    BY <1>1, <2>1 DEF Adding, Removing
<1> QED
  BY <1>1, <1>3, <1>5

LEMMA ObjectsShown ==
    ASSUME IInv, IInv', LInv, SeparatorsApart, removeItem \/ removeSeparator
    PROVE  LInv'
<1>1. PICK o : o = Tag.o
  OBVIOUS
<1>2. PICK h : h = Here
  OBVIOUS
<1>3. /\ o \in Path /\ o \notin DOMAIN refs
      /\ UNCHANGED <<refs, m_uidescs>> /\ ~ Adding'
      /\ layout' = [layout EXCEPT ![h] = Without(@, o)]
  BY <1>1, <1>2, ObjectOut
<1>4. ASSUME NEW c \in DOMAIN layout
      PROVE  /\ layout'[c] \in Seq(Path) /\ Once(layout'[c])
             /\ ToSet(layout'[c]) \subseteq ToSet(layout[c])
             /\ ToSet(layout[c]) \ {o} \subseteq ToSet(layout'[c])
  <2>1. layout[c] \in Seq(Path) /\ Once(layout[c])
    BY DEF LInv, ShownInv
  <2>2. CASE c = h
    <3>1. layout'[c] = Without(layout[c], o)
      BY <1>3, <2>2
    <3> QED
      BY <2>1, <3>1, WithoutIs
  <2>3. CASE c # h
    BY <1>3, <2>1, <2>3
  <2> QED
    BY <2>2, <2>3
<1>5. ShownInv'
  BY <1>3, <1>4, ShownLess DEF LInv
<1> QED
  BY <1>3, <1>5, SignStays DEF LInv, HereInv

\* What goes with folder g.
LEMMA GoneIs ==
    ASSUME IInv, ShownInv, NEW g, Gone(g)
    PROVE  /\ g \in Path
           /\ DOMAIN refs' = DOMAIN refs \ {g}
           /\ DOMAIN layout' = {c \in DOMAIN layout : ~ Within(g, c)}
           /\ \A c \in DOMAIN layout' :
                 layout'[c] = Only(layout[c], {o \in ToSet(layout[c]) : ~ Within(g, o)})
           /\ priority' = [x \in {x \in DOMAIN priority : ~ IsPrefix(g, x[1])} |-> priority[x]]
<1>1. g \in DOMAIN refs /\ Deleted(g) /\ \A h \in DOMAIN refs : IsPrefix(g, h) <=> h = g
  BY DEF Gone
<1>2. g \in Path /\ \A c \in DOMAIN layout : c \in Path
  BY <1>1, ContainerPath DEF IInv, ShapeInv, CountInv, FolderType
<1>3. \A c \in DOMAIN layout : IsPrefix(g, c) <=> Within(g, c)
  BY <1>2, PrefixIsWithin
<1>4. \A c \in DOMAIN layout : \A o \in ToSet(layout[c]) : IsPrefix(g, o) <=> Within(g, o)
  <2>1. \A c \in DOMAIN layout : layout[c] \in Seq(Path)
    BY DEF ShownInv
  <2>2. \A c \in DOMAIN layout : \A o \in ToSet(layout[c]) : o \in Path
    BY <2>1 DEF ToSet
  <2> QED
    BY <1>2, <2>2, PrefixIsWithin
<1>5. /\ DOMAIN refs' = {h \in DOMAIN refs : ~ IsPrefix(g, h)}
      /\ layout' = [c \in {c \in DOMAIN layout : ~ IsPrefix(g, c)} |->
                       Only(layout[c], {o \in ToSet(layout[c]) : ~ IsPrefix(g, o)})]
      /\ priority' = [x \in {x \in DOMAIN priority : ~ IsPrefix(g, x[1])} |-> priority[x]]
  BY <1>1 DEF Deleted
<1>6. DOMAIN layout' = {c \in DOMAIN layout : ~ Within(g, c)}
  BY <1>3, <1>5
<1>7. ASSUME NEW c \in DOMAIN layout'
      PROVE  layout'[c] = Only(layout[c], {o \in ToSet(layout[c]) : ~ Within(g, o)})
  <2>1. c \in DOMAIN layout
    BY <1>6
  <2>2. {o \in ToSet(layout[c]) : ~ IsPrefix(g, o)} = {o \in ToSet(layout[c]) : ~ Within(g, o)}
    BY <1>4, <2>1
  <2> QED
    BY <1>5, <2>2
<1> QED
  BY <1>1, <1>2, <1>5, <1>6, <1>7

\* Only g is shown no more, and nothing of what it showed.
LEMMA GoneShown ==
    ASSUME IInv, ShownInv, NEW g, Gone(g)
    PROVE  ShownInv'
<1>1. /\ g \in Path /\ g \in DOMAIN refs
      /\ DOMAIN refs' = DOMAIN refs \ {g}
      /\ DOMAIN layout' = {c \in DOMAIN layout : ~ Within(g, c)}
      /\ \A c \in DOMAIN layout' :
            layout'[c] = Only(layout[c], {o \in ToSet(layout[c]) : ~ Within(g, o)})
      /\ \A h \in DOMAIN refs : IsPrefix(g, h) <=> h = g
  BY GoneIs DEF Gone
<1>2. Within(g, g) /\ \A h \in DOMAIN refs : h \in Path /\ Len(h) >= 2 /\ (Within(g, h) => h = g)
  <2>1. \A h \in DOMAIN refs : h \in Path /\ Len(h) >= 2
    BY DEF IInv, CountInv, FolderType
  <2>2. \A h \in DOMAIN refs : IsPrefix(g, h) <=> Within(g, h)
    BY <1>1, <2>1, PrefixIsWithin
  <2> QED
    BY <1>1, <2>1, <2>2
<1>3. ASSUME NEW c \in DOMAIN layout'
      PROVE  /\ layout'[c] \in Seq(Path) /\ Once(layout'[c])
             /\ ToSet(layout'[c]) = {o \in ToSet(layout[c]) : ~ Within(g, o)}
  <2> DEFINE S == {o \in ToSet(layout[c]) : ~ Within(g, o)}
  <2>1. layout[c] \in Seq(Path) /\ Once(layout[c]) /\ layout'[c] = Only(layout[c], S)
    BY <1>1 DEF ShownInv
  <2>2. S \subseteq ToSet(layout[c])
    OBVIOUS
  <2> HIDE DEF S
  <2>3. layout'[c] \in Seq(Path) /\ Once(layout'[c]) /\ ToSet(layout'[c]) = ToSet(layout[c]) \cap S
    BY <2>1, OnlyProperties
  <2>4. ToSet(layout'[c]) = S
    BY <2>2, <2>3
  <2> QED
    BY <2>3, <2>4 DEF S
<1>4. ASSUME NEW c \in DOMAIN layout', NEW o \in ToSet(layout'[c])
      PROVE  Fits(c, o)'
  <2>1. o \in ToSet(layout[c]) /\ ~ Within(g, o) /\ c \in DOMAIN layout
    BY <1>1, <1>3
  <2>2. Fits(c, o)
    BY <2>1 DEF ShownInv
  <2>3. o # g
    BY <1>2, <2>1
  <2> QED
    BY <1>1, <2>2, <2>3 DEF Fits
<1>5. ASSUME NEW f \in DOMAIN refs'
      PROVE  /\ Front(f) \in DOMAIN layout' /\ TakesFolders(Front(f))
             /\ ShowsFolders(Front(f)) => f \in ToSet(layout'[Front(f)])
  <2>1. f \in DOMAIN refs /\ f # g /\ f \in Path /\ Len(f) >= 2
    BY <1>1, <1>2
  <2>2. /\ Front(f) \in DOMAIN layout /\ TakesFolders(Front(f))
        /\ ShowsFolders(Front(f)) => f \in ToSet(layout[Front(f)])
    BY <2>1 DEF ShownInv
  <2>3. ~ Within(g, f)
    BY <1>2, <2>1
  <2>4. Child(Front(f), f)
    BY <2>1, ParentIs
  <2>5. ~ Within(g, Front(f))
    BY <1>1, <2>3, <2>4, AboveChild
  <2> QED
    BY <1>1, <1>3, <2>2, <2>3, <2>5
<1> QED
  BY <1>3, <1>4, <1>5 DEF ShownInv

LEMMA FolderGoneShown ==
    ASSUME IInv, IInv', LInv, FolderRemoved
    PROVE  LInv'
<1>1. UNCHANGED m_uidescs /\ Removing /\ job' = [Pop EXCEPT !.at = Front(@)]
  BY DEF FolderRemoved
<1>2. ~ Adding'
  <2>1. job \in RemoveJob
    BY <1>1, JobKinds DEF IInv
  <2>2. job'.op = job.op
    BY <1>1, <2>1 DEF Pop, RemoveJob
  <2> QED
    BY <1>1, <2>2 DEF Adding, Removing
<1>3. Gone(Here) \/ (DOMAIN refs' = DOMAIN refs /\ UNCHANGED <<layout, priority>>)
  BY FolderRemovedStep
<1>4. ShownInv'
  BY <1>3, GoneShown, ShownStays DEF LInv
<1> QED
  BY <1>1, <1>2, <1>4, SignStays DEF LInv, HereInv

\* At first nothing is shown.
LEMMA InitShown == Init => LInv
<1> SUFFICES ASSUME Init
             PROVE  LInv
  OBVIOUS
<1>1. /\ DOMAIN refs = {} /\ job = None
      /\ \A c \in DOMAIN layout : layout[c] = <<>>
      /\ \A m \in Level : DOMAIN m_uidescs[m] = {}
  BY DEF Init
<1>2. ~ Adding
  BY <1>1 DEF Adding, None
<1>3. ShownInv
  BY <1>1, NothingShown DEF ShownInv
<1> QED
  BY <1>1, <1>2, <1>3 DEF LInv, HereInv, SignInv

LEMMA NextShown ==
    ASSUME IInv, IInv', Orderly, SeparatorsApart, LInv, [Next]_vars
    PROVE  LInv'
<1>1. CASE \/ \E b \in Bag : install(b) \/ remove(b)
           \/ \E m \in Level : clear(m)
           \/ ClearNext \/ ClearEnds
           \/ \E p \in Part : removeUI(p)
           \/ CloseBag \/ SkipFolder \/ ReopenBag \/ removeFolder
           \/ UNCHANGED vars
  BY <1>1, QuietSteps
<1>2. CASE (\E p \in Part : addUI(p)) \/ AddEnds \/ OpenBag \/ RemoveEnds
  BY <1>2, DescSteps
<1>3. CASE addFolder
  BY <1>3, FolderShown
<1>4. CASE FolderAdded
  BY <1>4, EndShown
<1>5. CASE addItem \/ addSeparator
  BY <1>5, ItemsShown
<1>6. CASE FolderRemoved
  BY <1>6, FolderGoneShown
<1>7. CASE removeItem \/ removeSeparator
  BY <1>7, ObjectsShown
<1> QED
  BY <1>1, <1>2, <1>3, <1>4, <1>5, <1>6, <1>7 DEF Next

LEMMA ShownAlways == ASSUME Orderly, SeparatorsApart PROVE Spec => [](IInv /\ LInv)
<1>1. Init => IInv /\ LInv
  BY InitInv, InitShown
<1>2. IInv /\ LInv /\ [Next]_vars => (IInv /\ LInv)'
  <2> SUFFICES ASSUME IInv, LInv, [Next]_vars
               PROVE  IInv' /\ LInv'
    OBVIOUS
  <2>1. IInv'
    BY NextInv
  <2> QED
    BY <2>1, NextShown
<1> QED
  BY <1>1, <1>2, PTL DEF Spec

\* With separators that are not named like folders: whatever is installed, added,
\* removed and cleared, every container shows each thing once, and only items
\* and its own separators and folders that are there (addFolder, removeFolder and
\* removeAction leave no pointer to a deleted folder in any list of actions); and
\* every folder that is there is shown where it was made.
THEOREM FoldersAreShown == ASSUME Orderly, SeparatorsApart PROVE Spec => []ShownInv
<1>1. IInv /\ LInv => ShownInv
  BY DEF LInv
<1> QED
  BY ShownAlways, <1>1, PTL

-----------------------------------------------------------------------------
(* The order of actions.                                                   *)

\* Some part asks for o in c, with priority p.
Asked(c, o, p) ==
    \E q \in Part : \E e \in ToSet(uidef(q)) : \E i \in DOMAIN e.tags :
        /\ e.bag = BagName(c[1])
        /\ Depth(e.tags, i) = Len(c) - 1
        /\ e.tags[i].tag # "end" /\ e.tags[i].n = Last(o) /\ e.tags[i].p = p

\* The number of o in c is there, and is what some part asks for.
Numbered(c, o) == <<o, Last(c)>> \in DOMAIN priority /\ Asked(c, o, priority[<<o, Last(c)>>])

OrderInv == \A c \in DOMAIN layout : ShowsActions(c) =>
               /\ \A o \in ToSet(layout[c]) : Numbered(c, o)
               /\ InOrder(priority, c, layout[c])

\* Priorities are kept by the names of containers, which tell these apart.
Apart == \A c, d \in DOMAIN layout : Last(c) = Last(d) => c = d

\* t is s without some things.
Thinned(t, s) == \E from \in [1 .. Len(t) -> 1 .. Len(s)] :
                    /\ \A i \in 1 .. Len(t) : t[i] = s[from[i]]
                    /\ \A i, j \in 1 .. Len(t) : i < j => from[i] < from[j]

LEMMA AskedIsNumber ==
    ASSUME NEW c, NEW o, NEW p, Asked(c, o, p)
    PROVE  p \in Int
<1>1. PICK q \in Part : \E e \in ToSet(uidef(q)) : \E i \in DOMAIN e.tags : e.tags[i].p = p
  BY DEF Asked
<1>2. PICK e \in ToSet(uidef(q)) : \E i \in DOMAIN e.tags : e.tags[i].p = p
  BY <1>1
<1>3. PICK i \in DOMAIN e.tags : e.tags[i].p = p
  BY <1>2
<1>4. e \in DescribedBag
  <2>1. uidef(q) \in Seq(DescribedBag)
    BY DescriptionAssumption DEF DescribedBag
  <2> QED
    BY <2>1 DEF ToSet
<1>5. e.tags \in Seq(Element)
  BY <1>4 DEF DescribedBag
<1>6. e.tags[i] \in Element
  BY <1>5
<1> QED
  BY <1>3, <1>6 DEF Element

\* What is numbered as before stays in its order.
LEMMA OrderThinned ==
    ASSUME OrderInv, ShownInv,
           \A c \in DOMAIN layout' : ShowsActions(c) =>
              \/ layout'[c] = <<>>
              \/ /\ c \in DOMAIN layout /\ layout'[c] \in Seq(Path)
                 /\ Thinned(layout'[c], layout[c])
                 /\ \A o \in ToSet(layout'[c]) :
                       <<o, Last(c)>> \in DOMAIN priority =>
                          /\ <<o, Last(c)>> \in DOMAIN priority'
                          /\ priority'[<<o, Last(c)>>] = priority[<<o, Last(c)>>]
    PROVE  OrderInv'
<1> SUFFICES ASSUME NEW c \in DOMAIN layout', ShowsActions(c)
             PROVE  /\ \A o \in ToSet(layout'[c]) : Numbered(c, o)'
                    /\ InOrder(priority', c, layout'[c])
  BY DEF OrderInv
<1>1. CASE layout'[c] = <<>>
  BY <1>1, NothingShown DEF InOrder
<1>2. CASE layout'[c] # <<>>
  <2> DEFINE t == layout'[c]
             s == layout[c]
             K(o) == <<o, Last(c)>>
  <2>1. /\ c \in DOMAIN layout /\ t \in Seq(Path) /\ Thinned(t, s)
        /\ \A o \in ToSet(t) : K(o) \in DOMAIN priority =>
              K(o) \in DOMAIN priority' /\ priority'[K(o)] = priority[K(o)]
    BY <1>2
  <2>2. /\ \A o \in ToSet(s) : Numbered(c, o)
        /\ InOrder(priority, c, s) /\ s \in Seq(Path)
    BY <2>1 DEF OrderInv, ShownInv
  <2> HIDE DEF t, s
  <2>3. PICK from \in [1 .. Len(t) -> 1 .. Len(s)] :
            /\ \A i \in 1 .. Len(t) : t[i] = s[from[i]]
            /\ \A i, j \in 1 .. Len(t) : i < j => from[i] < from[j]
    BY <2>1 DEF Thinned
  <2>4. \A i \in 1 .. Len(t) : t[i] \in ToSet(s) /\ t[i] \in ToSet(t)
    BY <2>1, <2>2, <2>3 DEF ToSet
  <2>5. \A o \in ToSet(t) : \E i \in 1 .. Len(t) : o = t[i]
    BY <2>1 DEF ToSet
  <2>6. \A o \in ToSet(t) : o \in ToSet(s)
    BY <2>4, <2>5
  <2>7. ASSUME NEW o \in ToSet(t)
        PROVE  Numbered(c, o)' /\ PriorityIn(priority', c, o) = PriorityIn(priority, c, o)
    <3>1. K(o) \in DOMAIN priority /\ Asked(c, o, priority[K(o)])
      BY <2>2, <2>6 DEF Numbered
    <3>2. K(o) \in DOMAIN priority' /\ priority'[K(o)] = priority[K(o)]
      BY <2>1, <3>1
    <3>3. Asked(c, o, priority'[K(o)])
      BY <3>1, <3>2
    <3> QED
      BY <3>1, <3>2, <3>3 DEF Numbered, PriorityIn
  <2>8. ASSUME NEW i \in 1 .. Len(t), NEW j \in 1 .. Len(t), i < j
        PROVE  PriorityIn(priority', c, t[i]) <= PriorityIn(priority', c, t[j])
    <3>1. from[i] \in 1 .. Len(s) /\ from[j] \in 1 .. Len(s) /\ from[i] < from[j]
      BY <2>3, <2>8
    <3>2. PriorityIn(priority, c, s[from[i]]) <= PriorityIn(priority, c, s[from[j]])
      BY <2>2, <3>1 DEF InOrder
    <3> QED
      BY <2>3, <2>4, <2>7, <3>2
  <2> QED
    BY <2>7, <2>8 DEF InOrder, t
<1> QED
  BY <1>1, <1>2

LEMMA ThinnedSame == ASSUME NEW s, Len(s) \in Nat PROVE Thinned(s, s)
<1> DEFINE from == [i \in 1 .. Len(s) |-> i]
<1>1. from \in [1 .. Len(s) -> 1 .. Len(s)]
  OBVIOUS
<1> QED
  BY <1>1 DEF Thinned

\* Here is a container or a folder that is there.
LEMMA RemovingHere ==
    ASSUME IInv, Removing, job.at # <<>>, job.tags # <<>>
    PROVE  Here \in DOMAIN layout
<1>1. PICK k, i : Reading(k, i)
  BY RemoveTag
<1> DEFINE b == Current[k].bag
<1>2. Chain(job.at, b) /\ b \in Bag
  BY <1>1 DEF Reading
<1> HIDE DEF b
<1>3. /\ Here \in Path /\ Len(Here) = Len(job.at) /\ Len(job.at) \in Nat \ {0}
      /\ Len(job.at) = 1 => Here = Container(b)
  BY <1>2, ChainHere DEF Here
<1>4. CASE Len(Here) = 1
  BY <1>2, <1>3, <1>4 DEF IInv, ShapeInv
<1>5. CASE Len(Here) # 1
  <2>1. Len(Here) >= 2 /\ Within(Here, Here)
    <3> DEFINE n == Len(Here)
    <3>1. n \in Nat \ {0} /\ n # 1
      BY <1>3, <1>5
    <3> HIDE DEF n
    <3>2. n >= 2 /\ n <= n
      BY <3>1
    <3> QED
      BY <3>2 DEF n, Within
  <2>2. Open(Here)
    BY <2>1 DEF Open
  <2> QED
    BY <1>3, <2>2 DEF IInv, CountInv, Accounted, ShapeInv
<1> QED
  BY <1>4, <1>5

\* An action is put where its number says.
LEMMA OrderPut ==
    ASSUME IInv, ShownInv, OrderInv, Apart,
           NEW h \in DOMAIN layout, ShowsActions(h), NEW o \in Path, NEW p \in Int, Asked(h, o, p),
           NEW properties, properties = WithPriority(h, o, p), priority' = properties,
           layout'[h] = Inserted(properties, h, o, p),
           \A c \in DOMAIN layout' : c # h =>
              layout'[c] = <<>> \/ (c \in DOMAIN layout /\ layout'[c] = layout[c])
    PROVE  OrderInv'
<1> DEFINE key == <<o, Last(h)>>
           s == layout[h]
           r == layout'[h]
<1>1. /\ PriorityIn(properties, h, o) = p /\ properties[key] = p
      /\ DOMAIN properties = DOMAIN priority \cup {key}
      /\ \A x \in DOMAIN priority : x # key => properties[x] = priority[x]
  BY DEF PriorityIn, WithPriority, With
<1>2. s \in Seq(Path) /\ Once(s) /\ s = Candidates(h)
  <2>1. Kind(h) # "window"
    BY DEF ShowsActions
  <2> QED
    BY <2>1 DEF ShownInv, Candidates
<1>3. r \in Seq(Path) /\ ToSet(r) = ToSet(s) \cup {o}
  BY InsertedIsShown
<1>4. (\A x \in ToSet(s) : Numbered(h, x)) /\ InOrder(priority, h, s)
  BY DEF OrderInv
<1> HIDE DEF s, r
<1>5. ASSUME NEW x \in ToSet(s), x # o
      PROVE  /\ <<x, Last(h)>> \in DOMAIN properties
             /\ properties[<<x, Last(h)>>] = priority[<<x, Last(h)>>]
             /\ PriorityIn(properties, h, x) = PriorityIn(priority, h, x)
             /\ Asked(h, x, properties[<<x, Last(h)>>])
  <2> DEFINE y == <<x, Last(h)>>
  <2>1. y \in DOMAIN priority /\ Asked(h, x, priority[y])
    BY <1>4 DEF Numbered
  <2>2. y # key
    BY <1>5
  <2> HIDE DEF key
  <2>3. y \in DOMAIN properties /\ properties[y] = priority[y]
    BY <1>1, <2>1, <2>2
  <2> QED
    BY <2>1, <2>3 DEF PriorityIn
<1>6. \A x \in ToSet(r) : Numbered(h, x)'
  <2> SUFFICES ASSUME NEW x \in ToSet(r)
               PROVE  Numbered(h, x)'
    OBVIOUS
  <2>1. CASE x = o
    BY <1>1, <2>1 DEF Numbered
  <2>2. CASE x # o
    BY <1>3, <1>5, <2>2 DEF Numbered
  <2> QED
    BY <2>1, <2>2
<1>7. \A x \in ToSet(s) : PriorityIn(properties, h, x) \in Int
  <2> SUFFICES ASSUME NEW x \in ToSet(s)
               PROVE  PriorityIn(properties, h, x) \in Int
    OBVIOUS
  <2>1. CASE x = o
    BY <1>1, <2>1
  <2>2. CASE x # o
    BY <1>5, <2>2, AskedIsNumber DEF PriorityIn
  <2> QED
    BY <2>1, <2>2
<1>8. ASSUME NEW i \in 1 .. Len(s), NEW j \in 1 .. Len(s), i < j, s[i] # o, s[j] # o
      PROVE  PriorityIn(properties, h, s[i]) <= PriorityIn(properties, h, s[j])
  <2>1. s[i] \in ToSet(s) /\ s[j] \in ToSet(s)
    BY <1>2 DEF ToSet
  <2>2. PriorityIn(priority, h, s[i]) <= PriorityIn(priority, h, s[j])
    BY <1>4, <1>8 DEF InOrder
  <2> QED
    BY <1>5, <1>8, <2>1, <2>2
<1>9. InOrder(properties, h, r)
  BY <1>1, <1>2, <1>7, <1>8, InsertedInOrder DEF s, r
<1>10. ASSUME NEW c \in DOMAIN layout', ShowsActions(c), c # h, layout'[c] # <<>>
       PROVE  /\ \A x \in ToSet(layout'[c]) : Numbered(c, x)'
              /\ InOrder(priority', c, layout'[c])
  <2>1. c \in DOMAIN layout /\ layout'[c] = layout[c]
    BY <1>10
  <2>2. Last(c) # Last(h)
    BY <1>10, <2>1 DEF Apart
  <2>3. \A x : <<x, Last(c)>> # key
    BY <2>2
  <2>4. (\A x \in ToSet(layout[c]) : Numbered(c, x)) /\ InOrder(priority, c, layout[c])
    BY <1>10, <2>1 DEF OrderInv
  <2> HIDE DEF key
  <2>5. \A x : PriorityIn(properties, c, x) = PriorityIn(priority, c, x)
    BY <1>1, <2>3 DEF PriorityIn
  <2>6. \A x \in ToSet(layout[c]) : Numbered(c, x)'
    BY <1>1, <2>3, <2>4 DEF Numbered
  <2>7. InOrder(properties, c, layout[c])
    BY <2>4, <2>5 DEF InOrder
  <2> QED
    BY <2>1, <2>6, <2>7
<1>11. ASSUME NEW c \in DOMAIN layout', layout'[c] = <<>>
       PROVE  /\ \A x \in ToSet(layout'[c]) : Numbered(c, x)'
              /\ InOrder(priority', c, layout'[c])
  BY <1>11, NothingShown DEF InOrder
<1>12. ASSUME NEW c \in DOMAIN layout', ShowsActions(c)
       PROVE  /\ \A x \in ToSet(layout'[c]) : Numbered(c, x)'
              /\ InOrder(priority', c, layout'[c])
  <2>1. CASE c = h
    BY <1>6, <1>9, <2>1 DEF r
  <2> QED
    BY <1>10, <1>11, <1>12, <2>1
<1> QED
  BY <1>12 DEF OrderInv

LEMMA OrderStays ==
    ASSUME OrderInv, ShownInv, UNCHANGED priority,
           \A c \in DOMAIN layout' : ShowsActions(c) =>
              layout'[c] = <<>> \/ (c \in DOMAIN layout /\ layout'[c] = layout[c])
    PROVE  OrderInv'
<1>1. ASSUME NEW c \in DOMAIN layout', c \in DOMAIN layout, layout'[c] = layout[c]
      PROVE  layout'[c] \in Seq(Path) /\ Thinned(layout'[c], layout[c])
  <2>1. layout[c] \in Seq(Path)
    BY <1>1 DEF ShownInv
  <2>2. Len(layout[c]) \in Nat
    BY <2>1
  <2> QED
    BY <1>1, <2>1, <2>2, ThinnedSame
<1> QED
  BY <1>1, OrderThinned

\* What the tag that is read is put in, the part asks for.
LEMMA TagIsAsked ==
    ASSUME IInv, Adding, job.at # <<>>, job.tags # <<>>, Tag.tag # "end",
           NEW o, Last(o) = Tag.n
    PROVE  Asked(Here, o, Tag.p)
<1> DEFINE b == Current[Len(Current)].bag
<1>1. PICK e \in ToSet(uidef(job.part)) : \E r :
         /\ e.bag = BagName(b)
         /\ r + 1 \in DOMAIN e.tags /\ e.tags[r + 1] = Tag
         /\ Depth(e.tags, r + 1) = Len(job.at) - 1
  BY AddTag
<1>2. PICK i \in DOMAIN e.tags : e.tags[i] = Tag /\ Depth(e.tags, i) = Len(job.at) - 1
  BY <1>1
<1>3. Here[1] = b /\ Len(Here) = Len(job.at) /\ job.part \in Part
  BY HereIs, AddingIs
<1>4. e.bag = BagName(b)
  BY <1>1
<1> HIDE DEF b
<1> QED
  BY <1>2, <1>3, <1>4 DEF Asked

\* Windows show folders, not actions, and keep numbers of their own.
LEMMA OrderElsewhere ==
    ASSUME OrderInv, ShownInv, Apart,
           NEW h \in DOMAIN layout, ~ ShowsActions(h), NEW o, NEW p,
           priority' = WithPriority(h, o, p),
           \A c \in DOMAIN layout' : c # h =>
              layout'[c] = <<>> \/ (c \in DOMAIN layout /\ layout'[c] = layout[c])
    PROVE  OrderInv'
<1> DEFINE key == <<o, Last(h)>>
<1>1. /\ DOMAIN priority' = DOMAIN priority \cup {key}
      /\ \A x \in DOMAIN priority : x # key => priority'[x] = priority[x]
  BY DEF WithPriority, With
<1>2. ASSUME NEW c \in DOMAIN layout', ShowsActions(c), layout'[c] # <<>>
      PROVE  /\ c \in DOMAIN layout /\ layout'[c] \in Seq(Path)
             /\ Thinned(layout'[c], layout[c])
             /\ \A x \in ToSet(layout'[c]) :
                   <<x, Last(c)>> \in DOMAIN priority =>
                      /\ <<x, Last(c)>> \in DOMAIN priority'
                      /\ priority'[<<x, Last(c)>>] = priority[<<x, Last(c)>>]
  <2>1. c # h
    BY <1>2
  <2>2. c \in DOMAIN layout /\ layout'[c] = layout[c]
    BY <1>2, <2>1
  <2>3. Last(c) # Last(h)
    BY <2>1, <2>2 DEF Apart
  <2>4. \A x : <<x, Last(c)>> # key
    BY <2>3
  <2>5. layout[c] \in Seq(Path)
    BY <2>2 DEF ShownInv
  <2>6. Len(layout[c]) \in Nat
    BY <2>5
  <2>7. Thinned(layout'[c], layout[c])
    BY <2>2, <2>6, ThinnedSame
  <2> HIDE DEF key
  <2> QED
    BY <1>1, <2>2, <2>4, <2>5, <2>7
<1> QED
  BY <1>2, OrderThinned

LEMMA FolderInOrder ==
    ASSUME IInv, Orderly, LInv, OrderInv, Apart, addFolder
    PROVE  OrderInv'
<1>1. PICK g : g = Append(Here, Tag.n)
  OBVIOUS
<1>2. PICK h : h = Here
  OBVIOUS
<1>3. /\ Adding /\ job.at # <<>> /\ job.tags # <<>> /\ Tag.tag = "folder" /\ Tag \in Element
      /\ g \in Path /\ Len(g) >= 2 /\ Last(g) = Tag.n
      /\ FolderIsPlaced(g)
  BY <1>1, FolderPlaced
<1>4. h \in DOMAIN layout /\ ShownInv /\ Tag.p \in Int
  BY <1>2, <1>3 DEF LInv, HereInv, Element
<1>5. CASE UNCHANGED <<layout, priority>>
  BY <1>4, <1>5, OrderStays
<1>6. CASE ~ UNCHANGED <<layout, priority>>
  <2>1. /\ g \notin DOMAIN refs
        /\ \E r : /\ layout' = With([layout EXCEPT ![h] = r], g, <<>>)
                  /\ IF ShowsFolders(h)
                     THEN /\ priority' = WithPriority(h, g, Tag.p)
                          /\ r = Inserted(WithPriority(h, g, Tag.p), h, g, Tag.p)
                     ELSE r = layout[h] /\ priority' = priority
    BY <1>2, <1>3, <1>6 DEF FolderIsPlaced
  <2>2. PICK r : /\ layout' = With([layout EXCEPT ![h] = r], g, <<>>)
                 /\ IF ShowsFolders(h)
                    THEN /\ priority' = WithPriority(h, g, Tag.p)
                         /\ r = Inserted(WithPriority(h, g, Tag.p), h, g, Tag.p)
                    ELSE r = layout[h] /\ priority' = priority
    BY <2>1
  <2>3. g \notin DOMAIN layout
    BY <1>3, <2>1, NewHasNoLayout
  <2>4. /\ DOMAIN layout' = DOMAIN layout \cup {g}
        /\ layout'[g] = <<>> /\ layout'[h] = r
        /\ \A c \in DOMAIN layout : c # h => layout'[c] = layout[c]
    BY <1>4, <2>2, <2>3 DEF With
  <2>5. \A c \in DOMAIN layout' : c # h =>
           layout'[c] = <<>> \/ (c \in DOMAIN layout /\ layout'[c] = layout[c])
    BY <2>4
  <2>6. CASE ~ ShowsFolders(h)
    <3>1. \A c \in DOMAIN layout' :
             layout'[c] = <<>> \/ (c \in DOMAIN layout /\ layout'[c] = layout[c])
      BY <1>4, <2>2, <2>4, <2>5, <2>6
    <3> QED
      BY <1>4, <2>2, <2>6, <3>1, OrderStays
  <2>7. CASE ShowsFolders(h) /\ ~ ShowsActions(h)
    BY <1>4, <2>2, <2>5, <2>7, OrderElsewhere
  <2>8. CASE ShowsFolders(h) /\ ShowsActions(h)
    <3>1. Asked(h, g, Tag.p)
      BY <1>2, <1>3, TagIsAsked
    <3>2. PICK properties : properties = WithPriority(h, g, Tag.p)
      OBVIOUS
    <3>3. priority' = properties /\ layout'[h] = Inserted(properties, h, g, Tag.p)
      BY <2>2, <2>4, <2>8, <3>2
    <3> QED
      BY <1>3, <1>4, <2>5, <2>8, <3>1, <3>2, <3>3, OrderPut
  <2> QED
    BY <2>6, <2>7, <2>8
<1> QED
  BY <1>5, <1>6

LEMMA ItemsInOrder ==
    ASSUME IInv, LInv, OrderInv, Apart, addItem \/ addSeparator
    PROVE  OrderInv'
<1>1. Adding /\ job.at # <<>> /\ job.tags # <<>> /\ Tag.tag # "end"
  BY DEF addItem, addSeparator, HasTag, InBag
<1>2. PICK h : h = Here
  OBVIOUS
<1>3. Tag \in Element /\ Tag.n \in Bag \cup STRING /\ Tag.p \in Int
  BY <1>1, AddTag DEF Element
<1>4. h \in DOMAIN layout /\ ShownInv /\ h \in Path /\ Len(h) >= 1
  BY <1>1, <1>2, HereIs DEF LInv, HereInv
<1>5. CASE UNCHANGED <<layout, priority>>
  BY <1>4, <1>5, OrderStays
<1>6. CASE ~ UNCHANGED <<layout, priority>>
  <2>1. \E o : o \in Path /\ Last(o) = Tag.n /\ Shows(o)
    <3> DEFINE i == <<Tag.n>>
               g == Append(h, Tag.n)
    <3>1. i \in Path /\ Last(i) = Tag.n
      BY <1>3 DEF Path, Last
    <3>2. g \in Path /\ Last(g) = Tag.n
      BY <1>3, <1>4, AppendIsChild DEF Child
    <3>3. Shows(i) \/ Shows(g)
      BY <1>2, <1>6 DEF addItem, addSeparator
    <3> HIDE DEF i, g
    <3> QED
      BY <3>1, <3>2, <3>3
  <2>2. PICK o : o \in Path /\ Last(o) = Tag.n /\ Shows(o)
    BY <2>1
  <2>3. CASE ShowsActions(h)
    <3>1. Asked(h, o, Tag.p)
      BY <1>1, <1>2, <2>2, TagIsAsked
    <3>2. PICK properties : properties = WithPriority(h, o, Tag.p)
      OBVIOUS
    <3>3. priority' = properties /\ layout' = [layout EXCEPT ![h] = Inserted(properties, h, o, Tag.p)]
      BY <1>2, <2>2, <2>3, <3>2 DEF Shows, ShowsActions
    <3>4. /\ layout'[h] = Inserted(properties, h, o, Tag.p)
          /\ \A c \in DOMAIN layout' : c # h => c \in DOMAIN layout /\ layout'[c] = layout[c]
      BY <1>4, <3>3
    <3> QED
      BY <1>3, <1>4, <2>2, <2>3, <3>1, <3>2, <3>3, <3>4, OrderPut
  <2>4. CASE ~ ShowsActions(h)
    <3>1. UNCHANGED priority /\ (layout' = layout \/ \E r : layout' = [layout EXCEPT ![h] = r])
      BY <1>2, <2>2, <2>4 DEF Shows
    <3>2. \A c \in DOMAIN layout' : c # h => c \in DOMAIN layout /\ layout'[c] = layout[c]
      BY <3>1
    <3> QED
      BY <1>4, <2>4, <3>1, <3>2, OrderStays
  <2> QED
    BY <2>3, <2>4
<1> QED
  BY <1>5, <1>6

LEMMA ObjectsInOrder ==
    ASSUME IInv, LInv, SeparatorsApart, OrderInv, Apart, removeItem \/ removeSeparator
    PROVE  OrderInv'
<1>1. PICK o : o = Tag.o
  OBVIOUS
<1>2. PICK h : h = Here
  OBVIOUS
<1> DEFINE key == <<o, Last(h)>>
<1>3. /\ layout' = [layout EXCEPT ![h] = Without(@, o)]
      /\ priority' = [x \in DOMAIN priority \ {key} |-> priority[x]]
  BY <1>1, <1>2, ObjectOut
<1>4. h \in DOMAIN layout /\ ShownInv
  BY <1>2, RemovingHere DEF removeItem, removeSeparator, HasTag, InBag, LInv
<1>5. ASSUME NEW c \in DOMAIN layout'
      PROVE  /\ c \in DOMAIN layout /\ layout'[c] \in Seq(Path)
             /\ Thinned(layout'[c], layout[c])
             /\ \A x \in ToSet(layout'[c]) : <<x, Last(c)>> # key
  <2>1. c \in DOMAIN layout /\ layout[c] \in Seq(Path) /\ Once(layout[c])
    BY <1>3, <1>4, <1>5 DEF ShownInv
  <2>2. CASE c = h
    <3>1. layout'[c] = Without(layout[c], o)
      BY <1>3, <1>4, <2>2
    <3>2. /\ layout'[c] \in Seq(Path) /\ ToSet(layout'[c]) = ToSet(layout[c]) \ {o}
          /\ Thinned(layout'[c], layout[c])
      BY <2>1, <3>1, WithoutIs DEF Thinned
    <3> QED
      BY <2>1, <3>2
  <2>3. CASE c # h
    <3>1. layout'[c] = layout[c] /\ Len(layout[c]) \in Nat
      BY <1>3, <2>1, <2>3
    <3>2. Last(c) # Last(h)
      BY <1>4, <2>1, <2>3 DEF Apart
    <3> QED
      BY <2>1, <3>1, <3>2, ThinnedSame
  <2> QED
    BY <2>2, <2>3
<1>6. \A x \in DOMAIN priority : x # key => x \in DOMAIN priority' /\ priority'[x] = priority[x]
  BY <1>3
<1> HIDE DEF key
<1> QED
  BY <1>4, <1>5, <1>6, OrderThinned

LEMMA GoneInOrder ==
    ASSUME IInv, ShownInv, OrderInv, NEW g, Gone(g)
    PROVE  OrderInv'
<1>1. /\ g \in Path
      /\ DOMAIN layout' = {c \in DOMAIN layout : ~ Within(g, c)}
      /\ \A c \in DOMAIN layout' :
            layout'[c] = Only(layout[c], {o \in ToSet(layout[c]) : ~ Within(g, o)})
      /\ priority' = [x \in {x \in DOMAIN priority : ~ IsPrefix(g, x[1])} |-> priority[x]]
  BY GoneIs
<1>2. ASSUME NEW c \in DOMAIN layout'
      PROVE  /\ c \in DOMAIN layout /\ layout'[c] \in Seq(Path)
             /\ Thinned(layout'[c], layout[c])
             /\ \A o \in ToSet(layout'[c]) : ~ IsPrefix(g, o)
  <2> DEFINE S == {o \in ToSet(layout[c]) : ~ Within(g, o)}
  <2>1. c \in DOMAIN layout /\ layout[c] \in Seq(Path) /\ layout'[c] = Only(layout[c], S)
    BY <1>1 DEF ShownInv
  <2> HIDE DEF S
  <2>2. layout'[c] \in Seq(Path) /\ ToSet(layout'[c]) = ToSet(layout[c]) \cap S
    BY <2>1, OnlyProperties
  <2>3. Thinned(layout'[c], layout[c])
    BY <2>1, OnlyKeepsOrder DEF Thinned
  <2>4. ASSUME NEW o \in ToSet(layout'[c])
        PROVE  ~ IsPrefix(g, o)
    <3>1. ~ Within(g, o)
      BY <2>2, <2>4 DEF S
    <3>2. o \in Path
      BY <2>2, <2>4 DEF ToSet
    <3> QED
      BY <1>1, <3>1, <3>2, PrefixIsWithin
  <2> QED
    BY <2>1, <2>2, <2>3, <2>4
<1>3. \A x \in DOMAIN priority : ~ IsPrefix(g, x[1]) =>
         x \in DOMAIN priority' /\ priority'[x] = priority[x]
  BY <1>1
<1>4. ASSUME NEW c \in DOMAIN layout', NEW o \in ToSet(layout'[c]), <<o, Last(c)>> \in DOMAIN priority
      PROVE  /\ <<o, Last(c)>> \in DOMAIN priority'
             /\ priority'[<<o, Last(c)>>] = priority[<<o, Last(c)>>]
  <2> DEFINE y == <<o, Last(c)>>
  <2>1. y[1] = o /\ y \in DOMAIN priority /\ ~ IsPrefix(g, o)
    BY <1>2, <1>4
  <2> HIDE DEF y
  <2>2. y \in DOMAIN priority' /\ priority'[y] = priority[y]
    BY <1>3, <2>1
  <2> QED
    BY <2>2 DEF y
<1> QED
  BY <1>2, <1>4, OrderThinned

LEMMA InitInOrder == Init => OrderInv
BY NothingShown DEF Init, OrderInv, InOrder

LEMMA NextInOrder ==
    ASSUME IInv, Orderly, SeparatorsApart, LInv, OrderInv, Apart, [Next]_vars
    PROVE  OrderInv'
<1>1. ShownInv
  BY DEF LInv
<1>2. CASE \/ \E b \in Bag : install(b) \/ remove(b)
           \/ \E m \in Level : clear(m)
           \/ ClearNext \/ ClearEnds
           \/ \E p \in Part : addUI(p) \/ removeUI(p)
           \/ AddEnds \/ OpenBag \/ CloseBag
           \/ SkipFolder \/ FolderAdded \/ RemoveEnds \/ ReopenBag \/ removeFolder
           \/ UNCHANGED vars
  <2>1. UNCHANGED <<layout, priority>>
    BY <1>2 DEF install, remove, clear, ClearNext, ClearEnds, addUI, removeUI, AddEnds, OpenBag,
                CloseBag, SkipFolder, FolderAdded, RemoveEnds, ReopenBag, removeFolder, vars
  <2> QED
    BY <1>1, <2>1, OrderStays
<1>3. CASE addFolder
  BY <1>3, FolderInOrder
<1>4. CASE addItem \/ addSeparator
  BY <1>4, ItemsInOrder
<1>5. CASE FolderRemoved
  <2>1. Gone(Here) \/ UNCHANGED <<layout, priority>>
    BY <1>5, FolderRemovedStep
  <2>2. CASE Gone(Here)
    BY <1>1, <2>2, GoneInOrder
  <2>3. CASE UNCHANGED <<layout, priority>>
    BY <1>1, <2>3, OrderStays
  <2> QED
    BY <2>1, <2>2, <2>3
<1>6. CASE removeItem \/ removeSeparator
  BY <1>6, ObjectsInOrder
<1> QED
  BY <1>2, <1>3, <1>4, <1>5, <1>6 DEF Next

\* If moreover no two containers have one name at a time: menu bars, menus and tool
\* bars show what they contain by ascending priority at every step, and each
\* priority is one that some part asks for there, whatever order parts come and go
\* in (positionByPriority, addAction, removeAction).
THEOREM ActionsInOrder == ASSUME Orderly, SeparatorsApart PROVE Spec /\ []Apart => []OrderInv
<1>1. IInv /\ LInv /\ OrderInv /\ Apart /\ [Next]_vars => OrderInv'
  BY NextInOrder
<1> QED
  BY ShownAlways, InitInOrder, <1>1, PTL DEF Spec

=============================================================================
