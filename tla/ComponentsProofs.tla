-------------------------- MODULE ComponentsProofs --------------------------
(***************************************************************************)
(* That references are counted exactly, that the libraries of all objects  *)
(* stay loaded, that there is one factory of each library and one document *)
(* of each file, and that names are restored from the chains of monikers,  *)
(* for any names and any number of objects.                                *)
(*                                                                         *)
(* A call builds the world that it leaves behind step by step; the lemmas  *)
(* are about these steps.  What they keep, Consistent, is told how many    *)
(* references lead to an object from outside of the world.  Between calls  *)
(* these are those of the program and of the call under way; in the midst  *)
(* of a step also those that are about to be taken or dropped, and then    *)
(* the number of a reference not yet counted is -1.                        *)
(***************************************************************************)
EXTENDS Components, FiniteSetTheorems, SequenceTheorems, WellFoundedInduction, TLAPS

IsObject(x) ==
    /\ x = [class |-> x.class, refs |-> x.refs, factory |-> x.factory, left |-> x.left,
            link |-> x.link, path |-> x.path, opened |-> x.opened]
    /\ x.class \in Class /\ x.refs \in Int
    /\ x.factory \in Object \cup {Null} /\ x.left \in Object \cup {Null}
    /\ x.link \in LinkType /\ x.path \in Seq(STRING)

LibraryType ==
    [loaded : BOOLEAN, ours : BOOLEAN, objects : Int, instance : Object \cup {Null}]

Shape(w) ==
    /\ w = [heap |-> w.heap, libs |-> w.libs]
    /\ Alive(w) \subseteq Object
    /\ w.heap = [o \in Alive(w) |-> w.heap[o]]
    /\ \A o \in Alive(w) : IsObject(w.heap[o])
    /\ w.libs \in [Library -> LibraryType]

\* What has o as its factory, and what has it on its left.
MadeBy(w, o)  == {p \in Alive(w) : w.heap[p].factory = o}
RightOf(w, o) == {p \in Alive(w) : w.heap[p].left = o}

\* References are counted, those from outside, ext, among them, and lead somewhere.
Counted(w, ext) ==
    /\ ext \in [Object -> Int]
    /\ \A o \in Object \ Alive(w) : ext[o] = 0
    /\ \A o \in Alive(w) :
          /\ w.heap[o].refs = ext[o] + Cardinality(MadeBy(w, o)) + Cardinality(RightOf(w, o))
          /\ w.heap[o].factory \in Alive(w) \cup {Null}
          /\ w.heap[o].left \in Alive(w) \cup {Null}

\* A library is loaded for its objects, and counts them; all of them have its factory.
Served(w, l) ==
    /\ \A o \in Of(w, l) : w.libs[l].loaded
    /\ IF l = "io" THEN w.libs[l].objects >= Cardinality(Of(w, l))
       ELSE w.libs[l].objects = Cardinality(Of(w, l))
    /\ w.libs[l].instance \in Alive(w) \cup {Null}
    /\ \A o \in Alive(w) : w.heap[o].class = FactoryOf(l) <=> o = w.libs[l].instance
    /\ \A o \in Of(w, l) :
          IF w.heap[o].class = FactoryOf(l) THEN w.heap[o].factory = Null
          ELSE w.heap[o].factory = w.libs[l].instance /\ w.libs[l].instance # Null

\* The factory of documents knows them by their paths.
Cached(w) ==
    /\ \A f \in Alive(w) : \A p \in DOMAIN w.heap[f].opened :
          /\ p # <<>>
          /\ w.heap[f].opened[p] \in Alive(w)
          /\ w.heap[w.heap[f].opened[p]].path = p
          /\ w.heap[w.heap[f].opened[p]].factory = f
    /\ \A d \in Alive(w) : w.heap[d].path # <<>> =>
          /\ w.heap[d].class = "Document" /\ w.heap[d].factory \in Alive(w)
          /\ w.heap[d].path \in DOMAIN w.heap[w.heap[d].factory].opened
          /\ w.heap[w.heap[d].factory].opened[w.heap[d].path] = d

\* Only the library of devices makes monikers of devices.
Linked(w) ==
    \A m \in Alive(w) : w.heap[m].link.prefix = <<"file", ":">> => w.heap[m].class = "IoMoniker"

Consistent(w, ext) ==
    /\ Shape(w) /\ Counted(w, ext) /\ Cached(w) /\ Linked(w)
    /\ \A l \in Library : Served(w, l)

-----------------------------------------------------------------------------
(* Steps of a world.                                                       *)

\* Sets of objects are finite.
LEMMA Finite ==
    ASSUME NEW S, S \subseteq Object
    PROVE  IsFiniteSet(S) /\ Cardinality(S) \in Nat
BY NullAssumption, FS_Subset, FS_CardinalityType

\* Worlds that differ in counters of references only.
SameButRefs(v, w) ==
    /\ Alive(v) = Alive(w) /\ v.libs = w.libs
    /\ \A p \in Alive(w) :
          /\ v.heap[p].class = w.heap[p].class
          /\ v.heap[p].factory = w.heap[p].factory
          /\ v.heap[p].left = w.heap[p].left
          /\ v.heap[p].link = w.heap[p].link
          /\ v.heap[p].path = w.heap[p].path
          /\ v.heap[p].opened = w.heap[p].opened

\* One counter changes.
LEMMA RefIs ==
    ASSUME NEW w, Shape(w), NEW o \in Alive(w), NEW d \in Int
    PROVE  LET v == [w EXCEPT !.heap[o].refs = @ + d]
           IN  /\ Shape(v) /\ SameButRefs(v, w)
               /\ \A p \in Alive(w) : v.heap[p].refs = w.heap[p].refs + (IF p = o THEN d ELSE 0)
<1> DEFINE x == [w.heap[o] EXCEPT !.refs = @ + d]
<1>0. IsObject(w.heap[o])
  BY DEF Shape
<1>1. IsObject(x) /\ x.refs = w.heap[o].refs + d
      /\ x.class = w.heap[o].class /\ x.factory = w.heap[o].factory /\ x.left = w.heap[o].left
      /\ x.link = w.heap[o].link /\ x.path = w.heap[o].path /\ x.opened = w.heap[o].opened
  BY <1>0 DEF IsObject
<1> DEFINE v == [w EXCEPT !.heap[o].refs = @ + d]
<1>2. v = [heap |-> [w.heap EXCEPT ![o] = x], libs |-> w.libs]
  BY DEF Shape
<1>3. \A p \in Alive(w) : w.heap[p].refs \in Int
  BY DEF Shape, IsObject
<1> HIDE DEF x
<1>4. /\ v.heap = [p \in Alive(w) |-> IF p = o THEN x ELSE w.heap[p]]
      /\ v.libs = w.libs /\ v = [heap |-> v.heap, libs |-> v.libs]
  BY <1>2 DEF Shape, Alive
<1> HIDE DEF v
<1>5. Alive(v) = Alive(w)
  BY <1>4 DEF Alive
<1>6. Shape(v)
  BY <1>1, <1>4, <1>5 DEF Shape
<1>7. SameButRefs(v, w)
  BY <1>1, <1>4, <1>5 DEF SameButRefs
<1>8. \A p \in Alive(w) : v.heap[p].refs = w.heap[p].refs + (IF p = o THEN d ELSE 0)
  BY <1>1, <1>3, <1>4
<1> QED
  BY <1>6, <1>7, <1>8 DEF v

\* The register of documents depends on few fields.
LEMMA CachedKeeps ==
    ASSUME NEW v, NEW w, Alive(v) = Alive(w), Cached(w),
           \A p \in Alive(w) :
              /\ v.heap[p].class = w.heap[p].class
              /\ v.heap[p].factory = w.heap[p].factory
              /\ v.heap[p].path = w.heap[p].path
              /\ v.heap[p].opened = w.heap[p].opened
    PROVE  Cached(v)
<1>1. ASSUME NEW f \in Alive(v), NEW p \in DOMAIN v.heap[f].opened
      PROVE  /\ p # <<>>
             /\ v.heap[f].opened[p] \in Alive(v)
             /\ v.heap[v.heap[f].opened[p]].path = p
             /\ v.heap[v.heap[f].opened[p]].factory = f
  <2>1. f \in Alive(w) /\ v.heap[f].opened = w.heap[f].opened
    OBVIOUS
  <2>2. /\ p # <<>> /\ w.heap[f].opened[p] \in Alive(w)
        /\ w.heap[w.heap[f].opened[p]].path = p
        /\ w.heap[w.heap[f].opened[p]].factory = f
    BY <2>1 DEF Cached
  <2> QED
    BY <2>1, <2>2
<1>2. ASSUME NEW d \in Alive(v), v.heap[d].path # <<>>
      PROVE  /\ v.heap[d].class = "Document" /\ v.heap[d].factory \in Alive(v)
             /\ v.heap[d].path \in DOMAIN v.heap[v.heap[d].factory].opened
             /\ v.heap[v.heap[d].factory].opened[v.heap[d].path] = d
  <2>1. /\ d \in Alive(w) /\ v.heap[d].path = w.heap[d].path
        /\ v.heap[d].factory = w.heap[d].factory /\ v.heap[d].class = w.heap[d].class
    OBVIOUS
  <2>2. /\ w.heap[d].class = "Document" /\ w.heap[d].factory \in Alive(w)
        /\ w.heap[d].path \in DOMAIN w.heap[w.heap[d].factory].opened
        /\ w.heap[w.heap[d].factory].opened[w.heap[d].path] = d
    BY <1>2, <2>1 DEF Cached
  <2> QED
    BY <2>1, <2>2
<1> QED
  BY <1>1, <1>2 DEF Cached

\* Only the counting depends on counters.
LEMMA SameKeep ==
    ASSUME NEW v, NEW w, SameButRefs(v, w), Shape(v),
           Cached(w), Linked(w), \A l \in Library : Served(w, l)
    PROVE  /\ Cached(v) /\ Linked(v) /\ \A l \in Library : Served(v, l)
           /\ \A o : MadeBy(v, o) = MadeBy(w, o) /\ RightOf(v, o) = RightOf(w, o)
<1>1. \A o : MadeBy(v, o) = MadeBy(w, o) /\ RightOf(v, o) = RightOf(w, o)
  BY DEF SameButRefs, MadeBy, RightOf
<1>2. \A l : Of(v, l) = Of(w, l)
  BY DEF SameButRefs, Of
<1>3. \A l \in Library : Served(v, l)
  <2> SUFFICES ASSUME NEW l \in Library PROVE Served(v, l)
    OBVIOUS
  <2>1. Served(w, l)
    OBVIOUS
  <2>2. \A o \in Of(w, l) : o \in Alive(w)
    BY DEF Of
  <2> QED
    BY <1>2, <2>1, <2>2 DEF Served, SameButRefs
<1>4. Linked(v)
  BY DEF Linked, SameButRefs
<1>5. Cached(v)
  BY CachedKeeps DEF SameButRefs
<1> QED
  BY <1>1, <1>3, <1>4, <1>5

\* A reference from outside, more or less.
LEMMA RefKeeps ==
    ASSUME NEW w, NEW ext, Consistent(w, ext), NEW o \in Alive(w), NEW d \in Int
    PROVE  LET v == [w EXCEPT !.heap[o].refs = @ + d]
           IN  Consistent(v, [ext EXCEPT ![o] = @ + d]) /\ SameButRefs(v, w)
<1> DEFINE v == [w EXCEPT !.heap[o].refs = @ + d]
<1> DEFINE now == [ext EXCEPT ![o] = @ + d]
<1>1. /\ Shape(v) /\ SameButRefs(v, w)
      /\ \A p \in Alive(w) : v.heap[p].refs = w.heap[p].refs + (IF p = o THEN d ELSE 0)
  BY RefIs DEF Consistent
<1> HIDE DEF v
<1>2. /\ Cached(v) /\ Linked(v) /\ \A l \in Library : Served(v, l)
      /\ \A p : MadeBy(v, p) = MadeBy(w, p) /\ RightOf(v, p) = RightOf(w, p)
  BY <1>1, SameKeep DEF Consistent
<1>3. \A p \in Alive(w) : Cardinality(MadeBy(w, p)) \in Nat /\ Cardinality(RightOf(w, p)) \in Nat
  <2>1. \A p : MadeBy(w, p) \subseteq Object /\ RightOf(w, p) \subseteq Object
    BY DEF MadeBy, RightOf, Consistent, Shape
  <2> QED
    BY <2>1, Finite
<1>4. Counted(v, now)
  <2>1. Counted(w, ext) /\ Alive(w) \subseteq Object
    BY DEF Consistent, Shape
  <2>2. now \in [Object -> Int] /\ \A p \in Object : now[p] = IF p = o THEN ext[p] + d ELSE ext[p]
    BY <2>1 DEF Counted
  <2> HIDE DEF now
  <2>3. \A p \in Object \ Alive(v) : now[p] = 0
    BY <1>1, <2>1, <2>2 DEF Counted, SameButRefs
  <2>4. ASSUME NEW p \in Alive(v)
        PROVE  /\ v.heap[p].refs = now[p] + Cardinality(MadeBy(v, p)) + Cardinality(RightOf(v, p))
               /\ v.heap[p].factory \in Alive(v) \cup {Null}
               /\ v.heap[p].left \in Alive(v) \cup {Null}
    <3>1. p \in Alive(w) /\ p \in Object
      BY <1>1, <2>1 DEF SameButRefs
    <3>2. /\ w.heap[p].refs = ext[p] + Cardinality(MadeBy(w, p)) + Cardinality(RightOf(w, p))
          /\ w.heap[p].factory \in Alive(w) \cup {Null}
          /\ w.heap[p].left \in Alive(w) \cup {Null}
          /\ ext[p] \in Int
      BY <2>1, <3>1 DEF Counted
    <3>3. v.heap[p].refs = now[p] + Cardinality(MadeBy(w, p)) + Cardinality(RightOf(w, p))
      BY <1>1, <1>3, <2>2, <3>1, <3>2
    <3> QED
      BY <1>1, <1>2, <3>1, <3>2, <3>3 DEF SameButRefs
  <2> QED
    BY <2>2, <2>3, <2>4 DEF Counted
<1>5. Consistent(v, now)
  BY <1>1, <1>2, <1>4 DEF Consistent
<1> QED
  BY <1>1, <1>5 DEF v

\* The same of Ref and Unref, where there may be nothing to refer to.
More(ext, o) == IF o = Null THEN ext ELSE [ext EXCEPT ![o] = @ + 1]
Less(ext, o) == IF o = Null THEN ext ELSE [ext EXCEPT ![o] = @ - 1]

LEMMA SameSame ==
    ASSUME NEW w
    PROVE  SameButRefs(w, w)
BY DEF SameButRefs

LEMMA RefOf ==
    ASSUME NEW w, NEW ext, Consistent(w, ext), NEW o \in Alive(w) \cup {Null}
    PROVE  Consistent(Ref(w, o), More(ext, o)) /\ SameButRefs(Ref(w, o), w)
<1>1. CASE o = Null
  BY <1>1, SameSame DEF Ref, More
<1>2. CASE o # Null
  <2>1. /\ Consistent([w EXCEPT !.heap[o].refs = @ + 1], [ext EXCEPT ![o] = @ + 1])
        /\ SameButRefs([w EXCEPT !.heap[o].refs = @ + 1], w)
    BY <1>2, 1 \in Int, RefKeeps
  <2> QED
    BY <1>2, <2>1 DEF Ref, More
<1> QED
  BY <1>1, <1>2

LEMMA UnrefOf ==
    ASSUME NEW w, NEW ext, Consistent(w, ext), NEW o \in Alive(w) \cup {Null}
    PROVE  Consistent(Unref(w, o), Less(ext, o)) /\ SameButRefs(Unref(w, o), w)
<1>1. CASE o = Null
  BY <1>1, SameSame DEF Unref, Less
<1>2. CASE o # Null
  <2>1. ext[o] \in Int /\ ext \in [Object -> Int] /\ o \in Object
    BY <1>2 DEF Consistent, Counted, Shape
  <2>2. w.heap[o].refs \in Int
    BY <1>2 DEF Consistent, Shape, IsObject
  <2>3. [w EXCEPT !.heap[o].refs = @ + (-1)] = [w EXCEPT !.heap[o].refs = @ - 1]
    BY <2>2
  <2>4. [ext EXCEPT ![o] = @ + (-1)] = [ext EXCEPT ![o] = @ - 1]
    BY <2>1
  <2>5. /\ Consistent([w EXCEPT !.heap[o].refs = @ + (-1)], [ext EXCEPT ![o] = @ + (-1)])
        /\ SameButRefs([w EXCEPT !.heap[o].refs = @ + (-1)], w)
    BY <1>2, -1 \in Int, RefKeeps
  <2> QED
    BY <1>2, <2>3, <2>4, <2>5 DEF Unref, Less
<1> QED
  BY <1>1, <1>2

\* A change in the libraries that serves them all.
LEMMA LibsKeep ==
    ASSUME NEW w, NEW ext, Consistent(w, ext), NEW libraries \in [Library -> LibraryType],
           \A l \in Library : Served([heap |-> w.heap, libs |-> libraries], l)
    PROVE  Consistent([heap |-> w.heap, libs |-> libraries], ext)
<1> DEFINE v == [heap |-> w.heap, libs |-> libraries]
<1>1. v.heap = w.heap /\ v.libs = libraries /\ v = [heap |-> v.heap, libs |-> v.libs]
  OBVIOUS
<1>2. \A l \in Library : Served(v, l)
  OBVIOUS
<1> HIDE DEF v
<1>3. Alive(v) = Alive(w) /\ \A o : MadeBy(v, o) = MadeBy(w, o) /\ RightOf(v, o) = RightOf(w, o)
  BY <1>1 DEF Alive, MadeBy, RightOf
<1>4. Shape(v)
  BY <1>1, <1>3 DEF Consistent, Shape
<1>5. Counted(v, ext)
  BY <1>1, <1>3 DEF Consistent, Counted
<1>6. Cached(v) /\ Linked(v)
  BY <1>1, <1>3 DEF Consistent, Cached, Linked
<1>7. Consistent(v, ext)
  BY <1>2, <1>4, <1>5, <1>6 DEF Consistent
<1> QED
  BY <1>7 DEF v

\* A library is loaded.
LEMMA LoadedKeeps ==
    ASSUME NEW w, NEW ext, Consistent(w, ext), NEW l \in Library
    PROVE  LET v == Loaded(w, l)
           IN  /\ Consistent(v, ext) /\ v.heap = w.heap
               /\ v.libs[l].loaded
               /\ \A k \in Library : v.libs[k].instance = w.libs[k].instance
<1>0. /\ w = [heap |-> w.heap, libs |-> w.libs] /\ w.libs \in [Library -> LibraryType]
      /\ \A k \in Library : Served(w, k)
  BY DEF Consistent, Shape
<1>1. CASE w.libs[l].loaded
  BY <1>1 DEF Loaded
<1>2. CASE ~ w.libs[l].loaded
  <2> DEFINE now == [w.libs EXCEPT ![l] = [@ EXCEPT !.loaded = TRUE, !.ours = TRUE]]
  <2>1. Loaded(w, l) = [heap |-> w.heap, libs |-> now]
    BY <1>0, <1>2 DEF Loaded
  <2>2. now \in [Library -> LibraryType]
    BY <1>0 DEF LibraryType
  <2>3. \A k \in Library : /\ now[k].instance = w.libs[k].instance
                           /\ now[k].objects = w.libs[k].objects
                           /\ w.libs[k].loaded => now[k].loaded
    BY <1>0 DEF LibraryType
  <2>4. now[l].loaded
    BY <1>0 DEF LibraryType
  <2> HIDE DEF now
  <2>5. ASSUME NEW k \in Library
        PROVE  Served([heap |-> w.heap, libs |-> now], k)
    <3> DEFINE v == [heap |-> w.heap, libs |-> now]
    <3>1. v.heap = w.heap /\ v.libs = now
      OBVIOUS
    <3> HIDE DEF v
    <3>2. Alive(v) = Alive(w) /\ Of(v, k) = Of(w, k)
      BY <3>1 DEF Alive, Of
    <3>3. Served(w, k)
      BY <1>0
    <3>4. Served(v, k)
      BY <2>3, <3>1, <3>2, <3>3 DEF Served
    <3> QED
      BY <3>4 DEF v
  <2>6. Consistent([heap |-> w.heap, libs |-> now], ext)
    BY <2>2, <2>5, LibsKeep
  <2> QED
    BY <2>1, <2>3, <2>4, <2>6
<1> QED
  BY <1>1, <1>2

\* A new object, as its constructor finds it.
NewObject(c, f) ==
    [class |-> c, refs |-> 0, factory |-> f, left |-> Null,
     link |-> Link(<<>>, <<>>), path |-> <<>>, opened |-> <<>>]

NewLibs(w, o, c) ==
    [w.libs EXCEPT ![LibraryOf(c)].objects = @ + 1,
                   ![LibraryOf(c)].instance = IF KindOf(c) = "factory" THEN o ELSE @]

Placed(w, o, c, f) ==
    [heap |-> [p \in Alive(w) \cup {o} |-> IF p = o THEN NewObject(c, f) ELSE w.heap[p]],
     libs |-> NewLibs(w, o, c)]

LEMMA NewIs ==
    ASSUME NEW w, NEW c, NEW f
    PROVE  New(w, c, f) = Ref(Placed(w, Fresh(w), c, f), f)
BY DEF New, Placed, NewObject, NewLibs

LEMMA LibraryOfType ==
    ASSUME NEW c \in Class
    PROVE  LibraryOf(c) \in Library
BY DEF Class, LibraryOf, Library

LEMMA FactoryClass ==
    ASSUME NEW c \in Class, NEW l \in Library
    PROVE  c = FactoryOf(l) <=> KindOf(c) = "factory" /\ LibraryOf(c) = l
BY DEF Class, LibraryOf, Library, FactoryOf, KindOf

LEMMA NewObjectIs ==
    ASSUME NEW c \in Class, NEW f \in Object \cup {Null}
    PROVE  /\ IsObject(NewObject(c, f)) /\ NewObject(c, f).class = c /\ NewObject(c, f).refs = 0
           /\ NewObject(c, f).factory = f /\ NewObject(c, f).left = Null
           /\ NewObject(c, f).path = <<>> /\ DOMAIN NewObject(c, f).opened = {}
           /\ NewObject(c, f).link.prefix # <<"file", ":">>
<1>1. <<>> \in Seq(STRING) /\ DOMAIN <<>> = {} /\ <<>> # <<"file", ":">>
  OBVIOUS
<1>2. Link(<<>>, <<>>) \in LinkType /\ Link(<<>>, <<>>).prefix = <<>>
  BY <1>1 DEF Link, LinkType
<1> DEFINE x == NewObject(c, f)
<1>3. /\ x = [class |-> x.class, refs |-> x.refs, factory |-> x.factory, left |-> x.left,
              link |-> x.link, path |-> x.path, opened |-> x.opened]
      /\ x.class = c /\ x.refs = 0 /\ x.factory = f /\ x.left = Null
      /\ x.link = Link(<<>>, <<>>) /\ x.path = <<>> /\ x.opened = <<>>
  BY DEF NewObject
<1> HIDE DEF x
<1>4. IsObject(x)
  BY <1>1, <1>2, <1>3 DEF IsObject
<1>5. DOMAIN x.opened = {} /\ x.link.prefix # <<"file", ":">>
  BY <1>1, <1>2, <1>3
<1> QED
  BY <1>3, <1>4, <1>5 DEF x

\* What is new is counted by its library, and by its factory but for the reference
\* it does not have yet.
LEMMA PlacedKeeps ==
    ASSUME NEW w, NEW ext, Consistent(w, ext), NEW o \in Object \ Alive(w), NEW c \in Class,
           NEW f \in Alive(w) \cup {Null}, w.libs[LibraryOf(c)].loaded,
           IF KindOf(c) = "factory" THEN f = Null /\ w.libs[LibraryOf(c)].instance = Null
           ELSE f # Null /\ w.libs[LibraryOf(c)].instance = f
    PROVE  Consistent(Placed(w, o, c, f), Less(ext, f))
<1> DEFINE u == Placed(w, o, c, f)
           x == NewObject(c, f)
           l == LibraryOf(c)
           now == Less(ext, f)
<1>1. /\ Shape(w) /\ Counted(w, ext) /\ Cached(w) /\ Linked(w)
      /\ \A k \in Library : Served(w, k)
      /\ Null \notin Object /\ Alive(w) \subseteq Object /\ l \in Library
  BY NullAssumption, LibraryOfType DEF Consistent, Shape
<1>2. /\ u = [heap |-> u.heap, libs |-> u.libs]
      /\ u.heap = [p \in Alive(w) \cup {o} |-> IF p = o THEN x ELSE w.heap[p]]
      /\ u.libs = NewLibs(w, o, c)
  BY DEF Placed
<1> HIDE DEF u
<1>3. Alive(u) = Alive(w) \cup {o} /\ u.heap[o] = x /\ \A p \in Alive(w) : u.heap[p] = w.heap[p]
  BY <1>2 DEF Alive
<1>4. /\ IsObject(x) /\ x.class = c /\ x.refs = 0 /\ x.factory = f /\ x.left = Null
      /\ x.path = <<>> /\ DOMAIN x.opened = {} /\ x.link.prefix # <<"file", ":">>
  BY <1>1, NewObjectIs
<1> HIDE DEF x
<1>5. /\ u.libs \in [Library -> LibraryType]
      /\ \A k \in Library :
            /\ u.libs[k].loaded = w.libs[k].loaded
            /\ u.libs[k].objects = IF k = l THEN w.libs[k].objects + 1 ELSE w.libs[k].objects
            /\ u.libs[k].instance =
                  IF k = l /\ KindOf(c) = "factory" THEN o ELSE w.libs[k].instance
  <2>1. w.libs \in [Library -> LibraryType]
    BY <1>1 DEF Shape
  <2> QED
    BY <1>1, <1>2, <2>1 DEF NewLibs, LibraryType
<1>6. Shape(u)
  <2>1. u.heap = [p \in Alive(u) |-> u.heap[p]]
    BY <1>2, <1>3
  <2>2. \A p \in Alive(u) : IsObject(u.heap[p])
    BY <1>1, <1>3, <1>4 DEF Shape
  <2> QED
    BY <1>1, <1>2, <1>3, <1>5, <2>1, <2>2 DEF Shape
<1>7. Counted(u, now)
  <2>1. /\ now \in [Object -> Int]
        /\ \A p \in Object : now[p] = IF p = f THEN ext[p] - 1 ELSE ext[p]
    BY <1>1 DEF Counted, Less
  <2> HIDE DEF now
  <2>2. \A p \in Object \ Alive(u) : now[p] = 0
    BY <1>1, <1>3, <2>1 DEF Counted
  <2>3. now[o] = 0
    BY <1>1, <2>1 DEF Counted
  <2>4. MadeBy(u, o) = {} /\ RightOf(u, o) = {}
    <3>1. \A p \in Alive(w) : w.heap[p].factory # o /\ w.heap[p].left # o
      BY <1>1 DEF Counted
    <3>2. f # o /\ Null # o
      BY <1>1
    <3> QED
      BY <1>3, <1>4, <3>1, <3>2 DEF MadeBy, RightOf
  <2>5. ASSUME NEW p \in Alive(w)
        PROVE  /\ MadeBy(u, p) = IF p = f THEN MadeBy(w, p) \cup {o} ELSE MadeBy(w, p)
               /\ RightOf(u, p) = RightOf(w, p)
    BY <1>1, <1>3, <1>4 DEF MadeBy, RightOf
  <2>6. ASSUME NEW p \in Alive(w)
        PROVE  u.heap[p].refs = now[p] + Cardinality(MadeBy(u, p)) + Cardinality(RightOf(u, p))
    <3>1. o \notin MadeBy(w, p) /\ MadeBy(w, p) \subseteq Object /\ RightOf(w, p) \subseteq Object
      BY <1>1 DEF MadeBy, RightOf
    <3>2. /\ IsFiniteSet(MadeBy(w, p)) /\ Cardinality(MadeBy(w, p)) \in Nat
          /\ Cardinality(RightOf(w, p)) \in Nat
      BY <3>1, Finite
    <3>3. Cardinality(MadeBy(w, p) \cup {o}) = Cardinality(MadeBy(w, p)) + 1
      BY <3>1, <3>2, FS_AddElement
    <3>4. /\ w.heap[p].refs = ext[p] + Cardinality(MadeBy(w, p)) + Cardinality(RightOf(w, p))
          /\ ext[p] \in Int /\ u.heap[p].refs = w.heap[p].refs /\ p \in Object
      BY <1>1, <1>3 DEF Counted
    <3>5. CASE p = f
      <4>1. /\ Cardinality(MadeBy(u, p)) = Cardinality(MadeBy(w, p)) + 1
            /\ RightOf(u, p) = RightOf(w, p) /\ now[p] = ext[p] - 1
        BY <2>1, <2>5, <3>3, <3>4, <3>5
      <4> QED
        BY <3>2, <3>4, <4>1
    <3>6. CASE p # f
      <4>1. MadeBy(u, p) = MadeBy(w, p) /\ RightOf(u, p) = RightOf(w, p) /\ now[p] = ext[p]
        BY <2>1, <2>5, <3>4, <3>6
      <4> QED
        BY <3>4, <4>1
    <3> QED
      BY <3>5, <3>6
  <2>7. u.heap[o].refs = now[o] + Cardinality(MadeBy(u, o)) + Cardinality(RightOf(u, o))
    BY <1>3, <1>4, <2>3, <2>4, FS_EmptySet
  <2>8. \A p \in Alive(u) : u.heap[p].factory \in Alive(u) \cup {Null}
                            /\ u.heap[p].left \in Alive(u) \cup {Null}
    BY <1>1, <1>3, <1>4 DEF Counted
  <2> QED
    BY <1>3, <2>1, <2>2, <2>6, <2>7, <2>8 DEF Counted
<1>8. Cached(u)
  BY <1>1, <1>3, <1>4 DEF Cached
<1>9. Linked(u)
  BY <1>1, <1>3, <1>4 DEF Linked
<1>10. ASSUME NEW k \in Library
       PROVE  Served(u, k)
  <2>1. Of(u, k) = IF k = l THEN Of(w, k) \cup {o} ELSE Of(w, k)
    BY <1>3, <1>4 DEF Of
  <2>2. /\ Of(w, k) \subseteq Alive(w) /\ o \notin Of(w, k)
        /\ IsFiniteSet(Of(w, k)) /\ Cardinality(Of(w, k)) \in Nat
    BY <1>1, Finite DEF Of
  <2>3. Cardinality(Of(u, k)) = IF k = l THEN Cardinality(Of(w, k)) + 1 ELSE Cardinality(Of(w, k))
    BY <2>1, <2>2, FS_AddElement
  <2>4. Served(w, k) /\ w.libs[k].objects \in Int
    BY <1>1 DEF Shape, LibraryType
  <2>5. IF k = "io" THEN u.libs[k].objects >= Cardinality(Of(u, k))
        ELSE u.libs[k].objects = Cardinality(Of(u, k))
    BY <1>5, <2>2, <2>3, <2>4 DEF Served
  <2>6. \A p \in Of(u, k) : u.libs[k].loaded
    BY <1>1, <1>5, <2>1, <2>4 DEF Served
  <2>7. c = FactoryOf(k) <=> KindOf(c) = "factory" /\ k = l
    BY <1>1, FactoryClass
  <2>8. u.libs[k].instance \in Alive(u) \cup {Null}
    BY <1>3, <1>5, <2>4 DEF Served
  <2>9. \A p \in Alive(u) : u.heap[p].class = FactoryOf(k) <=> p = u.libs[k].instance
    <3>1. \A p \in Alive(w) : w.heap[p].class = FactoryOf(k) <=> p = w.libs[k].instance
      BY <2>4 DEF Served
    <3>2. w.libs[k].instance \in Alive(w) \cup {Null}
      BY <2>4 DEF Served
    <3> QED
      BY <1>1, <1>3, <1>4, <1>5, <2>7, <3>1, <3>2
  <2>10. \A p \in Of(u, k) :
          IF u.heap[p].class = FactoryOf(k) THEN u.heap[p].factory = Null
          ELSE u.heap[p].factory = u.libs[k].instance /\ u.libs[k].instance # Null
    <3>1. \A p \in Of(w, k) :
          IF w.heap[p].class = FactoryOf(k) THEN w.heap[p].factory = Null
          ELSE w.heap[p].factory = w.libs[k].instance /\ w.libs[k].instance # Null
      BY <2>4 DEF Served
    <3>2. \A p \in Alive(w) : w.heap[p].class = FactoryOf(k) => p = w.libs[k].instance
      BY <2>4 DEF Served
    <3>3. ASSUME NEW p \in Of(w, k)
          PROVE  IF u.heap[p].class = FactoryOf(k) THEN u.heap[p].factory = Null
                 ELSE u.heap[p].factory = u.libs[k].instance /\ u.libs[k].instance # Null
      BY <1>1, <1>3, <1>5, <2>2, <3>1, <3>2
    <3>4. ASSUME k = l
          PROVE  IF u.heap[o].class = FactoryOf(k) THEN u.heap[o].factory = Null
                 ELSE u.heap[o].factory = u.libs[k].instance /\ u.libs[k].instance # Null
      BY <1>3, <1>4, <1>5, <2>7, <3>4
    <3> QED
      BY <2>1, <3>3, <3>4
  <2> QED
    BY <2>5, <2>6, <2>8, <2>9, <2>10 DEF Served
<1>11. Consistent(u, now)
  BY <1>6, <1>7, <1>8, <1>9, <1>10 DEF Consistent
<1> QED
  BY <1>11 DEF u

\* There is memory for n more objects.
Space(w, n) == Cardinality(Object \ Alive(w)) >= n

LEMMA FreshIs ==
    ASSUME NEW w, Alive(w) \subseteq Object, NEW n \in Nat, n >= 1, Space(w, n)
    PROVE  Fresh(w) \in Object /\ Fresh(w) \notin Alive(w)
<1>1. Object \ Alive(w) # {}
  BY FS_EmptySet DEF Space
<1>2. \E o \in Object : o \notin Alive(w)
  BY <1>1
<1> QED
  BY <1>2 DEF Fresh

LEMMA SpaceLeft ==
    ASSUME NEW w, NEW v, Alive(w) \subseteq Object, NEW o \in Object, o \notin Alive(w),
           Alive(v) = Alive(w) \cup {o}, NEW n \in Nat, Space(w, n + 1)
    PROVE  Space(v, n)
<1>1. Object \ Alive(v) = (Object \ Alive(w)) \ {o}
  OBVIOUS
<1>2. IsFiniteSet(Object \ Alive(w)) /\ Cardinality(Object \ Alive(w)) \in Nat
  BY Finite
<1>3. Cardinality(Object \ Alive(v)) = Cardinality(Object \ Alive(w)) - 1
  BY <1>1, <1>2, FS_RemoveElement
<1> QED
  BY <1>2, <1>3 DEF Space

\* A world in which nothing of w is lost or other than it was, but for counters;
\* and what is new has nothing on its left.
Grows(w, v) ==
    /\ Alive(w) \subseteq Alive(v)
    /\ \A p \in Alive(w) :
          /\ v.heap[p].class = w.heap[p].class
          /\ v.heap[p].factory = w.heap[p].factory
          /\ v.heap[p].left = w.heap[p].left
          /\ v.heap[p].link = w.heap[p].link
          /\ v.heap[p].path = w.heap[p].path
          /\ v.heap[p].opened = w.heap[p].opened
    /\ \A p \in Alive(v) \ Alive(w) : v.heap[p].left = Null

LEMMA GrowsOn ==
    ASSUME NEW u, NEW v, NEW w, Grows(w, v), Grows(v, u)
    PROVE  Grows(w, u)
BY DEF Grows

\* An object that was there before and still is has what it had on its left.
KeepsLeft(w, v, p) ==
    IF p \in Alive(w) THEN v.heap[p].left = w.heap[p].left /\ v.heap[p].link = w.heap[p].link
    ELSE v.heap[p].left = Null

Follows(w, v) == \A p \in Alive(v) : KeepsLeft(w, v, p)

\* So it is but for m, which is new, and has x on its left.
Joins(w, v, m, x, k) ==
    /\ m \in Alive(v) \ Alive(w) /\ v.heap[m].left = x /\ v.heap[m].link = k
    /\ \A p \in Alive(v) \ {m} : KeepsLeft(w, v, p)

LEMMA GrowsFollows ==
    ASSUME NEW w, NEW v, Grows(w, v)
    PROVE  Follows(w, v)
BY DEF Grows, Follows, KeepsLeft

LEMMA SameFollows ==
    ASSUME NEW u, NEW v, NEW w, Follows(w, v), SameButRefs(u, v)
    PROVE  Follows(w, u)
BY DEF Follows, KeepsLeft, SameButRefs

\* A new object.
LEMMA NewKeeps ==
    ASSUME NEW w, NEW ext, Consistent(w, ext), NEW n \in Nat, Space(w, n + 1), NEW c \in Class,
           NEW f \in Alive(w) \cup {Null}, w.libs[LibraryOf(c)].loaded,
           IF KindOf(c) = "factory" THEN f = Null /\ w.libs[LibraryOf(c)].instance = Null
           ELSE f # Null /\ w.libs[LibraryOf(c)].instance = f
    PROVE  LET v == New(w, c, f)
               o == Fresh(w)
           IN  /\ Consistent(v, ext) /\ Grows(w, v) /\ Space(v, n)
               /\ o \in Object \ Alive(w) /\ Alive(v) = Alive(w) \cup {o}
               /\ v.heap[o].class = c /\ v.heap[o].factory = f /\ v.heap[o].left = Null
               /\ v.heap[o].path = <<>>
               /\ v.libs = NewLibs(w, o, c)
<1> DEFINE v == New(w, c, f)
           o == Fresh(w)
           u == Placed(w, o, c, f)
<1>1. Alive(w) \subseteq Object /\ Null \notin Object /\ ext \in [Object -> Int]
  BY NullAssumption DEF Consistent, Shape, Counted
<1>2. o \in Object /\ o \notin Alive(w)
  <2>1. n + 1 \in Nat /\ n + 1 >= 1
    OBVIOUS
  <2> QED
    BY <1>1, <2>1, FreshIs
<1> HIDE DEF o
<1>3. Consistent(u, Less(ext, f))
  BY <1>2, PlacedKeeps
<1>4. /\ Alive(u) = Alive(w) \cup {o} /\ u.libs = NewLibs(w, o, c)
      /\ u.heap[o] = NewObject(c, f) /\ \A p \in Alive(w) : u.heap[p] = w.heap[p]
  BY <1>2 DEF Placed, Alive
<1> HIDE DEF u
<1>5. v = Ref(u, f)
  BY NewIs DEF o, u
<1> HIDE DEF v
<1>6. Consistent(v, More(Less(ext, f), f)) /\ SameButRefs(v, u)
  BY <1>3, <1>4, <1>5, RefOf
<1>7. More(Less(ext, f), f) = ext
  <2>1. CASE f = Null
    BY <2>1 DEF More, Less
  <2>2. CASE f # Null
    <3>1. f \in Object /\ ext[f] \in Int
      BY <1>1, <2>2
    <3>2. /\ Less(ext, f) \in [Object -> Int]
          /\ \A p \in Object : Less(ext, f)[p] = IF p = f THEN ext[p] - 1 ELSE ext[p]
      BY <1>1, <2>2, <3>1 DEF Less
    <3>3. /\ More(Less(ext, f), f) \in [Object -> Int]
          /\ \A p \in Object : More(Less(ext, f), f)[p] = ext[p]
      BY <1>1, <2>2, <3>1, <3>2 DEF More
    <3> QED
      BY <1>1, <3>3
  <2> QED
    BY <2>1, <2>2
<1>8. Grows(w, v)
  <2>1. NewObject(c, f).left = Null
    BY DEF NewObject
  <2> QED
    BY <1>4, <1>6, <2>1 DEF Grows, SameButRefs
<1>9. Alive(v) = Alive(w) \cup {o} /\ v.libs = NewLibs(w, o, c)
  BY <1>4, <1>6 DEF SameButRefs
<1>10. /\ v.heap[o].class = c /\ v.heap[o].factory = f /\ v.heap[o].left = Null
       /\ v.heap[o].path = <<>>
  <2>1. /\ NewObject(c, f).class = c /\ NewObject(c, f).factory = f
        /\ NewObject(c, f).left = Null /\ NewObject(c, f).path = <<>>
    BY DEF NewObject
  <2> QED
    BY <1>4, <1>6, <2>1 DEF SameButRefs
<1>11. Space(v, n)
  BY <1>1, <1>2, <1>9, SpaceLeft
<1> QED
  BY <1>2, <1>6, <1>7, <1>8, <1>9, <1>10, <1>11 DEF o, v

LEMMA NewLibsIs ==
    ASSUME NEW w, w.libs \in [Library -> LibraryType], NEW o, NEW c \in Class
    PROVE  \A k \in Library :
              /\ NewLibs(w, o, c)[k].loaded = w.libs[k].loaded
              /\ NewLibs(w, o, c)[k].instance =
                    IF k = LibraryOf(c) /\ KindOf(c) = "factory" THEN o ELSE w.libs[k].instance
BY LibraryOfType DEF NewLibs, LibraryType

LEMMA FactoryOfIs ==
    ASSUME NEW l \in Library
    PROVE  /\ FactoryOf(l) \in Class /\ LibraryOf(FactoryOf(l)) = l
           /\ KindOf(FactoryOf(l)) = "factory"
BY DEF Library, FactoryOf, Class, LibraryOf, KindOf

\* The library of a class is loaded, and has its factory.
LEMMA WithFactoryKeeps ==
    ASSUME NEW w, NEW ext, Consistent(w, ext), NEW n \in Nat, Space(w, n + 1), NEW l \in Library
    PROVE  LET v == WithFactory(w, l)
           IN  /\ Consistent(v, ext) /\ Grows(w, v) /\ Space(v, n)
               /\ v.libs[l].loaded /\ v.libs[l].instance \in Alive(v)
               /\ v.heap[v.libs[l].instance].class = FactoryOf(l)
<1> DEFINE u == Loaded(w, l)
           v == WithFactory(w, l)
<1>1. /\ Consistent(u, ext) /\ u.heap = w.heap /\ u.libs[l].loaded
      /\ \A k \in Library : u.libs[k].instance = w.libs[k].instance
  BY LoadedKeeps
<1>2. v = IF w.libs[l].instance # Null THEN u ELSE New(u, FactoryOf(l), Null)
  BY DEF WithFactory
<1> HIDE DEF u, v
<1>3. Alive(u) = Alive(w) /\ Space(u, n + 1) /\ Grows(w, u) /\ Alive(w) \subseteq Object
  BY <1>1 DEF Alive, Space, Grows, Consistent, Shape
<1>4. IsFiniteSet(Object \ Alive(u)) /\ Cardinality(Object \ Alive(u)) \in Nat
  BY Finite
<1>5. Space(u, n)
  BY <1>3, <1>4 DEF Space
<1>6. ASSUME NEW k \in Library, NEW x, NEW y, Consistent(x, y), x.libs[k].instance # Null
      PROVE  x.libs[k].instance \in Alive(x) /\ x.heap[x.libs[k].instance].class = FactoryOf(k)
  BY <1>6 DEF Consistent, Served
<1>7. CASE w.libs[l].instance # Null
  BY <1>1, <1>2, <1>3, <1>5, <1>6, <1>7 DEF v
<1>8. CASE w.libs[l].instance = Null
  <2>1. /\ FactoryOf(l) \in Class /\ LibraryOf(FactoryOf(l)) = l
        /\ KindOf(FactoryOf(l)) = "factory"
    BY FactoryOfIs
  <2>2. v = New(u, FactoryOf(l), Null) /\ u.libs[l].instance = Null
    BY <1>1, <1>2, <1>8
  <2>3. /\ Consistent(v, ext) /\ Grows(u, v) /\ Space(v, n)
        /\ Fresh(u) \in Object \ Alive(u)
        /\ v.libs = NewLibs(u, Fresh(u), FactoryOf(l))
    BY <1>1, <1>3, <2>1, <2>2, NewKeeps
  <2>4. v.libs[l].loaded /\ v.libs[l].instance = Fresh(u)
    BY <1>1, <2>1, <2>3, NewLibsIs DEF Consistent, Shape
  <2>5. Fresh(u) # Null
    BY <2>3, NullAssumption
  <2>6. Grows(w, v)
    BY <1>3, <2>3, GrowsOn
  <2> QED
    BY <1>6, <2>3, <2>4, <2>5, <2>6 DEF v
<1> QED
  BY <1>7, <1>8

\* An object of a class is created.
LEMMA CreatedKeeps ==
    ASSUME NEW w, NEW ext, Consistent(w, ext), Space(w, 2), NEW c \in Class
    PROVE  LET v == Created(w, c)
               o == CreatedObject(w, c)
           IN  /\ Consistent(v, ext) /\ Grows(w, v)
               /\ o \in Alive(v) /\ v.heap[o].class = c
               /\ KindOf(c) # "factory" =>
                    /\ o \notin Alive(w) /\ v.heap[o].left = Null /\ v.heap[o].path = <<>>
<1> DEFINE l == LibraryOf(c)
           u == WithFactory(w, l)
           v == Created(w, c)
           o == CreatedObject(w, c)
<1>1. l \in Library
  BY LibraryOfType
<1>2. /\ Consistent(u, ext) /\ Grows(w, u) /\ Space(u, 1)
      /\ u.libs[l].loaded /\ u.libs[l].instance \in Alive(u)
      /\ u.heap[u.libs[l].instance].class = FactoryOf(l)
  <2>1. Space(w, 1 + 1)
    OBVIOUS
  <2> QED
    BY <1>1, <2>1, 1 \in Nat, WithFactoryKeeps
<1>3. /\ v = IF KindOf(c) = "factory" THEN u ELSE New(u, c, u.libs[l].instance)
      /\ o = IF KindOf(c) = "factory" THEN u.libs[l].instance ELSE Fresh(u)
  BY DEF Created, CreatedObject
<1> HIDE DEF u, v, o
<1>4. CASE KindOf(c) = "factory"
  <2>1. c = FactoryOf(l)
    BY <1>1, <1>4, FactoryClass
  <2> QED
    BY <1>2, <1>3, <1>4, <2>1 DEF v, o
<1>5. CASE KindOf(c) # "factory"
  <2>1. Space(u, 0 + 1)
    BY <1>2
  <2>2. u.libs[l].instance # Null
    BY <1>2, NullAssumption DEF Consistent, Shape
  <2>3. v = New(u, c, u.libs[l].instance) /\ o = Fresh(u)
    BY <1>3, <1>5
  <2>4. /\ Consistent(v, ext) /\ Grows(u, v)
        /\ o \in Object \ Alive(u) /\ Alive(v) = Alive(u) \cup {o}
        /\ v.heap[o].class = c /\ v.heap[o].left = Null /\ v.heap[o].path = <<>>
    BY <1>2, <1>5, <2>1, <2>2, <2>3, 0 \in Nat, NewKeeps
  <2>5. Grows(w, v) /\ o \notin Alive(w)
    BY <1>2, <2>4, GrowsOn DEF Grows
  <2> QED
    BY <2>4, <2>5 DEF v, o
<1> QED
  BY <1>4, <1>5

Joined(w, m, x, k) == [w EXCEPT !.heap[m].left = x, !.heap[m].link = k]

\* A moniker refers to x, the one before it in the chain, by the reference that the
\* call had.
LEMMA LinkKeeps ==
    ASSUME NEW w, NEW ext, Consistent(w, ext), NEW m \in Alive(w), w.heap[m].left = Null,
           NEW x \in Alive(w) \cup {Null}, NEW k \in LinkType,
           k.prefix = <<"file", ":">> => w.heap[m].class = "IoMoniker"
    PROVE  /\ Consistent(Joined(w, m, x, k), Less(ext, x))
           /\ Alive(Joined(w, m, x, k)) = Alive(w)
           /\ Joined(w, m, x, k).heap[m].left = x /\ Joined(w, m, x, k).heap[m].link = k
           /\ \A p \in Alive(w) \ {m} : /\ Joined(w, m, x, k).heap[p].left = w.heap[p].left
                                        /\ Joined(w, m, x, k).heap[p].link = w.heap[p].link
<1> DEFINE v == Joined(w, m, x, k)
           y == [w.heap[m] EXCEPT !.left = x, !.link = k]
           now == Less(ext, x)
<1>1. /\ Shape(w) /\ Counted(w, ext) /\ Cached(w) /\ Linked(w)
      /\ \A l \in Library : Served(w, l)
      /\ Null \notin Object /\ Alive(w) \subseteq Object /\ IsObject(w.heap[m])
      /\ x \in Object \cup {Null} /\ m \in Object
  BY NullAssumption DEF Consistent, Shape
<1>2. /\ IsObject(y) /\ y.class = w.heap[m].class /\ y.refs = w.heap[m].refs
      /\ y.factory = w.heap[m].factory /\ y.left = x /\ y.link = k
      /\ y.path = w.heap[m].path /\ y.opened = w.heap[m].opened
  <2> DEFINE z == [w.heap[m] EXCEPT !.left = x]
  <2>1. IsObject(w.heap[m]) /\ x \in Object \cup {Null}
    BY <1>1
  <2>2. /\ IsObject(z) /\ z.class = w.heap[m].class /\ z.refs = w.heap[m].refs
        /\ z.factory = w.heap[m].factory /\ z.left = x
        /\ z.path = w.heap[m].path /\ z.opened = w.heap[m].opened
    BY <2>1 DEF IsObject
  <2>3. y = [z EXCEPT !.link = k]
    OBVIOUS
  <2> HIDE DEF y, z
  <2> QED
    BY <2>2, <2>3 DEF IsObject
<1>3. v = [heap |-> [w.heap EXCEPT ![m] = y], libs |-> w.libs]
  <2> DEFINE u == [w EXCEPT !.heap[m].left = x]
  <2>1. w = [heap |-> w.heap, libs |-> w.libs] /\ w.heap = [o \in Alive(w) |-> w.heap[o]]
    BY <1>1 DEF Shape
  <2>2. u = [heap |-> [w.heap EXCEPT ![m] = [@ EXCEPT !.left = x]], libs |-> w.libs]
    BY <2>1
  <2>3. v = [u EXCEPT !.heap[m].link = k]
    BY DEF Joined
  <2> HIDE DEF v, u
  <2>4. v = [heap |-> [u.heap EXCEPT ![m] = [@ EXCEPT !.link = k]], libs |-> u.libs]
    BY <2>2, <2>3
  <2>5. u.heap[m] = [w.heap[m] EXCEPT !.left = x]
    BY <2>1, <2>2
  <2>6. v = [heap |-> [u.heap EXCEPT ![m] = y], libs |-> u.libs]
    BY <2>4, <2>5
  <2>7. [u.heap EXCEPT ![m] = y] = [w.heap EXCEPT ![m] = y]
    BY <2>1, <2>2
  <2> QED
    BY <2>2, <2>6, <2>7
<1> HIDE DEF y, v
<1>4. /\ v.heap = [p \in Alive(w) |-> IF p = m THEN y ELSE w.heap[p]]
      /\ v.libs = w.libs /\ v = [heap |-> v.heap, libs |-> v.libs]
  <2>1. w.heap = [o \in Alive(w) |-> w.heap[o]]
    BY <1>1 DEF Shape
  <2> QED
    BY <1>3, <2>1
<1>5. Alive(v) = Alive(w)
  BY <1>4 DEF Alive
<1>6. /\ v.heap[m].left = x /\ v.heap[m].link = k
      /\ \A p \in Alive(w) :
            /\ v.heap[p].class = w.heap[p].class /\ v.heap[p].refs = w.heap[p].refs
            /\ v.heap[p].factory = w.heap[p].factory
            /\ v.heap[p].path = w.heap[p].path /\ v.heap[p].opened = w.heap[p].opened
            /\ p # m => v.heap[p].left = w.heap[p].left /\ v.heap[p].link = w.heap[p].link
  BY <1>2, <1>4
<1>7. Shape(v)
  BY <1>1, <1>2, <1>4, <1>5 DEF Shape
<1>8. Cached(v)
  BY <1>1, <1>5, <1>6, CachedKeeps
<1>9. Linked(v)
  BY <1>1, <1>5, <1>6 DEF Linked
<1>10. ASSUME NEW l \in Library
       PROVE  Served(v, l)
  <2>1. Of(v, l) = Of(w, l) /\ Of(w, l) \subseteq Alive(w)
    BY <1>5, <1>6 DEF Of
  <2>2. Served(w, l)
    BY <1>1
  <2> QED
    BY <1>4, <1>5, <1>6, <2>1, <2>2 DEF Served
<1>11. Counted(v, now)
  <2>1. /\ now \in [Object -> Int]
        /\ \A p \in Object : now[p] = IF p = x THEN ext[p] - 1 ELSE ext[p]
    BY <1>1 DEF Counted, Less
  <2> HIDE DEF now
  <2>2. \A p \in Object \ Alive(v) : now[p] = 0
    BY <1>1, <1>5, <2>1 DEF Counted
  <2>3. \A p : MadeBy(v, p) = MadeBy(w, p)
    BY <1>5, <1>6 DEF MadeBy
  <2>4. ASSUME NEW p \in Alive(w)
        PROVE  RightOf(v, p) = IF p = x THEN RightOf(w, p) \cup {m} ELSE RightOf(w, p)
    BY <1>1, <1>5, <1>6 DEF RightOf
  <2>5. ASSUME NEW p \in Alive(w)
        PROVE  v.heap[p].refs = now[p] + Cardinality(MadeBy(v, p)) + Cardinality(RightOf(v, p))
    <3>1. m \notin RightOf(w, p) /\ MadeBy(w, p) \subseteq Object /\ RightOf(w, p) \subseteq Object
      BY <1>1 DEF MadeBy, RightOf
    <3>2. /\ IsFiniteSet(RightOf(w, p)) /\ Cardinality(RightOf(w, p)) \in Nat
          /\ Cardinality(MadeBy(w, p)) \in Nat
      BY <3>1, Finite
    <3>3. Cardinality(RightOf(w, p) \cup {m}) = Cardinality(RightOf(w, p)) + 1
      BY <3>1, <3>2, FS_AddElement
    <3>4. /\ w.heap[p].refs = ext[p] + Cardinality(MadeBy(w, p)) + Cardinality(RightOf(w, p))
          /\ ext[p] \in Int /\ v.heap[p].refs = w.heap[p].refs /\ p \in Object
      BY <1>1, <1>6 DEF Counted
    <3>5. CASE p = x
      <4>1. /\ Cardinality(RightOf(v, p)) = Cardinality(RightOf(w, p)) + 1
            /\ MadeBy(v, p) = MadeBy(w, p) /\ now[p] = ext[p] - 1
        BY <2>1, <2>3, <2>4, <3>3, <3>4, <3>5
      <4> QED
        BY <3>2, <3>4, <4>1
    <3>6. CASE p # x
      <4>1. MadeBy(v, p) = MadeBy(w, p) /\ RightOf(v, p) = RightOf(w, p) /\ now[p] = ext[p]
        BY <2>1, <2>3, <2>4, <3>4, <3>6
      <4> QED
        BY <3>4, <4>1
    <3> QED
      BY <3>5, <3>6
  <2>6. \A p \in Alive(v) : v.heap[p].factory \in Alive(v) \cup {Null}
                            /\ v.heap[p].left \in Alive(v) \cup {Null}
    BY <1>1, <1>5, <1>6 DEF Counted
  <2> QED
    BY <1>5, <2>1, <2>2, <2>5, <2>6 DEF Counted
<1>12. Consistent(v, now)
  BY <1>7, <1>8, <1>9, <1>10, <1>11 DEF Consistent
<1> QED
  BY <1>5, <1>6, <1>12 DEF v

LEMMA DocumentFactory ==
    ASSUME NEW w, NEW ext, Consistent(w, ext), NEW d \in Alive(w), w.heap[d].class = "Document"
    PROVE  w.heap[d].factory \in Alive(w) /\ w.heap[w.heap[d].factory].class = "TxtFactory"
<1>1. "txt" \in Library /\ d \in Of(w, "txt") /\ FactoryOf("txt") = "TxtFactory"
  BY DEF Library, Of, LibraryOf, FactoryOf
<1>2. Served(w, "txt")
  BY <1>1 DEF Consistent
<1>3. w.heap[d].factory = w.libs["txt"].instance /\ w.heap[d].factory # Null
  BY <1>1, <1>2 DEF Served
<1> QED
  BY <1>1, <1>2, <1>3 DEF Served

\* A document is registered in its factory by its path.
LEMMA RegisteredKeeps ==
    ASSUME NEW w, NEW ext, Consistent(w, ext), NEW d \in Alive(w), w.heap[d].class = "Document",
           NEW p \in Seq(STRING), p # <<>>, w.heap[d].path = <<>>,
           p \notin DOMAIN w.heap[w.heap[d].factory].opened
    PROVE  Consistent(Registered(w, d, p), ext) /\ Alive(Registered(w, d, p)) = Alive(w)
           /\ Registered(w, d, p).heap[d].class = "Document"
           /\ \A e \in Alive(w) : /\ Registered(w, d, p).heap[e].left = w.heap[e].left
                                  /\ Registered(w, d, p).heap[e].link = w.heap[e].link
<1> DEFINE v == Registered(w, d, p)
           f == w.heap[d].factory
           opened == w.heap[f].opened
           now == [q \in DOMAIN opened \cup {p} |-> IF q = p THEN d ELSE opened[q]]
           x == [w.heap[d] EXCEPT !.path = p]
           y == [w.heap[f] EXCEPT !.opened = now]
<1>1. /\ Shape(w) /\ Counted(w, ext) /\ Cached(w) /\ Linked(w)
      /\ \A l \in Library : Served(w, l)
      /\ Null \notin Object /\ Alive(w) \subseteq Object
  BY NullAssumption DEF Consistent, Shape
<1>2. f \in Alive(w) /\ w.heap[f].class = "TxtFactory" /\ f # d
  BY DocumentFactory
<1>3. /\ IsObject(x) /\ x.class = w.heap[d].class /\ x.refs = w.heap[d].refs
      /\ x.factory = w.heap[d].factory /\ x.left = w.heap[d].left /\ x.link = w.heap[d].link
      /\ x.path = p /\ x.opened = w.heap[d].opened
  <2>1. IsObject(w.heap[d])
    BY <1>1 DEF Shape
  <2> QED
    BY <2>1 DEF IsObject
<1>4. /\ IsObject(y) /\ y.class = w.heap[f].class /\ y.refs = w.heap[f].refs
      /\ y.factory = w.heap[f].factory /\ y.left = w.heap[f].left /\ y.link = w.heap[f].link
      /\ y.path = w.heap[f].path /\ y.opened = now
  <2>1. IsObject(w.heap[f])
    BY <1>1, <1>2 DEF Shape
  <2> HIDE DEF now, f
  <2> QED
    BY <2>1 DEF IsObject
<1>5. v = [heap |-> [[w.heap EXCEPT ![d] = x] EXCEPT ![f] = y], libs |-> w.libs]
  <2> DEFINE u == [w EXCEPT !.heap[d].path = p]
  <2>1. w = [heap |-> w.heap, libs |-> w.libs] /\ w.heap = [o \in Alive(w) |-> w.heap[o]]
    BY <1>1 DEF Shape
  <2>2. v = [u EXCEPT !.heap[f].opened = now]
    BY DEF Registered
  <2> HIDE DEF now, f, v
  <2>3. u = [heap |-> [w.heap EXCEPT ![d] = x], libs |-> w.libs]
    BY <2>1
  <2> HIDE DEF u, x
  <2>4. v = [heap |-> [u.heap EXCEPT ![f] = [@ EXCEPT !.opened = now]], libs |-> u.libs]
    BY <2>2, <2>3
  <2>5. u.heap[f] = w.heap[f]
    BY <1>2, <2>1, <2>3
  <2> QED
    BY <2>3, <2>4, <2>5
<1> HIDE DEF x, y, v, now, f
<1>6. /\ v.heap = [q \in Alive(w) |-> IF q = f THEN y ELSE IF q = d THEN x ELSE w.heap[q]]
      /\ v.libs = w.libs /\ v = [heap |-> v.heap, libs |-> v.libs]
  <2>1. w.heap = [o \in Alive(w) |-> w.heap[o]]
    BY <1>1 DEF Shape
  <2> QED
    BY <1>2, <1>5, <2>1
<1>7. Alive(v) = Alive(w)
  BY <1>6 DEF Alive
<1>8. \A q \in Alive(w) :
          /\ v.heap[q].class = w.heap[q].class /\ v.heap[q].refs = w.heap[q].refs
          /\ v.heap[q].factory = w.heap[q].factory /\ v.heap[q].left = w.heap[q].left
          /\ v.heap[q].link = w.heap[q].link
          /\ v.heap[q].path = IF q = d THEN p ELSE w.heap[q].path
          /\ v.heap[q].opened = IF q = f THEN now ELSE w.heap[q].opened
  BY <1>2, <1>3, <1>4, <1>6 DEF f
<1>9. Shape(v)
  BY <1>1, <1>3, <1>4, <1>6, <1>7 DEF Shape
<1>10. Linked(v)
  BY <1>1, <1>7, <1>8 DEF Linked
<1>11. Counted(v, ext)
  <2>1. \A q : MadeBy(v, q) = MadeBy(w, q) /\ RightOf(v, q) = RightOf(w, q)
    BY <1>7, <1>8 DEF MadeBy, RightOf
  <2> QED
    BY <1>1, <1>7, <1>8, <2>1 DEF Counted
<1>12. ASSUME NEW l \in Library
       PROVE  Served(v, l)
  <2>1. Of(v, l) = Of(w, l) /\ Of(w, l) \subseteq Alive(w)
    BY <1>7, <1>8 DEF Of
  <2>2. Served(w, l)
    BY <1>1
  <2> QED
    BY <1>6, <1>7, <1>8, <2>1, <2>2 DEF Served
<1>13. Cached(v)
  <2>1. /\ DOMAIN now = DOMAIN w.heap[f].opened \cup {p} /\ now[p] = d
        /\ \A q \in DOMAIN w.heap[f].opened : now[q] = w.heap[f].opened[q] /\ q # p
    BY DEF now, f
  <2>2. ASSUME NEW g \in Alive(v), NEW q \in DOMAIN v.heap[g].opened
        PROVE  /\ q # <<>>
               /\ v.heap[g].opened[q] \in Alive(v)
               /\ v.heap[v.heap[g].opened[q]].path = q
               /\ v.heap[v.heap[g].opened[q]].factory = g
    <3>1. CASE g = f /\ q = p
      <4>1. v.heap[g].opened[q] = d /\ d \in Alive(w)
        BY <1>2, <1>8, <2>1, <3>1
      <4>2. v.heap[d].path = p /\ v.heap[d].factory = f
        BY <1>8 DEF f
      <4> QED
        BY <1>7, <3>1, <4>1, <4>2
    <3>2. CASE ~ (g = f /\ q = p)
      <4>1. q \in DOMAIN w.heap[g].opened /\ v.heap[g].opened[q] = w.heap[g].opened[q]
        BY <1>7, <1>8, <2>1, <2>2, <3>2
      <4>2. /\ q # <<>> /\ w.heap[g].opened[q] \in Alive(w)
            /\ w.heap[w.heap[g].opened[q]].path = q
            /\ w.heap[w.heap[g].opened[q]].factory = g
        BY <1>1, <1>7, <4>1 DEF Cached
      <4>3. w.heap[g].opened[q] # d
        BY <4>2
      <4> QED
        BY <1>7, <1>8, <4>1, <4>2, <4>3
    <3> QED
      BY <3>1, <3>2
  <2>3. ASSUME NEW e \in Alive(v), v.heap[e].path # <<>>
        PROVE  /\ v.heap[e].class = "Document" /\ v.heap[e].factory \in Alive(v)
               /\ v.heap[e].path \in DOMAIN v.heap[v.heap[e].factory].opened
               /\ v.heap[v.heap[e].factory].opened[v.heap[e].path] = e
    <3>1. CASE e = d
      BY <1>2, <1>7, <1>8, <2>1, <3>1 DEF f
    <3>2. CASE e # d
      <4>1. v.heap[e].path = w.heap[e].path /\ e \in Alive(w)
        BY <1>7, <1>8, <3>2
      <4>2. /\ w.heap[e].class = "Document" /\ w.heap[e].factory \in Alive(w)
            /\ w.heap[e].path \in DOMAIN w.heap[w.heap[e].factory].opened
            /\ w.heap[w.heap[e].factory].opened[w.heap[e].path] = e
        BY <1>1, <2>3, <4>1 DEF Cached
      <4> QED
        BY <1>7, <1>8, <2>1, <4>1, <4>2
    <3> QED
      BY <3>1, <3>2
  <2> QED
    BY <2>2, <2>3 DEF Cached
<1> QED
  BY <1>7, <1>8, <1>9, <1>10, <1>11, <1>12, <1>13 DEF Consistent, v

\* Nothing but its factory's register tells of the path of an object.
LEMMA ForgottenIs ==
    ASSUME NEW w, Shape(w), NEW o \in Alive(w),
           w.heap[o].path # <<>> => w.heap[o].factory \in Alive(w)
    PROVE  LET u == Forgotten(w, o)
           IN  /\ Shape(u) /\ Alive(u) = Alive(w) /\ u.libs = w.libs
               /\ \A q \in Alive(w) :
                    /\ u.heap[q].class = w.heap[q].class /\ u.heap[q].refs = w.heap[q].refs
                    /\ u.heap[q].factory = w.heap[q].factory /\ u.heap[q].left = w.heap[q].left
                    /\ u.heap[q].link = w.heap[q].link /\ u.heap[q].path = w.heap[q].path
                    /\ q # w.heap[o].factory => u.heap[q].opened = w.heap[q].opened
                    /\ \A p : p # w.heap[o].path =>
                         /\ p \in DOMAIN u.heap[q].opened <=> p \in DOMAIN w.heap[q].opened
                         /\ p \in DOMAIN u.heap[q].opened =>
                              u.heap[q].opened[p] = w.heap[q].opened[p]
               /\ w.heap[o].path # <<>> =>
                    w.heap[o].path \notin DOMAIN u.heap[w.heap[o].factory].opened
<1> DEFINE f == w.heap[o].factory
           opened == w.heap[f].opened
           now == [q \in DOMAIN opened \ {w.heap[o].path} |-> opened[q]]
           y == [w.heap[f] EXCEPT !.opened = now]
           u == Forgotten(w, o)
<1>1. CASE w.heap[o].path = <<>>
  <2>1. u = w
    BY <1>1 DEF Forgotten
  <2> QED
    BY <1>1, <2>1
<1>2. CASE w.heap[o].path # <<>>
  <2>1. f \in Alive(w) /\ IsObject(w.heap[f])
    BY <1>2 DEF Shape
  <2>2. /\ IsObject(y) /\ y.class = w.heap[f].class /\ y.refs = w.heap[f].refs
        /\ y.factory = w.heap[f].factory /\ y.left = w.heap[f].left /\ y.link = w.heap[f].link
        /\ y.path = w.heap[f].path /\ y.opened = now
    <3> HIDE DEF now, f
    <3> QED
      BY <2>1 DEF IsObject
  <2>3. u = [heap |-> [w.heap EXCEPT ![f] = y], libs |-> w.libs]
    <3>1. w = [heap |-> w.heap, libs |-> w.libs]
      BY DEF Shape
    <3>2. u = [w EXCEPT !.heap[f].opened = now]
      BY <1>2 DEF Forgotten
    <3> HIDE DEF now, f, u
    <3> QED
      BY <3>1, <3>2
  <2> HIDE DEF y, u
  <2>4. /\ u.heap = [q \in Alive(w) |-> IF q = f THEN y ELSE w.heap[q]]
        /\ u.libs = w.libs /\ u = [heap |-> u.heap, libs |-> u.libs]
    <3> HIDE DEF f
    <3>1. w.heap = [q \in Alive(w) |-> w.heap[q]]
      BY DEF Shape
    <3> QED
      BY <2>1, <2>3, <3>1
  <2>5. Alive(u) = Alive(w)
    BY <2>4 DEF Alive
  <2>6. Shape(u)
    <3>1. \A q \in Alive(w) : IsObject(u.heap[q])
      <4> HIDE DEF f, now
      <4> QED
        BY <2>2, <2>4 DEF Shape
    <3>2. u.heap = [q \in Alive(u) |-> u.heap[q]]
      BY <2>4, <2>5
    <3>3. Alive(u) \subseteq Object /\ u.libs \in [Library -> LibraryType]
      BY <2>4, <2>5 DEF Shape
    <3> QED
      BY <2>4, <2>5, <3>1, <3>2, <3>3 DEF Shape
  <2>7. \A q \in Alive(w) :
          /\ u.heap[q].class = w.heap[q].class /\ u.heap[q].refs = w.heap[q].refs
          /\ u.heap[q].factory = w.heap[q].factory /\ u.heap[q].left = w.heap[q].left
          /\ u.heap[q].link = w.heap[q].link /\ u.heap[q].path = w.heap[q].path
          /\ u.heap[q].opened = IF q = f THEN now ELSE w.heap[q].opened
    <3> HIDE DEF f, now
    <3> QED
      BY <2>2, <2>4
  <2>8. /\ DOMAIN now = DOMAIN w.heap[f].opened \ {w.heap[o].path}
        /\ \A p \in DOMAIN now : now[p] = w.heap[f].opened[p]
    OBVIOUS
  <2> HIDE DEF now
  <2>9. ASSUME NEW q \in Alive(w), NEW p, p # w.heap[o].path
        PROVE  /\ p \in DOMAIN u.heap[q].opened <=> p \in DOMAIN w.heap[q].opened
               /\ p \in DOMAIN u.heap[q].opened => u.heap[q].opened[p] = w.heap[q].opened[p]
    BY <2>7, <2>8, <2>9
  <2>10. w.heap[o].path \notin DOMAIN u.heap[f].opened
    BY <2>1, <2>7, <2>8
  <2> QED
    BY <2>4, <2>5, <2>6, <2>7, <2>9, <2>10 DEF u
<1> QED
  BY <1>1, <1>2

\* What o referred to still counts the references of o, as if they came from outside.
LEMMA DestructedKeeps ==
    ASSUME NEW w, NEW ext, Consistent(w, ext), NEW o \in Alive(w), w.heap[o].refs = 0, ext[o] >= 0
    PROVE  LET v == Destructed(Forgotten(w, o), o)
           IN  /\ Consistent(v, More(More(ext, w.heap[o].factory), w.heap[o].left))
               /\ Alive(v) = Alive(w) \ {o}
               /\ w.heap[o].factory \in Alive(v) \cup {Null} /\ w.heap[o].left \in Alive(v) \cup {Null}
               /\ ext[o] = 0
               /\ \A p \in Alive(v) : v.heap[p].left = w.heap[p].left /\ v.heap[p].link = w.heap[p].link
<1> DEFINE f == w.heap[o].factory
           x == w.heap[o].left
           c == w.heap[o].class
           l == LibraryOf(c)
           now == More(More(ext, f), x)
           u == Forgotten(w, o)
           v == Destructed(u, o)
<1>1. /\ Shape(w) /\ Counted(w, ext) /\ Cached(w) /\ Linked(w)
      /\ \A k \in Library : Served(w, k)
      /\ Null \notin Object /\ Alive(w) \subseteq Object /\ o \in Object
      /\ c \in Class /\ l \in Library
  BY NullAssumption, LibraryOfType DEF Consistent, Shape, IsObject
<1>2. ext[o] = 0 /\ MadeBy(w, o) = {} /\ RightOf(w, o) = {}
  <2>1. MadeBy(w, o) \subseteq Object /\ RightOf(w, o) \subseteq Object
    BY <1>1 DEF MadeBy, RightOf
  <2>2. /\ IsFiniteSet(MadeBy(w, o)) /\ Cardinality(MadeBy(w, o)) \in Nat
        /\ IsFiniteSet(RightOf(w, o)) /\ Cardinality(RightOf(w, o)) \in Nat
    BY <2>1, Finite
  <2>3. 0 = ext[o] + Cardinality(MadeBy(w, o)) + Cardinality(RightOf(w, o)) /\ ext[o] \in Int
    BY <1>1 DEF Counted
  <2>4. ext[o] = 0 /\ Cardinality(MadeBy(w, o)) = 0 /\ Cardinality(RightOf(w, o)) = 0
    BY <2>2, <2>3
  <2> QED
    BY <2>2, <2>4, FS_EmptySet
<1>3. \A p \in Alive(w) : w.heap[p].factory # o /\ w.heap[p].left # o
  BY <1>2 DEF MadeBy, RightOf
<1>4. /\ f \in (Alive(w) \ {o}) \cup {Null} /\ x \in (Alive(w) \ {o}) \cup {Null}
  BY <1>1, <1>3 DEF Counted
<1>5. /\ Shape(u) /\ Alive(u) = Alive(w) /\ u.libs = w.libs
      /\ \A q \in Alive(w) :
            /\ u.heap[q].class = w.heap[q].class /\ u.heap[q].refs = w.heap[q].refs
            /\ u.heap[q].factory = w.heap[q].factory /\ u.heap[q].left = w.heap[q].left
            /\ u.heap[q].link = w.heap[q].link /\ u.heap[q].path = w.heap[q].path
      /\ \A q \in Alive(w) : \A p : p # w.heap[o].path =>
            /\ p \in DOMAIN u.heap[q].opened <=> p \in DOMAIN w.heap[q].opened
            /\ p \in DOMAIN u.heap[q].opened => u.heap[q].opened[p] = w.heap[q].opened[p]
      /\ \A q \in Alive(w) : q # f => u.heap[q].opened = w.heap[q].opened
      /\ w.heap[o].path # <<>> => w.heap[o].path \notin DOMAIN u.heap[f].opened
  <2>1. w.heap[o].path # <<>> => w.heap[o].factory \in Alive(w)
    BY <1>1 DEF Cached
  <2> HIDE DEF u
  <2> QED
    BY <1>1, <2>1, ForgottenIs DEF u
<1> HIDE DEF u
<1>a. u.heap[o].class = c /\ Alive(u) = Alive(w) /\ u.libs = w.libs
  BY <1>5
<1> HIDE DEF c
<1>6. /\ v = [heap |-> v.heap, libs |-> v.libs]
      /\ v.heap = [p \in Alive(w) \ {o} |-> u.heap[p]]
  BY <1>a DEF Destructed
<1>b. v.libs = [w.libs EXCEPT ![l].objects = IF l = "io" THEN @ + 1 ELSE @ - 1,
                              ![l].instance = IF KindOf(c) = "factory" THEN Null ELSE @]
  BY <1>a DEF Destructed
<1> HIDE DEF v, l
<1>7. Alive(v) = Alive(w) \ {o}
  BY <1>6 DEF Alive
<1>8. \A q \in Alive(v) :
          /\ q \in Alive(w) /\ q # o /\ v.heap[q] = u.heap[q]
          /\ v.heap[q].class = w.heap[q].class /\ v.heap[q].refs = w.heap[q].refs
          /\ v.heap[q].factory = w.heap[q].factory /\ v.heap[q].left = w.heap[q].left
          /\ v.heap[q].link = w.heap[q].link /\ v.heap[q].path = w.heap[q].path
  <2>1. ASSUME NEW q \in Alive(v)
        PROVE  q \in Alive(w) /\ q # o /\ v.heap[q] = u.heap[q]
    BY <1>6, <1>7
  <2> QED
    BY <1>5, <2>1
<1>9. /\ v.libs \in [Library -> LibraryType]
      /\ \A k \in Library :
            /\ v.libs[k].loaded = w.libs[k].loaded
            /\ v.libs[k].objects = IF k # l THEN w.libs[k].objects
                                   ELSE IF l = "io" THEN w.libs[k].objects + 1
                                   ELSE w.libs[k].objects - 1
            /\ v.libs[k].instance =
                  IF k = l /\ KindOf(c) = "factory" THEN Null ELSE w.libs[k].instance
  <2>1. w.libs \in [Library -> LibraryType] /\ l \in Library
    BY <1>1 DEF Shape
  <2> QED
    BY <1>b, <2>1 DEF LibraryType
<1>10. Shape(v)
  <2>1. v.heap = [p \in Alive(v) |-> v.heap[p]]
    BY <1>6, <1>7
  <2>2. \A p \in Alive(v) : IsObject(v.heap[p])
    <3>1. \A p \in Alive(w) : IsObject(u.heap[p])
      BY <1>5 DEF Shape
    <3> QED
      BY <1>8, <3>1
  <2>3. Alive(v) \subseteq Object
    BY <1>1, <1>7
  <2>4. v.libs \in [Library -> LibraryType] /\ v = [heap |-> v.heap, libs |-> v.libs]
    BY <1>6, <1>9
  <2> QED
    BY <2>1, <2>2, <2>3, <2>4 DEF Shape
<1>11. Linked(v)
  BY <1>1, <1>8 DEF Linked

<1>12. Counted(v, now)
  <2>1. /\ now \in [Object -> Int]
        /\ \A p \in Object : now[p] = ext[p] + (IF p = f THEN 1 ELSE 0) + (IF p = x THEN 1 ELSE 0)
    <3>1. ext \in [Object -> Int] /\ f \in Object \cup {Null} /\ x \in Object \cup {Null}
      BY <1>1, <1>4 DEF Counted
    <3> HIDE DEF f, x
    <3>2. /\ More(ext, f) \in [Object -> Int]
          /\ \A p \in Object : More(ext, f)[p] = ext[p] + (IF p = f THEN 1 ELSE 0)
      BY <1>1, <3>1 DEF More
    <3>3. \A p \in Object : More(ext, f)[p] \in Int
      BY <3>2
    <3>4. /\ now \in [Object -> Int]
          /\ \A p \in Object : now[p] = More(ext, f)[p] + (IF p = x THEN 1 ELSE 0)
      BY <1>1, <3>1, <3>2, <3>3 DEF More
    <3> QED
      BY <3>2, <3>4
  <2> HIDE DEF now
  <2>2. \A p \in Object \ Alive(v) : now[p] = 0
    BY <1>1, <1>2, <1>4, <1>7, <2>1 DEF Counted
  <2>3. ASSUME NEW p \in Alive(v)
        PROVE  /\ MadeBy(w, p) = IF p = f THEN MadeBy(v, p) \cup {o} ELSE MadeBy(v, p)
               /\ RightOf(w, p) = IF p = x THEN RightOf(v, p) \cup {o} ELSE RightOf(v, p)
               /\ o \notin MadeBy(v, p) /\ o \notin RightOf(v, p)
               /\ MadeBy(v, p) \subseteq Object /\ RightOf(v, p) \subseteq Object
    BY <1>1, <1>7, <1>8 DEF MadeBy, RightOf
  <2>4. ASSUME NEW p \in Alive(v)
        PROVE  v.heap[p].refs = now[p] + Cardinality(MadeBy(v, p)) + Cardinality(RightOf(v, p))
    <3>1. /\ IsFiniteSet(MadeBy(v, p)) /\ Cardinality(MadeBy(v, p)) \in Nat
          /\ IsFiniteSet(RightOf(v, p)) /\ Cardinality(RightOf(v, p)) \in Nat
      BY <2>3, Finite
    <3>2. /\ Cardinality(MadeBy(v, p) \cup {o}) = Cardinality(MadeBy(v, p)) + 1
          /\ Cardinality(RightOf(v, p) \cup {o}) = Cardinality(RightOf(v, p)) + 1
      BY <2>3, <3>1, FS_AddElement
    <3>3. Cardinality(MadeBy(w, p)) = Cardinality(MadeBy(v, p)) + (IF p = f THEN 1 ELSE 0)
      <4>1. CASE p = f
        BY <2>3, <3>2, <4>1
      <4>2. CASE p # f
        <5>1. MadeBy(w, p) = MadeBy(v, p)
          BY <2>3, <4>2
        <5> QED
          BY <3>1, <4>2, <5>1
      <4> QED
        BY <4>1, <4>2
    <3>4. Cardinality(RightOf(w, p)) = Cardinality(RightOf(v, p)) + (IF p = x THEN 1 ELSE 0)
      <4>1. CASE p = x
        BY <2>3, <3>2, <4>1
      <4>2. CASE p # x
        <5>1. RightOf(w, p) = RightOf(v, p)
          BY <2>3, <4>2
        <5> QED
          BY <3>1, <4>2, <5>1
      <4> QED
        BY <4>1, <4>2
    <3>5. /\ v.heap[p].refs = ext[p] + Cardinality(MadeBy(w, p)) + Cardinality(RightOf(w, p))
          /\ ext[p] \in Int /\ p \in Object
      BY <1>1, <1>8 DEF Counted
    <3>6. now[p] = ext[p] + (IF p = f THEN 1 ELSE 0) + (IF p = x THEN 1 ELSE 0)
      BY <2>1, <3>5
    <3> QED
      BY <3>1, <3>3, <3>4, <3>5, <3>6
  <2>5. \A p \in Alive(v) : v.heap[p].factory \in Alive(v) \cup {Null}
                            /\ v.heap[p].left \in Alive(v) \cup {Null}
    BY <1>1, <1>3, <1>7, <1>8 DEF Counted
  <2> QED
    BY <2>1, <2>2, <2>4, <2>5 DEF Counted
<1>13. Cached(v)
  <2>1. ASSUME NEW g \in Alive(v), NEW p \in DOMAIN v.heap[g].opened
        PROVE  p \in DOMAIN w.heap[g].opened /\ v.heap[g].opened[p] = w.heap[g].opened[p]
               /\ w.heap[g].opened[p] # o
    <3>1. g \in Alive(w) /\ v.heap[g] = u.heap[g] /\ p \in DOMAIN u.heap[g].opened
      BY <1>8
    <3>2. CASE p # w.heap[o].path
      <4>1. p \in DOMAIN w.heap[g].opened /\ v.heap[g].opened[p] = w.heap[g].opened[p]
        BY <1>5, <3>1, <3>2
      <4>2. w.heap[w.heap[g].opened[p]].path = p
        BY <1>1, <3>1, <4>1 DEF Cached
      <4> QED
        BY <3>2, <4>1, <4>2
    <3>3. CASE p = w.heap[o].path /\ g # f
      <4>1. p \in DOMAIN w.heap[g].opened /\ v.heap[g].opened[p] = w.heap[g].opened[p]
        BY <1>5, <3>1, <3>3
      <4>2. w.heap[w.heap[g].opened[p]].factory = g
        BY <1>1, <3>1, <4>1 DEF Cached
      <4> QED
        BY <3>3, <4>1, <4>2
    <3>4. CASE p = w.heap[o].path /\ g = f
      <4>1. w.heap[o].path # <<>> => FALSE
        BY <1>5, <3>1, <3>4
      <4>2. CASE w.heap[o].path = <<>>
        <5>1. u = w
          BY <4>2 DEF Forgotten, u
        <5>2. p # <<>>
          BY <1>1, <3>1, <5>1 DEF Cached
        <5> QED
          BY <3>4, <4>2, <5>2
      <4> QED
        BY <4>1, <4>2
    <3> QED
      BY <3>2, <3>3, <3>4
  <2>2. ASSUME NEW g \in Alive(v), NEW p \in DOMAIN v.heap[g].opened
        PROVE  /\ p # <<>>
               /\ v.heap[g].opened[p] \in Alive(v)
               /\ v.heap[v.heap[g].opened[p]].path = p
               /\ v.heap[v.heap[g].opened[p]].factory = g
    <3>1. /\ p \in DOMAIN w.heap[g].opened /\ v.heap[g].opened[p] = w.heap[g].opened[p]
          /\ w.heap[g].opened[p] # o /\ g \in Alive(w)
      BY <1>8, <2>1
    <3>2. /\ p # <<>> /\ w.heap[g].opened[p] \in Alive(w)
          /\ w.heap[w.heap[g].opened[p]].path = p
          /\ w.heap[w.heap[g].opened[p]].factory = g
      BY <1>1, <3>1 DEF Cached
    <3> QED
      BY <1>7, <1>8, <3>1, <3>2
  <2>3. ASSUME NEW d \in Alive(v), v.heap[d].path # <<>>
        PROVE  /\ v.heap[d].class = "Document" /\ v.heap[d].factory \in Alive(v)
               /\ v.heap[d].path \in DOMAIN v.heap[v.heap[d].factory].opened
               /\ v.heap[v.heap[d].factory].opened[v.heap[d].path] = d
    <3>1. /\ d \in Alive(w) /\ d # o /\ v.heap[d].path = w.heap[d].path
          /\ v.heap[d].factory = w.heap[d].factory /\ v.heap[d].class = w.heap[d].class
      BY <1>8
    <3> DEFINE g == w.heap[d].factory
               p == w.heap[d].path
    <3>2. /\ w.heap[d].class = "Document" /\ g \in Alive(w)
          /\ p \in DOMAIN w.heap[g].opened /\ w.heap[g].opened[p] = d
      BY <1>1, <2>3, <3>1 DEF Cached
    <3>3. g \in Alive(v) /\ v.heap[g] = u.heap[g]
      BY <1>3, <1>7, <1>8, <3>1, <3>2
    <3>4. p \in DOMAIN u.heap[g].opened /\ u.heap[g].opened[p] = d
      <4>1. CASE p # w.heap[o].path
        BY <1>5, <3>2, <4>1
      <4>2. CASE p = w.heap[o].path
        <5>1. p # <<>> /\ w.heap[f].opened[p] = o
          BY <1>1, <2>3, <3>1, <4>2 DEF Cached
        <5>2. g # f
          BY <3>1, <3>2, <5>1
        <5> QED
          BY <1>5, <3>2, <5>2
      <4> QED
        BY <4>1, <4>2
    <3> QED
      BY <3>1, <3>2, <3>3, <3>4
  <2> QED
    BY <2>2, <2>3 DEF Cached
<1>14. ASSUME NEW k \in Library
       PROVE  Served(v, k)
  <2>1. Of(w, k) = IF k = l THEN Of(v, k) \cup {o} ELSE Of(v, k)
    <3>1. LibraryOf(w.heap[o].class) = l
      BY DEF l, c
    <3> QED
      BY <1>7, <1>8, <3>1 DEF Of
  <2>2. Of(v, k) \subseteq Object /\ o \notin Of(v, k) /\ Of(v, k) \subseteq Alive(v)
    BY <1>1, <1>7 DEF Of
  <2>3. IsFiniteSet(Of(v, k)) /\ Cardinality(Of(v, k)) \in Nat
    BY <2>2, Finite
  <2>4. Cardinality(Of(w, k)) = IF k = l THEN Cardinality(Of(v, k)) + 1 ELSE Cardinality(Of(v, k))
    <3>1. Cardinality(Of(v, k) \cup {o}) = Cardinality(Of(v, k)) + 1
      BY <2>2, <2>3, FS_AddElement
    <3> QED
      BY <2>1, <3>1
  <2>5. Served(w, k) /\ w.libs[k].objects \in Int
    BY <1>1 DEF Shape, LibraryType
  <2>6. IF k = "io" THEN v.libs[k].objects >= Cardinality(Of(v, k))
        ELSE v.libs[k].objects = Cardinality(Of(v, k))
    BY <1>9, <2>3, <2>4, <2>5 DEF Served
  <2>7. \A p \in Of(v, k) : v.libs[k].loaded
    BY <1>9, <2>1, <2>5 DEF Served
  <2>8. /\ w.libs[k].instance \in Alive(w) \cup {Null}
        /\ \A p \in Alive(w) : w.heap[p].class = FactoryOf(k) <=> p = w.libs[k].instance
        /\ \A p \in Of(w, k) :
              IF w.heap[p].class = FactoryOf(k) THEN w.heap[p].factory = Null
              ELSE w.heap[p].factory = w.libs[k].instance /\ w.libs[k].instance # Null
    BY <2>5 DEF Served
  <2>9. w.heap[o].class = FactoryOf(k) <=> KindOf(c) = "factory" /\ k = l
    BY <1>1, FactoryClass DEF c, l
  <2>10. CASE k = l /\ KindOf(c) = "factory"
    <3>1. o = w.libs[k].instance /\ v.libs[k].instance = Null
      BY <1>9, <2>8, <2>9, <2>10
    <3>2. \A p \in Alive(v) : v.heap[p].class # FactoryOf(k) /\ p # Null
      BY <1>1, <1>8, <2>8, <3>1
    <3>3. Of(v, k) = {}
      <4>1. \A p \in Of(v, k) : p \in Of(w, k) /\ p \in Alive(w)
        BY <1>8, <2>1, <2>2
      <4>2. \A p \in Of(v, k) : w.heap[p].factory = o
        BY <1>8, <2>2, <2>8, <3>1, <3>2, <4>1
      <4> QED
        BY <1>3, <4>1, <4>2
    <3> QED
      BY <2>6, <2>7, <3>1, <3>2, <3>3 DEF Served
  <2>11. CASE ~ (k = l /\ KindOf(c) = "factory")
    <3>1. v.libs[k].instance = w.libs[k].instance /\ o # w.libs[k].instance
      BY <1>1, <1>9, <2>8, <2>9, <2>11
    <3>2. v.libs[k].instance \in Alive(v) \cup {Null}
      BY <1>7, <2>8, <3>1
    <3>3. \A p \in Alive(v) : v.heap[p].class = FactoryOf(k) <=> p = v.libs[k].instance
      BY <1>8, <2>8, <3>1
    <3>4. \A p \in Of(v, k) :
              IF v.heap[p].class = FactoryOf(k) THEN v.heap[p].factory = Null
              ELSE v.heap[p].factory = v.libs[k].instance /\ v.libs[k].instance # Null
      BY <1>8, <2>1, <2>2, <2>8, <3>1
    <3> QED
      BY <2>6, <2>7, <3>2, <3>3, <3>4 DEF Served
  <2> QED
    BY <2>10, <2>11
<1>15. Consistent(v, now)
  BY <1>10, <1>11, <1>12, <1>13, <1>14 DEF Consistent
<1> QED
  BY <1>2, <1>4, <1>7, <1>8, <1>15 DEF v, u

\* The end of an object, and of its references.
LEMMA DeletedKeeps ==
    ASSUME NEW w, NEW ext, Consistent(w, ext), NEW o \in Alive(w), w.heap[o].refs = 0, ext[o] >= 0
    PROVE  LET v == Unref(Unref(Destructed(Forgotten(w, o), o), w.heap[o].factory), w.heap[o].left)
           IN  Consistent(v, ext) /\ Follows(w, v)
<1> DEFINE f == w.heap[o].factory
           x == w.heap[o].left
           v == Destructed(Forgotten(w, o), o)
           u == Unref(v, f)
<1>1. /\ Consistent(v, More(More(ext, f), x)) /\ f \in Alive(v) \cup {Null}
      /\ x \in Alive(v) \cup {Null} /\ Alive(v) \subseteq Object
      /\ Follows(w, v)
  BY DestructedKeeps DEF Consistent, Shape, Follows, KeepsLeft
<1> HIDE DEF v, f, x
<1>2. Consistent(u, Less(More(More(ext, f), x), f)) /\ Alive(u) = Alive(v) /\ SameButRefs(u, v)
  BY <1>1, UnrefOf DEF SameButRefs
<1> HIDE DEF u
<1>3. /\ Consistent(Unref(u, x), Less(Less(More(More(ext, f), x), f), x))
      /\ SameButRefs(Unref(u, x), u)
  BY <1>1, <1>2, UnrefOf
<1>5. Follows(w, Unref(u, x))
  BY <1>1, <1>2, <1>3, SameFollows
<1>4. Less(Less(More(More(ext, f), x), f), x) = ext
  <2>1. ext \in [Object -> Int] /\ f \in Object \cup {Null} /\ x \in Object \cup {Null}
        /\ Null \notin Object
    BY <1>1, NullAssumption DEF Consistent, Counted
  <2> DEFINE a == More(ext, f)
             b == More(a, x)
             d == Less(b, f)
             e == Less(d, x)
  <2>2. a \in [Object -> Int] /\ \A p \in Object : a[p] = ext[p] + (IF p = f THEN 1 ELSE 0)
    BY <2>1 DEF More
  <2> HIDE DEF a
  <2>3. b \in [Object -> Int] /\ \A p \in Object : b[p] = a[p] + (IF p = x THEN 1 ELSE 0)
    BY <2>1, <2>2 DEF More
  <2> HIDE DEF b
  <2>4. d \in [Object -> Int] /\ \A p \in Object : d[p] = b[p] - (IF p = f THEN 1 ELSE 0)
    BY <2>1, <2>3 DEF Less
  <2> HIDE DEF d
  <2>5. e \in [Object -> Int] /\ \A p \in Object : e[p] = d[p] - (IF p = x THEN 1 ELSE 0)
    BY <2>1, <2>4 DEF Less
  <2> HIDE DEF e
  <2>6. \A p \in Object : ext[p] \in Int
    BY <2>1
  <2>7. ASSUME NEW p \in Object
        PROVE  e[p] = ext[p]
    <3> DEFINE i == IF p = f THEN 1 ELSE 0
               j == IF p = x THEN 1 ELSE 0
    <3>1. i \in Int /\ j \in Int
      OBVIOUS
    <3>2. a[p] = ext[p] + i /\ b[p] = a[p] + j /\ d[p] = b[p] - i /\ e[p] = d[p] - j
      BY <2>2, <2>3, <2>4, <2>5
    <3> HIDE DEF i, j
    <3> QED
      BY <2>6, <3>1, <3>2
  <2>8. e = ext
    BY <2>1, <2>5, <2>7
  <2> QED
    BY <2>8 DEF a, b, d, e
<1> QED
  BY <1>3, <1>4, <1>5 DEF u, v, f, x

-----------------------------------------------------------------------------
(* Names.                                                                  *)

Smaller == {ij \in Nat \X Nat : ij[1] < ij[2]}

\* Of a set of numbers, one is the least.
LEMMA LeastNumber ==
    ASSUME NEW T \in SUBSET Nat, T # {}
    PROVE  \E i \in T : \A j \in T : i <= j
<1>1. IsWellFoundedOn(Smaller, Nat)
  BY NatLessThanWellFounded DEF OpToRel, Smaller
<1>2. PICK i \in T : \A j \in T : <<j, i>> \notin Smaller
  BY <1>1, WFMin
<1>3. ASSUME NEW j \in T
      PROVE  i <= j
  <2>1. <<j, i>> \in Nat \X Nat /\ <<j, i>>[1] = j /\ <<j, i>>[2] = i
    OBVIOUS
  <2>2. ~ j < i
    BY <1>2, <2>1 DEF Smaller
  <2> QED
    BY <2>2
<1> QED
  BY <1>3

\* What the scanner of parseName comes to from s, character by character up to n.
IsScan(scan, s, name, n) ==
    scan = [i \in 0 .. n |-> IF i = 0 THEN s ELSE Scanned(scan[i - 1], name[i])]

LEMMA ScanExists ==
    ASSUME NEW s, NEW name, NEW n \in Nat
    PROVE  \E scan : IsScan(scan, s, name, n)
<1> DEFINE T == {k \in Nat : ~ \E scan : IsScan(scan, s, name, k)}
<1> SUFFICES ASSUME T # {}
             PROVE  FALSE
  OBVIOUS
<1>1. PICK k \in T : \A j \in T : k <= j
  <2> HIDE DEF T
  <2>1. T \in SUBSET Nat
    BY DEF T
  <2> QED
    BY <2>1, LeastNumber
<1>2. k \in Nat /\ ~ \E scan : IsScan(scan, s, name, k)
  BY <1>1
<1>3. k # 0
  <2> DEFINE none == [i \in 0 .. 0 |-> s]
  <2>1. IsScan(none, s, name, 0)
    BY DEF IsScan
  <2> QED
    BY <1>2, <2>1
<1>4. k - 1 \in Nat /\ k - 1 \notin T
  BY <1>1, <1>2, <1>3
<1>5. PICK less : IsScan(less, s, name, k - 1)
  BY <1>4
<1> DEFINE end == Scanned(less[k - 1], name[k])
           more == [i \in 0 .. k |-> IF i = k THEN end ELSE less[i]]
<1>6. less = [i \in 0 .. k - 1 |-> IF i = 0 THEN s ELSE Scanned(less[i - 1], name[i])]
  BY <1>5 DEF IsScan
<1>7. \A i \in 0 .. k : more[i] = IF i = 0 THEN s ELSE Scanned(more[i - 1], name[i])
  <2> TAKE i \in 0 .. k
  <2>1. CASE i = k
    <3>1. more[i] = end /\ more[i - 1] = less[k - 1] /\ i # 0
      BY <1>2, <1>3, <2>1
    <3> HIDE DEF more
    <3> QED
      BY <2>1, <3>1
  <2>2. CASE i \in 1 .. k - 1
    <3>1. more[i] = less[i] /\ more[i - 1] = less[i - 1] /\ i # 0 /\ i \in 0 .. k - 1
      BY <1>2, <2>2
    <3>2. less[i] = Scanned(less[i - 1], name[i])
      BY <1>6, <3>1
    <3> HIDE DEF more, end
    <3> QED
      BY <3>1, <3>2
  <2>3. CASE i = 0
    <3>1. more[0] = less[0] /\ less[0] = s
      BY <1>2, <1>3, <1>4, <1>6
    <3> HIDE DEF more
    <3> QED
      BY <2>3, <3>1
  <2> QED
    BY <1>2, <2>1, <2>2, <2>3
<1>8. more = [i \in 0 .. k |-> more[i]]
  OBVIOUS
<1> HIDE DEF more
<1>9. IsScan(more, s, name, k)
  BY <1>7, <1>8 DEF IsScan
<1> QED
  BY <1>2, <1>9

\* Between links, and in the suffix of one.
Before(l) == [links |-> l, prefix |-> <<>>, suffix |-> <<>>, inSuffix |-> FALSE, escaped |-> FALSE]
Within(l, k) == [links |-> l, prefix |-> k.prefix, suffix |-> k.suffix,
                 inSuffix |-> TRUE, escaped |-> FALSE]

LEMMA LinksIs ==
    ASSUME NEW name, Len(name) \in Nat
    PROVE  \E scan : /\ IsScan(scan, Before(<<>>), name, Len(name))
                     /\ Links(name) = Emitted(scan[Len(name)])
<1> DEFINE scan == CHOOSE scan : IsScan(scan, Before(<<>>), name, Len(name))
<1>1. IsScan(scan, Before(<<>>), name, Len(name))
  BY ScanExists
<1>2. Links(name) = Emitted(scan[Len(name)])
  BY DEF Links, IsScan, Before
<1> QED
  BY <1>1, <1>2

LinksOf(T) == Seq([prefix : Seq(STRING), suffix : Seq(T)])
ReaderType(T) ==
    [links : LinksOf(T), prefix : Seq(STRING), suffix : Seq(T), inSuffix : BOOLEAN, escaped : BOOLEAN]

LEMMA EmittedType ==
    ASSUME NEW T, NEW s \in ReaderType(T)
    PROVE  Emitted(s) \in LinksOf(T)
<1> DEFINE L == [prefix : Seq(STRING), suffix : Seq(T)]
<1>1. Link(s.prefix, s.suffix) \in L /\ s.links \in Seq(L)
  BY DEF ReaderType, Link, LinksOf
<1>2. Append(s.links, Link(s.prefix, s.suffix)) \in Seq(L)
  <2> HIDE DEF L
  <2> QED
    BY <1>1
<1> QED
  BY <1>1, <1>2 DEF Emitted, LinksOf

LEMMA ScannedType ==
    ASSUME NEW T \in SUBSET STRING, Plain \subseteq T, NEW s \in ReaderType(T), NEW c \in STRING,
           s.escaped => c \in T
    PROVE  Scanned(s, c) \in ReaderType(T) /\ (Scanned(s, c).escaped => c = "\\")
<1>0. /\ s.links \in LinksOf(T) /\ s.prefix \in Seq(STRING) /\ s.suffix \in Seq(T)
      /\ s.inSuffix \in BOOLEAN /\ s.escaped \in BOOLEAN
      /\ <<>> \in Seq(STRING) /\ <<>> \in Seq(T) /\ <<c>> \in Seq(STRING)
  <2>1. /\ s.links \in LinksOf(T) /\ s.prefix \in Seq(STRING) /\ s.suffix \in Seq(T)
        /\ s.inSuffix \in BOOLEAN /\ s.escaped \in BOOLEAN
    BY DEF ReaderType
  <2>2. \A S : <<>> \in Seq(S)
    OBVIOUS
  <2>3. \A S, e : e \in S => <<e>> \in Seq(S)
    OBVIOUS
  <2> QED
    BY <2>1, <2>2, <2>3
<1>1. Emitted(s) \in LinksOf(T)
  BY EmittedType
<1>2. Append(s.prefix, c) \in Seq(STRING) /\ (c \in T => Append(s.suffix, c) \in Seq(T))
  <2>1. \A S, q, e : q \in Seq(S) /\ e \in S => Append(q, e) \in Seq(S)
    OBVIOUS
  <2> QED
    BY <1>0, <2>1
<1>3. c \in T => Added(s, c) \in ReaderType(T) /\ ~ Added(s, c).escaped
  BY <1>0, <1>2 DEF Added, ReaderType
<1>4. CASE s.escaped
  <2>1. Scanned(s, c) = Added(s, c)
    BY <1>4 DEF Scanned
  <2> QED
    BY <1>3, <1>4, <2>1
<1>5. CASE ~ s.escaped /\ c = "\\"
  BY <1>0, <1>5 DEF Scanned, ReaderType
<1>6. CASE ~ s.escaped /\ c = "#"
  BY <1>0, <1>1, <1>6 DEF Scanned, ReaderType
<1>7. CASE ~ s.escaped /\ c = "!"
  BY <1>0, <1>1, <1>7 DEF Scanned, ReaderType
<1>8. CASE ~ s.escaped /\ c = ":" /\ ~ s.inSuffix
  BY <1>0, <1>2, <1>8 DEF Scanned, ReaderType
<1>9. CASE ~ s.escaped /\ c \notin {"\\", "#", "!"} /\ ~ (c = ":" /\ ~ s.inSuffix)
  <2>1. c \in T
    BY <1>9 DEF Plain
  <2>2. Scanned(s, c) = Added(s, c)
    BY <1>9 DEF Scanned
  <2> QED
    BY <1>3, <2>1, <2>2
<1> QED
  BY <1>4, <1>5, <1>6, <1>7, <1>8, <1>9

\* What is read from a name, and what its suffixes are made of.
LEMMA LinksType ==
    ASSUME NEW name \in Seq(STRING), NEW T \in SUBSET STRING, Plain \subseteq T,
           T = STRING \/ \A i \in 1 .. Len(name) : name[i] # "\\"
    PROVE  Links(name) \in LinksOf(T)
<1> DEFINE n == Len(name)
<1>1. n \in Nat /\ \A i \in 1 .. n : name[i] \in STRING
  OBVIOUS
<1>2. PICK scan : IsScan(scan, Before(<<>>), name, n) /\ Links(name) = Emitted(scan[n])
  BY <1>1, LinksIs
<1> DEFINE P(i) == scan[i] \in ReaderType(T) /\ (scan[i].escaped => T = STRING)
<1>3. \A i \in 0 .. n : P(i)
  <2> DEFINE S == {i \in 0 .. n : ~ P(i)}
  <2> SUFFICES ASSUME S # {}
               PROVE  FALSE
    OBVIOUS
  <2>1. PICK i \in S : \A j \in S : i <= j
    <3>1. S \in SUBSET Nat
      BY <1>1
    <3> HIDE DEF S
    <3> QED
      BY <3>1, LeastNumber
  <2>2. i \in 0 .. n /\ ~ P(i)
    BY <2>1
  <2>3. scan[i] = IF i = 0 THEN Before(<<>>) ELSE Scanned(scan[i - 1], name[i])
    BY <1>2, <2>2 DEF IsScan
  <2>4. i # 0
    <3>1. Before(<<>>) \in ReaderType(T) /\ ~ Before(<<>>).escaped
      BY DEF Before, ReaderType, LinksOf
    <3> QED
      BY <2>2, <2>3, <3>1
  <2>5. i - 1 \in 0 .. n /\ i - 1 < i /\ i \in 1 .. n
    BY <1>1, <2>2, <2>4
  <2>6. P(i - 1)
    <3> HIDE DEF P
    <3>1. i - 1 \notin S
      <4>1. i \in Nat /\ i - 1 \in Nat /\ ~ (i <= i - 1)
        BY <1>1, <2>2, <2>5
      <4> HIDE DEF S
      <4> QED
        BY <2>1, <4>1
    <3> QED
      BY <2>5, <3>1 DEF S
  <2>7. scan[i - 1].escaped => name[i] \in T
    BY <1>1, <2>5, <2>6
  <2>8. Scanned(scan[i - 1], name[i]) \in ReaderType(T)
        /\ (Scanned(scan[i - 1], name[i]).escaped => name[i] = "\\")
    BY <1>1, <2>5, <2>6, <2>7, ScannedType
  <2>9. P(i)
    BY <2>3, <2>4, <2>5, <2>8
  <2> QED
    BY <2>2, <2>9
<1>4. scan[n] \in ReaderType(T)
  BY <1>1, <1>3
<1> QED
  BY <1>2, <1>4, EmittedType

LEMMA LinksAreLinks ==
    ASSUME NEW name \in Name
    PROVE  Links(name) \in Seq(LinkType)
<1>1. name \in Seq(STRING) /\ STRING \in SUBSET STRING /\ Plain \subseteq STRING
  BY NameAssumption DEF Plain
<1> QED
  BY <1>1, LinksType DEF LinksOf, LinkType

\* There is one outcome only.
LEMMA ScanIsOne ==
    ASSUME NEW s, NEW name, NEW n \in Nat, NEW f, NEW g,
           IsScan(f, s, name, n), IsScan(g, s, name, n)
    PROVE  f[n] = g[n]
<1> DEFINE S == {i \in 0 .. n : f[i] # g[i]}
<1> SUFFICES ASSUME S # {}
             PROVE  FALSE
  OBVIOUS
<1>1. PICK i \in S : \A j \in S : i <= j
  <2>1. S \in SUBSET Nat
    OBVIOUS
  <2> HIDE DEF S
  <2> QED
    BY <2>1, LeastNumber
<1>2. i \in 0 .. n /\ f[i] # g[i]
  BY <1>1
<1>3. /\ f[i] = IF i = 0 THEN s ELSE Scanned(f[i - 1], name[i])
      /\ g[i] = IF i = 0 THEN s ELSE Scanned(g[i - 1], name[i])
  BY <1>2 DEF IsScan
<1>4. i # 0
  BY <1>2, <1>3
<1>5. i - 1 \in 0 .. n /\ ~ (i <= i - 1)
  BY <1>2, <1>4
<1>6. i - 1 \notin S
  <2> HIDE DEF S
  <2> QED
    BY <1>1, <1>5
<1>7. f[i - 1] = g[i - 1]
  BY <1>5, <1>6
<1> QED
  BY <1>2, <1>3, <1>4, <1>7

\* The scanner that is in s comes to t by what it reads.
Reads(s, name, t) == \E scan : IsScan(scan, s, name, Len(name)) /\ scan[Len(name)] = t

LEMMA LinksRead ==
    ASSUME NEW name, Len(name) \in Nat, NEW t, Reads(Before(<<>>), name, t)
    PROVE  Links(name) = Emitted(t)
<1>1. PICK f : IsScan(f, Before(<<>>), name, Len(name)) /\ Links(name) = Emitted(f[Len(name)])
  BY LinksIs
<1>2. PICK g : IsScan(g, Before(<<>>), name, Len(name)) /\ g[Len(name)] = t
  BY DEF Reads
<1>3. f[Len(name)] = g[Len(name)]
  BY <1>1, <1>2, ScanIsOne
<1> QED
  BY <1>1, <1>2, <1>3

\* It reads one text after the other.
LEMMA ReadsOn ==
    ASSUME NEW T, NEW a \in Seq(T), NEW b \in Seq(T), NEW s, NEW t, NEW u,
           Reads(s, a, t), Reads(t, b, u)
    PROVE  Reads(s, a \o b, u)
<1>1. PICK f : IsScan(f, s, a, Len(a)) /\ f[Len(a)] = t
  BY DEF Reads
<1>2. PICK g : IsScan(g, t, b, Len(b)) /\ g[Len(b)] = u
  BY DEF Reads
<1> DEFINE m == Len(a)
           n == Len(b)
           h == [i \in 0 .. m + n |-> IF i <= m THEN f[i] ELSE g[i - m]]
<1>3. m \in Nat /\ n \in Nat /\ Len(a \o b) = m + n
  OBVIOUS
<1>4. /\ \A i \in 1 .. m : (a \o b)[i] = a[i]
      /\ \A i \in 1 .. n : (a \o b)[m + i] = b[i]
  OBVIOUS
<1>5. /\ \A i \in 0 .. m : f[i] = IF i = 0 THEN s ELSE Scanned(f[i - 1], a[i])
      /\ \A i \in 0 .. n : g[i] = IF i = 0 THEN t ELSE Scanned(g[i - 1], b[i])
  BY <1>1, <1>2 DEF IsScan
<1>6. \A i \in 0 .. m + n : h[i] = IF i = 0 THEN s ELSE Scanned(h[i - 1], (a \o b)[i])
  <2> TAKE i \in 0 .. m + n
  <2>1. CASE i = 0
    BY <1>3, <1>5, <2>1
  <2>2. CASE i \in 1 .. m
    <3>1. h[i] = f[i] /\ h[i - 1] = f[i - 1] /\ i # 0 /\ i \in 0 .. m
      BY <1>3, <2>2
    <3> HIDE DEF h
    <3> QED
      BY <1>4, <1>5, <2>2, <3>1
  <2>3. CASE i \in m + 1 .. m + n
    <3>1. h[i] = g[i - m] /\ i - m \in 1 .. n /\ i # 0 /\ i - m # 0 /\ i - m \in 0 .. n
          /\ i - 1 = m + (i - m) - 1 /\ m + (i - m) = i
      BY <1>3, <2>3
    <3>2. h[i - 1] = g[(i - m) - 1]
      <4>1. CASE i = m + 1
        <5>1. h[i - 1] = f[m] /\ (i - m) - 1 = 0
          BY <1>3, <4>1
        <5>2. g[0] = t /\ f[m] = t
          BY <1>1, <1>3, <1>5
        <5> HIDE DEF h
        <5> QED
          BY <5>1, <5>2
      <4>2. CASE i # m + 1
        <5>1. i - 1 \in 0 .. m + n /\ ~ (i - 1 <= m) /\ (i - 1) - m = (i - m) - 1
          BY <1>3, <2>3, <4>2
        <5> QED
          BY <5>1
      <4> QED
        BY <4>1, <4>2
    <3>3. g[i - m] = Scanned(g[(i - m) - 1], b[i - m]) /\ (a \o b)[i] = b[i - m]
      BY <1>4, <1>5, <3>1
    <3> HIDE DEF h
    <3> QED
      BY <3>1, <3>2, <3>3
  <2> QED
    BY <1>3, <2>1, <2>2, <2>3
<1>7. h[m + n] = u
  <2>1. CASE n = 0
    <3>1. h[m + n] = f[m] /\ g[0] = t
      BY <1>3, <1>5, <2>1
    <3> QED
      BY <1>1, <1>2, <2>1, <3>1
  <2>2. CASE n # 0
    <3>1. h[m + n] = g[n]
      BY <1>3, <2>2
    <3> QED
      BY <1>2, <3>1
  <2> QED
    BY <2>1, <2>2
<1>8. h = [i \in 0 .. m + n |-> h[i]]
  OBVIOUS
<1> HIDE DEF h
<1>9. IsScan(h, s, a \o b, Len(a \o b))
  BY <1>3, <1>6, <1>8 DEF IsScan
<1> QED
  BY <1>3, <1>7, <1>9 DEF Reads

\* It reads nothing, and one character.
LEMMA ReadsNothing ==
    ASSUME NEW s
    PROVE  Reads(s, <<>>, s)
<1> DEFINE f == [i \in 0 .. 0 |-> s]
<1>1. IsScan(f, s, <<>>, 0) /\ f[0] = s
  BY DEF IsScan
<1>2. Len(<<>>) = 0
  OBVIOUS
<1> QED
  BY <1>1, <1>2 DEF Reads

LEMMA ReadsOne ==
    ASSUME NEW s, NEW c
    PROVE  Reads(s, <<c>>, Scanned(s, c))
<1> DEFINE f == [i \in 0 .. 1 |-> IF i = 0 THEN s ELSE Scanned(s, c)]
<1>1. Len(<<c>>) = 1 /\ <<c>>[1] = c
  OBVIOUS
<1>2. \A i \in 0 .. 1 : f[i] = IF i = 0 THEN s ELSE Scanned(f[i - 1], <<c>>[i])
  <2> TAKE i \in 0 .. 1
  <2>1. CASE i = 0
    BY <2>1
  <2>2. CASE i = 1
    BY <1>1, <2>2
  <2> QED
    BY <2>1, <2>2
<1>3. f = [i \in 0 .. 1 |-> f[i]] /\ f[1] = Scanned(s, c)
  OBVIOUS
<1> HIDE DEF f
<1>4. IsScan(f, s, <<c>>, 1)
  BY <1>2, <1>3 DEF IsScan
<1> QED
  BY <1>1, <1>3, <1>4 DEF Reads

LEMMA Short ==
    ASSUME NEW T, NEW a \in T, NEW b \in T
    PROVE  /\ <<a>> \in Seq(T) /\ <<b>> \in Seq(T) /\ <<a, b>> \in Seq(T)
           /\ <<a>> # <<>> /\ <<a, b>> # <<>>
           /\ <<a>> \o <<b>> = <<a, b>>
           /\ Append(<<>>, a) = <<a>> /\ Append(<<a>>, b) = <<a, b>>
<1>1. <<a>> \in Seq(T) /\ <<b>> \in Seq(T) /\ <<a, b>> \in Seq(T)
  OBVIOUS
<1>2. <<a>> # <<>> /\ <<a, b>> # <<>>
  OBVIOUS
<1>3. Len(<<a, b>>) = 2 /\ <<a, b>>[1] = a /\ <<a, b>>[2] = b /\ Len(<<a>>) = 1 /\ <<a>>[1] = a
      /\ Len(<<b>>) = 1 /\ <<b>>[1] = b
  OBVIOUS
<1>4. Append(<<>>, a) = <<a>>
  OBVIOUS
<1>5. Append(<<a>>, b) = <<a, b>>
  <2>1. ASSUME NEW o \in Seq(T), NEW q \in Seq(T), Len(o) = 1, o[1] = a, Len(q) = 2, q[1] = a, q[2] = b
        PROVE  Append(o, b) = q
    <3>1. Append(o, b) \in Seq(T) /\ Len(Append(o, b)) = Len(o) + 1
      OBVIOUS
    <3>2. \A i \in 1 .. Len(o) : Append(o, b)[i] = o[i]
      OBVIOUS
    <3>3. Append(o, b)[Len(o) + 1] = b
      OBVIOUS
    <3>4. \A i \in 1 .. Len(Append(o, b)) : Append(o, b)[i] = q[i]
      BY <2>1, <3>1, <3>2, <3>3
    <3> QED
      BY <2>1, <3>1, <3>4, SeqEqual
  <2> QED
    BY <1>1, <1>3, <2>1
<1>6. <<a>> \o <<b>> = <<a, b>>
  BY <1>1, <1>5, AppendIsConcat
<1> QED
  BY <1>1, <1>2, <1>4, <1>5, <1>6

Prefixes == {<<"!">>, <<"cid", ":">>, <<"new", ":">>, <<"file", ":">>}
PlainLink == [prefix : Prefixes, suffix : Seq(Plain)]

LEMMA PlainLinkIs ==
    ASSUME NEW k \in PlainLink
    PROVE  k.prefix \in Prefixes /\ k.suffix \in Seq(Plain) /\ k = Link(k.prefix, k.suffix)
BY DEF PlainLink, Link

LEMMA PlainRead ==
    ASSUME NEW l, NEW p, NEW y, NEW c \in Plain
    PROVE  Scanned(Within(l, Link(p, y)), c) = Within(l, Link(p, Append(y, c)))
<1>1. c \notin {"\\", "#", "!"}
  BY DEF Plain
<1>2. Scanned(Within(l, Link(p, y)), c) = Added(Within(l, Link(p, y)), c)
  BY <1>1 DEF Scanned, Within
<1>3. Added(Within(l, Link(p, y)), c) = [Within(l, Link(p, y)) EXCEPT !.suffix = Append(y, c),
                                                                        !.escaped = FALSE]
  BY DEF Added, Within, Link
<1> QED
  BY <1>2, <1>3 DEF Within, Link

LEMMA SuffixRead ==
    ASSUME NEW l, NEW p, NEW x \in Seq(Plain)
    PROVE  Reads(Within(l, Link(p, <<>>)), x, Within(l, Link(p, x)))
<1> DEFINE n == Len(x)
           f == [i \in 0 .. n |-> Within(l, Link(p, SubSeq(x, 1, i)))]
<1>1. n \in Nat /\ \A i \in 1 .. n : x[i] \in Plain
  OBVIOUS
<1>2. SubSeq(x, 1, 0) = <<>> /\ SubSeq(x, 1, n) = x
  OBVIOUS
<1>3. \A i \in 1 .. n : SubSeq(x, 1, i) = Append(SubSeq(x, 1, i - 1), x[i])
  OBVIOUS
<1>4. \A i \in 0 .. n : f[i] = IF i = 0 THEN Within(l, Link(p, <<>>)) ELSE Scanned(f[i - 1], x[i])
  <2> TAKE i \in 0 .. n
  <2>1. CASE i = 0
    BY <1>2, <2>1
  <2>2. CASE i # 0
    <3>1. i \in 1 .. n /\ i - 1 \in 0 .. n
      BY <1>1, <2>2
    <3>2. Scanned(Within(l, Link(p, SubSeq(x, 1, i - 1))), x[i])
             = Within(l, Link(p, Append(SubSeq(x, 1, i - 1), x[i])))
      BY <1>1, <3>1, PlainRead
    <3> QED
      BY <1>3, <2>2, <3>1, <3>2
  <2> QED
    BY <2>1, <2>2
<1>5. f = [i \in 0 .. n |-> f[i]]
  OBVIOUS
<1>51. f[n] = Within(l, Link(p, x))
  <2>1. n \in 0 .. n
    BY <1>1
  <2> QED
    BY <1>2, <2>1
<1> HIDE DEF f
<1>6. IsScan(f, Within(l, Link(p, <<>>)), x, n)
  BY <1>4, <1>5 DEF IsScan
<1> QED
  BY <1>51, <1>6 DEF Reads

LEMMA PrefixRead ==
    ASSUME NEW l, NEW p \in Prefixes
    PROVE  Reads(Before(l), p, Within(l, Link(p, <<>>)))
<1>1. CASE p = <<"!">>
  <2>1. Scanned(Before(l), "!") = [Before(l) EXCEPT !.links = Emitted(Before(l)),
                                    !.prefix = <<"!">>, !.suffix = <<>>, !.inSuffix = TRUE]
    BY DEF Scanned, Before
  <2>2. Emitted(Before(l)) = l
    BY DEF Emitted, Before
  <2>3. Scanned(Before(l), "!") = Within(l, Link(p, <<>>))
    BY <1>1, <2>1, <2>2 DEF Before, Within, Link
  <2> QED
    BY <1>1, <2>3, ReadsOne
<1>2. ASSUME NEW w \in {"cid", "new", "file"}, p = <<w, ":">>
      PROVE  Reads(Before(l), p, Within(l, Link(p, <<>>)))
  <2> DEFINE s == [links |-> l, prefix |-> <<w>>, suffix |-> <<>>, inSuffix |-> FALSE, escaped |-> FALSE]
             T == {w, ":"}
  <2>0. w \in T /\ ":" \in T
    OBVIOUS
  <2>1. Scanned(Before(l), w) = s
    <3>1. w \notin {"\\", "#", "!", ":"}
      OBVIOUS
    <3>2. Scanned(Before(l), w) = Added(Before(l), w)
      BY <3>1 DEF Scanned, Before
    <3>3. Append(<<>>, w) = <<w>>
      BY <2>0, Short
    <3>4. Added(Before(l), w) = [links |-> l, prefix |-> Append(<<>>, w), suffix |-> <<>>,
                                 inSuffix |-> FALSE, escaped |-> FALSE]
      BY DEF Added, Before
    <3> QED
      BY <3>2, <3>3, <3>4
  <2>2. Scanned(s, ":") = Within(l, Link(p, <<>>))
    <3>1. Scanned(s, ":") = [s EXCEPT !.prefix = IF <<w>> = <<>> THEN <<w>> ELSE Append(<<w>>, ":"),
                                      !.inSuffix = TRUE]
      BY DEF Scanned
    <3>2. <<w>> # <<>> /\ Append(<<w>>, ":") = <<w, ":">>
      BY <2>0, Short
    <3> QED
      BY <1>2, <3>1, <3>2 DEF Within, Link
  <2>3. <<w>> \in Seq(T) /\ <<":">> \in Seq(T) /\ <<w>> \o <<":">> = p
    <3> HIDE DEF T
    <3> QED
      BY <1>2, <2>0, Short
  <2>4. Reads(Before(l), <<w>>, s) /\ Reads(s, <<":">>, Within(l, Link(p, <<>>)))
    <3>1. Reads(Before(l), <<w>>, Scanned(Before(l), w)) /\ Reads(s, <<":">>, Scanned(s, ":"))
      BY ReadsOne
    <3> HIDE DEF s
    <3> QED
      BY <2>1, <2>2, <3>1
  <2> HIDE DEF s, T
  <2>5. Reads(Before(l), <<w>> \o <<":">>, Within(l, Link(p, <<>>)))
    BY <2>3, <2>4, ReadsOn
  <2> QED
    BY <2>3, <2>5
<1> QED
  BY <1>1, <1>2 DEF Prefixes

Signs == Plain \cup {"!", "#", ":", "cid", "new", "file"}

LEMMA LinkSigns ==
    ASSUME NEW k \in PlainLink
    PROVE  /\ k.prefix \in Seq(Signs) /\ k.suffix \in Seq(Signs) /\ <<"#">> \in Seq(Signs)
           /\ k.prefix # <<>> /\ k.prefix # <<"!", ":">>
<1>1. k.prefix \in Prefixes /\ k.suffix \in Seq(Plain)
  BY PlainLinkIs
<1>2. {"!", "#", ":", "cid", "new", "file"} \subseteq Signs
  BY DEF Signs
<1>3. <<"!">> \in Seq(Signs) /\ <<"#">> \in Seq(Signs)
  BY <1>2, Short
<1>4. \A w \in {"cid", "new", "file"} : <<w, ":">> \in Seq(Signs)
  BY <1>2, Short
<1>5. k.prefix \in Seq(Signs)
  BY <1>1, <1>3, <1>4 DEF Prefixes
<1>6. k.suffix \in Seq(Signs)
  BY <1>1 DEF Signs
<1>7. k.prefix # <<>>
  <2>1. <<"!">> # <<>>
    OBVIOUS
  <2>2. \A w : <<w, ":">> # <<>>
    OBVIOUS
  <2> QED
    BY <1>1, <2>1, <2>2 DEF Prefixes
<1>8. k.prefix # <<"!", ":">>
  <2>1. CASE k.prefix = <<"!">>
    BY <2>1
  <2>2. CASE k.prefix \in {<<"cid", ":">>, <<"new", ":">>, <<"file", ":">>}
    <3>1. k.prefix[1] # "!" /\ <<"!", ":">>[1] = "!"
      BY <2>2
    <3> QED
      BY <3>1
  <2> QED
    BY <1>1, <2>1, <2>2 DEF Prefixes
<1> QED
  BY <1>3, <1>5, <1>6, <1>7, <1>8

LEMMA HashRead ==
    ASSUME NEW l, NEW k \in PlainLink
    PROVE  /\ Emitted(Within(l, k)) = Append(l, k)
           /\ Reads(Within(l, k), <<"#">>, Before(Append(l, k)))
<1>1. k.prefix \in Prefixes /\ k = Link(k.prefix, k.suffix)
  BY PlainLinkIs
<1>2. k.prefix # <<>>
  BY <1>1 DEF Prefixes
<1>3. Emitted(Within(l, k)) = Append(l, k)
  BY <1>1, <1>2 DEF Emitted, Within
<1>4. Scanned(Within(l, k), "#") = Before(Append(l, k))
  BY <1>3 DEF Scanned, Within, Before
<1> QED
  BY <1>3, <1>4, ReadsOne

\* What unparseName makes of one more link.
Unparsed(b, k) ==
    IF k.prefix = <<"!", ":">> THEN b \o <<"!">> \o k.suffix
    ELSE b \o (IF b = <<>> THEN <<>> ELSE <<"#">>) \o k.prefix \o k.suffix

IsUnparse(u, ch, n) == u = [i \in 0 .. n |-> IF i = 0 THEN <<>> ELSE Unparsed(u[i - 1], ch[i])]

LEMMA UnparseExists ==
    ASSUME NEW ch, NEW n \in Nat
    PROVE  \E u : IsUnparse(u, ch, n)
<1> DEFINE T == {k \in Nat : ~ \E u : IsUnparse(u, ch, k)}
<1> SUFFICES ASSUME T # {}
             PROVE  FALSE
  OBVIOUS
<1>1. PICK k \in T : \A j \in T : k <= j
  <2> HIDE DEF T
  <2>1. T \in SUBSET Nat
    BY DEF T
  <2> QED
    BY <2>1, LeastNumber
<1>2. k \in Nat /\ ~ \E u : IsUnparse(u, ch, k)
  BY <1>1
<1>3. k # 0
  <2> DEFINE none == [i \in 0 .. 0 |-> <<>>]
  <2>1. IsUnparse(none, ch, 0)
    BY DEF IsUnparse
  <2> QED
    BY <1>2, <2>1
<1>4. k - 1 \in Nat /\ k - 1 \notin T
  BY <1>1, <1>2, <1>3
<1>5. PICK less : IsUnparse(less, ch, k - 1)
  BY <1>4
<1> DEFINE end == Unparsed(less[k - 1], ch[k])
           more == [i \in 0 .. k |-> IF i = k THEN end ELSE less[i]]
<1>6. less = [i \in 0 .. k - 1 |-> IF i = 0 THEN <<>> ELSE Unparsed(less[i - 1], ch[i])]
  BY <1>5 DEF IsUnparse
<1>7. \A i \in 0 .. k : more[i] = IF i = 0 THEN <<>> ELSE Unparsed(more[i - 1], ch[i])
  <2> TAKE i \in 0 .. k
  <2>1. CASE i = k
    <3>1. more[i] = end /\ more[i - 1] = less[k - 1] /\ i # 0
      BY <1>2, <1>3, <2>1
    <3> HIDE DEF more
    <3> QED
      BY <2>1, <3>1
  <2>2. CASE i \in 1 .. k - 1
    <3>1. more[i] = less[i] /\ more[i - 1] = less[i - 1] /\ i # 0 /\ i \in 0 .. k - 1
      BY <1>2, <2>2
    <3>2. less[i] = Unparsed(less[i - 1], ch[i])
      BY <1>6, <3>1
    <3> HIDE DEF more, end
    <3> QED
      BY <3>1, <3>2
  <2>3. CASE i = 0
    <3>1. more[0] = less[0] /\ less[0] = <<>>
      BY <1>2, <1>3, <1>4, <1>6
    <3> HIDE DEF more
    <3> QED
      BY <2>3, <3>1
  <2> QED
    BY <1>2, <2>1, <2>2, <2>3
<1>8. more = [i \in 0 .. k |-> more[i]]
  OBVIOUS
<1> HIDE DEF more
<1>9. IsUnparse(more, ch, k)
  BY <1>7, <1>8 DEF IsUnparse
<1> QED
  BY <1>2, <1>9

LEMMA UnparseIs ==
    ASSUME NEW ch, Len(ch) \in Nat
    PROVE  \E u : IsUnparse(u, ch, Len(ch)) /\ unparseName(ch) = u[Len(ch)]
<1> DEFINE u == CHOOSE u : IsUnparse(u, ch, Len(ch))
<1>1. IsUnparse(u, ch, Len(ch))
  BY UnparseExists
<1>2. unparseName(ch) = u[Len(ch)]
  BY DEF unparseName, IsUnparse, Unparsed
<1> QED
  BY <1>1, <1>2

\* Of b, which is the name of the links l, and one more link.
LEMMA UnparsedRead ==
    ASSUME NEW b \in Seq(Signs), NEW k \in PlainLink, NEW l, NEW s,
           Reads(Before(<<>>), b, s),
           IF b = <<>> THEN s = Before(l) ELSE Reads(s, <<"#">>, Before(l))
    PROVE  /\ Unparsed(b, k) \in Seq(Signs) /\ Unparsed(b, k) # <<>>
           /\ Reads(Before(<<>>), Unparsed(b, k), Within(l, k))
<1> DEFINE p == k.prefix
           x == k.suffix
           h == IF b = <<>> THEN <<>> ELSE <<"#">>
<1>1. /\ p \in Seq(Signs) /\ x \in Seq(Signs) /\ <<"#">> \in Seq(Signs)
      /\ p # <<>> /\ p # <<"!", ":">>
  BY LinkSigns
<1>2. p \in Prefixes /\ x \in Seq(Plain) /\ k = Link(p, x)
  BY PlainLinkIs
<1>3. h \in Seq(Signs)
  <2>1. <<>> \in Seq(Signs)
    OBVIOUS
  <2> QED
    BY <1>1, <2>1
<1>4. Reads(s, h, Before(l))
  BY ReadsNothing
<1>5. Reads(Before(l), p, Within(l, Link(p, <<>>)))
  BY <1>2, PrefixRead
<1>6. Reads(Within(l, Link(p, <<>>)), x, Within(l, k))
  BY <1>2, SuffixRead
<1>7. Unparsed(b, k) = ((b \o h) \o p) \o x
  BY <1>1 DEF Unparsed
<1> HIDE DEF p, x, h
<1>8. b \o h \in Seq(Signs) /\ (b \o h) \o p \in Seq(Signs) /\ ((b \o h) \o p) \o x \in Seq(Signs)
  <2>1. \A S, f, g : f \in Seq(S) /\ g \in Seq(S) => f \o g \in Seq(S)
    OBVIOUS
  <2> QED
    BY <1>1, <1>3, <2>1
<1>9. Reads(Before(<<>>), b \o h, Before(l))
  BY <1>3, <1>4, ReadsOn
<1>10. Reads(Before(<<>>), (b \o h) \o p, Within(l, Link(p, <<>>)))
  BY <1>1, <1>5, <1>8, <1>9, ReadsOn
<1>11. Reads(Before(<<>>), ((b \o h) \o p) \o x, Within(l, k))
  BY <1>1, <1>6, <1>8, <1>10, ReadsOn
<1>12. ((b \o h) \o p) \o x # <<>>
  <2>1. \A S, f, g : f \in Seq(S) /\ g \in Seq(S) /\ g # <<>> => f \o g # <<>>
    BY ConcatEqualIffEmpty
  <2>2. \A S, f, g : f \in Seq(S) /\ g \in Seq(S) /\ f # <<>> => f \o g # <<>>
    BY ConcatEqualIffEmpty
  <2> QED
    BY <1>1, <1>8, <2>1, <2>2
<1> QED
  BY <1>7, <1>8, <1>11, <1>12

\* A name is read as the chain that it was made of.
LEMMA UnparsedIsRead ==
    ASSUME NEW ch \in Seq(PlainLink)
    PROVE  Links(unparseName(ch)) = ch
<1> DEFINE n == Len(ch)
<1>1. n \in Nat /\ \A i \in 1 .. n : ch[i] \in PlainLink
  OBVIOUS
<1>2. PICK u : IsUnparse(u, ch, n) /\ unparseName(ch) = u[n]
  BY <1>1, UnparseIs
<1> DEFINE At(i) == IF i = 0 THEN Before(<<>>) ELSE Within(SubSeq(ch, 1, i - 1), ch[i])
           P(i) == u[i] \in Seq(Signs) /\ (i = 0 <=> u[i] = <<>>) /\ Reads(Before(<<>>), u[i], At(i))
<1>3. \A i \in 1 .. n : SubSeq(ch, 1, i) = Append(SubSeq(ch, 1, i - 1), ch[i])
  OBVIOUS
<1>4. P(0)
  <2>1. u[0] = <<>> /\ <<>> \in Seq(Signs)
    BY <1>1, <1>2 DEF IsUnparse
  <2> QED
    BY <2>1, ReadsNothing
<1>5. ASSUME NEW i \in 1 .. n, P(i - 1)
      PROVE  P(i)
  <2>1. u[i] = Unparsed(u[i - 1], ch[i]) /\ ch[i] \in PlainLink
    BY <1>1, <1>2 DEF IsUnparse
  <2> DEFINE l == SubSeq(ch, 1, i - 1)
  <2>2. IF u[i - 1] = <<>> THEN At(i - 1) = Before(l) ELSE Reads(At(i - 1), <<"#">>, Before(l))
    <3>1. CASE i = 1
      <4>1. u[i - 1] = <<>> /\ l = <<>> /\ At(i - 1) = Before(<<>>)
        BY <1>5, <3>1
      <4> QED
        BY <4>1
    <3>2. CASE i # 1
      <4>1. i - 1 \in 1 .. n /\ i - 1 # 0 /\ u[i - 1] # <<>>
        BY <1>1, <1>5, <3>2
      <4>2. l = Append(SubSeq(ch, 1, (i - 1) - 1), ch[i - 1])
        BY <1>3, <4>1
      <4>3. ch[i - 1] \in PlainLink
        BY <1>1, <4>1
      <4>4. At(i - 1) = Within(SubSeq(ch, 1, (i - 1) - 1), ch[i - 1])
        BY <4>1
      <4> HIDE DEF At, l
      <4> QED
        BY <4>1, <4>2, <4>3, <4>4, HashRead
    <3> QED
      BY <3>1, <3>2
  <2>3. At(i) = Within(l, ch[i]) /\ i # 0
    OBVIOUS
  <2> HIDE DEF At, l
  <2>4. /\ Unparsed(u[i - 1], ch[i]) \in Seq(Signs) /\ Unparsed(u[i - 1], ch[i]) # <<>>
        /\ Reads(Before(<<>>), Unparsed(u[i - 1], ch[i]), Within(l, ch[i]))
    BY <1>5, <2>1, <2>2, UnparsedRead
  <2> QED
    BY <2>1, <2>3, <2>4
<1>6. P(n)
  <2> HIDE DEF P
  <2> DEFINE S == {i \in 0 .. n : ~ P(i)}
  <2> SUFFICES ASSUME S # {}
               PROVE  FALSE
    BY <1>1
  <2>1. PICK i \in S : \A j \in S : i <= j
    <3>1. S \in SUBSET Nat
      BY <1>1
    <3> HIDE DEF S
    <3> QED
      BY <3>1, LeastNumber
  <2>2. i \in 1 .. n /\ ~ P(i)
    BY <1>1, <1>4, <2>1
  <2>3. i - 1 \in 0 .. n /\ ~ (i <= i - 1)
    BY <1>1, <2>2
  <2>4. i - 1 \notin S
    <3> HIDE DEF S
    <3> QED
      BY <2>1, <2>3
  <2>5. P(i - 1)
    BY <2>3, <2>4
  <2> QED
    BY <1>5, <2>2, <2>5
<1>7. Links(u[n]) = Emitted(At(n))
  <2>1. u[n] \in Seq(Signs) /\ Reads(Before(<<>>), u[n], At(n))
    BY <1>6
  <2>2. Len(u[n]) \in Nat
    BY <2>1
  <2> HIDE DEF At
  <2> QED
    BY <2>1, <2>2, LinksRead
<1>8. Emitted(At(n)) = ch
  <2>1. CASE n = 0
    <3>1. At(n) = Before(<<>>) /\ ch = <<>>
      BY <1>1, <2>1
    <3>2. Emitted(Before(<<>>)) = <<>>
      BY DEF Emitted, Before
    <3> QED
      BY <3>1, <3>2
  <2>2. CASE n # 0
    <3>1. n \in 1 .. n /\ At(n) = Within(SubSeq(ch, 1, n - 1), ch[n]) /\ SubSeq(ch, 1, n) = ch
      BY <1>1, <2>2
    <3>2. Emitted(Within(SubSeq(ch, 1, n - 1), ch[n])) = Append(SubSeq(ch, 1, n - 1), ch[n])
      BY <1>1, <3>1, HashRead
    <3> HIDE DEF At
    <3> QED
      BY <1>3, <3>1, <3>2
  <2> QED
    BY <2>1, <2>2
<1> QED
  BY <1>2, <1>7, <1>8

-----------------------------------------------------------------------------
\* What is on the left leads to an end: no set of objects has the left of each.
Founded(h) == \A S \in SUBSET DOMAIN h : S # {} => \E o \in S : h[o].left \notin S

\* The objects of A have theirs on the left in it, if they are not the first of a chain.
LeftIn(A, h) == A \subseteq DOMAIN h \cup {Null} /\ \A o \in A \ {Null} : h[o].left \in A

IsChain(f, A, h) ==
    f = [o \in A |-> IF o = Null THEN <<>> ELSE Append(f[h[o].left], h[o].link)]

LEMMA ChainIsOne ==
    ASSUME NEW h, Null \notin DOMAIN h, Founded(h),
           NEW A, LeftIn(A, h), NEW f, IsChain(f, A, h),
           NEW B, LeftIn(B, h), NEW g, IsChain(g, B, h)
    PROVE  \A o \in A \cap B : f[o] = g[o]
<1> DEFINE S == {o \in A \cap B : f[o] # g[o]}
<1> SUFFICES ASSUME S # {}
             PROVE  FALSE
  OBVIOUS
<1>1. /\ \A o \in A : f[o] = IF o = Null THEN <<>> ELSE Append(f[h[o].left], h[o].link)
      /\ \A o \in B : g[o] = IF o = Null THEN <<>> ELSE Append(g[h[o].left], h[o].link)
  BY DEF IsChain
<1>2. Null \notin S
  BY <1>1
<1>3. S \subseteq DOMAIN h
  BY <1>2 DEF LeftIn
<1>4. PICK o \in S : h[o].left \notin S
  <2> HIDE DEF S
  <2> QED
    BY <1>3 DEF Founded
<1>5. o \in A /\ o \in B /\ o # Null /\ f[o] # g[o]
  BY <1>2, <1>4
<1>6. h[o].left \in A /\ h[o].left \in B
  BY <1>5 DEF LeftIn
<1>7. f[h[o].left] = g[h[o].left]
  BY <1>4, <1>6
<1> QED
  BY <1>1, <1>5, <1>7

LEMMA ChainExists ==
    ASSUME NEW h, Null \notin DOMAIN h, Founded(h), LeftIn(DOMAIN h \cup {Null}, h)
    PROVE  \E f : IsChain(f, DOMAIN h \cup {Null}, h)
<1> DEFINE D == DOMAIN h
           Has(o) == \E A, f : LeftIn(A, h) /\ IsChain(f, A, h) /\ o \in A
           T == {o \in D : ~ Has(o)}
<1>1. Has(Null)
  <2> DEFINE A == {Null}
             f == [o \in A |-> <<>>]
  <2>1. LeftIn(A, h)
    BY DEF LeftIn
  <2>2. IsChain(f, A, h)
    BY DEF IsChain
  <2>3. Null \in A
    OBVIOUS
  <2> HIDE DEF A, f
  <2> QED
    BY <2>1, <2>2, <2>3
<1>2. T = {}
  <2> SUFFICES ASSUME T # {}
               PROVE  FALSE
    OBVIOUS
  <2>1. PICK o \in T : h[o].left \notin T
    <3>1. T \in SUBSET DOMAIN h
      OBVIOUS
    <3> HIDE DEF T
    <3> QED
      BY <3>1 DEF Founded
  <2>2. o \in D /\ ~ Has(o) /\ o # Null
    BY <2>1
  <2> DEFINE l == h[o].left
  <2>3. l \in D \cup {Null}
    BY <2>2 DEF LeftIn
  <2>4. Has(l)
    <3> HIDE DEF Has, l
    <3> QED
      BY <1>1, <2>1, <2>3 DEF l
  <2> HIDE DEF l
  <2>5. PICK A, f : LeftIn(A, h) /\ IsChain(f, A, h) /\ l \in A
    BY <2>4
  <2>6. o \notin A
    BY <2>2, <2>5
  <2> DEFINE B == A \cup {o}
             g == [x \in B |-> IF x = o THEN Append(f[l], h[o].link) ELSE f[x]]
  <2>7. LeftIn(B, h)
    BY <2>2, <2>5 DEF LeftIn, l
  <2>8. IsChain(g, B, h)
    <3>1. \A x \in A : f[x] = IF x = Null THEN <<>> ELSE Append(f[h[x].left], h[x].link)
      BY <2>5 DEF IsChain
    <3>2. \A x \in B : g[x] = IF x = Null THEN <<>> ELSE Append(g[h[x].left], h[x].link)
      <4> TAKE x \in B
      <4>1. CASE x = o
        <5>1. g[x] = Append(f[l], h[o].link) /\ g[l] = f[l] /\ h[x].left = l
          BY <2>5, <2>6, <4>1 DEF l
        <5> HIDE DEF g
        <5> QED
          BY <2>2, <4>1, <5>1
      <4>2. CASE x # o /\ x = Null
        BY <2>5, <3>1, <4>2
      <4>3. CASE x # o /\ x # Null
        <5>1. x \in A /\ h[x].left \in A /\ h[x].left # o
          BY <2>5, <2>6, <4>3 DEF LeftIn
        <5>2. g[x] = f[x] /\ g[h[x].left] = f[h[x].left]
          BY <4>3, <5>1
        <5> HIDE DEF g
        <5> QED
          BY <3>1, <4>3, <5>1, <5>2
      <4> QED
        BY <4>1, <4>2, <4>3
    <3>3. g = [x \in B |-> g[x]]
      OBVIOUS
    <3> HIDE DEF g, B
    <3> QED
      BY <3>2, <3>3 DEF IsChain
  <2>9. o \in B
    OBVIOUS
  <2> HIDE DEF B, g
  <2> QED
    BY <2>2, <2>7, <2>8, <2>9
<1>3. \A o \in D \cup {Null} : Has(o)
  <2> HIDE DEF Has
  <2> QED
    BY <1>1, <1>2
<1> DEFINE Value(v, o) == \E A, f : LeftIn(A, h) /\ IsChain(f, A, h) /\ o \in A /\ v = f[o]
           F == [o \in D \cup {Null} |-> CHOOSE v : Value(v, o)]
<1>4. ASSUME NEW A, NEW f, LeftIn(A, h), IsChain(f, A, h), NEW o \in A
      PROVE  F[o] = f[o]
  <2>1. Value(f[o], o)
    BY <1>4
  <2>2. o \in D \cup {Null}
    BY <1>4 DEF LeftIn
  <2>3. Value(F[o], o)
    <3> HIDE DEF Value
    <3> QED
      BY <2>1, <2>2
  <2> HIDE DEF F
  <2>4. PICK B, g : LeftIn(B, h) /\ IsChain(g, B, h) /\ o \in B /\ F[o] = g[o]
    BY <2>3
  <2>5. o \in A \cap B
    BY <2>4
  <2>6. \A x \in A \cap B : f[x] = g[x]
    BY <1>4, <2>4, ChainIsOne
  <2> QED
    BY <2>4, <2>5, <2>6
<1>5. ASSUME NEW o \in D \cup {Null}
      PROVE  F[o] = IF o = Null THEN <<>> ELSE Append(F[h[o].left], h[o].link)
  <2>1. PICK A, f : LeftIn(A, h) /\ IsChain(f, A, h) /\ o \in A
    BY <1>3, <1>5
  <2>2. f[o] = IF o = Null THEN <<>> ELSE Append(f[h[o].left], h[o].link)
    BY <2>1 DEF IsChain
  <2> HIDE DEF F
  <2>3. F[o] = f[o]
    BY <1>4, <2>1
  <2>4. CASE o # Null
    <3>1. h[o].left \in A
      BY <2>1, <2>4 DEF LeftIn
    <3>2. F[h[o].left] = f[h[o].left]
      BY <1>4, <2>1, <3>1
    <3> QED
      BY <2>2, <2>3, <2>4, <3>2
  <2> QED
    BY <2>2, <2>3, <2>4
<1>6. F = [o \in D \cup {Null} |-> F[o]]
  OBVIOUS
<1> HIDE DEF F
<1>7. IsChain(F, D \cup {Null}, h)
  BY <1>5, <1>6 DEF IsChain
<1> QED
  BY <1>7

\* The links of a chain are those of the objects in it.
LEMMA ChainIsPlain ==
    ASSUME Null \notin DOMAIN heap, Founded(heap), LeftIn(DOMAIN heap \cup {Null}, heap),
           \A o \in DOMAIN heap : heap[o].left # Null => heap[heap[o].left].link \in PlainLink,
           NEW m \in DOMAIN heap, heap[m].link \in PlainLink
    PROVE  ChainOf(m) \in Seq(PlainLink)
<1> DEFINE D == DOMAIN heap
           c == CHOOSE c : IsChain(c, D \cup {Null}, heap)
<1>1. IsChain(c, D \cup {Null}, heap)
  BY ChainExists
<1>2. ChainOf(m) = c[m]
  BY DEF ChainOf, IsChain
<1> HIDE DEF c
<1>3. \A o \in D \cup {Null} : c[o] = IF o = Null THEN <<>> ELSE Append(c[heap[o].left], heap[o].link)
  BY <1>1 DEF IsChain
<1> DEFINE S == {o \in D : heap[o].link \in PlainLink /\ c[o] \notin Seq(PlainLink)}
<1>4. S = {}
  <2> SUFFICES ASSUME S # {}
               PROVE  FALSE
    OBVIOUS
  <2>1. PICK o \in S : heap[o].left \notin S
    <3>1. S \in SUBSET DOMAIN heap
      OBVIOUS
    <3> HIDE DEF S
    <3> QED
      BY <3>1 DEF Founded
  <2>2. o \in D /\ heap[o].link \in PlainLink /\ c[o] \notin Seq(PlainLink) /\ o # Null
    BY <2>1
  <2>3. heap[o].left \in D \cup {Null}
    BY <2>2 DEF LeftIn
  <2>4. c[heap[o].left] \in Seq(PlainLink)
    <3>1. CASE heap[o].left = Null
      <4>1. c[Null] = <<>> /\ <<>> \in Seq(PlainLink)
        BY <1>3
      <4> QED
        BY <3>1, <4>1
    <3>2. CASE heap[o].left # Null
      BY <2>1, <2>2, <2>3, <3>2
    <3> QED
      BY <3>1, <3>2
  <2>5. c[o] = Append(c[heap[o].left], heap[o].link)
    BY <1>3, <2>2
  <2>6. \A q, e : q \in Seq(PlainLink) /\ e \in PlainLink => Append(q, e) \in Seq(PlainLink)
    OBVIOUS
  <2> QED
    BY <2>2, <2>4, <2>5, <2>6
<1> QED
  BY <1>2, <1>4

-----------------------------------------------------------------------------
(* The steps of the program.                                               *)

\* The references from outside: of the program, and of the call under way.
Outside == [o \in Object |-> held[o] + (IF last = o THEN 1 ELSE 0)]

Between ==
    /\ held \in [Object -> Nat] /\ last \in Object \cup {Null}
    /\ links \in Seq(LinkType) /\ wanted \in Kind \cup {NoKind}
    /\ wanted = NoKind => last = Null

IInv == Consistent(World, Outside) /\ Between

LEMMA OutsideIs ==
    ASSUME IInv
    PROVE  /\ World.heap = heap /\ World.libs = libs /\ Alive(World) = DOMAIN heap
           /\ Outside \in [Object -> Int] /\ Null \notin Object /\ DOMAIN heap \subseteq Object
           /\ last \in Alive(World) \cup {Null}
           /\ \A o \in Object : held[o] > 0 => o \in Alive(World)
           /\ \A o \in Object : Outside[o] >= 0
<1>1. World.heap = heap /\ World.libs = libs
  BY DEF World
<1>2. Alive(World) = DOMAIN heap
  BY <1>1 DEF Alive
<1> HIDE DEF World
<1>3. /\ held \in [Object -> Nat] /\ last \in Object \cup {Null}
      /\ Null \notin Object /\ Alive(World) \subseteq Object
      /\ Outside \in [Object -> Int]
      /\ \A o \in Object \ Alive(World) : Outside[o] = 0
  BY NullAssumption DEF IInv, Between, Consistent, Shape, Counted
<1>4. \A o \in Object : Outside[o] = held[o] + (IF last = o THEN 1 ELSE 0)
  BY DEF Outside
<1>5. \A o \in Object : held[o] \in Nat
  BY <1>3
<1>6. \A o \in Object : held[o] > 0 \/ last = o => Outside[o] # 0
  BY <1>4, <1>5
<1> QED
  BY <1>1, <1>2, <1>3, <1>4, <1>5, <1>6

LEMMA BecomesKeeps ==
    ASSUME NEW v, NEW now, Consistent(v, now), Becomes(v), Outside' = now, Between'
    PROVE  IInv' /\ World' = v
<1>1. v = [heap |-> v.heap, libs |-> v.libs]
  BY DEF Consistent, Shape
<1>2. World' = v
  BY <1>1 DEF World, Becomes
<1> QED
  BY <1>2 DEF IInv

LEMMA SpaceIs ==
    ASSUME IInv, NEW n \in Nat, Room(n)
    PROVE  Space(World, n)
BY OutsideIs DEF Room, Space

\* What a call returns is held by the program.
LEMMA KeepsOutside ==
    ASSUME Between, NEW o \in Object \cup {Null}, Keeps(o), last' = last
    PROVE  held' \in [Object -> Nat] /\ Outside' = More(Outside, o)
<1>1. held \in [Object -> Nat] /\ Null \notin Object
  BY NullAssumption DEF Between
<1>2. CASE o = Null
  BY <1>1, <1>2 DEF Keeps, More, Outside
<1>3. CASE o # Null
  <2>1. held' = [held EXCEPT ![o] = @ + 1] /\ o \in Object
    BY <1>3 DEF Keeps
  <2>2. held' \in [Object -> Nat] /\ \A p \in Object : held'[p] = held[p] + (IF p = o THEN 1 ELSE 0)
    BY <1>1, <2>1
  <2>3. Outside' = [p \in Object |-> held'[p] + (IF last = p THEN 1 ELSE 0)]
    BY DEF Outside
  <2>4. More(Outside, o) = [p \in Object |-> Outside[p] + (IF p = o THEN 1 ELSE 0)]
    <3>1. \A p \in Object : Outside[p] \in Int
      BY <1>1 DEF Outside
    <3>2. Outside = [p \in Object |-> Outside[p]]
      BY DEF Outside
    <3>3. More(Outside, o) = [Outside EXCEPT ![o] = @ + 1]
      BY <1>3 DEF More
    <3> HIDE DEF Outside
    <3> QED
      BY <2>1, <3>1, <3>2, <3>3
  <2>5. \A p \in Object : held[p] \in Nat /\ Outside[p] = held[p] + (IF last = p THEN 1 ELSE 0)
    BY <1>1 DEF Outside
  <2>6. \A p \in Object : held'[p] + (IF last = p THEN 1 ELSE 0) = Outside[p] + (IF p = o THEN 1 ELSE 0)
    BY <2>2, <2>5
  <2> QED
    BY <2>2, <2>3, <2>4, <2>6
<1> QED
  BY <1>2, <1>3

LEMMA createFromCIDKeeps ==
    ASSUME IInv, NEW c \in Class, createFromCID(c)
    PROVE  IInv' /\ Follows(World, World')
<1> DEFINE w == Created(World, c)
           o == CreatedObject(World, c)
<1>1. Consistent(World, Outside) /\ Between
  BY DEF IInv
<1>2. Space(World, 2)
  BY SpaceIs DEF createFromCID, Begins
<1>3. Consistent(w, Outside) /\ Grows(World, w) /\ o \in Alive(w)
  BY <1>1, <1>2, CreatedKeeps
<1>4. Becomes(Ref(w, o)) /\ Keeps(o) /\ UNCHANGED <<links, last, wanted>>
  BY DEF createFromCID
<1> HIDE DEF w, o
<1>5. Consistent(Ref(w, o), More(Outside, o)) /\ SameButRefs(Ref(w, o), w)
  BY <1>3, RefOf
<1>6. o \in Object
  BY <1>3 DEF Consistent, Shape
<1>7. held' \in [Object -> Nat] /\ Outside' = More(Outside, o)
  BY <1>1, <1>4, <1>6, KeepsOutside
<1>8. Between'
  BY <1>1, <1>4, <1>7 DEF Between
<1>9. Follows(World, Ref(w, o))
  BY <1>3, <1>5, GrowsFollows, SameFollows
<1> QED
  BY <1>4, <1>5, <1>7, <1>8, <1>9, BecomesKeeps

LEMMA FactoryCreatesKeeps ==
    ASSUME IInv, NEW f \in Object, NEW c \in Class, FactoryCreates(f, c)
    PROVE  IInv' /\ Follows(World, World')
<1> DEFINE w == New(World, c, f)
           o == Fresh(World)
           l == LibraryOf(c)
<1>1. Consistent(World, Outside) /\ Between
  BY DEF IInv
<1>2. Space(World, 0 + 1)
  BY SpaceIs DEF FactoryCreates, Begins
<1>3. /\ f \in Alive(World) /\ World.heap[f].class = FactoryOf(l) /\ KindOf(c) # "factory"
      /\ l \in Library /\ f # Null
  BY OutsideIs, LibraryOfType DEF FactoryCreates
<1>4. World.libs[l].loaded /\ World.libs[l].instance = f
  <2>1. LibraryOf(FactoryOf(l)) = l
    BY <1>3, FactoryOfIs
  <2>2. f \in Of(World, l)
    BY <1>3, <2>1 DEF Of
  <2> QED
    BY <1>1, <1>3, <2>2 DEF Consistent, Served
<1>5. Consistent(w, Outside) /\ Grows(World, w) /\ o \in Alive(w)
  BY <1>1, <1>2, <1>3, <1>4, 0 \in Nat, NewKeeps
<1>6. Becomes(Ref(w, o)) /\ Keeps(o) /\ UNCHANGED <<links, last, wanted>>
  BY DEF FactoryCreates
<1> HIDE DEF w, o
<1>7. Consistent(Ref(w, o), More(Outside, o)) /\ SameButRefs(Ref(w, o), w)
  BY <1>5, RefOf
<1>8. o \in Object
  BY <1>5 DEF Consistent, Shape
<1>9. held' \in [Object -> Nat] /\ Outside' = More(Outside, o)
  BY <1>1, <1>6, <1>8, KeepsOutside
<1>10. Between'
  BY <1>1, <1>6, <1>9 DEF Between
<1>11. Follows(World, Ref(w, o))
  BY <1>5, <1>7, GrowsFollows, SameFollows
<1> QED
  BY <1>6, <1>7, <1>9, <1>10, <1>11, BecomesKeeps

LEMMA ReleaseKeeps ==
    ASSUME IInv, NEW o \in Object, Release(o)
    PROVE  IInv' /\ Follows(World, World')
<1>1. Consistent(World, Outside) /\ Between /\ o \in Alive(World)
  BY OutsideIs DEF IInv, Release
<1>2. /\ Becomes(Unref(World, o)) /\ held' = [held EXCEPT ![o] = @ - 1] /\ held[o] > 0
      /\ UNCHANGED <<links, last, wanted>>
  BY DEF Release
<1>3. Consistent(Unref(World, o), Less(Outside, o)) /\ SameButRefs(Unref(World, o), World)
  BY <1>1, UnrefOf
<1>4. held \in [Object -> Nat] /\ o # Null
  BY <1>1, NullAssumption DEF Between
<1>5. /\ held' \in [Object -> Nat]
      /\ \A p \in Object : held'[p] = held[p] - (IF p = o THEN 1 ELSE 0)
  BY <1>2, <1>4
<1>6. Outside' = Less(Outside, o)
  <2>1. Outside' = [p \in Object |-> held'[p] + (IF last = p THEN 1 ELSE 0)]
    BY <1>2 DEF Outside
  <2>2. \A p \in Object : held[p] \in Nat /\ Outside[p] = held[p] + (IF last = p THEN 1 ELSE 0)
    BY <1>4 DEF Outside
  <2>3. Outside = [p \in Object |-> Outside[p]]
    BY DEF Outside
  <2>4. Less(Outside, o) = [Outside EXCEPT ![o] = @ - 1]
    BY <1>4 DEF Less
  <2>5. Less(Outside, o) = [p \in Object |-> Outside[p] - (IF p = o THEN 1 ELSE 0)]
    <3>1. \A p \in Object : Outside[p] \in Int
      BY <2>2
    <3> QED
      BY <2>3, <2>4, <3>1
  <2>6. \A p \in Object : held'[p] + (IF last = p THEN 1 ELSE 0) = Outside[p] - (IF p = o THEN 1 ELSE 0)
    BY <1>5, <2>2
  <2> QED
    BY <2>1, <2>5, <2>6
<1>7. Between'
  BY <1>1, <1>2, <1>5 DEF Between
<1>8. Follows(World, Unref(World, o))
  BY <1>3 DEF Follows, KeepsLeft, SameButRefs
<1> QED
  BY <1>2, <1>3, <1>6, <1>7, <1>8, BecomesKeeps

\* A step of a call that leaves the objects alone.
LEMMA OthersKeep ==
    ASSUME IInv, UNCHANGED <<heap, libs, held>>, Between', last' = last
    PROVE  IInv' /\ Follows(World, World')
<1>1. World' = World /\ Outside' = Outside
  BY DEF World, Outside
<1> QED
  BY <1>1 DEF IInv, Follows, KeepsLeft

LEMMA parseNameKeeps ==
    ASSUME IInv, NEW name \in Name, NEW kind \in Wanted, parseName(name, kind)
    PROVE  IInv' /\ Follows(World, World')
<1>1. Links(name) \in Seq(LinkType) /\ kind \in Kind
  BY LinksAreLinks, WantedAssumption
<1>2. links' = Links(name) /\ last' = Null /\ wanted' = kind /\ UNCHANGED <<heap, libs, held>>
  BY DEF parseName
<1>3. Between'
  BY <1>1, <1>2 DEF IInv, Between
<1>4. last = Null
  BY DEF parseName, Begins, Idle, IInv, Between
<1> QED
  BY <1>2, <1>3, <1>4, OthersKeep

LEMMA LinkLostKeeps ==
    ASSUME IInv, LinkLost
    PROVE  IInv' /\ Follows(World, World')
<1>1. /\ links # <<>> /\ links' = Tail(links) /\ UNCHANGED <<heap, libs, held, last, wanted>>
  BY DEF LinkLost
<1>2. links \in Seq(LinkType)
  BY DEF IInv, Between
<1>3. Tail(links) \in Seq(LinkType)
  BY <1>1, <1>2
<1>4. Between'
  BY <1>1, <1>3 DEF IInv, Between
<1> QED
  BY <1>1, <1>4, OthersKeep

LEMMA MonikerClassIs ==
    ASSUME NEW prefix, MonikerClass(prefix) # NoClass
    PROVE  /\ MonikerClass(prefix) \in Class /\ KindOf(MonikerClass(prefix)) = "moniker"
           /\ prefix = <<"file", ":">> => MonikerClass(prefix) = "IoMoniker"
<1>1. /\ <<"file", ":">> # <<"!">> /\ <<"file", ":">> # <<"cid", ":">>
      /\ <<"file", ":">> # <<"new", ":">>
  OBVIOUS
<1> QED
  BY <1>1 DEF MonikerClass, NoClass, Class, KindOf

LEMMA createMonikerKeeps ==
    ASSUME IInv, createMoniker
    PROVE  IInv' /\ Joins(World, World', last', last, Head(links))
<1> DEFINE k == Head(links)
           c == MonikerClass(k.prefix)
           u == Created(World, c)
           m == CreatedObject(World, c)
           w == Ref(u, m)
           v == Joined(w, m, last, k)
           now == Less(More(Outside, m), last)
<1>1. Consistent(World, Outside) /\ Between /\ last \in Alive(World) \cup {Null}
  BY OutsideIs DEF IInv
<1>2. /\ wanted # NoKind /\ links # <<>> /\ c # NoClass /\ Room(2)
      /\ Becomes(v) /\ last' = m /\ links' = Tail(links) /\ UNCHANGED <<held, wanted>>
  BY DEF createMoniker, Joined
<1>3. links \in Seq(LinkType) /\ k \in LinkType /\ Tail(links) \in Seq(LinkType)
  BY <1>1, <1>2 DEF Between
<1>4. c \in Class /\ KindOf(c) = "moniker" /\ (k.prefix = <<"file", ":">> => c = "IoMoniker")
  BY <1>2, MonikerClassIs
<1> HIDE DEF k, c
<1>5. Space(World, 2)
  BY <1>2, SpaceIs
<1>6. /\ Consistent(u, Outside) /\ Grows(World, u) /\ m \in Alive(u) /\ u.heap[m].class = c
      /\ m \notin Alive(World) /\ u.heap[m].left = Null
  BY <1>1, <1>4, <1>5, CreatedKeeps
<1> HIDE DEF u, m
<1>7. Consistent(w, More(Outside, m)) /\ SameButRefs(w, u)
  BY <1>6, RefOf
<1>8. /\ m \in Alive(w) /\ w.heap[m].class = c /\ w.heap[m].left = Null
      /\ last \in Alive(w) \cup {Null}
  BY <1>1, <1>6, <1>7 DEF SameButRefs, Grows
<1> HIDE DEF w
<1>9. /\ Consistent(v, now) /\ Alive(v) = Alive(w) /\ v.heap[m].left = last /\ v.heap[m].link = k
      /\ \A p \in Alive(w) \ {m} : v.heap[p].left = w.heap[p].left /\ v.heap[p].link = w.heap[p].link
  <2>1. k.prefix = <<"file", ":">> => w.heap[m].class = "IoMoniker"
    BY <1>4, <1>8
  <2> QED
    BY <1>3, <1>7, <1>8, <2>1, LinkKeeps
<1> HIDE DEF v
<1>10. m \in Object /\ m # Null /\ m # last
  BY <1>1, <1>6, NullAssumption DEF Consistent, Shape
<1>11. held \in [Object -> Nat] /\ last \in Object \cup {Null} /\ Null \notin Object
  BY <1>1, NullAssumption DEF Between
<1>12. Outside' = now
  <2> DEFINE a == More(Outside, m)
  <2>1. /\ Outside \in [Object -> Int]
        /\ \A p \in Object : Outside[p] = held[p] + (IF last = p THEN 1 ELSE 0) /\ held[p] \in Nat
    BY <1>11 DEF Outside
  <2>2. /\ a \in [Object -> Int]
        /\ \A p \in Object : a[p] = Outside[p] + (IF p = m THEN 1 ELSE 0)
    BY <1>10, <2>1 DEF More
  <2> HIDE DEF a
  <2>3. /\ Less(a, last) \in [Object -> Int]
        /\ \A p \in Object : Less(a, last)[p] = a[p] - (IF p = last THEN 1 ELSE 0)
    BY <1>11, <2>2 DEF Less
  <2>4. Outside' = [p \in Object |-> held[p] + (IF m = p THEN 1 ELSE 0)]
    BY <1>2 DEF Outside
  <2>5. \A p \in Object : Less(a, last)[p] = held[p] + (IF m = p THEN 1 ELSE 0)
    BY <1>10, <2>1, <2>2, <2>3
  <2>6. Less(a, last) = Outside'
    BY <2>3, <2>4, <2>5
  <2> QED
    BY <2>6 DEF a
<1>13. Between'
  BY <1>1, <1>2, <1>3, <1>10 DEF Between
<1>14. Joins(World, v, m, last, k)
  <2>1. Follows(World, w)
    BY <1>6, <1>7, GrowsFollows, SameFollows
  <2> QED
    BY <1>6, <1>8, <1>9, <2>1 DEF Follows, Joins, KeepsLeft
<1>15. IInv' /\ World' = v
  BY <1>2, <1>9, <1>12, <1>13, BecomesKeeps
<1> QED
  BY <1>2, <1>14, <1>15 DEF k

\* The end of a call by name.
LEMMA ResolvesKeeps ==
    ASSUME IInv, NEW w, Consistent(w, Outside), Follows(World, w), NEW o \in Alive(w) \cup {Null},
           last \in Alive(w) \cup {Null}, Resolves(w, o)
    PROVE  IInv' /\ Follows(World, World')
<1> DEFINE kept == IF o # Null /\ KindOf(w.heap[o].class) = wanted THEN o ELSE Null
           u == Ref(w, kept)
           a == More(Outside, kept)
<1>1. /\ Becomes(Unref(u, last)) /\ Keeps(kept) /\ last' = Null /\ wanted' = NoKind
      /\ UNCHANGED links
  BY DEF Resolves
<1>2. kept \in Alive(w) \cup {Null}
  OBVIOUS
<1> HIDE DEF kept
<1>3. Consistent(u, a) /\ SameButRefs(u, w)
  BY <1>2, RefOf
<1>4. last \in Alive(u) \cup {Null}
  BY <1>3 DEF SameButRefs
<1> HIDE DEF u
<1>5. Consistent(Unref(u, last), Less(a, last)) /\ SameButRefs(Unref(u, last), u)
  BY <1>3, <1>4, UnrefOf
<1>6. /\ held \in [Object -> Nat] /\ last \in Object \cup {Null} /\ Null \notin Object
      /\ kept \in Object \cup {Null}
  BY <1>2, NullAssumption DEF IInv, Between, Consistent, Shape
<1>7. /\ held' \in [Object -> Nat]
      /\ \A p \in Object : held'[p] = held[p] + (IF p = kept THEN 1 ELSE 0)
  BY <1>1, <1>6 DEF Keeps
<1>8. Outside' = Less(a, last)
  <2>1. /\ Outside \in [Object -> Int]
        /\ \A p \in Object : Outside[p] = held[p] + (IF last = p THEN 1 ELSE 0) /\ held[p] \in Nat
    BY <1>6 DEF Outside
  <2>2. /\ a \in [Object -> Int]
        /\ \A p \in Object : a[p] = Outside[p] + (IF p = kept THEN 1 ELSE 0)
    BY <1>6, <2>1 DEF More
  <2> HIDE DEF a
  <2>3. /\ Less(a, last) \in [Object -> Int]
        /\ \A p \in Object : Less(a, last)[p] = a[p] - (IF p = last THEN 1 ELSE 0)
    BY <1>6, <2>2 DEF Less
  <2>4. Outside' = [p \in Object |-> held'[p] + 0]
    <3>1. \A p \in Object : (IF Null = p THEN 1 ELSE 0) = 0
      BY <1>6
    <3>2. Outside' = [p \in Object |-> held'[p] + (IF Null = p THEN 1 ELSE 0)]
      BY <1>1 DEF Outside
    <3> QED
      BY <3>1, <3>2
  <2>5. \A p \in Object : Less(a, last)[p] = held'[p] + 0
    BY <1>7, <2>1, <2>2, <2>3
  <2> QED
    BY <2>3, <2>4, <2>5
<1>9. Between'
  BY <1>1, <1>7 DEF IInv, Between
<1>10. Follows(World, Unref(u, last))
  BY <1>3, <1>5, SameFollows
<1> QED
  BY <1>1, <1>5, <1>8, <1>9, <1>10, BecomesKeeps

\* What a moniker that resolves has to work with.
LEMMA ResolvingIs ==
    ASSUME IInv, NEW prefix, Resolving(prefix)
    PROVE  /\ Consistent(World, Outside) /\ last \in Alive(World) /\ Space(World, 3) /\ Space(World, 2)
           /\ World.heap[last].link.prefix = prefix /\ World.heap[last].link \in LinkType
           /\ heap[last] = World.heap[last]
<1>1. last # Null /\ heap[last].link.prefix = prefix /\ Room(3)
  BY DEF Resolving
<1>2. Consistent(World, Outside) /\ World.heap = heap /\ last \in Alive(World)
  BY <1>1, OutsideIs DEF IInv
<1>3. Space(World, 3)
  BY <1>1, SpaceIs
<1>4. Alive(World) \subseteq Object /\ IsObject(World.heap[last])
  BY <1>2 DEF Consistent, Shape
<1>5. IsFiniteSet(Object \ Alive(World)) /\ Cardinality(Object \ Alive(World)) \in Nat
  BY Finite
<1>6. Space(World, 2)
  BY <1>3, <1>5 DEF Space
<1> QED
  BY <1>1, <1>2, <1>3, <1>4, <1>6 DEF IsObject

LEMMA ResolveCidKeeps ==
    ASSUME IInv, ResolveCid
    PROVE  IInv' /\ Follows(World, World')
<1>1. PICK c \in Class : Resolves(Created(World, c), CreatedObject(World, c))
  BY DEF ResolveCid
<1>2. Consistent(World, Outside) /\ last \in Alive(World) /\ Space(World, 2)
  BY ResolvingIs DEF ResolveCid
<1> DEFINE w == Created(World, c)
           o == CreatedObject(World, c)
<1>3. Consistent(w, Outside) /\ Grows(World, w) /\ o \in Alive(w)
  BY <1>2, CreatedKeeps
<1>4. last \in Alive(w)
  BY <1>2, <1>3 DEF Grows
<1>5. Follows(World, w)
  BY <1>3, GrowsFollows
<1> QED
  BY <1>1, <1>3, <1>4, <1>5, ResolvesKeeps

LEMMA ResolveNothingKeeps ==
    ASSUME IInv, ResolveCidFails \/ ResolveOfLeft
    PROVE  IInv' /\ Follows(World, World')
<1>1. Resolves(World, Null)
  BY DEF ResolveCidFails, ResolveOfLeft
<1>2. Consistent(World, Outside) /\ last \in Alive(World)
  BY ResolvingIs DEF ResolveCidFails, ResolveOfLeft
<1>3. Follows(World, World)
  BY <1>2 DEF Follows, KeepsLeft
<1> QED
  BY <1>1, <1>2, <1>3, ResolvesKeeps

\* The moniker of a file is of the library of devices, and has its factory.
LEMMA MonikerDeviceIs ==
    ASSUME IInv, Resolving(<<"file", ":">>)
    PROVE  /\ Consistent(MonikerDevice, Outside) /\ Space(MonikerDevice, 2)
           /\ Grows(World, MonikerDevice)
           /\ last \in Alive(MonikerDevice) /\ Fresh(World) \in Alive(MonikerDevice)
<1> DEFINE f == World.heap[last].factory
<1>1. /\ Consistent(World, Outside) /\ last \in Alive(World) /\ Space(World, 2 + 1)
      /\ World.heap[last].link.prefix = <<"file", ":">> /\ heap[last] = World.heap[last]
  BY ResolvingIs
<1>2. MonikerDevice = New(World, "Device", f)
  BY <1>1 DEF MonikerDevice
<1>3. World.heap[last].class = "IoMoniker"
  BY <1>1 DEF Consistent, Linked
<1>4. /\ "io" \in Library /\ last \in Of(World, "io") /\ FactoryOf("io") # "IoMoniker"
      /\ "Device" \in Class /\ LibraryOf("Device") = "io" /\ KindOf("Device") # "factory"
  BY <1>1, <1>3 DEF Library, Of, LibraryOf, FactoryOf, Class, KindOf
<1>5. /\ World.libs["io"].loaded /\ World.libs["io"].instance = f /\ f # Null
      /\ f \in Alive(World)
  BY <1>1, <1>3, <1>4 DEF Consistent, Served
<1> HIDE DEF f
<1>6. /\ Consistent(MonikerDevice, Outside) /\ Grows(World, MonikerDevice)
      /\ Space(MonikerDevice, 2) /\ Alive(MonikerDevice) = Alive(World) \cup {Fresh(World)}
  BY <1>1, <1>2, <1>4, <1>5, 2 \in Nat, NewKeeps
<1> QED
  BY <1>1, <1>6

LEMMA ResolveDeviceKeeps ==
    ASSUME IInv, ResolveDevice \/ ResolveNoExtender
    PROVE  IInv' /\ Follows(World, World')
<1>1. Resolving(<<"file", ":">>)
  BY DEF ResolveDevice, ResolveNoExtender
<1>2. /\ Consistent(MonikerDevice, Outside) /\ last \in Alive(MonikerDevice)
      /\ Fresh(World) \in Alive(MonikerDevice) /\ Follows(World, MonikerDevice)
  BY <1>1, MonikerDeviceIs, GrowsFollows
<1>3. Resolves(MonikerDevice, Fresh(World)) \/ Resolves(MonikerDevice, Null)
  BY DEF ResolveDevice, ResolveNoExtender
<1> QED
  BY <1>2, <1>3, ResolvesKeeps

LEMMA ResolveDocumentKeeps ==
    ASSUME IInv, ResolveDocument
    PROVE  IInv' /\ Follows(World, World')
<1> DEFINE w == Created(MonikerDevice, "Document")
           d == CreatedObject(MonikerDevice, "Document")
           p == heap[last].link.prefix \o heap[last].link.suffix
           f == w.heap[d].factory
<1>1. Resolving(<<"file", ":">>)
  BY DEF ResolveDocument
<1>2. /\ Consistent(MonikerDevice, Outside) /\ Space(MonikerDevice, 2)
      /\ last \in Alive(MonikerDevice) /\ Grows(World, MonikerDevice)
  BY <1>1, MonikerDeviceIs
<1>3. IF p \in DOMAIN w.heap[f].opened THEN Resolves(w, w.heap[f].opened[p])
      ELSE Resolves(Registered(w, d, p), d)
  BY DEF ResolveDocument
<1>4. p \in Seq(STRING) /\ p # <<>>
  <2>1. heap[last].link \in LinkType /\ heap[last].link.prefix = <<"file", ":">>
    BY <1>1, ResolvingIs
  <2>2. heap[last].link.suffix \in Seq(STRING) /\ <<"file", ":">> \in Seq(STRING)
    BY <2>1 DEF LinkType
  <2>3. \A s \in Seq(STRING) : <<"file", ":">> \o s \in Seq(STRING)
                               /\ Len(<<"file", ":">> \o s) = 2 + Len(s)
    BY <2>2
  <2>4. Len(<<>>) = 0 /\ \A s \in Seq(STRING) : Len(s) \in Nat
    OBVIOUS
  <2> QED
    BY <2>1, <2>2, <2>3, <2>4
<1>5. "Document" \in Class /\ KindOf("Document") # "factory"
  BY DEF Class, KindOf
<1>6. /\ Consistent(w, Outside) /\ Grows(MonikerDevice, w) /\ d \in Alive(w)
      /\ w.heap[d].class = "Document" /\ w.heap[d].path = <<>>
  BY <1>2, <1>5, CreatedKeeps
<1> HIDE DEF w, d, p
<1>7. last \in Alive(w)
  BY <1>2, <1>6 DEF Grows
<1>11. Follows(World, w)
  BY <1>2, <1>6, GrowsOn, GrowsFollows
<1>8. f \in Alive(w)
  BY <1>6, DocumentFactory
<1>9. CASE p \in DOMAIN w.heap[f].opened
  <2>1. w.heap[f].opened[p] \in Alive(w)
    BY <1>6, <1>8, <1>9 DEF Consistent, Cached
  <2> QED
    BY <1>3, <1>6, <1>7, <1>9, <1>11, <2>1, ResolvesKeeps
<1>10. CASE p \notin DOMAIN w.heap[f].opened
  <2>1. /\ Consistent(Registered(w, d, p), Outside)
        /\ Alive(Registered(w, d, p)) = Alive(w)
        /\ Follows(World, Registered(w, d, p))
    BY <1>4, <1>6, <1>10, <1>11, RegisteredKeeps DEF Follows, KeepsLeft
  <2> QED
    BY <1>3, <1>6, <1>7, <1>10, <2>1, ResolvesKeeps
<1> QED
  BY <1>9, <1>10

LEMMA NothingParsedKeeps ==
    ASSUME IInv, NothingParsed
    PROVE  IInv' /\ Follows(World, World')
<1>1. UNCHANGED <<heap, libs, held, links, last>> /\ wanted' = NoKind /\ last = Null
  BY DEF NothingParsed
<1>2. Between'
  BY <1>1 DEF IInv, Between
<1> QED
  BY <1>1, <1>2, OthersKeep

LEMMA DeleteKeeps ==
    ASSUME IInv, NEW o \in DOMAIN heap, Delete(o)
    PROVE  IInv' /\ Follows(World, World')
<1>1. /\ Consistent(World, Outside) /\ o \in Alive(World) /\ World.heap[o].refs = 0
      /\ Outside[o] >= 0 /\ World.heap = heap
  BY OutsideIs DEF IInv, Delete
<1> DEFINE v == Unref(Unref(Destructed(Forgotten(World, o), o), World.heap[o].factory), World.heap[o].left)
<1>2. Consistent(v, Outside) /\ Follows(World, v)
  BY <1>1, DeletedKeeps
<1>3. Becomes(v) /\ UNCHANGED <<held, links, last, wanted>>
  BY <1>1 DEF Delete
<1> HIDE DEF v
<1>4. Outside' = Outside /\ Between'
  BY <1>3 DEF Outside, IInv, Between
<1> QED
  BY <1>2, <1>3, <1>4, BecomesKeeps

LEMMA LibrariesKeep ==
    ASSUME IInv, unloadUnusedLibraries \/ unloadClassInfo
    PROVE  IInv' /\ Follows(World, World')
<1> DEFINE v == [heap |-> World.heap, libs |-> libs']
<1>1. /\ World.heap = heap /\ World.libs = libs /\ Consistent(World, Outside)
      /\ UNCHANGED <<heap, held, links, last, wanted>>
  BY OutsideIs DEF IInv, unloadUnusedLibraries, unloadClassInfo
<1>2. libs \in [Library -> LibraryType]
  BY <1>1 DEF Consistent, Shape
<1>3. libs' \in [Library -> LibraryType]
  <2>1. CASE unloadUnusedLibraries
    BY <1>2, <2>1 DEF unloadUnusedLibraries, Unloaded, LibraryType
  <2>2. CASE unloadClassInfo
    <3>1. \A l \in Library : [libs[l] EXCEPT !.ours = FALSE] \in LibraryType
      BY <1>2 DEF LibraryType
    <3> QED
      BY <2>2, <3>1 DEF unloadClassInfo
  <2> QED
    BY <2>1, <2>2
<1>4. ASSUME NEW l \in Library
      PROVE  Served(v, l)
  <2>1. /\ v.heap = World.heap /\ v.libs = libs'
        /\ Alive(v) = Alive(World) /\ Of(v, l) = Of(World, l)
    BY DEF Alive, Of
  <2>2. Served(World, l)
    BY <1>1 DEF Consistent
  <2> HIDE DEF v
  <2>3. CASE /\ libs'[l].loaded = libs[l].loaded /\ libs'[l].objects = libs[l].objects
             /\ libs'[l].instance = libs[l].instance
    BY <1>1, <2>1, <2>2, <2>3 DEF Served
  <2>4. CASE libs'[l] = Unloaded /\ libs[l].objects = 0
    <3>1. Of(World, l) \subseteq Alive(World) /\ Alive(World) \subseteq Object
      BY <1>1 DEF Of, Consistent, Shape
    <3>2. IsFiniteSet(Of(World, l)) /\ Cardinality(Of(World, l)) \in Nat
      BY <3>1, Finite
    <3>3. Cardinality(Of(World, l)) = 0
      BY <1>1, <2>2, <2>4, <3>2 DEF Served
    <3>4. Of(World, l) = {}
      BY <3>2, <3>3, FS_EmptySet
    <3>5. \A o \in Alive(v) : v.heap[o].class # FactoryOf(l) /\ o # Null
      BY <2>1, <3>1, <3>4, FactoryOfIs, NullAssumption DEF Of
    <3>6. v.libs[l].objects = 0 /\ v.libs[l].instance = Null
      BY <2>1, <2>4 DEF Unloaded
    <3> QED
      BY <2>1, <3>3, <3>4, <3>5, <3>6 DEF Served
  <2>5. CASE unloadUnusedLibraries
    <3>1. (libs'[l] = Unloaded /\ libs[l].objects = 0) \/ libs'[l] = libs[l]
      BY <2>5 DEF unloadUnusedLibraries, UnloadsLibrary, dllCanUnloadNow
    <3> QED
      BY <2>3, <2>4, <3>1
  <2>6. CASE unloadClassInfo
    <3>1. libs'[l] = [libs[l] EXCEPT !.ours = FALSE] /\ libs[l] \in LibraryType
      BY <1>2, <2>6 DEF unloadClassInfo
    <3>2. /\ libs'[l].loaded = libs[l].loaded /\ libs'[l].objects = libs[l].objects
          /\ libs'[l].instance = libs[l].instance
      BY <3>1 DEF LibraryType
    <3> QED
      BY <2>3, <3>2
  <2> QED
    BY <2>5, <2>6
<1>5. Consistent(v, Outside)
  BY <1>1, <1>3, <1>4, LibsKeep
<1>6. Becomes(v)
  BY <1>1 DEF Becomes
<1>7. Outside' = Outside /\ Between'
  BY <1>1 DEF Outside, IInv, Between
<1>8. Follows(World, v)
  BY DEF Follows, KeepsLeft, Alive
<1> QED
  BY <1>5, <1>6, <1>7, <1>8, BecomesKeeps

LEMMA NextKeeps == IInv /\ [Next]_vars => IInv' /\ (Follows(World, World') \/ createMoniker)
<1> DEFINE Goal == IInv' /\ Follows(World, World')
<1> SUFFICES ASSUME IInv, [Next]_vars PROVE IInv' /\ (Follows(World, World') \/ createMoniker)
  OBVIOUS
<1>1. CASE UNCHANGED vars
  <2>1. UNCHANGED <<heap, libs, held>> /\ Between' /\ last' = last
    BY <1>1 DEF vars, IInv, Between
  <2> QED
    BY <2>1, OthersKeep
<1>2. ASSUME NEW c \in Class, createFromCID(c) PROVE Goal
  BY <1>2, createFromCIDKeeps
<1>3. ASSUME NEW f \in Object, NEW c \in Class, FactoryCreates(f, c) PROVE Goal
  BY <1>3, FactoryCreatesKeeps
<1>4. ASSUME NEW o \in Object, Release(o) PROVE Goal
  BY <1>4, ReleaseKeeps
<1>5. ASSUME NEW name \in Name, NEW kind \in Wanted, parseName(name, kind) PROVE Goal
  BY <1>5, parseNameKeeps
<1>6. CASE createMoniker
  BY <1>6, createMonikerKeeps DEF Goal
<1>7. CASE LinkLost
  BY <1>7, LinkLostKeeps
<1>8. CASE ResolveCid
  BY <1>8, ResolveCidKeeps
<1>9. CASE ResolveCidFails \/ ResolveOfLeft
  BY <1>9, ResolveNothingKeeps
<1>10. CASE ResolveDevice \/ ResolveNoExtender
  BY <1>10, ResolveDeviceKeeps
<1>11. CASE ResolveDocument
  BY <1>11, ResolveDocumentKeeps
<1>12. CASE NothingParsed
  BY <1>12, NothingParsedKeeps
<1>13. ASSUME NEW o \in DOMAIN heap, Delete(o) PROVE Goal
  BY <1>13, DeleteKeeps
<1>14. CASE unloadUnusedLibraries \/ unloadClassInfo
  BY <1>14, LibrariesKeep
<1> QED
  BY <1>1, <1>2, <1>3, <1>4, <1>5, <1>6, <1>7, <1>8, <1>9, <1>10, <1>11, <1>12, <1>13, <1>14
  DEF Next

LEMMA InitHolds == Init => IInv
<1> SUFFICES ASSUME Init PROVE IInv
  OBVIOUS
<1>1. /\ World.heap = <<>> /\ World.libs = [l \in Library |-> Unloaded]
      /\ World = [heap |-> World.heap, libs |-> World.libs]
  BY DEF Init, World
<1>2. Alive(World) = {}
  BY <1>1 DEF Alive
<1>3. held = [o \in Object |-> 0] /\ last = Null /\ links = <<>> /\ wanted = NoKind
  BY DEF Init
<1>4. Outside = [o \in Object |-> 0]
  <2>1. \A o \in Object : held[o] + (IF last = o THEN 1 ELSE 0) = 0
    BY <1>3, NullAssumption
  <2> QED
    BY <2>1 DEF Outside
<1> HIDE DEF World, Outside
<1>5. World.libs \in [Library -> LibraryType]
  BY <1>1 DEF Unloaded, LibraryType
<1>6. World.heap = [o \in Alive(World) |-> World.heap[o]]
  BY <1>1, <1>2
<1>7. Shape(World)
  BY <1>1, <1>2, <1>5, <1>6 DEF Shape
<1>8. Counted(World, Outside)
  BY <1>2, <1>4 DEF Counted
<1>9. Cached(World) /\ Linked(World)
  BY <1>2 DEF Cached, Linked
<1>10. ASSUME NEW l \in Library
       PROVE  Served(World, l)
  <2>1. Of(World, l) = {} /\ World.libs[l].instance = Null /\ World.libs[l].objects = 0
    BY <1>1, <1>2 DEF Of, Unloaded
  <2>2. Cardinality({}) = 0
    BY FS_EmptySet
  <2> QED
    BY <1>2, <2>1, <2>2 DEF Served
<1>11. Between
  BY <1>3 DEF Between
<1> QED
  BY <1>7, <1>8, <1>9, <1>10, <1>11 DEF IInv, Consistent

LEMMA Inductive == Spec => []IInv
BY InitHolds, NextKeeps, PTL DEF Spec

-----------------------------------------------------------------------------
(* What follows for the program.                                           *)

\* Every variable keeps its type; counters of references and of objects are never
\* negative, whichever of unref, CCommon and the destructors come in which order.
THEOREM TypeCorrect == Spec => []TypeOK
<1>1. IInv => TypeOK
  <2> SUFFICES ASSUME IInv PROVE TypeOK
    OBVIOUS
  <2>1. /\ World.heap = heap /\ World.libs = libs /\ Alive(World) = DOMAIN heap
        /\ DOMAIN heap \subseteq Object
        /\ Consistent(World, Outside) /\ Between
        /\ Outside \in [Object -> Int] /\ \A o \in Object : Outside[o] >= 0
    BY OutsideIs DEF IInv
  <2>2. libs \in [Library -> LibraryType] /\ \A o \in DOMAIN heap : IsObject(heap[o])
    BY <2>1 DEF Consistent, Shape
  <2>3. ASSUME NEW o \in DOMAIN heap
        PROVE  /\ DOMAIN heap[o] = Fields
               /\ heap[o].class \in Class /\ heap[o].refs \in Nat
               /\ {heap[o].factory, heap[o].left} \subseteq Object \cup {Null}
               /\ heap[o].link \in LinkType
               /\ heap[o].path \in Seq(STRING)
    <3>1. IsObject(heap[o])
      BY <2>2
    <3>2. MadeBy(World, o) \subseteq Object /\ RightOf(World, o) \subseteq Object
      BY <2>1 DEF MadeBy, RightOf
    <3>3. Cardinality(MadeBy(World, o)) \in Nat /\ Cardinality(RightOf(World, o)) \in Nat
      BY <3>2, Finite
    <3>4. heap[o].refs = Outside[o] + Cardinality(MadeBy(World, o)) + Cardinality(RightOf(World, o))
      BY <2>1 DEF Consistent, Counted
    <3>5. Outside[o] \in Int /\ Outside[o] >= 0
      BY <2>1
    <3>6. heap[o].refs \in Nat
      BY <3>3, <3>4, <3>5
    <3>7. DOMAIN heap[o] = Fields
      BY <3>1 DEF IsObject, Fields
    <3> QED
      BY <3>1, <3>6, <3>7 DEF IsObject
  <2>4. ASSUME NEW l \in Library
        PROVE  libs[l].objects \in Nat
    <3>1. Of(World, l) \subseteq Object
      BY <2>1 DEF Of
    <3>2. Cardinality(Of(World, l)) \in Nat
      BY <3>1, Finite
    <3>3. Served(World, l) /\ libs[l].objects \in Int
      BY <2>1, <2>2 DEF Consistent, LibraryType
    <3> QED
      BY <2>1, <3>2, <3>3 DEF Served
  <2>5. libs \in [Library -> [loaded : BOOLEAN, ours : BOOLEAN, objects : Nat,
                              instance : Object \cup {Null}]]
    <3>1. ASSUME NEW l \in Library
          PROVE  libs[l] \in [loaded : BOOLEAN, ours : BOOLEAN, objects : Nat,
                              instance : Object \cup {Null}]
      BY <2>2, <2>4 DEF LibraryType
    <3> QED
      BY <2>2, <3>1
  <2> QED
    BY <2>1, <2>3, <2>5 DEF TypeOK, Between
<1> QED
  BY <1>1, Inductive, PTL

\* Every object counts exactly the references to it, from the program, the call under
\* way, monikers and the objects of a factory, and nothing refers to what is gone:
\* whatever is made and released in which order, and where a call fails half-way.
THEOREM ReferencesAreExact == Spec => []RefsExact
<1>1. IInv => RefsExact
  <2> SUFFICES ASSUME IInv PROVE RefsExact
    OBVIOUS
  <2>1. /\ World.heap = heap /\ Alive(World) = DOMAIN heap /\ DOMAIN heap \subseteq Object
        /\ Counted(World, Outside) /\ Null \notin Object
        /\ last \in DOMAIN heap \cup {Null}
        /\ \A o \in Object : held[o] > 0 => o \in DOMAIN heap
    BY OutsideIs DEF IInv, Consistent
  <2>2. ASSUME NEW o \in DOMAIN heap
        PROVE  /\ heap[o].refs = held[o] + (IF last = o THEN 1 ELSE 0)
                                 + Cardinality({p \in DOMAIN heap : heap[p].factory = o})
                                 + Cardinality({p \in DOMAIN heap : heap[p].left = o})
               /\ {heap[o].factory, heap[o].left} \subseteq DOMAIN heap \cup {Null}
    <3>1. /\ heap[o].refs = Outside[o] + Cardinality(MadeBy(World, o)) + Cardinality(RightOf(World, o))
          /\ heap[o].factory \in DOMAIN heap \cup {Null} /\ heap[o].left \in DOMAIN heap \cup {Null}
      BY <2>1 DEF Counted
    <3>2. Outside[o] = held[o] + (IF last = o THEN 1 ELSE 0)
      BY <2>1 DEF Outside
    <3>3. /\ MadeBy(World, o) = {p \in DOMAIN heap : heap[p].factory = o}
          /\ RightOf(World, o) = {p \in DOMAIN heap : heap[p].left = o}
      BY <2>1 DEF MadeBy, RightOf
    <3> QED
      BY <3>1, <3>2, <3>3
  <2>3. \A o \in Object : held[o] > 0 \/ last = o => o \in DOMAIN heap
    BY <2>1
  <2> QED
    BY <2>2, <2>3 DEF RefsExact
<1> QED
  BY <1>1, Inductive, PTL

\* The code of every object stays loaded: libraries are unloaded by a counter, and it
\* is at least the number of objects, also where it counts the wrong way.
THEOREM CodeIsThere == Spec => []CodeStays
<1>1. IInv => CodeStays
  <2> SUFFICES ASSUME IInv, NEW o \in DOMAIN heap
               PROVE  libs[LibraryOf(heap[o].class)].loaded
    BY DEF CodeStays
  <2>1. /\ World.heap = heap /\ World.libs = libs /\ Alive(World) = DOMAIN heap
        /\ Consistent(World, Outside)
    BY OutsideIs DEF IInv
  <2>2. heap[o].class \in Class
    BY <2>1 DEF Consistent, Shape, IsObject
  <2> DEFINE l == LibraryOf(heap[o].class)
  <2>3. l \in Library /\ o \in Of(World, l)
    BY <2>1, <2>2, LibraryOfType DEF Of
  <2> QED
    BY <2>1, <2>3 DEF Consistent, Served
<1> QED
  BY <1>1, Inductive, PTL

\* A library has one factory while it has objects, all of which refer to it, and so
\* its register makes one document of each file, however often it is opened.
THEOREM OneFactoryOneDocument == Spec => []OneOfEach
<1>1. IInv => OneOfEach
  <2> SUFFICES ASSUME IInv PROVE OneOfEach
    OBVIOUS
  <2>1. /\ World.heap = heap /\ World.libs = libs /\ Alive(World) = DOMAIN heap
        /\ DOMAIN heap \subseteq Object /\ Null \notin Object
        /\ Consistent(World, Outside)
    BY OutsideIs DEF IInv
  <2>2. ASSUME NEW l \in Library
        PROVE  {o \in DOMAIN heap : heap[o].class = FactoryOf(l)} = {libs[l].instance} \ {Null}
    <3>1. Served(World, l)
      BY <2>1 DEF Consistent
    <3>2. /\ libs[l].instance \in DOMAIN heap \cup {Null}
          /\ \A o \in DOMAIN heap : heap[o].class = FactoryOf(l) <=> o = libs[l].instance
      BY <2>1, <3>1 DEF Served
    <3> QED
      BY <2>1, <3>2
  <2>3. ASSUME NEW o \in DOMAIN heap, KindOf(heap[o].class) # "factory"
        PROVE  heap[o].factory = libs[LibraryOf(heap[o].class)].instance
    <3> DEFINE l == LibraryOf(heap[o].class)
    <3>1. heap[o].class \in Class
      BY <2>1 DEF Consistent, Shape, IsObject
    <3>2. l \in Library /\ o \in Of(World, l)
      BY <2>1, <3>1, LibraryOfType DEF Of
    <3>3. heap[o].class # FactoryOf(l)
      BY <2>3, <3>2, FactoryOfIs
    <3> QED
      BY <2>1, <3>2, <3>3 DEF Consistent, Served
  <2>4. ASSUME NEW d \in DOMAIN heap, NEW e \in DOMAIN heap,
               heap[d].path = heap[e].path, heap[d].path # <<>>
        PROVE  d = e
    <3>1. \A q \in {d, e} : /\ heap[q].class = "Document"
                            /\ heap[heap[q].factory].opened[heap[q].path] = q
      BY <2>1, <2>4 DEF Consistent, Cached
    <3>2. KindOf("Document") # "factory"
      BY DEF KindOf
    <3>3. heap[d].factory = heap[e].factory
      BY <2>3, <3>1, <3>2
    <3> QED
      BY <2>4, <3>1, <3>3
  <2> QED
    BY <2>2, <2>3, <2>4 DEF OneOfEach
<1> QED
  BY <1>1, Inductive, PTL

\* A library without objects may be unloaded, but for that of devices: no creation,
\* deletion or failure between them leaves its counter above zero.
THEOREM UnusedLibrariesMayGo == Spec => []UnusedMayGo
<1>1. IInv => UnusedMayGo
  <2> SUFFICES ASSUME IInv, NEW l \in Library \ {"io"}, Of(World, l) = {}
               PROVE  dllCanUnloadNow(l)
    BY DEF UnusedMayGo
  <2>1. World.libs = libs /\ Served(World, l)
    BY OutsideIs DEF IInv, Consistent
  <2> QED
    BY <2>1, FS_EmptySet DEF Served, dllCanUnloadNow
<1> QED
  BY <1>1, Inductive, PTL

-----------------------------------------------------------------------------
(* Chains of monikers.                                                     *)

\* Every chain has an end, and what is on the left of something is of a name.
Chains(w) ==
    /\ Founded(w.heap)
    /\ \A o \in Alive(w) : w.heap[o].left # Null => w.heap[w.heap[o].left].link \in PlainLink

\* So is the last moniker of a call, and what is left of its name is plain.
ChainInv ==
    /\ Chains(World)
    /\ last # Null => heap[last].link \in PlainLink
    /\ \A i \in 1 .. Len(links) : links[i].suffix \in Seq(Plain)

LEMMA LeftsAre ==
    ASSUME NEW w, NEW ext, Consistent(w, ext)
    PROVE  /\ Null \notin Alive(w) /\ LeftIn(Alive(w) \cup {Null}, w.heap)
           /\ \A o \in Alive(w) : w.heap[o].left \in Alive(w) \cup {Null}
<1>1. Null \notin Alive(w) /\ \A o \in Alive(w) : w.heap[o].left \in Alive(w) \cup {Null}
  BY NullAssumption DEF Consistent, Shape, Counted
<1> QED
  BY <1>1 DEF LeftIn, Alive

LEMMA FollowsChains ==
    ASSUME NEW w, NEW v, NEW e, NEW f, Consistent(w, e), Consistent(v, f), Follows(w, v), Chains(w)
    PROVE  Chains(v)
<1>1. /\ Null \notin Alive(v) /\ \A o \in Alive(v) : v.heap[o].left \in Alive(v) \cup {Null}
      /\ Null \notin Alive(w) /\ \A o \in Alive(w) : w.heap[o].left \in Alive(w) \cup {Null}
  BY LeftsAre
<1>2. \A p \in Alive(v) : KeepsLeft(w, v, p)
  BY DEF Follows
<1>3. ASSUME NEW S \in SUBSET Alive(v), S # {}
      PROVE  \E o \in S : v.heap[o].left \notin S
  <2>1. CASE S \subseteq Alive(w)
    <3>1. PICK o \in S : w.heap[o].left \notin S
      BY <1>3, <2>1 DEF Chains, Founded, Alive
    <3> QED
      BY <1>2, <2>1, <3>1 DEF KeepsLeft
  <2>2. ASSUME NEW o \in S, o \notin Alive(w)
        PROVE  \E p \in S : v.heap[p].left \notin S
    <3>1. v.heap[o].left = Null
      BY <1>2, <2>2 DEF KeepsLeft
    <3> QED
      BY <1>1, <3>1
  <2> QED
    BY <2>1, <2>2
<1>4. ASSUME NEW o \in Alive(v), v.heap[o].left # Null
      PROVE  v.heap[v.heap[o].left].link \in PlainLink
  <2>1. o \in Alive(w) /\ w.heap[o].left = v.heap[o].left
    BY <1>2, <1>4 DEF KeepsLeft
  <2>2. v.heap[o].left \in Alive(v) /\ v.heap[o].left \in Alive(w)
    BY <1>1, <1>4, <2>1
  <2>3. w.heap[v.heap[o].left].link \in PlainLink
    BY <1>4, <2>1 DEF Chains
  <2> QED
    BY <1>2, <2>2, <2>3 DEF KeepsLeft
<1> QED
  BY <1>3, <1>4 DEF Chains, Founded, Alive

LEMMA JoinsChains ==
    ASSUME NEW w, NEW v, NEW e, NEW f, Consistent(w, e), Consistent(v, f), NEW m, NEW k,
           NEW x \in Alive(w) \cup {Null}, x # Null => w.heap[x].link \in PlainLink,
           Joins(w, v, m, x, k), Chains(w)
    PROVE  Chains(v)
<1>1. /\ Null \notin Alive(v) /\ \A o \in Alive(v) : v.heap[o].left \in Alive(v) \cup {Null}
      /\ Null \notin Alive(w) /\ \A o \in Alive(w) : w.heap[o].left \in Alive(w) \cup {Null}
  BY LeftsAre
<1>2. /\ m \in Alive(v) /\ m \notin Alive(w) /\ v.heap[m].left = x
      /\ \A p \in Alive(v) \ {m} : KeepsLeft(w, v, p)
  BY DEF Joins
<1>3. ASSUME NEW S \in SUBSET Alive(v), S # {}
      PROVE  \E o \in S : v.heap[o].left \notin S
  <2>1. CASE S \subseteq {m}
    <3>1. S = {m} /\ x # m
      BY <1>1, <1>2, <1>3, <2>1
    <3> QED
      BY <1>2, <3>1
  <2>2. CASE S \ {m} # {} /\ S \ {m} \subseteq Alive(w)
    <3>1. PICK o \in S \ {m} : w.heap[o].left \notin S \ {m}
      BY <2>2 DEF Chains, Founded, Alive
    <3>2. w.heap[o].left # m /\ v.heap[o].left = w.heap[o].left
      BY <1>1, <1>2, <2>2, <3>1 DEF KeepsLeft
    <3> QED
      BY <3>1, <3>2
  <2>3. ASSUME NEW o \in S \ {m}, o \notin Alive(w)
        PROVE  \E p \in S : v.heap[p].left \notin S
    <3>1. v.heap[o].left = Null
      BY <1>2, <2>3 DEF KeepsLeft
    <3> QED
      BY <1>1, <3>1
  <2> QED
    BY <2>1, <2>2, <2>3
<1>4. ASSUME NEW o \in Alive(v), v.heap[o].left # Null
      PROVE  v.heap[v.heap[o].left].link \in PlainLink
  <2> DEFINE l == v.heap[o].left
  <2>1. l \in Alive(w) /\ w.heap[l].link \in PlainLink
    <3>1. CASE o = m
      BY <1>2, <1>4, <3>1
    <3>2. CASE o # m
      <4>1. o \in Alive(w) /\ w.heap[o].left = l
        BY <1>2, <1>4, <3>2 DEF KeepsLeft
      <4> QED
        BY <1>1, <1>4, <4>1 DEF Chains
    <3> QED
      BY <3>1, <3>2
  <2>2. l \in Alive(v) \ {m}
    BY <1>1, <1>2, <1>4, <2>1
  <2> HIDE DEF l
  <2>3. v.heap[l].link = w.heap[l].link
    BY <1>2, <2>1, <2>2 DEF KeepsLeft
  <2> QED
    BY <2>1, <2>3 DEF l
<1> QED
  BY <1>3, <1>4 DEF Chains, Founded, Alive

LEMMA LastIs == IInv => last \in Alive(World) \cup {Null}
BY OutsideIs

\* What becomes of the last moniker and of the links, where no moniker is made.
LEMMA LinksGo ==
    ASSUME [Next]_vars, ~ createMoniker
    PROVE  /\ last' \in {last, Null}
           /\ \/ links' = links
              \/ links # <<>> /\ links' = Tail(links)
              \/ \E name \in Name : links' = Links(name)
<1>1. CASE UNCHANGED vars
  BY <1>1 DEF vars
<1>2. ASSUME NEW c \in Class, createFromCID(c) PROVE UNCHANGED <<last, links>>
  BY <1>2 DEF createFromCID
<1>3. ASSUME NEW f \in Object, NEW c \in Class, FactoryCreates(f, c) PROVE UNCHANGED <<last, links>>
  BY <1>3 DEF FactoryCreates
<1>4. ASSUME NEW o \in Object, Release(o) PROVE UNCHANGED <<last, links>>
  BY <1>4 DEF Release
<1>5. ASSUME NEW name \in Name, NEW kind \in Wanted, parseName(name, kind)
      PROVE  last' = Null /\ links' = Links(name)
  BY <1>5 DEF parseName
<1>6. CASE LinkLost
  BY <1>6 DEF LinkLost
<1>7. CASE ResolveCid \/ ResolveCidFails \/ ResolveOfLeft
           \/ ResolveDevice \/ ResolveDocument \/ ResolveNoExtender
  BY <1>7 DEF ResolveCid, ResolveCidFails, ResolveOfLeft, ResolveDevice, ResolveDocument,
              ResolveNoExtender, Resolves
<1>8. CASE NothingParsed
  BY <1>8 DEF NothingParsed
<1>9. ASSUME NEW o \in DOMAIN heap, Delete(o) PROVE UNCHANGED <<last, links>>
  BY <1>9 DEF Delete
<1>10. CASE unloadUnusedLibraries \/ unloadClassInfo
  BY <1>10 DEF unloadUnusedLibraries, unloadClassInfo
<1> QED
  BY <1>1, <1>2, <1>3, <1>4, <1>5, <1>6, <1>7, <1>8, <1>9, <1>10 DEF Next

LEMMA TailPlain ==
    ASSUME NEW ls \in Seq(LinkType), ls # <<>>, \A i \in 1 .. Len(ls) : ls[i].suffix \in Seq(Plain)
    PROVE  /\ Head(ls).suffix \in Seq(Plain) /\ Head(ls) \in LinkType
           /\ \A i \in 1 .. Len(Tail(ls)) : Tail(ls)[i].suffix \in Seq(Plain)
<1>1. /\ Len(ls) \in Nat /\ Len(ls) >= 1 /\ Len(Tail(ls)) = Len(ls) - 1
      /\ \A i \in 1 .. Len(Tail(ls)) : Tail(ls)[i] = ls[i + 1]
      /\ Head(ls) = ls[1] /\ ls[1] \in LinkType
  OBVIOUS
<1>2. ASSUME NEW i \in 1 .. Len(Tail(ls))
      PROVE  Tail(ls)[i].suffix \in Seq(Plain)
  <2>1. i + 1 \in 1 .. Len(ls) /\ Tail(ls)[i] = ls[i + 1]
    BY <1>1
  <2> QED
    BY <2>1
<1> QED
  BY <1>1, <1>2

LEMMA NextChains ==
    ASSUME PlainSuffixes
    PROVE  IInv /\ ChainInv /\ [Next]_vars => ChainInv'
<1>0. IInv' => (last \in Alive(World) \cup {Null})'
  BY LastIs, PTL
<1> SUFFICES ASSUME IInv, ChainInv, [Next]_vars
             PROVE  ChainInv'
  OBVIOUS
<1>1. /\ IInv' /\ (Follows(World, World') \/ createMoniker)
      /\ World.heap = heap /\ last \in Alive(World) \cup {Null} /\ links \in Seq(LinkType)
      /\ Consistent(World, Outside) /\ Consistent(World', Outside')
      /\ last' \in Alive(World') \cup {Null}
  BY <1>0, NextKeeps, OutsideIs DEF IInv, Between
<1>2. /\ Chains(World) /\ (last # Null => World.heap[last].link \in PlainLink)
      /\ \A i \in 1 .. Len(links) : links[i].suffix \in Seq(Plain)
  BY <1>1 DEF ChainInv
<1>3. World'.heap = heap'
  BY DEF World
<1>4. CASE createMoniker
  <2>1. /\ links # <<>> /\ links' = Tail(links) /\ MonikerClass(Head(links).prefix) # NoClass
        /\ Joins(World, World', last', last, Head(links))
    BY <1>4, createMonikerKeeps DEF createMoniker
  <2>2. /\ Head(links).suffix \in Seq(Plain) /\ Head(links) \in LinkType
        /\ \A i \in 1 .. Len(links') : links'[i].suffix \in Seq(Plain)
    BY <1>1, <1>2, <2>1, TailPlain
  <2>3. Head(links) \in PlainLink
    <3>1. Head(links).prefix \in Prefixes
      BY <2>1 DEF MonikerClass, Prefixes
    <3> QED
      BY <2>2, <3>1 DEF LinkType, PlainLink
  <2>4. Chains(World')
    BY <1>1, <1>2, <2>1, JoinsChains
  <2>5. World'.heap[last'].link \in PlainLink
    BY <2>1, <2>3 DEF Joins
  <2> QED
    BY <1>3, <2>2, <2>4, <2>5 DEF ChainInv
<1>5. CASE Follows(World, World') /\ ~ createMoniker
  <2>1. Chains(World')
    BY <1>1, <1>2, <1>5, FollowsChains
  <2>2. /\ last' \in {last, Null}
        /\ \/ links' = links
           \/ links # <<>> /\ links' = Tail(links)
           \/ \E name \in Name : links' = Links(name)
    BY <1>5, LinksGo
  <2>3. last' # Null => World'.heap[last'].link \in PlainLink
    <3> SUFFICES ASSUME last' # Null
                 PROVE  World'.heap[last'].link \in PlainLink
      OBVIOUS
    <3>1. last' = last /\ last \in Alive(World) /\ last \in Alive(World')
      BY <1>1, <2>2
    <3> QED
      BY <1>2, <1>5, <3>1 DEF Follows, KeepsLeft
  <2>4. ASSUME NEW name \in Name, links' = Links(name)
        PROVE  \A i \in 1 .. Len(links') : links'[i].suffix \in Seq(Plain)
    <3>1. DOMAIN Links(name) = 1 .. Len(Links(name))
      BY LinksAreLinks
    <3> QED
      BY <2>4, <3>1 DEF PlainSuffixes
  <2>5. \A i \in 1 .. Len(links') : links'[i].suffix \in Seq(Plain)
    <3>1. CASE links' = links
      BY <1>2, <3>1
    <3>2. CASE links # <<>> /\ links' = Tail(links)
      BY <1>1, <1>2, <3>2, TailPlain
    <3> QED
      BY <2>2, <2>4, <3>1, <3>2
  <2> QED
    BY <1>3, <2>1, <2>3, <2>5 DEF ChainInv
<1> QED
  BY <1>1, <1>4, <1>5

\* Where no suffix of a name has characters that mean something in names, unparseName
\* gives of each chain of monikers that a call makes, however many of its links were
\* lost, a name that parseName makes the same chain of.
THEOREM NamesAreRestored ==
    ASSUME PlainSuffixes
    PROVE  Spec => []NameRestored
<1>1. Init => ChainInv
  <2> SUFFICES ASSUME Init PROVE ChainInv
    OBVIOUS
  <2>1. DOMAIN World.heap = {} /\ last = Null /\ links = <<>>
    BY DEF Init, World
  <2>2. Chains(World)
    BY <2>1 DEF Chains, Founded, Alive
  <2> QED
    BY <2>1, <2>2 DEF ChainInv
<1>2. IInv /\ ChainInv /\ [Next]_vars => ChainInv'
  BY NextChains
<1>3. IInv /\ ChainInv => NameRestored
  <2> SUFFICES ASSUME IInv, ChainInv, last # Null
               PROVE  Links(unparseName(ChainOf(last))) = ChainOf(last)
    BY DEF NameRestored
  <2>1. /\ World.heap = heap /\ Alive(World) = DOMAIN heap /\ last \in DOMAIN heap
        /\ Consistent(World, Outside)
    BY OutsideIs DEF IInv
  <2>2. /\ Null \notin DOMAIN heap /\ LeftIn(DOMAIN heap \cup {Null}, heap)
    BY <2>1, LeftsAre
  <2>3. /\ Founded(heap) /\ heap[last].link \in PlainLink
        /\ \A o \in DOMAIN heap : heap[o].left # Null => heap[heap[o].left].link \in PlainLink
    BY <2>1 DEF ChainInv, Chains
  <2>4. ChainOf(last) \in Seq(PlainLink)
    BY <2>1, <2>2, <2>3, ChainIsPlain
  <2> QED
    BY <2>4, UnparsedIsRead
<1> QED
  BY <1>1, <1>2, <1>3, Inductive, PTL DEF Spec

\* Names without the character that escapes are such names.
LEMMA PlainNames ==
    ASSUME \A name \in Name : \A i \in 1 .. Len(name) : name[i] # "\\"
    PROVE  PlainSuffixes
<1> SUFFICES ASSUME NEW name \in Name, NEW i \in DOMAIN Links(name)
             PROVE  Links(name)[i].suffix \in Seq(Plain)
  BY DEF PlainSuffixes
<1>1. name \in Seq(STRING) /\ Plain \in SUBSET STRING /\ Plain \subseteq Plain
  BY NameAssumption DEF Plain
<1>2. Links(name) \in LinksOf(Plain)
  BY <1>1, LinksType
<1>3. Links(name)[i] \in [prefix : Seq(STRING), suffix : Seq(Plain)]
  <2>1. \A S, q : q \in Seq(S) => \A j \in DOMAIN q : q[j] \in S
    OBVIOUS
  <2> QED
    BY <1>2, <2>1 DEF LinksOf
<1> QED
  BY <1>3

\* So it is of all names in which nothing is escaped.
THEOREM UnescapedNamesAreRestored ==
    ASSUME \A name \in Name : \A i \in 1 .. Len(name) : name[i] # "\\"
    PROVE  Spec => []NameRestored
BY PlainNames, NamesAreRestored

=============================================================================
