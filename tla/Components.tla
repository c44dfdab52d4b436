----------------------------- MODULE Components -----------------------------
(***************************************************************************)
(* Creation of objects by name (libs/liboaf: OAF.cpp, CClassInfo.cpp): a   *)
(* name is parsed into a chain of monikers (liboaf-core/CMoniker.cpp), the *)
(* last of which is asked for an object.  Monikers, devices and documents  *)
(* are objects of plugins: libraries that are loaded when needed, with one *)
(* factory each and a counter of objects (CFactory.cpp, CCommon.h and      *)
(* main.cpp of each), and that may be unloaded when the counter is 0.      *)
(*                                                                         *)
(* Objects go when nothing refers to them (CUnknown, URef).  The deletions *)
(* that a call sets off are steps of their own, one for each object, and   *)
(* nothing else happens before they are done.                              *)
(***************************************************************************)
EXTENDS Integers, Sequences, FiniteSets

CONSTANTS
    Object,     \* bound: the addresses at which objects can be
    Null,
    Name,       \* bound: the names that are given, sequences of characters and words
    Wanted,     \* the kinds of objects asked for by name
    MaxHeld,    \* bound: the references that the program has at a time
    MaxCount    \* bound: no call begins when a counter of objects is beyond it

ASSUME NullAssumption == Null \notin Object /\ IsFiniteSet(Object)

VARIABLES
    heap,       \* the objects: from addresses to their fields
    libs,       \* the libraries, see Unloaded
    held,       \* how many references the program has to an address
    links,      \* of a name that is being resolved: the links that are not made yet,
    last,       \* the last moniker so far,
    wanted      \* and the kind of object asked for; NoKind between calls

vars == <<heap, libs, held, links, last, wanted>>

-----------------------------------------------------------------------------
(* The descriptions of classes in the plugins' *.oaf files.  One class of  *)
(* devices stands for three, one of documents for those and their editors. *)

Library == {"std", "io", "txt"}
Class   == {"StdFactory", "StdMoniker", "IoFactory", "IoMoniker", "Device",
            "TxtFactory", "Document"}

LibraryOf(c) == CASE c \in {"StdFactory", "StdMoniker"} -> "std"
                  [] c \in {"IoFactory", "IoMoniker", "Device"} -> "io"
                  [] OTHER -> "txt"

FactoryOf(l) == CASE l = "std" -> "StdFactory" [] l = "io" -> "IoFactory" [] OTHER -> "TxtFactory"

NoKind == "none"
Kind   == {"factory", "moniker", "device", "document"}
ASSUME WantedAssumption == Wanted \subseteq Kind

KindOf(c) == CASE c \in {"StdMoniker", "IoMoniker"} -> "moniker"
               [] c = "Device" -> "device"
               [] c = "Document" -> "document"
               [] OTHER -> "factory"

NoClass == "none"
\* The answer of the query by which createMoniker finds the class for a prefix.
MonikerClass(prefix) ==
    CASE prefix \in {<<"!">>, <<"cid", ":">>, <<"new", ":">>} -> "StdMoniker"
      [] prefix = <<"file", ":">> -> "IoMoniker"
      [] OTHER -> NoClass

-----------------------------------------------------------------------------
(* parseName and unparseName.                                              *)

Link(prefix, suffix) == [prefix |-> prefix, suffix |-> suffix]
LinkType == [prefix : Seq(STRING), suffix : Seq(STRING)]

Added(s, c) ==
    IF s.inSuffix THEN [s EXCEPT !.suffix = Append(@, c), !.escaped = FALSE]
    ELSE [s EXCEPT !.prefix = Append(@, c), !.escaped = FALSE]

\* Links without a prefix are ignored.
Emitted(s) ==
    IF s.inSuffix /\ s.prefix # <<>> THEN Append(s.links, Link(s.prefix, s.suffix)) ELSE s.links

\* Fault: the suffix is not cleared after a link.
Scanned_Unclear(s, c) ==
    IF s.escaped THEN Added(s, c) ELSE
    CASE c = "\\"  -> [s EXCEPT !.escaped = TRUE]
      [] c = "#"   -> [s EXCEPT !.links = Emitted(s), !.prefix = <<>>, !.inSuffix = FALSE]
      [] c = "!"   -> [s EXCEPT !.links = Emitted(s), !.prefix = <<"!">>, !.inSuffix = TRUE]
      [] c = ":" /\ ~ s.inSuffix ->
            [s EXCEPT !.prefix = IF @ = <<>> THEN @ ELSE Append(@, ":"), !.inSuffix = TRUE]
      [] OTHER     -> Added(s, c)

\* One character.
Scanned(s, c) ==
    IF s.escaped THEN Added(s, c) ELSE
    CASE c = "\\"  -> [s EXCEPT !.escaped = TRUE]
      [] c = "#"   -> [s EXCEPT !.links = Emitted(s), !.prefix = <<>>, !.suffix = <<>>,
                                !.inSuffix = FALSE]
      [] c = "!"   -> [s EXCEPT !.links = Emitted(s), !.prefix = <<"!">>, !.suffix = <<>>,
                                !.inSuffix = TRUE]
      [] c = ":" /\ ~ s.inSuffix ->
            [s EXCEPT !.prefix = IF @ = <<>> THEN @ ELSE Append(@, ":"), !.inSuffix = TRUE]
      [] OTHER     -> Added(s, c)

Links(name) ==
    LET scan[i \in 0 .. Len(name)] ==
            IF i = 0 THEN [links |-> <<>>, prefix |-> <<>>, suffix |-> <<>>,
                           inSuffix |-> FALSE, escaped |-> FALSE]
            ELSE Scanned(scan[i - 1], name[i])
    IN  Emitted(scan[Len(name)])

ASSUME NameAssumption == Name \subseteq Seq(STRING)

unparseName(chain) ==
    LET unparse[i \in 0 .. Len(chain)] ==
            IF i = 0 THEN <<>>
            ELSE IF chain[i].prefix = <<"!", ":">>
                 THEN unparse[i - 1] \o <<"!">> \o chain[i].suffix
                 ELSE unparse[i - 1] \o (IF unparse[i - 1] = <<>> THEN <<>> ELSE <<"#">>)
                        \o chain[i].prefix \o chain[i].suffix
    IN  unparse[Len(chain)]

-----------------------------------------------------------------------------
(* Objects and libraries.  The operators are about a world: w.heap and     *)
(* w.libs.                                                                 *)

World == [heap |-> heap, libs |-> libs]
Becomes(w) == heap' = w.heap /\ libs' = w.libs

Alive(w) == DOMAIN w.heap
Of(w, l) == {o \in Alive(w) : LibraryOf(w.heap[o].class) = l}

\* A reference more, or one less.
Ref(w, o)   == IF o = Null THEN w ELSE [w EXCEPT !.heap[o].refs = @ + 1]
Unref(w, o) == IF o = Null THEN w ELSE [w EXCEPT !.heap[o].refs = @ - 1]

\* Where the next object will be.
Fresh(w) == CHOOSE o \in Object : o \notin Alive(w)

\* Fault: the object is not counted by its library.
New_Uncounted(w, c, f) ==
    LET o == Fresh(w)
        object == [class |-> c, refs |-> 0, factory |-> f, left |-> Null,
                   link |-> Link(<<>>, <<>>), path |-> <<>>, opened |-> <<>>]
    IN  Ref([heap |-> [p \in Alive(w) \cup {o} |-> IF p = o THEN object ELSE w.heap[p]],
             libs |-> [w.libs EXCEPT
                        ![LibraryOf(c)].instance = IF KindOf(c) = "factory" THEN o ELSE @]], f)

\* The constructor: an object nobody refers to, which refers to its factory.
New(w, c, f) ==
    LET o == Fresh(w)
        object == [class |-> c, refs |-> 0, factory |-> f, left |-> Null,
                   link |-> Link(<<>>, <<>>), path |-> <<>>, opened |-> <<>>]
        l == LibraryOf(c)
    IN  Ref([heap |-> [p \in Alive(w) \cup {o} |-> IF p = o THEN object ELSE w.heap[p]],
             libs |-> [w.libs EXCEPT
                        ![l].objects = @ + 1,
                        ![l].instance = IF KindOf(c) = "factory" THEN o ELSE @]], f)

\* QLibrary: resolve loads a library that is not loaded, and then the description
\* whose QLibrary this is may unload it.
Loaded(w, l) ==
    IF w.libs[l].loaded THEN w
    ELSE [w EXCEPT !.libs[l].loaded = TRUE, !.libs[l].ours = TRUE]

Unloaded == [loaded |-> FALSE, ours |-> FALSE, objects |-> 0, instance |-> Null]

\* CFactory::instance, in a library that is loaded for it.
WithFactory(w, l) ==
    IF w.libs[l].instance # Null THEN Loaded(w, l) ELSE New(Loaded(w, l), FactoryOf(l), Null)

\* Fault: the factory is not kept by what it creates.
Created_Unkept(w, c) ==
    LET v == WithFactory(w, LibraryOf(c))
    IN  IF KindOf(c) = "factory" THEN v ELSE New(v, c, Null)

\* CClassInfo::createObject when the library can be loaded, and what it returns.
Created(w, c) ==
    LET v == WithFactory(w, LibraryOf(c))
    IN  IF KindOf(c) = "factory" THEN v ELSE New(v, c, v.libs[LibraryOf(c)].instance)

CreatedObject(w, c) ==
    LET v == WithFactory(w, LibraryOf(c))
    IN  IF KindOf(c) = "factory" THEN v.libs[LibraryOf(c)].instance ELSE Fresh(v)

\* A library that is not loaded may be impossible to load.
MayFail(c) == ~ libs[LibraryOf(c)].loaded

-----------------------------------------------------------------------------
(* The program.                                                            *)

\* Nothing is to be deleted.
Quiet == \A o \in DOMAIN heap : heap[o].refs > 0

HeldIn(h) == LET sum[S \in SUBSET Object] ==
                    IF S = {} THEN 0
                    ELSE LET o == CHOOSE x \in S : TRUE IN h[o] + sum[S \ {o}]
             IN  sum[Object]

\* Bound: there is memory for n more objects.
Room(n) == Cardinality(Object \ DOMAIN heap) >= n

\* A call may begin: there is memory for all of it, and the bounds are not reached.
Idle == Quiet /\ wanted = NoKind
Begins(n) ==
    /\ Idle
    /\ HeldIn(held) < MaxHeld
    /\ \A l \in Library : libs[l].objects <= MaxCount
    /\ Room(n)

\* The program keeps what a call returned, unless it is NULL.
Keeps(o) == held' = IF o = Null THEN held ELSE [held EXCEPT ![o] = @ + 1]

createFromCID(c) ==
    /\ Begins(2)
    /\ Becomes(Ref(Created(World, c), CreatedObject(World, c)))
    /\ Keeps(CreatedObject(World, c))
    /\ UNCHANGED <<links, last, wanted>>

\* CFactory::createObject of a factory that the program has.
FactoryCreates(f, c) ==
    /\ Begins(1)
    /\ held[f] > 0
    /\ KindOf(c) # "factory" /\ heap[f].class = FactoryOf(LibraryOf(c))
    /\ Becomes(Ref(New(World, c, f), Fresh(World)))
    /\ Keeps(Fresh(World))
    /\ UNCHANGED <<links, last, wanted>>

Release(o) ==
    /\ Idle
    /\ held[o] > 0
    /\ held' = [held EXCEPT ![o] = @ - 1]
    /\ Becomes(Unref(World, o))
    /\ UNCHANGED <<links, last, wanted>>

-----------------------------------------------------------------------------
(* createFromName.                                                         *)

parseName(name, kind) ==
    /\ Begins(2 * Len(Links(name)) + 3)
    /\ links' = Links(name)
    /\ last' = Null
    /\ wanted' = kind
    /\ UNCHANGED <<heap, libs, held>>

\* The next link: its moniker refers to the last one, and takes its place.
createMoniker ==
    /\ Quiet /\ wanted # NoKind /\ links # <<>> /\ Room(2)
    /\ LET c == MonikerClass(Head(links).prefix)
           m == CreatedObject(World, c)
       IN  /\ c # NoClass
           /\ Becomes([Ref(Created(World, c), m) EXCEPT
                         !.heap[m].left = last, !.heap[m].link = Head(links)])
           /\ last' = m
    /\ links' = Tail(links)
    /\ UNCHANGED <<held, wanted>>

\* No such moniker, or its library cannot be loaded: the chain goes on without it.
LinkLost ==
    /\ Quiet /\ wanted # NoKind /\ links # <<>>
    /\ LET c == MonikerClass(Head(links).prefix) IN c = NoClass \/ MayFail(c)
    /\ links' = Tail(links)
    /\ UNCHANGED <<heap, libs, held, last, wanted>>

\* The end of a call whose moniker came to w with object o: what is not of the
\* kind asked for is given up, and the chain of monikers with it.
Resolves(w, o) ==
    LET kept == IF o # Null /\ KindOf(w.heap[o].class) = wanted THEN o ELSE Null
    IN  /\ Becomes(Unref(Ref(w, kept), last))
        /\ Keeps(kept)
        /\ last' = Null
        /\ wanted' = NoKind
        /\ UNCHANGED links

Resolving(prefix) ==
    /\ Quiet /\ wanted # NoKind /\ links = <<>> /\ Room(3)
    /\ last # Null /\ heap[last].link.prefix = prefix

\* CMonikerSTD::resolve of cid:, whose suffix is a class ...
ResolveCid ==
    /\ Resolving(<<"cid", ":">>)
    /\ \E c \in Class :
          /\ heap[last].link.suffix = <<c>>
          /\ Resolves(Created(World, c), CreatedObject(World, c))

\* ... or not, or one of a library that cannot be loaded ...
ResolveCidFails ==
    /\ Resolving(<<"cid", ":">>)
    /\ \A c \in Class : heap[last].link.suffix = <<c>> => MayFail(c)
    /\ Resolves(World, Null)

\* ... and of new: and !, which ask the moniker on the left itself, not the object
\* it is a moniker of: no moniker is a factory or a collection.
ResolveOfLeft ==
    /\ Resolving(<<"new", ":">>) \/ Resolving(<<"!">>)
    /\ Resolves(World, Null)

\* CMonikerIO::resolve: a device.
MonikerDevice == New(World, "Device", heap[last].factory)
ResolveDevice ==
    /\ Resolving(<<"file", ":">>)
    /\ wanted = "device"
    /\ Resolves(MonikerDevice, Fresh(World))

\* Fault: a document is registered in no factory.
Registered_Never(w, d, p) == [w EXCEPT !.heap[d].path = p]

\* CTextDocument::setIODevice of the new document d.
Registered(w, d, p) ==
    LET f == w.heap[d].factory
        opened == w.heap[f].opened
    IN  [w EXCEPT !.heap[d].path = p,
                  !.heap[f].opened = [q \in DOMAIN opened \cup {p} |-> IF q = p THEN d ELSE opened[q]]]

\* A document, when the type of the file is one of documents: the one that has the
\* path already, or the new one.
ResolveDocument ==
    /\ Resolving(<<"file", ":">>)
    /\ wanted = "document"
    /\ LET w == Created(MonikerDevice, "Document")
           d == CreatedObject(MonikerDevice, "Document")
           p == heap[last].link.prefix \o heap[last].link.suffix
           opened == w.heap[w.heap[d].factory].opened
       IN  IF p \in DOMAIN opened THEN Resolves(w, opened[p])
           ELSE Resolves(Registered(w, d, p), d)

\* No class extends such a device to what is wanted, or it cannot be loaded.
ResolveNoExtender ==
    /\ Resolving(<<"file", ":">>)
    /\ wanted # "device"
    /\ Resolves(MonikerDevice, Null)

\* A name without a link.
NothingParsed ==
    /\ Quiet /\ wanted # NoKind /\ links = <<>> /\ last = Null
    /\ wanted' = NoKind
    /\ UNCHANGED <<heap, libs, held, links, last>>
-----------------------------------------------------------------------------
(* The end of objects, and of libraries.                                   *)

\* Fault: the factory that goes is still the one to be used.
Destructed_Stays(w, o) ==
    [heap |-> [p \in Alive(w) \ {o} |-> w.heap[p]],
     libs |-> [w.libs EXCEPT ![LibraryOf(w.heap[o].class)].objects =
                IF LibraryOf(w.heap[o].class) = "io" THEN @ + 1 ELSE @ - 1]]

\* Fault: every library counts upwards.
Destructed_Up(w, o) ==
    LET c == w.heap[o].class
    IN  [heap |-> [p \in Alive(w) \ {o} |-> w.heap[p]],
         libs |-> [w.libs EXCEPT
                    ![LibraryOf(c)].objects = @ + 1,
                    ![LibraryOf(c)].instance = IF KindOf(c) = "factory" THEN Null ELSE @]]

\* ~CFactory, and ~CCommon, which in the library of devices counts upwards.
Destructed(w, o) ==
    LET c == w.heap[o].class
    IN  [heap |-> [p \in Alive(w) \ {o} |-> w.heap[p]],
         libs |-> [w.libs EXCEPT
                    ![LibraryOf(c)].objects = IF LibraryOf(c) = "io" THEN @ + 1 ELSE @ - 1,
                    ![LibraryOf(c)].instance = IF KindOf(c) = "factory" THEN Null ELSE @]]

\* ~CTextDocument: the factory forgets the path.
Forgotten(w, o) ==
    LET f == w.heap[o].factory
        opened == w.heap[f].opened
    IN  IF w.heap[o].path = <<>> THEN w
        ELSE [w EXCEPT !.heap[f].opened = [q \in DOMAIN opened \ {w.heap[o].path} |-> opened[q]]]

\* Fault: a moniker that goes keeps the one on its left.
Delete_KeepsLeft(o) ==
    /\ heap[o].refs = 0
    /\ Becomes(Unref(Destructed(Forgotten(World, o), o), heap[o].factory))
    /\ UNCHANGED <<held, links, last, wanted>>

\* CUnknown::unref has come to 0: the object goes, and its references with it.
Delete(o) ==
    /\ heap[o].refs = 0
    /\ Becomes(Unref(Unref(Destructed(Forgotten(World, o), o), heap[o].factory), heap[o].left))
    /\ UNCHANGED <<held, links, last, wanted>>

\* Fault: a factory alone does not count.
dllCanUnloadNow_Factory(l) == libs[l].objects <= 1

dllCanUnloadNow(l) == libs[l].objects = 0

\* unloadUnusedLibrary; QLibrary unloads what it has loaded itself.
UnloadsLibrary(l) == libs[l].loaded /\ libs[l].ours /\ dllCanUnloadNow(l)

unloadUnusedLibraries ==
    /\ Idle
    /\ libs' = [l \in Library |-> IF UnloadsLibrary(l) THEN Unloaded ELSE libs[l]]
    /\ UNCHANGED <<heap, held, links, last, wanted>>

\* The next descriptions have a QLibrary of their own each, which loaded nothing.
unloadClassInfo ==
    /\ Idle
    /\ libs' = [l \in Library |-> [libs[l] EXCEPT !.ours = FALSE]]
    /\ UNCHANGED <<heap, held, links, last, wanted>>

-----------------------------------------------------------------------------
Init ==
    /\ heap = <<>>
    /\ libs = [l \in Library |-> Unloaded]
    /\ held = [o \in Object |-> 0]
    /\ links = <<>> /\ last = Null /\ wanted = NoKind

Next ==
    \/ \E c \in Class : createFromCID(c)
    \/ \E f \in Object, c \in Class : FactoryCreates(f, c)
    \/ \E o \in Object : Release(o)
    \/ \E name \in Name, kind \in Wanted : parseName(name, kind)
    \/ createMoniker \/ LinkLost
    \/ ResolveCid \/ ResolveCidFails \/ ResolveOfLeft
    \/ ResolveDevice \/ ResolveDocument \/ ResolveNoExtender \/ NothingParsed
    \/ \E o \in DOMAIN heap : Delete(o)
    \/ unloadUnusedLibraries \/ unloadClassInfo

Spec == Init /\ [][Next]_vars

-----------------------------------------------------------------------------
(* Properties.                                                             *)

Fields == {"class", "refs", "factory", "left", "link", "path", "opened"}

\* An object has a class, counts and references of the right kind; a library is
\* counted, and unloaded by who loaded it.
TypeOK ==
    /\ DOMAIN heap \subseteq Object
    /\ \A o \in DOMAIN heap :
          /\ DOMAIN heap[o] = Fields
          /\ heap[o].class \in Class /\ heap[o].refs \in Nat
          /\ {heap[o].factory, heap[o].left} \subseteq Object \cup {Null}
          /\ heap[o].link \in LinkType
          /\ heap[o].path \in Seq(STRING)
    /\ libs \in [Library -> [loaded : BOOLEAN, ours : BOOLEAN, objects : Nat,
                              instance : Object \cup {Null}]]
    /\ held \in [Object -> Nat]
    /\ links \in Seq(LinkType)
    /\ last \in Object \cup {Null}
    /\ wanted \in Kind \cup {NoKind}

\* No code runs that has been unloaded: the library of every object that there is
\* stays loaded, those included that the program has forgotten or that only other
\* plugins refer to.  At its end the program calls cid () of all that is left, after
\* it has unloaded what it could (qtextedit/src/main.cpp).
CodeStays == \A o \in DOMAIN heap : libs[LibraryOf(heap[o].class)].loaded

\* The counter of an object is the number of references to it, by the program, by
\* the call that is under way, by monikers and by what its factory has created; and
\* none of them leads to an object that is gone.
RefsExact ==
    /\ \A o \in DOMAIN heap :
          heap[o].refs = held[o] + (IF last = o THEN 1 ELSE 0)
                         + Cardinality({p \in DOMAIN heap : heap[p].factory = o})
                         + Cardinality({p \in DOMAIN heap : heap[p].left = o})
    /\ \A o \in DOMAIN heap : {heap[o].factory, heap[o].left} \subseteq DOMAIN heap \cup {Null}
    /\ \A o \in Object : held[o] > 0 \/ last = o => o \in DOMAIN heap

\* Each library has one factory at a time, which all of its objects have, so that
\* its list of documents is the only one: no file is two documents.
OneOfEach ==
    /\ \A l \in Library : {o \in DOMAIN heap : heap[o].class = FactoryOf(l)} = {libs[l].instance} \ {Null}
    /\ \A o \in DOMAIN heap : KindOf(heap[o].class) # "factory" =>
          heap[o].factory = libs[LibraryOf(heap[o].class)].instance
    /\ \A d, e \in DOMAIN heap : heap[d].path = heap[e].path /\ heap[d].path # <<>> => d = e

\* The chain that ends in moniker m.
ChainOf(m) ==
    LET chain[o \in DOMAIN heap \cup {Null}] ==
            IF o = Null THEN <<>> ELSE Append(chain[heap[o].left], heap[o].link)
    IN  chain[m]

\* What has no meaning in a suffix; and the names whose suffixes have nothing else.
Plain == STRING \ {"\\", "#", "!"}
PlainSuffixes == \A name \in Name : \A i \in DOMAIN Links(name) : Links(name)[i].suffix \in Seq(Plain)

\* The name of a chain of monikers is a name for that chain, if names are PlainSuffixes.
NameRestored == last # Null => Links(unparseName(ChainOf(last))) = ChainOf(last)

\* A library that has no objects any more may be unloaded, whichever way they went;
\* the library of devices is left out.
UnusedMayGo == \A l \in Library \ {"io"} : Of(World, l) = {} => dllCanUnloadNow(l)

\* What OAF.h says of unloadUnusedLibraries: it is not so of the library of devices
\* once it had an object.
AllUnusedMayGo == \A l \in Library : Of(World, l) = {} => dllCanUnloadNow(l)
=============================================================================
