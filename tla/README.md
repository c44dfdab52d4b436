# liboaf in TLA+

Models of the parts of liboaf in which several objects, or several threads,
must agree after every step, with the TLC runs that check them on small
instances, and TLAPS proofs for the tree of nodes, the indexes of collections,
proxies, attributes, the progress of operations, the editor and the objects of
plugins. Paths are those of the repository; the modules quote class and method names as the code has them.

Contents: 1 the system, 2 the modules, 3 the runs, 4 the proofs, 5 what the
code does otherwise than it says, 6 what is not modelled, 7 the plan.

## 1. The system

liboaf is a component framework over Qt: objects with counted references
(`CUnknown`, `URef`) export interfaces; plugins are libraries with factories;
objects are named by monikers. On top of it there are attributes with
announcements, trees of such objects, composed user interfaces, documents, and
a small editor. There are no tests in the repository; the headers under `idl/`
state what implementations must do. Release is the default build, in which
`Q_ASSERT` checks nothing.

| component (files) | state | operations | interacts by | correct when |
|---|---|---|---|---|
| References: `liboaf-core/src/CUnknown.cpp`, `idl/IUnknown.h` | `m_refs`, the set of objects | ref, unref, assignment of `URef` | everyone calls it | nobody refers to a deleted object, nothing is left over |
| Tree: `liboaf-std/src/CTreeNode.cpp` 1-670 | five links per node, `m_object` of proxies | insertBefore, insertAfter, appendChild, replaceChild, removeChild, destructor, walks, rows, compare | nodes own children, proxies own objects | the links are ordered lists; a walk is preorder |
| Announcing tree and collections: same file, 670-1060 | listeners of each node, `m_index` | as above, announced BEFORE/AFTER/CANCELLED at every level up to the root | callbacks of listeners, which may veto | the index has exactly the nodes below |
| Proxies: same file, 1060-1299 | `m_object`, an own list of children | as above, forwarded to the object | announcements of the object | all proxies show the object's list |
| Attributes: `liboaf-core/src/CPropertyBag.cpp` | `m_values`; slice: `m_props`, `m_prefix` | getValue(s), setValue(s), attach, XML | announcements, vetoes | what changes is announced, only what may change changes |
| Listeners: `liboaf-core/src/CNotifySource.cpp` | `m_listeners`, `m_notify_in_progress` | addListener, removeListener, notifyListeners | callbacks in the order of addresses | no change during an announcement |
| Progress: `liboaf-std/src/CProgressWatcher.cpp`, `liboaf-gui/src/CProgressWidget.cpp` | status, values, a mutex; widget: active, shown | started, progress..., finished; activate | threads, a mutex, queued signals | the screen follows the operation |
| Creation: `liboaf/src/OAF.cpp`, `CClassInfo.cpp`, `CMoniker.cpp` | class registry, factories | parse and unparse monikers, createFrom..., unload | plugins export a factory and a counter | names survive a round trip; used libraries stay |
| Plugins `liboaf-std`, `liboaf-io` | counters of objects, devices | createObject, resolve, setInfo, getInfo | factories | counters return to zero |
| Documents: plugin `liboaf-txt` | `m_opened_files`, `m_path`, Qt's text | setIODevice, load, save, set path | attributes, announcements | one document per path |
| Query language: `liboaf-oql`, `liboaf/src/CFunctionFactory.cpp`, `OAF::query` | expressions, clauses, the classes found | parse, fold constants, eval, sort, limit | called by whoever creates objects by what they can do | three-valued logic; an answer in the order asked for |
| User interfaces: `liboaf-gui/src/CUIManager.cpp`, `CUIContainer.cpp` | containers, parts, counters of folders | install, remove, addUI, removeUI, purgeUI | parts share folders | a folder lives as long as a part uses it |
| Recent files: `liboaf-std/src/CRecentFiles.cpp` | list, stored list | push, clear, stack | settings shared by processes | no duplicates, at most m_max |
| MIME types: `liboaf-std/src/HelpersMIME.cpp` | types read from XML | lookupMimeTypes, mimeSuccessors | pure after start | best candidate first |
| Search in views: `liboaf-gui/src/ViewFindHelper.cpp` | matches, cursor | findMatched, findNext, findPrev | signals of the model | the cursor stays in the matches |
| Editor: `programs/qtextedit` | document, `m_is_modified` | new, open, save, save as, close | documents, dialogs | no work is lost unasked |
| Widgets, HTML and LaTeX output, icons, streams | none that steps relate | | Qt | |

Hard behaviours: deletion that cascades through destructors; announcements that
are vetoed half-way; callbacks that change a list its caller is changing;
reports of several threads, some dropped, arriving as queued signals in
another. `PROJECT.json` lists each hazard at its line.

## 2. The modules

### TreeNode, OrderedTree, TreeNodeRefinement

`TreeNode` is `CTreeNode` with the memory it lives in: a node is an address,
allocated, linked, referenced and deleted. One action per method; a method is
atomic, as the code is used by one thread, except that `replaceChild` is its
two halves and deletion one step per object: `dying` holds the objects whose
`delete this` is under way, so each destructor that a dropped reference sets
off is a step, and clients wait until all is done. `held` counts the `URef`s of
clients. An insertion unwraps a proxy it is given, and wraps a node that has a
parent in a new proxy, as `insertBefore` and `insertAfter` do (the class of the
proxy comes from `createFromObject`; here any node may be one).

`Cautious` limits clients to insertions that do not put a node below what it
owns. The code's own check (`CTreeNode.cpp:134`) follows parents only.

`OrderedTree` is the promise of `idl/ITreeNode.h`: every node has an ordered
list of children. `TreeNodeRefinement` reads the lists off the pointers and
shows `TreeNode` to implement it (`RefinesOrderedTree`), and that insertions go
where they were asked (`InsertsWhereAsked`).

### TreeWalk

The static helpers as operators over a forest given by `m_parent`: `nextNode`,
`previousNode`, `firstChildNode`, `lastChildNode`, `commonAncestorContainer`,
`compare`, `row4child`, `child4row`. The only state is a walk: at each node it
enters the children or passes over them. The reference definitions are by
paths from the root, independent of the code's loops.

### CollectionIndex

`CNotifyTreeNode` and `CCollectionTreeNode`. One step is one level of one
announcement: the index of that level changes, then its listeners hear it, one
of whom may veto a BEFORE. `Liberties` are things clients may do that a
collection does not expect.

### CollectionProxy

One object and its proxies. A call on the object, or on a proxy (which the
object hears with the proxy as origin), announces BEFORE, AFTER or CANCELLED to
the proxies in any order; each changes its own list as `notify` does. Children
are named by the nodes they stand for. `Vetoes` says whose change listeners may
veto.

### NotifyPropertyBag

`CPropertyBag`, `CNotifyPropertyBag`, and one `CSlicePropertyBag` attached to
it, whose listener is `View`. An announcement is a record with the values it
carries; each listener hears it in a step of its own. `copy` and `unsettled`
are what listeners make of the announcements; they are not in the code and the
properties are about them. An attribute is a key with flags: stored or virtual
(computed by a subclass from a stored one), writeable, AUTONOTIFY. A computed
AUTONOTIFY attribute is announced if the subclass lists it (`Listed`), since
`getValues` goes through `enumKeys`.

### Progress

`CProgressWatcher` and `CProgressWidget` together. A report is: change the
state, try the mutex (or be dropped), `notify` in the reporting thread, emit
signals one by one, unlock. The GUI thread handles the signals in order and
switches the widget on and off in between; `activate` has two steps, because
reporters read `m_is_active` without a lock. Reads and writes of the plain
variables are taken as sequentially consistent: between them the code passes an
atomic operation of the mutex on one side and of Qt's emission of a signal on
the other. `bar` is the QProgressBar with its range: `updateOperation` sends the
maximum ahead of the value, `setValue` refuses what is out of the range, and
`setMaximum` resets a bar whose value no longer fits. Its minimum is 0
throughout, since maxima are not negative, and the signal that sets it to 0 is
left out. `current` records whether the widget has heard of the last change;
it is not in the code.

`Overlap = FALSE` limits the starting and ending of operations to moments at
which no report is being sent; the progress itself is reported by all threads
at any time.

### UIManager

`CUIManager` with the containers of `CUIContainer.cpp`, a chain of managers and
the parts given to them. A part is the sequence of the tags of its XML, and one
step is one tag: the actions have the names of the methods that the tags lead
to. `m_uidescs` is the second description, with pointers, that a removal
follows; `refs` is the property `oaf:refs` of the folders; `layout` is what Qt
shows, `born` the order of creation by which `children()` lists objects.
A folder that is deleted and created again has its old name in the model, as a
new object may have its old address. `RemovesUsed` lets containers go while
parts are still in them. `OneDepth` is about the descriptions: no two folders of
one name at different depths of one container, for `findChild` searches the
whole container. `SeparatorsApart`, which only proofs ask for, is about them
too: a separator is an object of its own, and the model names it by its place
and tag, so that it must not be named like a folder. The promise is stated without the counters: what the present
parts ask for is what is shown (`MergeExact`).

### Query

`OAF::query`, the parser of `liboaf-oql` with its folding of constant calls,
the functions, and the comparator of the answer. A token is a step; an operand
is pushed, a call replaces its arguments. An expression is its type and its
value for each class, which is what the code can tell of it (`at`), beside what
its text means (`means`), which is not in the code: three-valued logic, with no
folding and no early end. `Sorted` gives every sequence that `std::sort` may
produce with the comparator of the code: any one that is free of inversions.

### Editor

The windows of `qtextedit` (`CMainWindow`), the text documents they show
(`CTextDocument`) and the cache of the factory (`CFactory::m_opened_files`). A
handler asks, saves and then acts; these are the steps in `calls`, taken one at
a time, though nothing else happens between them, since the dialogs are modal.
A window that is closed is deleted later, by the event loop, and shares its
document until then. `setPath` stands for another component that has a
document and sets its path, for the program itself never gets to do it:
accepting Save As calls a method through a NULL pointer (`SaveAsAccepted`),
and that is the end of the program. Devices may not open, and dialogs may be
dismissed. `unsaved`, `answered` and `failed` are not in the code: they say
whose text is nowhere but in memory, whom the user was asked about since it
changed, and which of them were to be saved since and were not.

### Components

`OAF.cpp` with the plugins of monikers, devices and documents. A call by name
is the steps of its loop: each link makes a moniker (or is lost, when there is
none for its prefix or its library cannot be loaded), the last one resolves.
In between, objects whose counter came to 0 are deleted one at a time, with
what their destructors drop, and nothing else moves until all are gone
(`Quiet`), since the code does it in the same thread of control. The heap is a
function from the addresses in use to objects; `held` counts what the program
refers to. `libs` has of each library what `QLibrary` and the library know:
`loaded`, `objects` (the counter of `CCommon.h`), `instance` (of `CFactory`),
and `ours`, whether the present class description's `QLibrary` loaded it, for
no other may unload it. A call builds the world it leaves from operators for
its parts (`Loaded`, `New`, `Created`, `Registered`), and the destructor from
its own (`Forgotten`, `Destructed`). The three classes of devices are one, as
are documents and their editors. What the XML descriptions say is taken as the
operators `MonikerClass`, `LibraryOf` and `KindOf`.

## 3. The runs

| run | instance | shows |
|---|---|---|
| tree_links | 4 nodes, one client reference to each, cautious clients | links, lists, counters, no dangling, no cycles, no leaks, refinement |
| tree_cycle | 3 nodes, any clients | a cycle through a proxy (a difference, section 5) |
| tree_walk | all forests of 5 nodes, all roots and starts | walks in preorder that end, comparison with the nearest container, rows |
| collection_index | 3 collections, 2 identifiers, vetoes anywhere | the index is exact, and when listeners hear AFTER |
| collection_proxy | 3 proxies, 2 nodes, lists up to 3, vetoes of the object's changes | all lists equal; at most one row behind during an announcement |
| property_bag | 2 listeners and a slice, 6 attributes, calls with up to 2 keys | copies exact, nothing unsettled, only what may change changes |
| progress | 2 threads, values and maxima 0 to 2, up to 1 signal still to be handled when a report begins | nothing left on screen, the operation shown with its range, and hidden in the end |
| ui_parts | 3 parts, 2 managers, 4 containers, in any order | folders counted exactly, shown as described, actions in the order of priorities where no two containers share a name and an action |
| query | 3 classes, up to 5 tokens, a key and a limit | expressions mean what they say; the answer is exact |
| query_order | the same, up to 3 tokens, two keys | the answer is not in the order of its keys (section 5) |
| editor | 2 windows, 3 documents, 2 files, devices and dialogs may fail | cache and listeners exact, nothing lost unasked but after a save that failed |
| components | 12 addresses, 28 names, 2 references held | references counted exactly, no code unloaded that objects need, one factory and one document each |

Bounds. Four nodes are enough for an insertion between two siblings under a
parent, and for a proxy, its object, the object's parent and the proxy's
parent; one client reference tells "held" from "not held", and two add only
sums. Five nodes give every pair of branches of depth two. Three collections
are a chain with a level that has heard an announcement, one that vetoes and
one that has not. Three proxies are one that asked, one that knows and one that
does not; lists of three have a front, a middle and an end. The five
attributes are a plain one, one inside the slice, a read-only one, an
AUTONOTIFY one and two computed ones, of which the subclass lists one; calls
with two keys mix any two. Two reports suffice for one to find the mutex taken; a report that begins while a signal of
the last one waits lets signals of two reports wait together, and two that
begin at once let the queue hold two whole reports. Maxima of 0, 1 and 2 are
the bar that takes any value, and one that shrinks below its value. The three
parts of an interface are one whose folder others extend, one that shares a
folder with another in another order, and one that asks for folders where none
can be and names a tool bar like a menu, with an action in both; each has a
tool bar, of three priorities; they
reach the managers at both ends of the chain. Three classes give a sort an
order to get wrong; an expression of five tokens has a call in a call with an
operand on either side; values are undefined, of each type, or convertible.
Strings are such that no two first characters are two codes apart, and XOR has
two arguments (section 5 says why). Two windows show one document or two, and a
third document is the one about to be made; two files let a document move from
one to the other. Twelve addresses are room for three factories, the monikers
of the longest chain, a device, a document and what the program holds, so that
no call is ever without memory (deadlock is checked); two references held let
two objects share a file, a library or a factory. Counters may be 6 when a call
begins, since that of the devices only grows, and a second call for a device
finds it there. The names are all of up to two characters and one of each kind
of link, alone and in chains, with an escape and a colon in a suffix. Nodes, listeners,
identifiers and values are symmetric where the configuration says so; liveness
is checked without symmetry.

Fairness. Only `Progress` has a liveness property. A thread that has begun a
report goes on (weak fairness of its steps: nothing in them blocks, `tryLock`
returns either way), a call of `activate` returns, and `Handle` is strongly
fair: Qt delivers queued signals on every round of the event loop, so a user
who switches the widget on and off without end does not keep them waiting.
Nothing forces operations to end or to be reported on.

Deadlock is checked in every run but tree_walk, where a walk ends, query and
query_order, where a query ends, and editor, where the program
crashes or its last window is closed.

## 4. The proofs

`TreeNodeProofs` proves of `TreeNode`, for every finite set of nodes and every
bound on client references, with or without `Cautious`:

- `TypeCorrect`: `Spec => []TypeOK`,
- `LinksConsistent`: `Spec => []LinkInv`, neighbours, first and last children
  and parents agree,
- `ListsComplete`: `Spec => []ChildListsComplete`, the walk along the siblings
  visits exactly the children, from either end,
- `CountsExact`: `Spec => []RefCountExact`,
- `NothingDangles`: `Spec => []NoDangling`.

The argument. `IInv` conjoins the type invariant, `LinkInv`, `NoSiblingRing`,
`RefCountExact`, `NoDangling` and `ReplaceInv` (between its two halves a
`replaceChild` still has its node in the tree and has deleted nothing). Neither
`LinkInv` nor `RefCountExact` is inductive without the others: a deletion is
safe for the links because a counter at zero means that nobody has the node as
child, and the counter is exact because the links that carry references are
consistent; `NoDangling` adds that what is dying has no references and no
parent. `ChildListsComplete` speaks of a walk, which is not local. Its local
substitute is `NoSiblingRing`: every nonempty set of nodes has a member whose
next sibling is outside it, and one whose previous sibling is. An insertion or
a removal, which touches three nodes, keeps it by an argument about the one
set at hand, and together with `LinkInv` it implies `ChildListsComplete`, which
is a lemma. There is one lemma for each action.
The assumptions are those of the module: `Node` is finite and does not contain
`Null`.

Of clients that are `Cautious` it also proves

- `NoNodeOwnsItself`: `Cautious /\ Spec => []NoOwnershipCycle`,
- `NothingIsLeft`: `Cautious /\ Spec => []NoLeak`.

Without the condition both are false: that is the run tree_cycle. `Owned` is a
closure, and its local substitute is again about sets: `NoOwnershipRing`, every
nonempty set of nodes has a member that nobody in it owns. A new owner `p` of
`n` keeps it because `p` is outside what `n` owns: of a set with `p`, the part
outside has such a member, and it is not `n`. `NoLeak` follows from it,
`RefCountExact` and `OwnersReferenced` (who owns something has a reference or is
being deleted): of the nodes left behind one would have no owner among them.

Of any clients it proves that the abstract specification is implemented:

- `Refinement`: `Spec => RefinesOrderedTree`,
- `InsertionsInPlace`: `Spec => InsertsWhereAsked`.

`ListInv` says that the sequence read from `m_first_child` along `m_next` up to
`Null` has the children of the node and nothing else. `WalkFrom`, the reading,
is a recursive function; what it returns is shown once (`WalkReads`), by the
smallest index at which a sequence of the right links would differ from it:
`LeastNumber` takes the place of induction. Then linking is the insertion of
one element, wherever the reference is (`LinkedList`), unlinking is its removal
(`UnlinkedList`), the destructor empties a list (`DestroyedList`), and every
action, `replaceChild` and the two forms of insertion with a new proxy among
them, is one step of `OrderedTree` or none (`AbstractStep`). `IInv` gives what
the code relies on: that a reference child really is in the list, and that a
node that comes in is in no other.

`CollectionIndexProofs` proves of `CollectionIndex`, for any nodes and
identifiers,

- `TypeCorrect`: `Spec => []TypeOK`,
- `IndexesAreExact`: `Regular /\ Spec => []IndexExact`,
- `ListenersFindIt`: `Regular /\ Spec => []AfterSeesIndex`.

`Regular` is that clients take no `Liberties`: every node has an identifier, and
what is moved is loaded or has no children. With other clients the indexes are
not exact (section 5). The invariant, `RInv`, says of every collection `p`,
every node `n` and the announcement under way whether the entry of `n` in `p`
may be wrong (`Unsettled`): only if `n` is what the announcement is about, or
below it, `p` is on its way up, and it has been at `p` already (before the
change) or not yet (after it). All other entries are right. It needs that the
tree has no cycles, for a level to be visited once, and lemmas about what is
below a node when one is attached or detached (`BeneathAttached`,
`BeneathDetached`).

`CollectionProxyProofs` proves of `CollectionProxy`, for any proxies and nodes,

- `AllPlacesAlike`: `Unopposed /\ Spec => []MirrorExact`,
- `AtMostOneRow`: `Unopposed /\ Spec => []OneRowBehind`.

`Unopposed` is that listeners veto nothing but changes asked of the object
itself; section 5 says what a veto of another does. The invariant says for each
phase of a change what each proxy shows (`Follows`): those told of a removal
are ahead of the object until it is made, those not told of an insertion are
behind, and the one that asked comes last.

`NotifyPropertyBagProofs` proves of `NotifyPropertyBag`, for any attributes,
values and listeners,

- `ListenersKnow`: `AutoComplete /\ Spec => []CopiesExact`,
- `PreparationsEnd`: `AutoComplete /\ Spec => []NothingUnsettled`,
- `CallsChangeTheirOwn`: `Spec => ChangesWhatItMay`.

`AutoComplete` is that AUTONOTIFY, which `IPropertyBag.h:64` provides for
attributes that change with others, is set where it is needed, on what is
computed from a writeable attribute, that the subclass lists such attributes in
`enumKeys`, and that they keep a value
(section 5 says what happens to one that vanishes). Then an announcement names
the same keys BEFORE and AFTER, and a listener that has not heard AFTER yet is
behind in these keys only (`CopiesFollow`), and waits for what it has heard
BEFORE and for nothing else (`WaitsExact`).

`ProgressProofs` proves of `Progress`, for any number of threads, any length of
the queue and any progress,

- `TypeCorrect`: `Spec => []TypeOK`,
- `NothingIsLeft`: `Apart /\ Spec => []NothingLeftShown`,
- `OperationIsShown`: `Spec => []ShowsTheOperation`.

`Apart` is that operations start and end between reports (`Overlap = FALSE`);
otherwise the report of an end may be dropped (section 5). The second needs no
such condition. Since the mutex lets one report emit at a time, what is still
to come to the widget is one sequence: the queue, then the rest of the report
that holds the mutex. For `NothingIsLeft` the invariant says that, after an
end, as long as something is shown a report that will hide it is under way or
its signal is in the queue (`EndInv`), and that the report of an end is the only
one (`OrderInv`). For `OperationIsShown` it says, as long as the last change was
not dropped, that the last signal of each kind in that sequence, or what the
widget shows if there is none, is as the operation is (`CurrentInv`): the one
that shows or hides, the maximum, and, if the value fits the maximum, the last
of those that set the bar, of either kind, is the value: the maximum that makes
room for it comes before, so the bar takes it, and no later one resets it. Where
the operation has no maximum its value is 0 (`ZeroInv`), which every bar takes.

`EditorProofs` proves of `Editor`, for any windows, documents and files:

- `TypeCorrect`: `Spec => []TypeOK`,
- `CacheIsExact`: `Spec => []CacheExact`,
- `ListenersAreExact`: `Spec => []ListenersExact`,
- `LosesOnlyFailedSaves`: `Spec => LosesFailedSaves`.

The argument. The first invariant, `IInv`, is that a document that is gone has
no path (`GoneUnnamed`), with `CacheExact`, `ListenersExact` and the types they
need: without it the next document at the same place would begin with a path
that the cache does not know. The second, `TInv`, lists what a handler can have
left to do; three steps are the most, and only the last of them gives a
document up. The third, `LossInv`, is about text at risk, which is unsaved, not
answered for and of no failed save: a window that is shown has it and knows
that it is modified; and when a handler is about to give a document up, the
window at hand is not one that knows so, because it was never told, or asked,
or saved. So another window keeps the text. A failed save clears the flag of
the window as one that succeeds does, which is why `AsksBeforeLoss` is false.
The assumptions: `NoDocument` and `NoPath` are no documents and paths, and
there is always room for one more document (`RoomAssumption`), as memory is
taken to be.

`ComponentsProofs` proves of `Components`, for any names, any number of
addresses and any bounds on references and counters:

- `TypeCorrect`: `Spec => []TypeOK`,
- `ReferencesAreExact`: `Spec => []RefsExact`,
- `CodeIsThere`: `Spec => []CodeStays`,
- `OneFactoryOneDocument`: `Spec => []OneOfEach`,
- `UnusedLibrariesMayGo`: `Spec => []UnusedMayGo`,
- `NamesAreRestored`: `Spec => []NameRestored`, if suffixes have no separators
  in them (`PlainSuffixes`),
- `UnescapedNamesAreRestored`: the same of all names without an escape.

The argument. A call makes several objects and references before the next state
is reached, so the invariant, `Consistent`, is about any world and not about
the variables, and takes the references from outside as a parameter, `ext`. There
is one lemma for each step of a world (a reference more or less, a library
loaded, an object placed, linked, registered, destructed); `ext` may be -1 for
a factory whose new object exists and has not referred to it yet, and tells the
references of an object that is gone and has not dropped them. Each action
composes such steps and ends with `ext` as the program's references. The
properties are not inductive alone: a library is safe to unload only because its
counter is at least the number of its objects (`Served`), which needs that an
object that goes is the one the counter stands for; a document is found only
because all objects of a library refer to its one factory, which cannot go while
they do because their references to it are counted; and the register is right
only because a path is registered in the factory of its document and in no other
(`Cached`). The moniker of a file is known to come from the library of devices
by its link (`Linked`), hence its factory can make devices. The assumptions:
`Object` is finite without `Null`; the kinds asked for are kinds; and
`NameAssumption`, that names are sequences of strings. `Room`, which guards the
steps that make objects, is the assumption that there is memory.

That names are restored has three parts. The scanner of `parseName` and the
writer of `unparseName` are recursive functions of a name's length; that they
exist and what they come to is shown with `LeastNumber` (of the characters or
links that go wrong one is the first, and the one before it is right). The
scanner is followed with `Reads(s, text, t)`: in state `s` it comes to `t` by
`text`, and texts compose (`ReadsOn`), so that `UnparsedIsRead` goes link by
link. The chain of a moniker is recursive along `left`, which is no number: it
exists because each set of objects has one whose left is outside of it
(`Founded`), since a moniker is put on the right of older ones only, when it is
new (`Joins`), and nothing else changes `left` (`Follows`). And the links in a
chain are those of names whose prefix has a class (`ChainInv`), so that none of
them is written in the one form, `!:`, that would be read otherwise. The
hypothesis is needed: section 5 has a name for which the property fails.

`UIManagerProofs` proves of `UIManager`, for any containers, parts, descriptions
and any chain of managers,

- `TypeCorrect`: `Orderly => (Spec => []TypeOK)`,
- `FoldersCounted`: `Orderly => (Spec => []FoldersExact)`,
- `FoldersAreShown`: `Orderly /\ SeparatorsApart => (Spec => []ShownInv)`,
- `ActionsInOrder`: with the same, `Spec /\ []Apart => []OrderInv`.

`Orderly` is `OneDepth` of the descriptions, and that containers that parts are
in stay installed (`RemovesUsed = FALSE`); section 5 says what happens
otherwise. In the middle of a call the counters and the descriptions disagree,
so the invariant, `IInv`, counts something else: a pointer is a `Claim` until a
removal has read it again, and then its folder is `Open` until the end of the
folder is read. A counter is the number of claims, and one more if the folder is
open (`Counts`); what is claimed or open exists (`Accounted`). Deleting a folder
deletes what is in it, so that nothing in it may be claimed (`NothingWithin`).
The reason is in the descriptions: their tags are a walk from the container and
back (`Reaches`, and for what is still to be read `Passes`), which gets into a
folder only by its tag (`Opened`), so whoever claims a folder claims those that
it is in. And a folder that is found has to be in the folder that asks: the
depth in the description is the depth that the call has reached (`AddInv`), each
folder is at the depth of some description (`Described`), and names have one
depth (`FoundIs`). `DescriptionAssumption` is that a description is well-formed
XML: every folder that is opened is closed.

The last two are about what is seen, at every step and not between calls only.
`ShownInv`: a container shows each thing once; what it shows is an item, or was
made in it and is a separator or a folder that still exists; and a folder is
shown where it was made, so that `removeFolder` leaves no pointer to what it
deletes in the list of a container that stays, and nothing else takes a folder
out of sight. It needs to be known what a removal reads: pointers of items and
separators, which are never those of folders (`SignInv`), and that the container
that an addition is in is there (`HereInv`). `OrderInv`: menu bars, menus and
tool bars stand in ascending order of the priorities kept with the objects, and
each of these is what some part, present or not, asks for there. Searching the
place by the things shown keeps them sorted (`InsertedInOrder`), for whatever is
taken out leaves the rest as it was (`Thinned`). `Apart` says that no two
containers that exist have one name: priorities are kept by that name, and
section 5 shows what happens otherwise. In the run `ui_parts` it fails only
while the menu and the tool bar `recent` are both there; `SeparatorsApart` is
assumed of it. The tool bars of
a window are not in `OrderInv`, since they are searched in the order of their
creation.

Only model-checked: the properties of TreeWalk and Query, which are about walks
over every forest and about every text of the query language; `MergeExact` and
`PriorityOrder` of UIManager, which compare what is shown with what the parts
present ask for (the theorems above are about the same lists without looking at
who is present); and liveness. Liveness and ENABLED are
out of the prover's reach. Recursive functions are not, with `LeastNumber`, but
each takes a proof of what it returns. No module uses RECURSIVE operators.

## 5. Where the code differs from what it says

With a run that ends in a counterexample, and an entry in `PROJECT.json`:

- **tree_cycle**: `insertBefore` looks for cycles among parents only; through
  the object of a proxy a node can come to own itself and is never deleted.
- **query_order**: with several keys a class is before another only if it is
  before in every key; the first key that differs does not decide, and the
  relation is no strict weak order.

Without a run of its own, but found by changing one constant of the passing
configuration named, or by adding the property where no constant is named; the
property is in the module:

- CollectionIndex, `Liberties <- AnyStates`, `NoStaleEntry`: the index keeps
  entries of a subtree that is removed while the state of its root is not 0,
  also when it was indexed before.
- TreeWalk, `Rooted = FALSE`, `WholeTreeWalkEnds`: with a NULL root, which the
  header allows, `nextNode` asks the parent of the top node for its sibling.
- CollectionProxy, `Vetoes <- AnyVetoes`, `MirrorExact`: a change asked of a
  proxy is made in the proxy though a listener of the object vetoed it.
- NotifyPropertyBag, `AutoMayVanish = TRUE`, `CopiesExact`: an AUTONOTIFY
  attribute that is removed is in no AFTER.
- Progress, `Overlap = TRUE`, `NothingLeftShown`: a report that finds another
  being sent is dropped, also the one that says that the operation is over.
- Progress, `ShowsTheValue`: `progressMaximum` leaves the value as it is
  (`CProgressWatcher.cpp:87-93`), also above a smaller maximum; the bar is reset
  by the maximum and refuses the value, so that it shows none. `ShowsTheOperation`
  is what remains: the maximum, and every value within it.
- UIManager, `RemovesUsed = TRUE`, `FoldersExact`: a container that goes before
  the parts in it leaves folders in their descriptions that are gone.
- UIManager, a part of MCUIManager with a folder `recent` that is not in a
  folder `file`, `FoldersExact`: the part is given the folder `recent` of another
  part, within its `file`, and the folder goes with the `file` of the other part;
  the description keeps the pointer. Hence `OneDepth`.
- UIManager, `AllInOrder`, in two ways that `PriorityOrder` excludes and that the
  parts of MCUIManager lead to. The place of a tool bar is sought among the tool
  bars in the order of their creation (`CUIManager.cpp:47`): of three with
  priorities 2, 1 and 0 the third, added last, stands before the first and not
  before the second. And priorities are kept by object and name of container
  (`CUIManager.cpp:65`): the menu `recent` and the tool bar `recent` have an action
  in common, which has the priority in the menu that the tool bar asked for.
  Other actions are sought in the order shown (`CUIManager.cpp:31`), which
  `ActionsInOrder` proves right.
- Query, `RankOf("b") = 99` in MCQuery, `MeansWhatItSays`: the comparison of
  strings gives the difference of their characters, and -2 of it means "not
  comparable" (`CFunctionFactory.cpp:176`).

- Editor, `AsksBeforeLoss`: a document counts as saved when its device could
  not be opened, or when the dialog for its name was dismissed, and is given up.
- Components, `AllUnusedMayGo`: the counter of the library of devices goes up
  in the destructor too (`CCommon.h:42`), so that it is never unloaded once it
  had an object, against `OAF.h:100`.
- Components, `Name <- EscapedNames`, `NameRestored`: `unparseName` writes a
  suffix without the escapes that `parseName` takes out. That they are the only
  reason is the theorem `NamesAreRestored`.

Seen while reading: a node whose
identifier is removed is indexed under the null identifier
(`CTreeNode.cpp:864`, against the comment at 888); a collection can be found in its own
index, since its announcements begin at itself; `replaceChild` removes the old
node when the insertion was vetoed; `compare` says 0 of a node and its
ancestor; `setExtendedObject` does not end if a listener vetoes a removal;
`progressMinimum` sets the value to 0 as long as there is no maximum;
CANCELLED reaches listeners that have not heard BEFORE, of attributes and of
trees alike; signals queued before the progress widget was deactivated are
handled after it is active again, so that the progress of an operation can be
hidden until its next report; in the search line the key Down goes to the previous match
(`CSearchLineWidget.cpp`); XOR of two true values and an undefined one is
false, where its comment has it undefined (`CFunctionFactory.cpp:104`); a
constant call that throws leaves the text of its query in the scanner, to be
read by the next (`OQLgram.y:382`); `new:` and `!` ask the moniker on their
left, not the object it is the name of, since `queryInterface` is a
`dynamic_cast`, so that the example of `docs/liboaf.lyx:1549` never gives an
object; a link whose moniker cannot be made is left out of the name without a
word; `unparseName` looks for the prefix `!:`, while that of the link is `!`;
attributes of class descriptions that are truth values are always true, for
`compare` is taken for an equality (`CClassInfo.cpp`); libraries that are
loaded when the class descriptions are unloaded are never unloaded; a document that refuses a path throws after
BEFORE, and no CANCELLED follows (`CTextDocument.cpp:150`); Save As, accepted,
is a call through NULL (`CMainWindow.cpp:231`).

## 6. What is not modelled

`libs/liboaf-git2` and `diff_match_patch` are third-party; they are more than
half of the lines of the repository. Widgets, the editor of HTML, the output
of HTML and LaTeX, icons and streams keep no state that several steps relate.
Devices are I/O; the list of recent files is kept in settings that Qt shares
between processes; what happens to the code of a library that is unloaded while
it is referenced is the system's affair. MIME types and the search in
views are left for later (section 7).

In the modelled parts: listeners that call back into the
object that tells them (an assertion forbids it), listeners that come and go
during an announcement (likewise), attributes read from and written to XML, a
slice attached to another bag while it is listened to, proxies of proxies, the
change of a widget's operation, and calls of one object from several threads
other than `CProgressWatcher`, which nothing in the code provides for. In
Query: arithmetic, dates, the scanner, and several queries one after the other.
In UIManager: components that delete their own actions. In Components: the reading of class descriptions, `oaf_as_copy`,
several spellings of one path, and devices that cannot be opened. In Editor: documents that are shown outside the
program, the text itself, and a plugin that makes no document while a window is
constructed: only `newDocument` of a standing window may be refused
(`NewUnsupported`).

## 7. The plan

Done, in this order: TreeNode with its refinement and proofs, TreeWalk,
CollectionIndex, CollectionProxy, NotifyPropertyBag and Progress with their
proofs, UIManager with its proofs, Query, Editor and Components with theirs.

Next modules:

1. `MIME`: the best candidate first; pure, over bounded inputs.
2. `RecentFiles`: several processes, one stored list.

Next proofs: `MergeExact` of UIManager, on top of `IInv` and `ShownInv`: that
what is written for a part is what its description places.

A run is kept for a question of its own: differences that one constant of a
passing run shows are listed in section 5 without one.
