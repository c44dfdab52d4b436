----------------------------- MODULE UIManager -----------------------------
(***************************************************************************)
(* OAF::CUIManager (libs/liboaf-gui/src/CUIManager.cpp) and the containers *)
(* of components that use it (CUIContainer.cpp): the menus, tool bars and  *)
(* tabs of a window are put together from parts, one per component, which  *)
(* come and go.                                                            *)
(*                                                                         *)
(* A part is described by XML: for a container of the window the folders   *)
(* (submenus, tool bars), items and separators to put there.  Parts share  *)
(* folders of the same identifier: a folder counts the parts that use it   *)
(* and is deleted with the last.  What was added for a part is written to  *)
(* a second description, which holds pointers, and is removed by it.       *)
(*                                                                         *)
(* The managers form a chain, as that of a dialog within the main window:  *)
(* what a manager has no container for goes to the next.  The XML is a     *)
(* sequence of elements, one bag after the other, and the tags within a    *)
(* bag; each tag is one step, whose actions have the names of the methods. *)
(* A container of the window is <<name>>, what is in it is named by where  *)
(* it is created: <<name, folder, ...>>.  A deleted folder that is created *)
(* again thus has its old name, as a new object may have its old address.  *)
(***************************************************************************)
EXTENDS Integers, FiniteSets, Functions, SequencesExt

CONSTANTS
    Bag,            \* the containers of windows
    BagKind(_),     \* "menubar", "window", "dialog" (these have tool bars),
                    \* or "stack" (of widgets)
    BagLevel(_),    \* the manager that a container is installed in
    BagName(_),     \* and the name it has there
    Levels,         \* the managers are 1..Levels, each followed by its parent
    Part,           \* parts of the interface
    uidef(_),       \* the description of a part
    Entry(_),       \* the manager that a part is given to
    Item,           \* items that components have: getUIItem gives NULL for others
    RemovesUsed     \* TRUE: containers are removed that parts are still in

ASSUME LevelsAssumption == /\ Levels \in Nat \ {0}
                           /\ \A b \in Bag : BagLevel(b) \in 1 .. Levels
                           /\ \A p \in Part : Entry(p) \in 1 .. Levels
ASSUME KindAssumption == \A b \in Bag : BagKind(b) \in {"menubar", "window", "dialog", "stack"}
ASSUME RemovesAssumption == RemovesUsed \in BOOLEAN

\* An element is its first tag; only a folder has a second one, the "end".
Element == [tag : {"folder", "end", "item", "separator"}, n : STRING, p : Int]

\* How many folders are open before tag i.
Depth(tags, i) == Cardinality({j \in 1 .. i - 1 : tags[j].tag = "folder"})
                  - Cardinality({j \in 1 .. i - 1 : tags[j].tag = "end"})

Balanced(tags) == /\ \A i \in DOMAIN tags : Depth(tags, i) >= 0
                  /\ Depth(tags, Len(tags) + 1) = 0

ASSUME DescriptionAssumption ==
    \A p \in Part : /\ uidef(p) \in Seq([bag : STRING, tags : Seq(Element)])
                    /\ \A e \in ToSet(uidef(p)) : Balanced(e.tags)

\* No two folders of one name are at different depths of one container, as
\* far as the descriptions go.
OneDepth ==
    LET bags == UNION {ToSet(uidef(p)) : p \in Part}
        Folders(e) == {i \in DOMAIN e.tags : e.tags[i].tag = "folder"}
    IN \A e, h \in bags : e.bag = h.bag =>
          \A i \in Folders(e), j \in Folders(h) :
             e.tags[i].n = h.tags[j].n => Depth(e.tags, i) = Depth(h.tags, j)

\* No separator has the name of a folder: each is an object of its own.
SeparatorsApart ==
    LET tags == UNION {UNION {ToSet(e.tags) : e \in ToSet(uidef(p))} : p \in Part}
    IN \A t, u \in tags : t.tag = "folder" /\ u.tag = "separator" => t.n # u.n

VARIABLES
    m_containers,   \* the containers installed
    refs,           \* the folders there are, with their "oaf:refs"
    born,           \* the folders in the order of their creation
    layout,         \* layout[c]: what a container or folder shows, in order
    priority,       \* the priority properties, by object and name of container
    m_uidescs,      \* m_uidescs[m]: what manager m added, by part
    job             \* the call under way, or None

vars == <<m_containers, refs, born, layout, priority, m_uidescs, job>>

None == [op |-> "none"]

ASSUME NoneAssumption == None \notin Part

Idle == job = None
Level == 1 .. Levels
Container(b) == <<b>>

\* f with the value v for x, which may be new.
With(f, x, v) == [y \in DOMAIN f \cup {x} |-> IF y = x THEN v ELSE f[y]]

\* The elements of s that are in S, in their order.
Only(s, S) ==
    LET kept[i \in 0 .. Len(s)] ==
            IF i = 0 THEN <<>>
            ELSE IF s[i] \in S THEN Append(kept[i - 1], s[i]) ELSE kept[i - 1]
    IN kept[Len(s)]

Without(s, x) == Only(s, ToSet(s) \ {x})

-----------------------------------------------------------------------------
(* Containers, folders and priorities.                                     *)

Kind(c) == LET k == BagKind(c[1])
           IN IF Len(c) = 1 THEN k ELSE IF k = "menubar" THEN "menu" ELSE "toolbar"

\* What can have folders: a submenu or a tool bar is created as their child.
TakesFolders(c) == Kind(c) \in {"menubar", "menu", "window", "dialog"}

\* What shows the folders it takes: nobody places the tool bars of a dialog.
ShowsFolders(c) == Kind(c) \in {"menubar", "menu", "window"}

\* What shows actions.
ShowsActions(c) == Kind(c) \in {"menubar", "menu", "toolbar"}

\* The folder called n that findChild gives for c, at any depth, a child first.
findChild(c, n) ==
    LET found == {f \in DOMAIN refs : IsStrictPrefix(c, f) /\ Last(f) = n}
        near  == {f \in found : Len(f) = Len(c) + 1}
    IN IF near # {} THEN near ELSE found

PriorityIn(properties, c, o) ==
    IF <<o, Last(c)>> \in DOMAIN properties THEN properties[<<o, Last(c)>>] ELSE 0

\* Fault: the comparison is the wrong way round.
Follows_Swapped(properties, c, o, p) == PriorityIn(properties, c, o) < p

\* Whether an object of priority p goes before o.
Follows(properties, c, o, p) == p < PriorityIn(properties, c, o)

\* positionByPriority: the first of `objects' that the new one goes before.
positionByPriority(properties, c, objects, p) ==
    SelectInSeq(objects, LAMBDA o : Follows(properties, c, o, p))

\* Tool bars are searched in the order of their creation, at any depth of the
\* window, actions as shown.
Candidates(c) == IF Kind(c) = "window"
                 THEN Only(born, {f \in ToSet(born) : IsStrictPrefix(c, f)})
                 ELSE layout[c]

\* The objects of c with o put in by priority p; one that is there is moved.
Inserted(properties, c, o, p) ==
    LET at     == positionByPriority(properties, c, Candidates(c), p)
        others == Without(layout[c], o)
    IN IF at = 0 THEN Append(others, o)
       ELSE InsertAt(others, SelectInSeq(others, LAMBDA x : x = Candidates(c)[at]), o)

WithPriority(c, o, p) == With(priority, <<o, Last(c)>>, p)

-----------------------------------------------------------------------------
(* Descriptions.                                                           *)

\* The tag written for an object goes to the bag written last.
Noted(tag) ==
    LET d == m_uidescs[job.m][job.part]
    IN [m_uidescs EXCEPT ![job.m][job.part] =
            [d EXCEPT ![Len(d)].tags = Append(@, tag)]]

\* UI::m_items: every object that was written to the description.
Owned(p, m) == {t.o : t \in UNION {{t \in ToSet(e.tags) : t.tag # "end"} :
                                    e \in ToSet(m_uidescs[m][p])}}

ownerOf(m, o) == {p \in DOMAIN m_uidescs[m] : o \in Owned(p, m)}

\* The containers that parts were put in.
Used == {b \in Bag : \E m \in Level : \E p \in DOMAIN m_uidescs[m] :
                        \E e \in ToSet(m_uidescs[m][p]) : e.bag = b}

Tag == Head(job.tags)
Here == Last(job.at)
Pop == [job EXCEPT !.tags = Tail(@)]
Adding == job.op = "add"
Removing == job.op \in {"remove", "clear"}
InBag == ~ Idle /\ job.at # <<>>
HasTag(t) == InBag /\ job.tags # <<>> /\ Tag.tag = t

\* The tags after the element that the first of them opens.
Skipped(tags) ==
    LET closed == {k \in 1 .. Len(tags) : Depth(tags, k + 1) = 0}
    IN SubSeq(tags, (CHOOSE k \in closed : \A j \in closed : k <= j) + 1, Len(tags))

-----------------------------------------------------------------------------
(* Containers: install, remove and clear.                                  *)

\* What manager m has under the name n: one container or none.
Known(m, n) == {b \in m_containers : BagLevel(b) = m /\ BagName(b) = n}

\* A container of the same name is replaced.
install(b) ==
    /\ Idle
    /\ LET others == Known(BagLevel(b), BagName(b)) \ {b}
       IN /\ ~ RemovesUsed => others \cap Used = {}
          /\ m_containers' = (m_containers \ others) \cup {b}
    /\ UNCHANGED <<refs, born, layout, priority, m_uidescs, job>>

\* remove: the manager looks for parts that own the container itself.
remove(b) ==
    /\ Idle
    /\ b \in m_containers
    /\ ~ RemovesUsed => b \notin Used
    /\ ownerOf(BagLevel(b), Container(b)) = {}
    /\ m_containers' = m_containers \ {b}
    /\ UNCHANGED <<refs, born, layout, priority, m_uidescs, job>>

\* The parts of manager m are removed one by one, then its containers.
clear(m) ==
    /\ Idle
    /\ job' = [op |-> "clear", part |-> None, m |-> m,
               bags |-> <<>>, tags |-> <<>>, at |-> <<>>]
    /\ UNCHANGED <<m_containers, refs, born, layout, priority, m_uidescs>>

ClearNext ==
    /\ job.op = "clear"
    /\ job.part = None
    /\ \E p \in DOMAIN m_uidescs[job.m] :
          job' = [job EXCEPT !.part = p, !.bags = m_uidescs[job.m][p]]
    /\ UNCHANGED <<m_containers, refs, born, layout, priority, m_uidescs>>

ClearEnds ==
    /\ job.op = "clear"
    /\ job.part = None
    /\ DOMAIN m_uidescs[job.m] = {}
    /\ m_containers' = {b \in m_containers : BagLevel(b) # job.m}
    /\ job' = None
    /\ UNCHANGED <<refs, born, layout, priority, m_uidescs>>

-----------------------------------------------------------------------------
(* addUI, of the managers from Entry(p) upwards.                           *)

Added(p) == {m \in Level : p \in DOMAIN m_uidescs[m]}

\* Manager m starts with what the managers before it have left.
Begins(p, m, bags) ==
    /\ job' = [op |-> "add", part |-> p, m |-> m, left |-> bags,
               bags |-> bags, tags |-> <<>>, at |-> <<>>]
    /\ m_uidescs' = [m_uidescs EXCEPT ![m] = With(@, p, <<>>)]

addUI(p) ==
    /\ Idle
    /\ Added(p) = {}
    /\ Begins(p, Entry(p), uidef(p))
    /\ UNCHANGED <<m_containers, refs, born, layout, priority>>

\* Fault: nothing is purged.
purgeUI_All(m, bags) == bags

\* What manager m has no container for.
purgeUI(m, bags) == Only(bags, {e \in ToSet(bags) : Known(m, e.bag) = {}})

AtEnd(op) == /\ job.op = op
             /\ job.at = <<>>
             /\ job.bags = <<>>

AddEnds ==
    /\ AtEnd("add")
    /\ IF job.m = Levels
       THEN job' = None /\ UNCHANGED m_uidescs
       ELSE Begins(job.part, job.m + 1, purgeUI(job.m, job.left))
    /\ UNCHANGED <<m_containers, refs, born, layout, priority>>

OpenBag ==
    /\ Adding
    /\ job.at = <<>>
    /\ job.bags # <<>>
    /\ LET e     == Head(job.bags)
           found == Known(job.m, e.bag)
       IN IF found = {} THEN job' = [job EXCEPT !.bags = Tail(@)] /\ UNCHANGED m_uidescs
          ELSE \E b \in found :
                 /\ job' = [job EXCEPT !.bags = Tail(@), !.tags = e.tags,
                                       !.at = <<Container(b)>>]
                 /\ m_uidescs' = [m_uidescs EXCEPT ![job.m][job.part] =
                                     Append(@, [bag |-> b, tags |-> <<>>])]
    /\ UNCHANGED <<m_containers, refs, born, layout, priority>>

CloseBag ==
    /\ InBag
    /\ job.tags = <<>>
    /\ job' = [job EXCEPT !.at = <<>>]
    /\ UNCHANGED <<m_containers, refs, born, layout, priority, m_uidescs>>

\* Fault: a folder that is found is not counted.
Counted_Once(f) == With(refs, f, IF f \in DOMAIN refs THEN refs[f] ELSE 1)

Counted(f) == With(refs, f, IF f \in DOMAIN refs THEN refs[f] + 1 ELSE 1)

\* addFolder, up to the elements of the folder.
addFolder ==
    /\ Adding
    /\ HasTag("folder")
    /\ TakesFolders(Here)
    /\ LET found == findChild(Here, Tag.n)
       IN \E f \in IF found # {} THEN found ELSE {Append(Here, Tag.n)} :
            /\ refs' = Counted(f)
            /\ IF found # {} THEN UNCHANGED <<born, layout, priority>>
               ELSE /\ born' = Append(born, f)
                    /\ IF ShowsFolders(Here)
                       THEN /\ priority' = WithPriority(Here, f, Tag.p)
                            /\ layout' = With([layout EXCEPT ![Here] =
                                                   Inserted(priority', Here, f, Tag.p)],
                                               f, <<>>)
                       ELSE layout' = With(layout, f, <<>>) /\ UNCHANGED priority
            /\ m_uidescs' = Noted([tag |-> "folder", o |-> f])
            /\ job' = [Pop EXCEPT !.at = Append(@, f)]
    /\ UNCHANGED m_containers

\* A tool bar or a stack takes no folder: it is left out with all it contains.
SkipFolder ==
    /\ Adding
    /\ HasTag("folder")
    /\ ~ TakesFolders(Here)
    /\ job' = [job EXCEPT !.tags = Skipped(@)]
    /\ UNCHANGED <<m_containers, refs, born, layout, priority, m_uidescs>>

\* The end of addFolder.
FolderAdded ==
    /\ Adding
    /\ HasTag("end")
    /\ m_uidescs' = Noted([tag |-> "end"])
    /\ job' = [Pop EXCEPT !.at = Front(@)]
    /\ UNCHANGED <<m_containers, refs, born, layout, priority>>

\* Puts o where the tag says; windows themselves show folders only.
Shows(o) ==
    CASE ShowsActions(Here) ->
            /\ priority' = WithPriority(Here, o, Tag.p)
            /\ layout' = [layout EXCEPT ![Here] = Inserted(priority', Here, o, Tag.p)]
      [] Kind(Here) = "stack" ->
            /\ layout' = [layout EXCEPT ![Here] = Append(Without(@, o), o)]
            /\ UNCHANGED priority
      [] OTHER -> UNCHANGED <<layout, priority>>

\* addItem; an item that the component does not have is left out.
addItem ==
    /\ Adding
    /\ HasTag("item")
    /\ job' = Pop
    /\ IF Tag.n \in Item
       THEN /\ Shows(<<Tag.n>>)
            /\ m_uidescs' = Noted([tag |-> "item", o |-> <<Tag.n>>])
       ELSE UNCHANGED <<layout, priority, m_uidescs>>
    /\ UNCHANGED <<m_containers, refs, born>>

\* addSeparator: a new action, child of the container.
addSeparator ==
    /\ Adding
    /\ HasTag("separator")
    /\ job' = Pop
    /\ IF ShowsActions(Here)
       THEN /\ Shows(Append(Here, Tag.n))
            /\ m_uidescs' = Noted([tag |-> "separator", o |-> Append(Here, Tag.n)])
       ELSE UNCHANGED <<layout, priority, m_uidescs>>
    /\ UNCHANGED <<m_containers, refs, born>>

-----------------------------------------------------------------------------
(* removeUI: the parent first, as CUIContainer_Managed has it.             *)

Removes(p, m) ==
    job' = [op |-> "remove", part |-> p, m |-> m, bags |-> m_uidescs[m][p],
            tags |-> <<>>, at |-> <<>>]

removeUI(p) ==
    /\ Idle
    /\ \E m \in Added(p) : (\A k \in Added(p) : k <= m) /\ Removes(p, m)
    /\ UNCHANGED <<m_containers, refs, born, layout, priority, m_uidescs>>

\* The description is forgotten, whatever became of what it lists.
RemoveEnds ==
    /\ Removing
    /\ job.part # None
    /\ AtEnd(job.op)
    /\ m_uidescs' = [m_uidescs EXCEPT ![job.m] =
                        [q \in DOMAIN @ \ {job.part} |-> @[q]]]
    /\ IF job.op = "clear" THEN job' = [job EXCEPT !.part = None]
       ELSE LET below == {m \in Added(job.part) : m < job.m}
            IN IF below = {} THEN job' = None
               ELSE \E m \in below : (\A k \in below : k <= m) /\ Removes(job.part, m)
    /\ UNCHANGED <<m_containers, refs, born, layout, priority>>

\* A bag whose container is not installed is skipped.
ReopenBag ==
    /\ Removing
    /\ job.part # None
    /\ job.at = <<>>
    /\ job.bags # <<>>
    /\ LET e == Head(job.bags)
       IN job' = IF e.bag \in m_containers
                 THEN [job EXCEPT !.bags = Tail(@), !.tags = e.tags,
                                  !.at = <<Container(e.bag)>>]
                 ELSE [job EXCEPT !.bags = Tail(@)]
    /\ UNCHANGED <<m_containers, refs, born, layout, priority, m_uidescs>>

\* removeFolder, up to the elements of the folder.
removeFolder ==
    /\ Removing
    /\ HasTag("folder")
    /\ job' = [Pop EXCEPT !.at = Append(@, Tag.o)]
    /\ UNCHANGED <<m_containers, refs, born, layout, priority, m_uidescs>>

\* Fault: the last reference does not delete the folder.
Unreferenced_Never(n) == n < 0

Unreferenced(n) == n <= 0

\* delete: a folder takes its children with it and leaves what shows it.
Deleted(f) ==
    LET Dies(o) == IsPrefix(f, o)
    IN /\ refs' = [g \in {g \in DOMAIN refs : ~ Dies(g)} |-> refs[g]]
       /\ born' = Only(born, DOMAIN refs')
       /\ layout' = [c \in {c \in DOMAIN layout : ~ Dies(c)} |->
                        Only(layout[c], {o \in ToSet(layout[c]) : ~ Dies(o)})]
       /\ priority' = [x \in {x \in DOMAIN priority : ~ Dies(x[1])} |-> priority[x]]

\* The end of removeFolder.
FolderRemoved ==
    /\ Removing
    /\ HasTag("end")
    /\ IF Unreferenced(refs[Here] - 1) THEN Deleted(Here)
       ELSE /\ refs' = [refs EXCEPT ![Here] = @ - 1]
            /\ UNCHANGED <<born, layout, priority>>
    /\ job' = [Pop EXCEPT !.at = Front(@)]
    /\ UNCHANGED <<m_containers, m_uidescs>>

\* removeAction drops the priority too.
RemoveObject ==
    /\ layout' = [layout EXCEPT ![Here] = Without(@, Tag.o)]
    /\ priority' = [x \in DOMAIN priority \ {<<Tag.o, Last(Here)>>} |-> priority[x]]
    /\ job' = Pop
    /\ UNCHANGED <<m_containers, refs, born, m_uidescs>>

removeItem ==
    /\ Removing
    /\ HasTag("item")
    /\ RemoveObject

\* The separator stays a child of its folder, and nothing points to it any more.
removeSeparator ==
    /\ Removing
    /\ HasTag("separator")
    /\ RemoveObject

-----------------------------------------------------------------------------
Init ==
    /\ m_containers = {}
    /\ refs = <<>>
    /\ born = <<>>
    /\ layout = [c \in {Container(b) : b \in Bag} |-> <<>>]
    /\ priority = <<>>
    /\ m_uidescs = [m \in Level |-> <<>>]
    /\ job = None

Next ==
    \/ \E b \in Bag : install(b) \/ remove(b)
    \/ \E m \in Level : clear(m)
    \/ ClearNext \/ ClearEnds
    \/ \E p \in Part : addUI(p) \/ removeUI(p)
    \/ AddEnds \/ OpenBag \/ CloseBag
    \/ addFolder \/ SkipFolder \/ FolderAdded \/ addItem \/ addSeparator
    \/ RemoveEnds \/ ReopenBag \/ removeFolder \/ FolderRemoved
    \/ removeItem \/ removeSeparator

Spec == Init /\ [][Next]_vars

-----------------------------------------------------------------------------
(* What a window should show: the union of what its parts describe.        *)

\* The folders that are open at tag i, the outermost first.
OpenAt(tags, i) ==
    LET Count(t, j, k) == Cardinality({h \in j .. k : tags[h].tag = t})
        open == {j \in 1 .. i - 1 :
                    /\ tags[j].tag = "folder"
                    /\ \A k \in j .. i - 1 : Count("folder", j, k) > Count("end", j, k)}
        order == SetToSortSeq(open, <)
    IN [k \in DOMAIN order |-> tags[order[k]].n]

\* A path that folders can have: tool bars are not nested.
MayBe(c) == \A k \in 1 .. Len(c) - 1 : TakesFolders(SubSeq(c, 1, k))

\* What the tags say of container b: object o in container c, with priority p.
Places(b, tags) ==
    LET Of(i) == [c |-> Container(b) \o OpenAt(tags, i),
                  o |-> IF tags[i].tag = "item" THEN <<tags[i].n>>
                        ELSE Container(b) \o Append(OpenAt(tags, i), tags[i].n),
                  tag |-> tags[i].tag, p |-> tags[i].p]
    IN {x \in {Of(i) : i \in {i \in DOMAIN tags : tags[i].tag # "end"}} :
            /\ MayBe(x.c)
            /\ x.tag = "folder" => TakesFolders(x.c)
            /\ x.tag = "item" => x.o[1] \in Item /\ Kind(x.c) \notin {"window", "dialog"}
            /\ x.tag = "separator" => ShowsActions(x.c)}

\* The containers that a part is in, each the first one of its name.
Taken(p) == {b \in Bag : \E m \in Added(p) :
                /\ \E d \in ToSet(m_uidescs[m][p]) : d.bag = b
                /\ \A k \in Added(p) : k < m =>
                      \A d \in ToSet(m_uidescs[k][p]) : BagName(d.bag) # BagName(b)}

Present == {p \in Part : Added(p) # {}}

Wanted ==
    UNION {UNION {UNION {Places(b, e.tags) : b \in {b \in Taken(p) : BagName(b) = e.bag}} :
                     e \in ToSet(uidef(p))} :
              p \in Present}

\* The pointers to folders that manager m has written for part p.
FolderTags(m, p) ==
    IF p \notin DOMAIN m_uidescs[m] THEN {}
    ELSE LET d == m_uidescs[m][p]
         IN UNION {{[m |-> m, p |-> p, e |-> k, at |-> i, o |-> d[k].tags[i].o] :
                      i \in {i \in DOMAIN d[k].tags : d[k].tags[i].tag = "folder"}} :
                   k \in DOMAIN d}

Held == UNION {FolderTags(m, p) : m \in Level, p \in Part}

-----------------------------------------------------------------------------
(* Properties.                                                             *)

\* Containers, folders and descriptions are what the code can hold, and a
\* folder that is there is used.
TypeOK ==
    /\ m_containers \subseteq Bag
    /\ \A f \in DOMAIN refs : refs[f] \in Nat \ {0}
    /\ ToSet(born) = DOMAIN refs /\ Len(born) = Cardinality(DOMAIN refs)
    /\ DOMAIN layout = DOMAIN refs \cup {Container(b) : b \in Bag}
    /\ \A m \in Level : DOMAIN m_uidescs[m] \subseteq Part

\* A folder counts exactly the parts that hold its pointer, whichever managers
\* added them, so that no description is left with a pointer to a deleted
\* folder and no folder outlives its parts.
FoldersExact ==
    Idle => /\ DOMAIN refs = {h.o : h \in Held}
            /\ \A f \in DOMAIN refs : refs[f] = Cardinality({h \in Held : h.o = f})

\* Between calls every container and folder shows exactly what the present
\* parts put there, once, whatever was added and removed before in any order.
MergeExact ==
    Idle => /\ DOMAIN refs = {w.o : w \in {w \in Wanted : w.tag = "folder"}}
            /\ \A c \in DOMAIN layout :
                /\ ToSet(layout[c]) = {w.o : w \in {w \in Wanted : w.c = c /\ Kind(c) # "dialog"}}
                /\ Cardinality(ToSet(layout[c])) = Len(layout[c])

\* What the parts ask for, present or not, wherever containers have that name.
Asks == UNION {UNION {UNION {Places(b, e.tags) : b \in {b \in Bag : BagName(b) = e.bag}} :
                         e \in ToSet(uidef(p))} :
                  p \in Part}

\* No part asks for an action of c in another container of the name of c, which
\* would have one number with it (CUIManager.cpp:65).
NumbersApart(c) ==
    \A x, y \in Asks : x.c = c /\ x.o = y.o /\ Last(y.c) = Last(c) => y.c = c

\* What c shows stands in the order of the priorities that the parts asked for.
InPriority(c, wanted) ==
    \A i, j \in DOMAIN layout[c] :
        i < j => \E v, w \in wanted : /\ v.c = c /\ v.o = layout[c][i]
                                     /\ w.c = c /\ w.o = layout[c][j]
                                     /\ v.p <= w.p

\* "The smaller the number, the higher", of menu bars, menus and tool bars: what
\* they contain stands in the order of the priorities that the parts asked for,
\* whatever was added and removed before.  Not of the tool bars of a window, and
\* not of a container that has an action in common with another of its name:
\* neither keeps the order, as AllInOrder shows.
PriorityOrder ==
    Idle => LET wanted == Wanted
            IN \A c \in DOMAIN layout :
                  ShowsActions(c) /\ NumbersApart(c) => InPriority(c, wanted)

\* The same without exception, tool bars of windows included.  It fails in two
\* ways: tool bars are searched in the order of their creation (CUIManager.cpp:47),
\* and an action has one number for all containers of a name.
AllInOrder ==
    Idle => LET wanted == Wanted
            IN \A c \in DOMAIN layout : Kind(c) # "stack" => InPriority(c, wanted)
=============================================================================
