---------------------------- MODULE EditorProofs ----------------------------
(***************************************************************************)
(* That the cache of documents and the lists of listeners are exact, for   *)
(* any number of windows, documents and files, whether or not saves fail.  *)
(*                                                                         *)
(* The cache is exact only because a document that is gone has no path,    *)
(* and so the next one in its place has none either; and who listens can   *)
(* be told from the windows only because a handler runs for a window.      *)
(* Then, that no text is lost unasked but after a save that failed: as     *)
(* long as it is at risk, a window that the user can see shows it and      *)
(* knows that it was changed.                                              *)
(***************************************************************************)
EXTENDS Editor, SequenceTheorems, TLAPS

Shape ==
    /\ document \in [Window -> Document \cup {NoDocument}]
    /\ path \in [Document -> Path \cup {NoPath}]
    /\ listeners \in [Document -> SUBSET Window]
    /\ DOMAIN opened \subseteq Path
    /\ calls # <<>> => active \in Window

GoneUnnamed == \A d \in Document \ Alive : path[d] = NoPath

IInv == Shape /\ CacheExact /\ GoneUnnamed /\ ListenersExact

-----------------------------------------------------------------------------
\* There is a document to make, and it is none of those that are open.
LEMMA FreshIsFree ==
    ASSUME document \in [Window -> Document \cup {NoDocument}]
    PROVE  Fresh \in Document /\ Fresh \notin Alive
<1>1. PICK d \in Document : \A w \in Window : document[w] # d
  BY RoomAssumption
<1>2. d \notin Alive
  BY <1>1 DEF Alive
<1> QED
  BY <1>2 DEF Fresh

\* A step that changes neither documents nor who shows them.
LEMMA OthersKeep ==
    ASSUME IInv, UNCHANGED <<document, path, listeners, opened>>,
           calls' # <<>> => active' \in Window
    PROVE  IInv'
BY DEF IInv, Shape, CacheExact, GoneUnnamed, ListenersExact, Alive, get

\* Another path for a document, or none.
LEMMA SetPathKeeps ==
    ASSUME IInv, NEW d \in Document, NEW p \in Path \cup {NoPath}, setPath(d, p)
    PROVE  IInv'
<1> USE DEF setPath, windows, handler
<1>1. Alive' = Alive /\ Alive \subseteq Document
  BY DEF Alive, IInv, Shape
<1>2. Shape'
  BY NoneAssumption DEF IInv, Shape, Registered, Removed, With, Without
<1>3. GoneUnnamed'
  BY <1>1 DEF IInv, Shape, GoneUnnamed
<1>4. ListenersExact'
  BY DEF IInv, ListenersExact
<1>5. CacheExact'
  <2>1. path' = [path EXCEPT ![d] = p] /\ p \notin DOMAIN opened
    BY <1>1, NoneAssumption DEF get, IInv, CacheExact
  <2> DEFINE map == Removed(opened, d)
  <2>2. \A q \in DOMAIN map : q \in DOMAIN opened /\ map[q] = opened[q] /\ opened[q] # d
    BY NoneAssumption DEF Removed, Without, IInv, CacheExact, Shape
  <2>3. \A q \in DOMAIN opened : opened[q] # d => q \in DOMAIN map
    BY DEF Removed, Without, IInv, CacheExact, get
  <2> HIDE DEF map
  <2>4. \A q \in DOMAIN opened' :
          \/ q = p /\ p # NoPath /\ opened'[q] = d
          \/ q \in DOMAIN map /\ opened'[q] = map[q]
    BY <2>1, <2>2 DEF Registered, With, map
  <2>5. p # NoPath => p \in DOMAIN opened' /\ opened'[p] = d
    BY DEF Registered, With
  <2>6. \A q \in DOMAIN map : q \in DOMAIN opened' /\ opened'[q] = map[q]
    BY <2>1, <2>2 DEF Registered, With, map
  <2>7. ASSUME NEW q \in DOMAIN opened'
        PROVE  opened'[q] \in Alive' /\ path'[opened'[q]] = q
    BY <1>1, <2>1, <2>2, <2>4 DEF IInv, CacheExact, Shape
  <2>8. ASSUME NEW e \in Alive', path'[e] # NoPath
        PROVE  path'[e] \in DOMAIN opened' /\ opened'[path'[e]] = e
    <3>1. CASE e = d
      BY <3>1, <2>1, <2>5, <2>8 DEF IInv, Shape
    <3>2. CASE e # d
      <4>1. path'[e] = path[e] /\ get(path[e]) = e /\ e \in Alive
        BY <3>2, <2>1, <2>8, <1>1 DEF IInv, Shape, CacheExact
      <4>2. path[e] \in DOMAIN opened /\ opened[path[e]] = e
        BY <4>1, <1>1, NoneAssumption DEF get
      <4> QED
        BY <3>2, <4>1, <4>2, <2>2, <2>3, <2>6
    <3> QED
      BY <3>1, <3>2
  <2> QED
    BY <2>7, <2>8 DEF CacheExact, get
<1> QED
  BY <1>2, <1>3, <1>4, <1>5 DEF IInv

-----------------------------------------------------------------------------
(* setDocument, given a cache and paths that fit the documents that are    *)
(* open together with the one to be shown.                                 *)

Fits(d, map, paths) ==
    LET shown == (Alive \cup {d}) \ {NoDocument}
    IN /\ paths \in [Document -> Path \cup {NoPath}]
       /\ DOMAIN map \subseteq Path
       /\ \A p \in DOMAIN map : map[p] \in shown /\ paths[map[p]] = p
       /\ \A e \in shown : paths[e] # NoPath => paths[e] \in DOMAIN map /\ map[paths[e]] = e
       /\ \A e \in Document \ shown : paths[e] = NoPath
       /\ \A e \in Alive : paths[e] = path[e]

\* What is open fits itself.
LEMMA OpenedFits ==
    ASSUME IInv, NEW d \in Document \cup {NoDocument},
           d \in Document => path[d] = NoPath \/ d \in Alive
    PROVE  Fits(d, opened, path)
<1>1. Alive \subseteq Document /\ NoDocument \notin Alive
  BY DEF Alive, IInv, Shape
<1>2. \A e \in Alive : path[e] # NoPath => path[e] \in DOMAIN opened /\ opened[path[e]] = e
  BY <1>1 DEF IInv, CacheExact, get
<1> QED
  BY <1>1, <1>2 DEF Fits, IInv, Shape, CacheExact, GoneUnnamed

LEMMA SetDocumentKeeps ==
    ASSUME IInv, NEW w \in Window, NEW d \in Document \cup {NoDocument}, NEW map, NEW paths,
           Fits(d, map, paths), setDocument(w, d, map, paths),
           calls' # <<>> => active' \in Window
    PROVE  IInv'
<1> DEFINE shown == (Alive \cup {d}) \ {NoDocument}
<1> DEFINE gone == Left(w, d)
<1>1. Alive \subseteq Document /\ NoDocument \notin Alive
  BY DEF Alive, IInv, Shape
<1>2. document' = [document EXCEPT ![w] = d] /\ document \in [Window -> Document \cup {NoDocument}]
  BY DEF setDocument, IInv, Shape
<1>3. Alive' = shown \ gone /\ gone \subseteq Alive
  <2>1. Alive' = {document'[v] : v \in Window} \ {NoDocument}
    BY DEF Alive
  <2>2. \A v \in Window : document'[v] = IF v = w THEN d ELSE document[v]
    BY <1>2
  <2>3. gone \subseteq Alive
    BY DEF Left, Alive
  <2>4. ASSUME NEW e \in Alive'
        PROVE  e \in shown \ gone
    <3>1. PICK v \in Window : document'[v] = e /\ e # NoDocument
      BY <2>1
    <3>2. CASE v = w
      BY <3>1, <3>2, <2>2 DEF Left
    <3>3. CASE v # w
      <4>1. e = document[v] /\ e \in Alive
        BY <3>1, <3>3, <2>2 DEF Alive
      <4> QED
        BY <4>1, <3>1, <3>3 DEF Left
    <3> QED
      BY <3>2, <3>3
  <2>5. ASSUME NEW e \in shown \ gone
        PROVE  e \in Alive'
    <3>1. CASE e = d
      BY <3>1, <2>1, <2>2
    <3>2. CASE e # d
      <4>1. PICK v \in Window : document[v] = e /\ e # NoDocument
        BY <3>2 DEF Alive
      <4>2. PICK u \in Window : u # w /\ document[u] = e
        BY <4>1, <3>2 DEF Left
      <4> QED
        BY <4>2, <4>1, <2>1, <2>2
    <3> QED
      BY <3>1, <3>2
  <2> QED
    BY <2>3, <2>4, <2>5
<1>4. gone = {} \/ (gone = {document[w]} /\ document[w] # d /\ document[w] \in Alive)
  BY DEF Left, Alive
<1> HIDE DEF gone
<1>5. path' = [e \in Document |-> IF e \in gone THEN NoPath ELSE paths[e]]
      /\ opened' = IF gone = {} THEN map ELSE Removed(map, document[w])
  BY DEF setDocument, gone
<1>6. /\ paths \in [Document -> Path \cup {NoPath}]
      /\ DOMAIN map \subseteq Path
      /\ \A p \in DOMAIN map : map[p] \in shown /\ paths[map[p]] = p
      /\ \A e \in shown : paths[e] # NoPath => paths[e] \in DOMAIN map /\ map[paths[e]] = e
      /\ \A e \in Document \ shown : paths[e] = NoPath
      /\ \A e \in Alive : paths[e] = path[e]
  BY DEF Fits
<1>7. /\ \A p \in DOMAIN opened' : p \in DOMAIN map /\ opened'[p] = map[p] /\ map[p] \notin gone
      /\ \A p \in DOMAIN map : map[p] \notin gone => p \in DOMAIN opened' /\ opened'[p] = map[p]
  <2>1. CASE gone = {}
    BY <2>1, <1>5
  <2>2. CASE gone = {document[w]} /\ document[w] \in Alive
    <3>1. paths[document[w]] = path[document[w]] /\ document[w] \in shown
      BY <2>2, <1>6, <1>1
    <3>2. CASE path[document[w]] = NoPath
      <4>1. opened' = map
        BY <2>2, <3>2, <1>5 DEF Removed
      <4>2. \A p \in DOMAIN map : map[p] # document[w]
        BY <3>1, <3>2, <1>6, NoneAssumption
      <4> QED
        BY <4>1, <4>2, <2>2
    <3>3. CASE path[document[w]] # NoPath
      <4>1. opened' = Without(map, path[document[w]])
        BY <2>2, <3>3, <1>5 DEF Removed
      <4>2. path[document[w]] \in DOMAIN map /\ map[path[document[w]]] = document[w]
        BY <3>1, <3>3, <1>6
      <4>3. \A p \in DOMAIN map : map[p] = document[w] => p = path[document[w]]
        BY <3>1, <1>6
      <4> QED
        BY <4>1, <4>2, <4>3, <2>2 DEF Without
    <3> QED
      BY <3>2, <3>3
  <2> QED
    BY <2>1, <2>2, <1>4
<1>8. Shape'
  <2>1. listeners' = Listening(w, d)
    BY DEF setDocument
  <2>2. listeners' \in [Document -> SUBSET Window]
    BY <2>1 DEF Listening, IInv, Shape
  <2>3. path' \in [Document -> Path \cup {NoPath}]
    BY <1>5, <1>6
  <2>4. DOMAIN opened' \subseteq Path
    BY <1>7, <1>6
  <2> QED
    BY <1>2, <2>2, <2>3, <2>4 DEF Shape
<1>9. CacheExact'
  <2>1. shown \subseteq Document
    BY <1>1
  <2>2. ASSUME NEW p \in DOMAIN opened'
        PROVE  opened'[p] \in Alive' /\ path'[opened'[p]] = p
    <3>1. opened'[p] = map[p] /\ map[p] \in shown \ gone /\ paths[map[p]] = p
      BY <1>6, <1>7
    <3> QED
      BY <3>1, <2>1, <1>3, <1>5
  <2>3. ASSUME NEW e \in Alive', path'[e] # NoPath
        PROVE  path'[e] \in DOMAIN opened' /\ opened'[path'[e]] = e
    <3>1. e \in shown /\ e \notin gone /\ path'[e] = paths[e]
      BY <1>3, <1>5, <2>1
    <3>2. paths[e] \in DOMAIN map /\ map[paths[e]] = e
      BY <3>1, <2>3, <1>6
    <3>3. paths[e] \in DOMAIN opened' /\ opened'[paths[e]] = e
      BY <3>1, <3>2, <1>7
    <3> QED
      BY <3>1, <3>3
  <2> QED
    BY <2>2, <2>3 DEF CacheExact, get
<1>10. GoneUnnamed'
  <2>1. ASSUME NEW e \in Document \ Alive'
        PROVE  path'[e] = NoPath
    BY <1>3, <1>5, <1>6
  <2> QED
    BY <2>1 DEF GoneUnnamed
<1>11. ListenersExact'
  <2>1. \A e \in Document :
          listeners'[e] = IF e = d THEN listeners[e] \cup {w}
                          ELSE IF e = document[w] THEN listeners[e] \ {w}
                          ELSE listeners[e]
    BY DEF setDocument, Listening
  <2>2. \A e \in Document : listeners[e] = {v \in Window : document[v] = e}
    BY DEF IInv, ListenersExact
  <2>3. \A v \in Window : document'[v] = IF v = w THEN d ELSE document[v]
    BY <1>2
  <2>4. \A e \in Document : e # document[w] => w \notin listeners[e]
    BY <2>2
  <2>5. \A e \in Document :
          listeners'[e] = IF e = d THEN listeners[e] \cup {w} ELSE listeners[e] \ {w}
    BY <2>1, <2>4
  <2> QED
    BY <2>2, <2>3, <2>5 DEF ListenersExact
<1> QED
  BY <1>8, <1>9, <1>10, <1>11 DEF IInv

\* A document that is made is shown.
LEMMA MakesKeep ==
    ASSUME IInv, NEW w \in Window, setDocument(w, Fresh, opened, path),
           calls' # <<>> => active' \in Window
    PROVE  IInv'
<1>1. Fresh \in Document /\ Fresh \notin Alive
  BY FreshIsFree DEF IInv, Shape
<1>2. path[Fresh] = NoPath
  BY <1>1 DEF IInv, GoneUnnamed
<1>3. Fits(Fresh, opened, path)
  BY <1>1, <1>2, OpenedFits
<1> QED
  BY <1>1, <1>3, SetDocumentKeeps

\* A file is opened: the document in the cache, or one that is made for it.
LEMMA OpenKeeps ==
    ASSUME IInv, NEW p \in Path, Open(p)
    PROVE  IInv'
<1>1. active \in Window /\ (calls' # <<>> => active' \in Window)
  BY DEF Open, Step, Returns, IInv, Shape
<1>2. CASE get(p) # NoDocument
  <2>1. get(p) \in Alive /\ get(p) \in Document
    BY <1>2 DEF get, IInv, CacheExact, Alive, Shape
  <2>2. Fits(get(p), opened, path)
    BY <2>1, OpenedFits
  <2>3. setDocument(active, get(p), opened, path)
    BY <1>2 DEF Open
  <2> QED
    BY <1>1, <2>1, <2>2, <2>3, SetDocumentKeeps
<1>3. CASE get(p) = NoDocument
  <2> DEFINE map == Registered(opened, Fresh, p)
  <2> DEFINE paths == [path EXCEPT ![Fresh] = p]
  <2>1. Fresh \in Document /\ Fresh \notin Alive
    BY FreshIsFree DEF IInv, Shape
  <2>2. p \notin DOMAIN opened /\ p # NoPath
    BY <1>3, NoneAssumption DEF get, IInv, CacheExact, Alive
  <2>3. Fits(Fresh, opened, path)
    BY <2>1, OpenedFits DEF IInv, GoneUnnamed
  <2>4. DOMAIN map = DOMAIN opened \cup {p} /\ map[p] = Fresh
        /\ \A q \in DOMAIN opened : map[q] = opened[q]
    BY <2>2 DEF Registered, With
  <2>5. /\ paths \in [Document -> Path \cup {NoPath}]
        /\ \A e \in Document : paths[e] = IF e = Fresh THEN p ELSE path[e]
    BY <2>1 DEF IInv, Shape
  <2>6. path[Fresh] = NoPath /\ Alive \subseteq Document
    BY <2>1 DEF IInv, GoneUnnamed, Alive, Shape
  <2>7. setDocument(active, Fresh, map, paths)
    BY <1>3 DEF Open
  <2> HIDE DEF map, paths
  <2>8. Fits(Fresh, map, paths)
    <3> DEFINE shown == (Alive \cup {Fresh}) \ {NoDocument}
    <3>1. DOMAIN map \subseteq Path
      BY <2>4 DEF IInv, Shape
    <3>2. \A q \in DOMAIN map : map[q] \in shown /\ paths[map[q]] = q
      <4>1. ASSUME NEW q \in DOMAIN opened
            PROVE  opened[q] \in Alive /\ opened[q] # Fresh /\ path[opened[q]] = q /\ opened[q] # NoDocument
        BY <2>1 DEF IInv, CacheExact, Alive
      <4> QED
        BY <4>1, <2>1, <2>4, <2>5, <2>6, NoneAssumption
    <3>3. \A e \in shown : paths[e] # NoPath => paths[e] \in DOMAIN map /\ map[paths[e]] = e
      <4>1. ASSUME NEW e \in Alive, path[e] # NoPath
            PROVE  path[e] \in DOMAIN opened /\ opened[path[e]] = e
        BY <4>1 DEF IInv, CacheExact, get, Alive
      <4> QED
        BY <4>1, <2>1, <2>4, <2>5, <2>6
    <3>4. \A e \in Document \ shown : paths[e] = NoPath
      BY <2>1, <2>5, NoneAssumption DEF IInv, GoneUnnamed
    <3>5. \A e \in Alive : paths[e] = path[e]
      BY <2>1, <2>5, <2>6
    <3> QED
      BY <2>5, <3>1, <3>2, <3>3, <3>4, <3>5 DEF Fits
  <2> QED
    BY <1>1, <2>1, <2>7, <2>8, SetDocumentKeeps
<1> QED
  BY <1>2, <1>3

-----------------------------------------------------------------------------
LEMMA InitHolds == Init => IInv
<1> SUFFICES ASSUME Init PROVE IInv
  OBVIOUS
<1>1. PICK w \in Window, d \in Document :
        /\ document = [v \in Window |-> IF v = w THEN d ELSE NoDocument]
        /\ listeners = [e \in Document |-> IF e = d THEN {w} ELSE {}]
        /\ path = [e \in Document |-> NoPath]
        /\ opened = <<>> /\ calls = <<>>
  BY DEF Init
<1>2. DOMAIN opened = {}
  BY <1>1
<1>3. Shape
  BY <1>1, <1>2 DEF Shape
<1>4. CacheExact /\ GoneUnnamed
  BY <1>1, <1>2 DEF CacheExact, GoneUnnamed, Alive
<1>5. ListenersExact
  BY <1>1, NoneAssumption DEF ListenersExact
<1> QED
  BY <1>3, <1>4, <1>5 DEF IInv

LEMMA NextKeeps == IInv /\ [Next]_vars => IInv'
<1> SUFFICES ASSUME IInv, [Next]_vars PROVE IInv'
  OBVIOUS
<1> USE DEF windows, documents, handler
<1>0. calls # <<>> => active \in Window
  BY DEF IInv, Shape
<1>1. ASSUME NEW d \in Document, NEW p \in Path \cup {NoPath}, setPath(d, p) PROVE IInv'
  BY <1>1, SetPathKeeps
<1>2. ASSUME NEW w \in Window, Edit(w) PROVE IInv'
  BY <1>2, <1>0, OthersKeep DEF Edit
<1>3. ASSUME NEW w \in Window, aboutNew(w) \/ aboutOpen(w) \/ closeEvent(w) \/ CloseNext(w)
      PROVE  IInv'
  <2>1. PICK step \in {"new", "open", "close"} : Asks(w, step)
    BY <1>3 DEF aboutNew, aboutOpen, closeEvent, CloseNext
  <2> QED
    BY <2>1, OthersKeep DEF Asks
<1>4. ASSUME NEW w \in Window, MenuSave(w) PROVE IInv'
  BY <1>4, OthersKeep DEF MenuSave
<1>5. ASSUME NEW w \in Window, aboutNewWindow(w) PROVE IInv'
  BY <1>5, <1>0, MakesKeep DEF aboutNewWindow
<1>6. ASSUME NEW w \in Window, Deleted(w) PROVE IInv'
  <2>1. Fits(NoDocument, opened, path)
    BY OpenedFits, NoneAssumption
  <2> QED
    BY <1>6, <1>0, <2>1, SetDocumentKeeps DEF Deleted
<1>7. CASE aboutQuit \/ QuitEnds
  BY <1>7, <1>0, OthersKeep DEF aboutQuit, QuitEnds
<1>8. CASE aboutSave \/ SaveUnnamed \/ SaveEnds \/ SaveAsCancelled \/ SaveAsAccepted \/ NewUnsupported
             \/ OpenCancelled \/ Close
  BY <1>8, <1>0, OthersKeep
     DEF aboutSave, SaveUnnamed, SaveEnds, SaveAsCancelled, SaveAsAccepted, NewUnsupported,
         OpenCancelled, Close,
         Step, Returns
<1>9. CASE New
  BY <1>9, <1>0, MakesKeep DEF New, Step, Returns
<1>10. ASSUME NEW p \in Path, Open(p) PROVE IInv'
  BY <1>10, OpenKeeps
<1>11. CASE UNCHANGED vars
  BY <1>11, <1>0, OthersKeep DEF vars
<1> QED
  BY <1>1, <1>2, <1>3, <1>4, <1>5, <1>6, <1>7, <1>8, <1>9, <1>10, <1>11 DEF Next

LEMMA Inductive == Spec => []IInv
BY InitHolds, NextKeeps, PTL DEF Spec

\* The factory finds the open document of a path, and only that: for any number of
\* windows and files, and whatever paths documents are given.
THEOREM CacheIsExact == Spec => []CacheExact
<1>1. IInv => CacheExact
  BY DEF IInv
<1> QED
  BY <1>1, Inductive, PTL

\* A window listens to the document it shows and to no other, until it is deleted.
THEOREM ListenersAreExact == Spec => []ListenersExact
<1>1. IInv => ListenersExact
  BY DEF IInv
<1> QED
  BY <1>1, Inductive, PTL

-----------------------------------------------------------------------------
(* The windows and the steps that their handlers have left.                *)

Then == {"new", "open", "close"}

Plans ==
    {<<>>, <<"new">>, <<"open">>, <<"close">>,
     <<"save">>, <<"save", "new">>, <<"save", "open">>, <<"save", "close">>,
     <<"saveAs">>, <<"saveAs", "saved">>, <<"saveAs", "saved", "new">>,
     <<"saveAs", "saved", "open">>, <<"saveAs", "saved", "close">>,
     <<"saved">>, <<"saved", "new">>, <<"saved", "open">>, <<"saved", "close">>, <<"crashed">>}

TInv ==
    /\ state \in [Window -> {"absent", "shown", "closing"}]
    /\ \A w \in Window : state[w] = "absent" <=> document[w] = NoDocument
    /\ modified \in [Window -> BOOLEAN]
    /\ answered \cup failed \subseteq unsaved /\ unsaved \subseteq Alive
    /\ calls \in Plans
    /\ calls # <<>> => state[active] = "shown"

\* What is left of a plan is a plan.
LEMMA PlansGoOn ==
    ASSUME calls \in Plans, calls # <<>>
    PROVE  /\ Tail(calls) \in Plans
           /\ Head(calls) \in Then => Tail(calls) = <<>>
           /\ Head(calls) \in {"save", "saved"} =>
                 Tail(calls) \in {<<>>, <<"new">>, <<"open">>, <<"close">>}
           /\ Head(calls) = "saveAs" => Tail(calls) = <<>> \/ Head(Tail(calls)) = "saved"
<1>1. CASE calls \in {<<"new">>, <<"open">>, <<"close">>, <<"save">>, <<"saveAs">>, <<"saved">>, <<"crashed">>}
  <2>1. ASSUME NEW a, calls = <<a>>
        PROVE  Tail(calls) = <<>>
    BY <2>1
  <2>2. Tail(calls) = <<>>
    BY <1>1, <2>1
  <2> QED
    BY <2>2 DEF Plans
<1>2. CASE calls = <<"saveAs", "saved">>
  <2>1. Head(calls) = "saveAs" /\ Tail(calls) = <<"saved">> /\ Head(<<"saved">>) = "saved"
    BY <1>2
  <2> QED
    BY <2>1 DEF Plans, Then
<1>3. ASSUME NEW a \in Then, calls = <<"save", a>>
      PROVE  Head(calls) = "save" /\ Tail(calls) = <<a>>
  BY <1>3
<1>4. ASSUME NEW a \in Then, calls = <<"saved", a>>
      PROVE  Head(calls) = "saved" /\ Tail(calls) = <<a>>
  BY <1>4
<1>5. ASSUME NEW a \in Then, calls = <<"saveAs", "saved", a>>
      PROVE  Head(calls) = "saveAs" /\ Tail(calls) = <<"saved", a>> /\ Head(Tail(calls)) = "saved"
  BY <1>5
<1>6. CASE \E a \in Then : calls = <<"save", a>>
  <2>1. Head(calls) = "save" /\ Tail(calls) \in {<<"new">>, <<"open">>, <<"close">>}
    BY <1>3, <1>6 DEF Then
  <2> QED
    BY <2>1 DEF Plans, Then
<1>7. CASE \E a \in Then : calls = <<"saved", a>>
  <2>1. Head(calls) = "saved" /\ Tail(calls) \in {<<"new">>, <<"open">>, <<"close">>}
    BY <1>4, <1>7 DEF Then
  <2> QED
    BY <2>1 DEF Plans, Then
<1>8. CASE \E a \in Then : calls = <<"saveAs", "saved", a>>
  <2>1. /\ Head(calls) = "saveAs"
        /\ Tail(calls) \in {<<"saved", "new">>, <<"saved", "open">>, <<"saved", "close">>}
        /\ Head(Tail(calls)) = "saved"
    BY <1>5, <1>8 DEF Then
  <2> QED
    BY <2>1 DEF Plans, Then
<1> QED
  BY <1>1, <1>2, <1>6, <1>7, <1>8 DEF Plans, Then

\* A save without a path first asks for one.
LEMMA PlansSaveAs ==
    ASSUME NEW rest \in {<<>>, <<"new">>, <<"open">>, <<"close">>}
    PROVE  /\ <<"saveAs", "saved">> \o rest \in Plans
           /\ <<"saveAs", "saved">> \o rest # <<>>
           /\ Head(<<"saveAs", "saved">> \o rest) = "saveAs"
<1> DEFINE ask == <<"saveAs", "saved">>
<1>1. ASSUME NEW a \in Steps
      PROVE  ask \o <<a>> = <<"saveAs", "saved", a>>
  <2> DEFINE left == ask \o <<a>>
             right == <<"saveAs", "saved", a>>
  <2>1. "saveAs" \in Steps /\ "saved" \in Steps
    BY DEF Steps
  <2>2. ask \in Seq(Steps) /\ <<a>> \in Seq(Steps) /\ right \in Seq(Steps)
    BY <2>1
  <2>3. Len(ask) = 2 /\ Len(<<a>>) = 1 /\ Len(right) = 3
    OBVIOUS
  <2>4. left \in Seq(Steps) /\ Len(left) = 3
    BY <2>2, <2>3, ConcatProperties
  <2>5. left[1] = right[1] /\ left[2] = right[2] /\ left[3] = right[3]
    BY <2>2, <2>3, ConcatProperties
  <2>6. \A i \in 1 .. Len(left) : left[i] = right[i]
    BY <2>4, <2>5
  <2> HIDE DEF left, right
  <2>7. left = right
    BY <2>2, <2>3, <2>4, <2>6, SeqEqual
  <2> QED
    BY <2>7 DEF left, right
<1>2. ask \o <<>> = ask
  <2>1. "saveAs" \in Steps /\ "saved" \in Steps
    BY DEF Steps
  <2>2. ask \in Seq(Steps)
    BY <2>1
  <2> HIDE DEF ask
  <2> QED
    BY <2>2, ConcatEmptySeq
<1>3. CASE rest = <<>>
  BY <1>2, <1>3 DEF Plans
<1>4. ASSUME NEW a \in Then, rest = <<a>>
      PROVE  ask \o rest = <<"saveAs", "saved", a>>
  BY <1>1, <1>4 DEF Then, Steps
<1>5. CASE \E a \in Then : rest = <<a>>
  <2>1. ask \o rest \in {<<"saveAs", "saved", "new">>, <<"saveAs", "saved", "open">>,
                         <<"saveAs", "saved", "close">>}
    BY <1>4, <1>5 DEF Then
  <2> QED
    BY <2>1 DEF Plans
<1> QED
  BY <1>3, <1>5 DEF Then

\* Another document is shown in a window.
LEMMA SetDocumentTypes ==
    ASSUME IInv, TInv, NEW w \in Window, NEW d \in Document \cup {NoDocument}, NEW map, NEW paths,
           setDocument(w, d, map, paths)
    PROVE  /\ modified' \in [Window -> BOOLEAN]
           /\ answered' \cup failed' \subseteq unsaved' /\ unsaved' \subseteq Alive'
           /\ document' = [document EXCEPT ![w] = d]
           /\ \A v \in Window : document'[v] = IF v = w THEN d ELSE document[v]
           /\ \A e \in Alive : e \notin Left(w, d) => e \in Alive'
<1>1. /\ document \in [Window -> Document \cup {NoDocument}]
      /\ document' = [document EXCEPT ![w] = d]
      /\ modified' = [modified EXCEPT ![w] = FALSE]
      /\ unsaved' = unsaved \ Left(w, d) /\ answered' = answered \ Left(w, d)
      /\ failed' = failed \ Left(w, d)
  BY DEF setDocument, IInv, Shape
<1>2. \A v \in Window : document'[v] = IF v = w THEN d ELSE document[v]
  BY <1>1
<1>3. modified' \in [Window -> BOOLEAN]
  BY <1>1 DEF TInv
<1>4. ASSUME NEW e \in Alive, e \notin Left(w, d)
      PROVE  e \in Alive'
  <2>1. PICK v \in Window : document[v] = e /\ e # NoDocument
    BY DEF Alive
  <2>2. CASE v # w
    BY <2>1, <2>2, <1>2 DEF Alive
  <2>3. CASE v = w /\ e = d
    BY <2>1, <2>3, <1>2 DEF Alive
  <2>4. CASE v = w /\ e # d
    <3>1. PICK u \in Window : u # w /\ document[u] = e
      BY <2>1, <2>4, <1>4 DEF Left
    <3> QED
      BY <3>1, <2>1, <1>2 DEF Alive
  <2> QED
    BY <2>2, <2>3, <2>4
<1> QED
  BY <1>1, <1>2, <1>3, <1>4 DEF TInv

LEMMA TypesInit == Init => TInv
<1> SUFFICES ASSUME Init PROVE TInv
  OBVIOUS
<1> QED
  BY NoneAssumption DEF Init, TInv, Plans, Alive

LEMMA TypesStep ==
    ASSUME IInv, TInv, [Next]_vars
    PROVE  TInv'
<1> USE DEF windows, documents, handler
<1>0. /\ calls # <<>> => active \in Window
      /\ document \in [Window -> Document \cup {NoDocument}]
      /\ Alive \subseteq Document /\ NoDocument \notin Alive
      /\ <<>> \in Plans
  BY DEF IInv, Shape, Alive, Plans
<1>1. ASSUME NEW d \in Document, NEW p \in Path \cup {NoPath}, setPath(d, p) PROVE TInv'
  BY <1>1 DEF setPath, TInv, Alive
<1>2. ASSUME NEW w \in Window, Edit(w) PROVE TInv'
  <2>1. document[w] \in Alive
    BY <1>2, <1>0 DEF Edit, TInv, Alive
  <2> QED
    BY <1>2, <2>1 DEF Edit, TInv, Alive
<1>3. ASSUME NEW w \in Window, aboutNew(w) \/ aboutOpen(w) \/ closeEvent(w) \/ CloseNext(w)
      PROVE  TInv'
  <2>1. PICK step \in {"new", "open", "close"} : Asks(w, step) /\ state[w] = "shown"
    BY <1>3 DEF aboutNew, aboutOpen, closeEvent, CloseNext, Idle
  <2>2. <<step>> \in Plans /\ <<"save", step>> \in Plans
    BY DEF Plans
  <2>3. /\ Alive' = Alive /\ active' = w /\ calls' \in Plans
        /\ unsaved' = unsaved /\ failed' = failed /\ answered' \subseteq unsaved
    BY <2>1, <2>2, <1>0 DEF Asks, Alive, TInv
  <2> QED
    BY <2>1, <2>3 DEF Asks, TInv
<1>4. ASSUME NEW w \in Window, MenuSave(w) PROVE TInv'
  <2>1. <<"save">> \in Plans /\ <<"saveAs">> \in Plans
    BY DEF Plans
  <2> QED
    BY <1>4, <2>1 DEF MenuSave, Idle, TInv, Alive
<1>5. ASSUME NEW w \in Window, aboutNewWindow(w) PROVE TInv'
  <2>1. Fresh \in Document
    BY <1>0, FreshIsFree
  <2>2. setDocument(w, Fresh, opened, path)
    BY <1>5 DEF aboutNewWindow
  <2>3. /\ modified' \in [Window -> BOOLEAN]
        /\ answered' \cup failed' \subseteq unsaved' /\ unsaved' \subseteq Alive'
        /\ \A v \in Window : document'[v] = IF v = w THEN Fresh ELSE document[v]
    BY <2>1, <2>2, SetDocumentTypes
  <2> QED
    BY <1>5, <2>1, <2>3, NoneAssumption DEF aboutNewWindow, TInv
<1>6. ASSUME NEW w \in Window, Deleted(w) PROVE TInv'
  <2>1. setDocument(w, NoDocument, opened, path)
    BY <1>6 DEF Deleted
  <2>2. /\ modified' \in [Window -> BOOLEAN]
        /\ answered' \cup failed' \subseteq unsaved' /\ unsaved' \subseteq Alive'
        /\ \A v \in Window : document'[v] = IF v = w THEN NoDocument ELSE document[v]
    BY <2>1, SetDocumentTypes
  <2> QED
    BY <1>6, <2>2 DEF Deleted, TInv
<1>7. CASE aboutQuit \/ QuitEnds
  BY <1>7 DEF aboutQuit, QuitEnds, TInv, Alive
<1>8. CASE aboutSave
  <2>1. Tail(calls) \in Plans /\ calls # <<>>
    BY <1>8, PlansGoOn DEF aboutSave, Step, TInv
  <2>2. /\ unsaved' \subseteq unsaved /\ answered' \cup failed' \subseteq unsaved'
        /\ Alive' = Alive
    BY <1>8 DEF aboutSave, Alive, TInv
  <2> QED
    BY <1>8, <2>1, <2>2 DEF aboutSave, Returns, TInv
<1>9. CASE SaveUnnamed
  BY <1>9, PlansGoOn, PlansSaveAs DEF SaveUnnamed, Step, TInv, Alive
<1>10. CASE SaveEnds \/ SaveAsCancelled \/ NewUnsupported \/ OpenCancelled
  BY <1>10, PlansGoOn
     DEF SaveEnds, SaveAsCancelled, NewUnsupported, OpenCancelled, Step, Returns, TInv, Alive, Then
<1>11. CASE SaveAsAccepted
  BY <1>11, PlansGoOn DEF SaveAsAccepted, Step, TInv, Alive, Plans
<1>12. CASE Close
  <2>1. calls' = <<>> /\ active \in Window /\ state[active] = "shown" /\ Alive' = Alive
    BY <1>12, <1>0, PlansGoOn DEF Close, Step, Returns, TInv, Alive, Then
  <2> QED
    BY <1>12, <1>0, <2>1 DEF Close, TInv
<1>13. ASSUME NEW d \in Document, NEW map, NEW paths, setDocument(active, d, map, paths),
              calls # <<>>, calls' \in Plans, active' = active, state' = state
       PROVE  TInv'
  <2>1. active \in Window
    BY <1>0, <1>13
  <2>2. /\ modified' \in [Window -> BOOLEAN]
        /\ answered' \cup failed' \subseteq unsaved' /\ unsaved' \subseteq Alive'
        /\ \A v \in Window : document'[v] = IF v = active THEN d ELSE document[v]
    BY <2>1, <1>13, SetDocumentTypes
  <2> QED
    BY <1>13, <2>1, <2>2, NoneAssumption DEF TInv
<1>14. CASE New
  <2>1. Fresh \in Document
    BY <1>0, FreshIsFree
  <2> QED
    BY <1>14, <2>1, <1>13, PlansGoOn DEF New, Step, Returns, TInv
<1>15. ASSUME NEW p \in Path, Open(p) PROVE TInv'
  <2>1. Fresh \in Document
    BY <1>0, FreshIsFree
  <2>2. get(p) # NoDocument => get(p) \in Document
    BY <1>0 DEF get, IInv, CacheExact
  <2>3. calls # <<>> /\ calls' \in Plans /\ active' = active /\ state' = state
    BY <1>15, PlansGoOn DEF Open, Step, Returns, TInv
  <2> QED
    BY <1>15, <2>1, <2>2, <2>3, <1>13 DEF Open
<1>16. CASE UNCHANGED vars
  BY <1>16 DEF vars, TInv, Alive
<1> QED
  BY <1>1, <1>2, <1>3, <1>4, <1>5, <1>6, <1>7, <1>8, <1>9, <1>10, <1>11, <1>12, <1>14, <1>15,
     <1>16 DEF Next

LEMMA InductiveTypes == Spec => [](IInv /\ TInv)
BY InitHolds, NextKeeps, TypesInit, TypesStep, PTL DEF Spec

\* Every variable keeps its type, a handler always runs for a window that is shown,
\* and what is left for it to do is one of few plans.
THEOREM TypeCorrect == Spec => []TypeOK
<1>1. ASSUME calls \in Plans
      PROVE  calls \in UNION {[1 .. n -> Steps] : n \in 0 .. 3}
  <2>1. /\ 0 \in 0 .. 3 /\ 1 \in 0 .. 3 /\ 2 \in 0 .. 3 /\ 3 \in 0 .. 3
    OBVIOUS
  <2>2. <<>> \in [1 .. 0 -> Steps]
    OBVIOUS
  <2>3. \A s \in Steps : <<s>> \in [1 .. 1 -> Steps]
    OBVIOUS
  <2>4. \A s, t \in Steps : <<s, t>> \in [1 .. 2 -> Steps]
    OBVIOUS
  <2>5. \A s, t, u \in Steps : <<s, t, u>> \in [1 .. 3 -> Steps]
    OBVIOUS
  <2>6. \/ calls = <<>>
        \/ \E s \in Steps : calls = <<s>>
        \/ \E s, t \in Steps : calls = <<s, t>>
        \/ \E s, t, u \in Steps : calls = <<s, t, u>>
    BY <1>1 DEF Plans, Steps
  <2>7. \A n \in 0 .. 3 : [1 .. n -> Steps] \subseteq UNION {[1 .. m -> Steps] : m \in 0 .. 3}
    OBVIOUS
  <2>8. CASE calls = <<>>
    BY <2>1, <2>2, <2>7, <2>8
  <2>9. ASSUME NEW s \in Steps, calls = <<s>>
        PROVE  calls \in UNION {[1 .. n -> Steps] : n \in 0 .. 3}
    <3>1. calls \in [1 .. 1 -> Steps]
      BY <2>3, <2>9
    <3> QED
      BY <2>1, <2>7, <3>1
  <2>10. ASSUME NEW s \in Steps, NEW t \in Steps, calls = <<s, t>>
         PROVE  calls \in UNION {[1 .. n -> Steps] : n \in 0 .. 3}
    <3>1. calls \in [1 .. 2 -> Steps]
      BY <2>4, <2>10
    <3> QED
      BY <2>1, <2>7, <3>1
  <2>11. ASSUME NEW s \in Steps, NEW t \in Steps, NEW u \in Steps, calls = <<s, t, u>>
         PROVE  calls \in UNION {[1 .. n -> Steps] : n \in 0 .. 3}
    <3>1. calls \in [1 .. 3 -> Steps]
      BY <2>5, <2>11
    <3> QED
      BY <2>1, <2>7, <3>1
  <2> QED
    BY <2>6, <2>8, <2>9, <2>10, <2>11
<1>2. ASSUME IInv, TInv
      PROVE  TypeOK
  <2>1. Alive \subseteq Document
    BY <1>2 DEF IInv, Shape, Alive
  <2>2. \A p \in DOMAIN opened : opened[p] \in Document
    BY <1>2, <2>1 DEF IInv, CacheExact
  <2> QED
    BY <1>1, <1>2, <2>1, <2>2 DEF IInv, Shape, TInv, TypeOK
<1> QED
  BY <1>2, InductiveTypes, PTL

-----------------------------------------------------------------------------
(* Text at risk.                                                           *)

AtRisk == unsaved \ (answered \cup failed)

Knows(w, d) == document[w] = d /\ state[w] = "shown" /\ modified[w] = TRUE

\* The next step gives up the document of the window.
Leaves == calls # <<>> /\ Head(calls) \in {"new", "open", "close"}

LossInv ==
    /\ \A d \in AtRisk : \E w \in Window : Knows(w, d)
    /\ Leaves => \A d \in AtRisk : ~ Knows(active, d)

LEMMA LossInit == Init => LossInv
BY DEF Init, LossInv, AtRisk, Leaves

\* A window that does not know of a text may go on to another document: the text
\* stays where it is known.
LEMMA LeavingKeeps ==
    ASSUME IInv, TInv, LossInv, NEW w \in Window, NEW d \in Document \cup {NoDocument},
           NEW map, NEW paths, setDocument(w, d, map, paths),
           \A e \in AtRisk : ~ Knows(w, e),
           \A v \in Window \ {w} : state'[v] = state[v],
           calls' = <<>>
    PROVE  LossInv' /\ AtRisk \subseteq Alive'
<1>1. /\ \A v \in Window : document'[v] = IF v = w THEN d ELSE document[v]
      /\ \A e \in Alive : e \notin Left(w, d) => e \in Alive'
  BY SetDocumentTypes
<1>2. /\ modified' = [modified EXCEPT ![w] = FALSE]
      /\ unsaved' = unsaved \ Left(w, d) /\ answered' = answered \ Left(w, d)
      /\ failed' = failed \ Left(w, d)
  BY DEF setDocument
<1>3. \A v \in Window \ {w} : modified'[v] = modified[v]
  BY <1>2 DEF TInv
<1>4. ASSUME NEW e \in AtRisk
      PROVE  \E v \in Window : v # w /\ Knows(v, e) /\ Knows(v, e)'
  <2>1. PICK v \in Window : Knows(v, e)
    BY DEF LossInv
  <2> QED
    BY <2>1, <1>1, <1>3 DEF Knows
<1>5. \A e \in AtRisk : e \in Alive /\ e \notin Left(w, d)
  BY <1>4 DEF Knows, Left, TInv, AtRisk
<1>6. AtRisk' \subseteq AtRisk
  BY <1>2 DEF AtRisk
<1> QED
  BY <1>1, <1>4, <1>5, <1>6 DEF LossInv, Leaves

\* A step that leaves windows and texts as they are, and leads to no leaving.
LEMMA OthersRisk ==
    ASSUME LossInv, UNCHANGED <<document, state, modified>>, AtRisk' \subseteq AtRisk,
           Leaves' => \A d \in AtRisk' : ~ Knows(active, d)'
    PROVE  LossInv'
BY DEF LossInv, Knows

LEMMA LossStep ==
    ASSUME IInv, TInv, LossInv, [Next]_vars
    PROVE  LossInv' /\ AtRisk \subseteq Alive'
<1> USE DEF windows, documents, handler
<1>0. /\ calls # <<>> => active \in Window
      /\ document \in [Window -> Document \cup {NoDocument}]
      /\ Alive \subseteq Document /\ AtRisk \subseteq Alive
  BY DEF IInv, Shape, Alive, TInv, AtRisk
<1>1. ASSUME NEW d \in Document, NEW p \in Path \cup {NoPath}, setPath(d, p)
      PROVE  LossInv' /\ AtRisk \subseteq Alive'
  BY <1>0, <1>1, OthersRisk DEF setPath, AtRisk, Alive, Leaves
<1>2. ASSUME NEW w \in Window, Edit(w)
      PROVE  LossInv' /\ AtRisk \subseteq Alive'
  <2>1. /\ document' = document /\ state' = state /\ calls' = <<>> /\ state[w] = "shown"
        /\ unsaved' = unsaved \cup {document[w]} /\ answered' = answered \ {document[w]}
        /\ failed' = failed \ {document[w]}
        /\ modified' = [v \in Window |-> modified[v] \/ v \in listeners[document[w]]]
    BY <1>2 DEF Edit
  <2>2. document[w] \in Document /\ w \in listeners[document[w]]
    BY <2>1, <1>0 DEF TInv, IInv, ListenersExact
  <2>3. Knows(w, document[w])'
    BY <2>1, <2>2 DEF Knows
  <2>4. \A v \in Window, e \in AtRisk : Knows(v, e) => Knows(v, e)'
    BY <2>1 DEF Knows
  <2>5. AtRisk' \subseteq AtRisk \cup {document[w]}
    BY <2>1 DEF AtRisk
  <2> QED
    BY <2>1, <2>3, <2>4, <2>5, <1>0 DEF LossInv, Leaves, Alive
<1>3. ASSUME NEW w \in Window, aboutNew(w) \/ aboutOpen(w) \/ closeEvent(w) \/ CloseNext(w)
      PROVE  LossInv' /\ AtRisk \subseteq Alive'
  <2>1. PICK step \in {"new", "open", "close"} : Asks(w, step) /\ state[w] = "shown"
    BY <1>3 DEF aboutNew, aboutOpen, closeEvent, CloseNext, Idle
  <2>2. /\ active' = w /\ UNCHANGED <<document, state, modified>> /\ Alive' = Alive
        /\ unsaved' = unsaved /\ failed' = failed /\ answered \subseteq answered'
        /\ AtRisk' \subseteq AtRisk
    BY <2>1 DEF Asks, AtRisk, Alive
  <2>3. document[w] # NoDocument
    BY <2>1 DEF TInv
  <2>4. CASE ~ check4save(w)
    <3>1. \A d \in AtRisk' : ~ Knows(w, d)'
      BY <2>2, <2>3, <2>4 DEF check4save, Knows
    <3>2. calls' = <<step>>
      BY <2>1, <2>4 DEF Asks
    <3> QED
      BY <2>2, <3>1, <3>2, <1>0, OthersRisk
  <2>5. CASE check4save(w) /\ calls' = <<step>> /\ answered' = answered \cup ({document[w]} \cap unsaved)
    <3>1. \A d \in AtRisk' : ~ Knows(w, d)'
      BY <2>2, <2>5 DEF AtRisk, Knows
    <3> QED
      BY <2>2, <2>5, <3>1, <1>0, OthersRisk
  <2>6. CASE calls' = <<"save", step>> \/ calls' = <<>>
    <3>1. ~ Leaves'
      BY <2>6 DEF Leaves
    <3> QED
      BY <2>2, <3>1, <1>0, OthersRisk
  <2> QED
    BY <2>1, <2>4, <2>5, <2>6 DEF Asks
<1>4. ASSUME NEW w \in Window, MenuSave(w)
      PROVE  LossInv' /\ AtRisk \subseteq Alive'
  <2>1. calls' \in {<<"save">>, <<"saveAs">>}
    BY <1>4 DEF MenuSave
  <2>2. ~ Leaves'
    BY <2>1 DEF Leaves
  <2> QED
    BY <1>4, <2>2, <1>0, OthersRisk DEF MenuSave, AtRisk, Alive
<1>5. ASSUME NEW w \in Window, aboutNewWindow(w)
      PROVE  LossInv' /\ AtRisk \subseteq Alive'
  <2>1. Fresh \in Document
    BY <1>0, FreshIsFree
  <2>2. /\ setDocument(w, Fresh, opened, path) /\ calls' = <<>>
        /\ \A v \in Window \ {w} : state'[v] = state[v] /\ state[w] # "shown"
    BY <1>5 DEF aboutNewWindow, TInv
  <2>3. \A e \in AtRisk : ~ Knows(w, e)
    BY <1>5 DEF aboutNewWindow, Knows
  <2> QED
    BY <2>1, <2>2, <2>3, LeavingKeeps
<1>6. ASSUME NEW w \in Window, Deleted(w)
      PROVE  LossInv' /\ AtRisk \subseteq Alive'
  <2>1. /\ setDocument(w, NoDocument, opened, path) /\ calls' = <<>>
        /\ \A v \in Window \ {w} : state'[v] = state[v]
    BY <1>6 DEF Deleted, TInv
  <2>2. \A e \in AtRisk : ~ Knows(w, e)
    BY <1>6 DEF Deleted, Knows
  <2> QED
    BY <2>1, <2>2, LeavingKeeps
<1>7. CASE aboutQuit \/ QuitEnds
  BY <1>7, <1>0, OthersRisk DEF aboutQuit, QuitEnds, AtRisk, Alive, Leaves
\* However a save ends, the window takes its text for saved, and nobody else's.
<1>8. ASSUME UNCHANGED <<document, state>>, active \in Window, active' = active,
             modified' = [modified EXCEPT ![active] = FALSE], AtRisk' = AtRisk \ {document[active]}
      PROVE  LossInv' /\ AtRisk \subseteq Alive'
  <2>1. \A v \in Window, e \in AtRisk' : Knows(v, e) => Knows(v, e)'
    BY <1>8 DEF Knows, TInv
  <2>2. \A e \in AtRisk' : ~ Knows(active, e)'
    BY <1>8 DEF Knows
  <2> QED
    BY <1>0, <1>8, <2>1, <2>2 DEF LossInv, Alive
<1>18. CASE aboutSave
  <2>1. PICK written \in SUBSET {document[active]} :
            /\ unsaved' = unsaved \ written
            /\ answered' = answered \ written
            /\ failed' = (failed \cup ({document[active]} \cap unsaved)) \ written
    BY <1>18 DEF aboutSave
  <2>2. AtRisk' = AtRisk \ {document[active]}
    BY <2>1 DEF AtRisk
  <2> QED
    BY <1>18, <1>8, <2>2, <1>0 DEF aboutSave, Step, Returns
<1>19. CASE SaveEnds
  <2>1. AtRisk' = AtRisk \ {document[active]}
    BY <1>19 DEF SaveEnds, AtRisk
  <2> QED
    BY <1>19, <1>8, <2>1, <1>0 DEF SaveEnds, Step, Returns
<1>9. CASE SaveUnnamed
  <2>1. calls # <<>> /\ Head(calls) = "save" /\ calls' = <<"saveAs", "saved">> \o Tail(calls)
    BY <1>9 DEF SaveUnnamed, Step
  <2>2. Head(calls') = "saveAs"
    <3>1. Tail(calls) \in {<<>>, <<"new">>, <<"open">>, <<"close">>}
      BY <2>1, PlansGoOn DEF TInv
    <3> QED
      BY <2>1, <3>1, PlansSaveAs
  <2> QED
    BY <1>9, <2>2, <1>0, OthersRisk DEF SaveUnnamed, AtRisk, Alive, Leaves
<1>10. CASE SaveAsCancelled
  <2>1. calls' = <<>> \/ Head(calls') = "saved"
    BY <1>10, PlansGoOn DEF SaveAsCancelled, Step, Returns, TInv
  <2> QED
    BY <1>10, <2>1, <1>0, OthersRisk DEF SaveAsCancelled, Returns, AtRisk, Alive, Leaves
<1>11. CASE SaveAsAccepted
  <2>1. Head(calls') = "crashed"
    BY <1>11 DEF SaveAsAccepted
  <2> QED
    BY <1>11, <2>1, <1>0, OthersRisk DEF SaveAsAccepted, AtRisk, Alive, Leaves
<1>12. CASE NewUnsupported \/ OpenCancelled
  <2>1. calls' = <<>>
    BY <1>12, PlansGoOn DEF NewUnsupported, OpenCancelled, Step, Returns, TInv, Then
  <2> QED
    BY <1>12, <2>1, <1>0, OthersRisk DEF NewUnsupported, OpenCancelled, AtRisk, Alive, Leaves
<1>13. CASE Close
  <2>1. /\ calls' = <<>> /\ active \in Window /\ UNCHANGED <<document, modified, unsaved, answered, failed>>
        /\ state' = [state EXCEPT ![active] = "closing"]
        /\ \A e \in AtRisk : ~ Knows(active, e)
    BY <1>13, <1>0, PlansGoOn DEF Close, Step, Returns, TInv, LossInv, Leaves, Then
  <2>2. \A v \in Window, e \in AtRisk : Knows(v, e) => Knows(v, e)'
    BY <2>1 DEF Knows, TInv
  <2> QED
    BY <2>1, <2>2, <1>0 DEF LossInv, AtRisk, Leaves, Alive
<1>14. ASSUME NEW d \in Document, NEW map, NEW paths, setDocument(active, d, map, paths),
              Leaves, calls' = Tail(calls), state' = state
       PROVE  LossInv' /\ AtRisk \subseteq Alive'
  <2>1. active \in Window /\ calls' = <<>> /\ \A e \in AtRisk : ~ Knows(active, e)
    BY <1>14, <1>0, PlansGoOn DEF Leaves, LossInv, TInv, Then
  <2> QED
    BY <1>14, <2>1, LeavingKeeps
<1>15. CASE New
  <2>1. Fresh \in Document
    BY <1>0, FreshIsFree
  <2> QED
    BY <1>15, <2>1, <1>14 DEF New, Step, Returns, Leaves
<1>16. ASSUME NEW p \in Path, Open(p)
       PROVE  LossInv' /\ AtRisk \subseteq Alive'
  <2>1. Fresh \in Document
    BY <1>0, FreshIsFree
  <2>2. get(p) # NoDocument => get(p) \in Document
    BY <1>0 DEF get, IInv, CacheExact
  <2>3. Leaves /\ calls' = Tail(calls) /\ state' = state
    BY <1>16 DEF Open, Step, Returns, Leaves
  <2> QED
    BY <1>16, <2>1, <2>2, <2>3, <1>14 DEF Open
<1>17. CASE UNCHANGED vars
  BY <1>17, <1>0, OthersRisk DEF vars, AtRisk, Alive, Leaves, LossInv, Knows
<1> QED
  BY <1>1, <1>2, <1>3, <1>4, <1>5, <1>6, <1>7, <1>9, <1>10, <1>11, <1>12, <1>13, <1>15, <1>16,
     <1>17, <1>18, <1>19 DEF Next

\* No step of any number of windows loses a text unasked, unless a save of it, asked
\* for since it was last changed, came to nothing.
THEOREM LosesOnlyFailedSaves == Spec => LosesFailedSaves
<1>1. IInv /\ TInv /\ LossInv /\ [Next]_vars => LossInv'
  BY LossStep
<1>2. IInv /\ TInv /\ LossInv /\ [Next]_vars
        => [\A d \in unsaved \ (answered \cup failed) : d \in Alive => d \in Alive']_vars
  BY LossStep DEF AtRisk
<1> QED
  BY <1>1, <1>2, LossInit, InductiveTypes, PTL DEF Spec, LosesFailedSaves
=============================================================================
