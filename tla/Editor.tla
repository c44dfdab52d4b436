------------------------------- MODULE Editor -------------------------------
(***************************************************************************)
(* The windows of the editor program (programs/qtextedit, CMainWindow) and *)
(* the text documents they show (plugins/liboaf-txt, CTextDocument), which *)
(* the factory of the plugin keeps by path (CFactory): a file that is open *)
(* in one window is the same document in every other.                      *)
(*                                                                         *)
(* A handler of a window asks, saves, and then does what it is for; these  *)
(* are the steps in `calls'.  The dialogs in between are modal, so nothing *)
(* but the steps of that handler happens until it returns.                 *)
(***************************************************************************)
EXTENDS Naturals, Sequences, FiniteSets

CONSTANTS
    Window, Document, Path,     \* what can be open at a time, and the files
    NoDocument, NoPath, NoWindow

ASSUME NoneAssumption == NoDocument \notin Document /\ NoPath \notin Path
\* There is always room for one more document.
ASSUME RoomAssumption ==
    \A f \in [Window -> Document \cup {NoDocument}] : \E d \in Document : \A w \in Window : f[w] # d

VARIABLES
    state,      \* of a window: absent, shown, or closing until it is deleted
    document,   \* m_document of a window, which its editor refers to as well
    modified,   \* m_is_modified of a window
    listeners,  \* the windows subscribed to a document
    path,       \* m_path of a document
    opened,     \* m_opened_files of the factory: from paths to documents
    active, calls,  \* the window whose handler runs, and the steps it has left
    quitting,   \* whether closeAllWindows is under way
    unsaved,    \* documents changed since they were last read or written
    answered,   \* of these, the ones that the user agreed to lose since
    failed      \* and those that were to be saved since, which came to nothing

windows   == <<state, document, modified>>
documents == <<listeners, path, opened, unsaved, answered, failed>>
handler   == <<active, calls, quitting>>
vars      == <<windows, documents, handler>>

Without(f, x) == [y \in DOMAIN f \ {x} |-> f[y]]
With(f, x, v) == [y \in DOMAIN f \cup {x} |-> IF y = x THEN v ELSE f[y]]

Alive == {document[w] : w \in Window} \ {NoDocument}
Fresh == CHOOSE d \in Document : d \notin Alive

-----------------------------------------------------------------------------
(* CTextDocument and CFactory.                                             *)

\* CFactory::get.
get(p) == IF p \in DOMAIN opened THEN opened[p] ELSE NoDocument

\* Fault: the entry of a document outlives it.
Removed_Never(map, d) == map

\* The entry of a document that has a path leaves the cache.
Removed(map, d) == IF path[d] = NoPath THEN map ELSE Without(map, path[d])

\* Fault: the empty path is a path like others.
Registered_Empty(map, d, p) == With(map, p, d)

Registered(map, d, p) == IF p = NoPath THEN map ELSE With(map, p, d)

\* setVirtualValue: another component that has the document sets its path, or
\* clears it; a path that is open already is refused.
setPath(d, p) ==
    /\ calls = <<>>
    /\ d \in Alive
    /\ get(p) = NoDocument
    /\ opened' = Registered(Removed(opened, d), d, p)
    /\ path' = [path EXCEPT ![d] = p]
    /\ UNCHANGED <<windows, handler, listeners, unsaved, answered, failed>>

\* aboutContentsChanged, and notify of the windows that listen.
Edit(w) ==
    /\ calls = <<>> /\ ~ quitting
    /\ state[w] = "shown"
    /\ LET d == document[w]
       IN /\ modified' = [v \in Window |-> modified[v] \/ v \in listeners[d]]
          /\ unsaved' = unsaved \cup {d}
          /\ answered' = answered \ {d}
          /\ failed' = failed \ {d}
    /\ UNCHANGED <<state, document, listeners, path, opened, handler>>

-----------------------------------------------------------------------------
(* CMainWindow::setDocument, which shows document d, with path p, in       *)
(* window w.  The document that w showed goes when no other window has it. *)

Left(w, d) == {document[w]} \ ({d, NoDocument} \cup {document[v] : v \in Window \ {w}})

\* Fault: the window goes on listening to the document that it showed.
Listening_On(w, d) ==
    [e \in Document |-> IF e = d THEN listeners[e] \cup {w} ELSE listeners[e]]

\* The window unsubscribes from the document that it showed, and subscribes to d.
Listening(w, d) ==
    [e \in Document |-> IF e = d THEN listeners[e] \cup {w}
                        ELSE IF e = document[w] THEN listeners[e] \ {w}
                        ELSE listeners[e]]

setDocument(w, d, map, paths) ==
    /\ document' = [document EXCEPT ![w] = d]
    /\ modified' = [modified EXCEPT ![w] = FALSE]
    /\ listeners' = Listening(w, d)
    /\ opened' = (IF Left(w, d) = {} THEN map ELSE Removed(map, document[w]))
    /\ path' = [e \in Document |-> IF e \in Left(w, d) THEN NoPath ELSE paths[e]]
    /\ unsaved' = unsaved \ Left(w, d)
    /\ answered' = answered \ Left(w, d)
    /\ failed' = failed \ Left(w, d)

-----------------------------------------------------------------------------
(* The handlers of a window.                                               *)

\* Fault: a document that has no path is not asked about.
check4save_Named(w) == modified[w] /\ path[document[w]] # NoPath

check4save(w) == document[w] # NoDocument /\ modified[w]

\* A handler starts with the question, if there is something to ask: what comes
\* next is done after Discard, after Save and a save, or, after Cancel, not at all.
Asks(w, step) ==
    /\ active' = w
    /\ \/ /\ ~ check4save(w)
          /\ calls' = <<step>>
          /\ UNCHANGED <<answered, quitting>>
       \/ /\ check4save(w)
          /\ \/ calls' = <<step>> /\ answered' = answered \cup ({document[w]} \cap unsaved)
                                  /\ UNCHANGED quitting
             \/ calls' = <<"save", step>> /\ UNCHANGED <<answered, quitting>>
             \/ calls' = <<>> /\ quitting' = FALSE /\ UNCHANGED answered
    /\ UNCHANGED <<windows, listeners, path, opened, unsaved, failed>>

Idle(w) == calls = <<>> /\ ~ quitting /\ state[w] = "shown"

aboutNew(w)    == Idle(w) /\ Asks(w, "new")
aboutOpen(w)   == Idle(w) /\ Asks(w, "open")
closeEvent(w)  == Idle(w) /\ Asks(w, "close")
\* Of the windows that are shown closeAllWindows closes one after another.
CloseNext(w)   == calls = <<>> /\ quitting /\ state[w] = "shown" /\ Asks(w, "close")

\* Save and Save As from the menu, which ask nothing.
MenuSave(w) ==
    /\ Idle(w)
    /\ active' = w
    /\ \E step \in {"save", "saveAs"} : calls' = <<step>>
    /\ UNCHANGED <<windows, documents, quitting>>

aboutQuit ==
    /\ calls = <<>> /\ ~ quitting
    /\ \E w \in Window : state[w] = "shown"
    /\ quitting' = TRUE
    /\ UNCHANGED <<windows, documents, active, calls>>

QuitEnds ==
    /\ calls = <<>> /\ quitting
    /\ \A w \in Window : state[w] # "shown"
    /\ quitting' = FALSE
    /\ UNCHANGED <<windows, documents, active, calls>>

\* The constructor of a window, which makes an empty document.
aboutNewWindow(w) ==
    /\ calls = <<>> /\ ~ quitting
    /\ \E v \in Window : state[v] = "shown"
    /\ state[w] = "absent"
    /\ state' = [state EXCEPT ![w] = "shown"]
    /\ setDocument(w, Fresh, opened, path)
    /\ UNCHANGED handler

\* A window that was closed is deleted when the event loop gets to it.
Deleted(w) ==
    /\ calls = <<>> /\ ~ quitting
    /\ state[w] = "closing"
    /\ state' = [state EXCEPT ![w] = "absent"]
    /\ setDocument(w, NoDocument, opened, path)
    /\ UNCHANGED handler

-----------------------------------------------------------------------------
(* The steps of a handler.                                                 *)

Step(name) == calls # <<>> /\ Head(calls) = name
Returns == calls' = Tail(calls) /\ UNCHANGED <<active, quitting>>

\* aboutSave of a document with a path; the device may not open, and the window
\* takes the document for saved all the same.
aboutSave ==
    /\ Step("save")
    /\ path[document[active]] # NoPath
    /\ \E written \in SUBSET {document[active]} :
          /\ unsaved' = unsaved \ written
          /\ answered' = answered \ written
          /\ failed' = (failed \cup ({document[active]} \cap unsaved)) \ written
    /\ modified' = [modified EXCEPT ![active] = FALSE]
    /\ Returns
    /\ UNCHANGED <<state, document, listeners, path, opened>>

\* aboutSave of a document without a path.
SaveUnnamed ==
    /\ Step("save")
    /\ path[document[active]] = NoPath
    /\ calls' = <<"saveAs", "saved">> \o Tail(calls)
    /\ UNCHANGED <<windows, documents, active, quitting>>

\* ... and its end, whatever came of aboutSaveAs.
SaveEnds ==
    /\ Step("saved")
    /\ modified' = [modified EXCEPT ![active] = FALSE]
    /\ failed' = failed \cup ({document[active]} \cap unsaved)
    /\ Returns
    /\ UNCHANGED <<state, document, listeners, path, opened, unsaved, answered>>

\* aboutSaveAs, the dialog dismissed.
SaveAsCancelled ==
    /\ Step("saveAs")
    /\ Returns
    /\ UNCHANGED <<windows, documents>>

\* ... and accepted: the path is set through an interface that editors do not
\* have, and the program is gone.
SaveAsAccepted ==
    /\ Step("saveAs")
    /\ calls' = <<"crashed">>
    /\ UNCHANGED <<windows, documents, active, quitting>>

\* newDocument.
New ==
    /\ Step("new")
    /\ setDocument(active, Fresh, opened, path)
    /\ Returns
    /\ UNCHANGED state

\* ... where createFromMIME gives nothing.
NewUnsupported ==
    /\ Step("new")
    /\ Returns
    /\ UNCHANGED <<windows, documents>>

\* aboutOpen: setIODevice gives the document that has the path, if there is one,
\* else the new one, read from the file.
Open(p) ==
    /\ Step("open")
    /\ IF get(p) # NoDocument
       THEN setDocument(active, get(p), opened, path)
       ELSE setDocument(active, Fresh, Registered(opened, Fresh, p),
                        [path EXCEPT ![Fresh] = p])
    /\ Returns
    /\ UNCHANGED state

\* Dismissed, or a file that no document can be made of.
OpenCancelled ==
    /\ Step("open")
    /\ Returns
    /\ UNCHANGED <<windows, documents>>

Close ==
    /\ Step("close")
    /\ state' = [state EXCEPT ![active] = "closing"]
    /\ Returns
    /\ UNCHANGED <<document, modified, documents>>

-----------------------------------------------------------------------------
\* The program starts with one window.
Init ==
    \E w \in Window, d \in Document :
        /\ state = [v \in Window |-> IF v = w THEN "shown" ELSE "absent"]
        /\ document = [v \in Window |-> IF v = w THEN d ELSE NoDocument]
        /\ modified = [v \in Window |-> FALSE]
        /\ listeners = [e \in Document |-> IF e = d THEN {w} ELSE {}]
        /\ path = [e \in Document |-> NoPath]
        /\ opened = <<>>
        /\ active = NoWindow /\ calls = <<>> /\ quitting = FALSE
        /\ unsaved = {} /\ answered = {} /\ failed = {}

Next ==
    \/ \E d \in Document, p \in Path \cup {NoPath} : setPath(d, p)
    \/ \E w \in Window : \/ Edit(w)
                         \/ aboutNew(w) \/ aboutOpen(w) \/ closeEvent(w) \/ CloseNext(w)
                         \/ MenuSave(w) \/ aboutNewWindow(w) \/ Deleted(w)
    \/ aboutQuit \/ QuitEnds
    \/ aboutSave \/ SaveUnnamed \/ SaveEnds \/ SaveAsCancelled \/ SaveAsAccepted
    \/ New \/ NewUnsupported \/ OpenCancelled \/ Close
    \/ \E p \in Path : Open(p)

Spec == Init /\ [][Next]_vars

-----------------------------------------------------------------------------
(* Properties.                                                             *)

Steps == {"save", "saveAs", "saved", "new", "open", "close", "crashed"}

\* A window that is there shows a document, the cache has entries for paths only,
\* and a handler runs for a window that is shown.
TypeOK ==
    /\ state \in [Window -> {"absent", "shown", "closing"}]
    /\ document \in [Window -> Document \cup {NoDocument}]
    /\ \A w \in Window : state[w] = "absent" <=> document[w] = NoDocument
    /\ modified \in [Window -> BOOLEAN]
    /\ listeners \in [Document -> SUBSET Window]
    /\ path \in [Document -> Path \cup {NoPath}]
    /\ DOMAIN opened \subseteq Path /\ \A p \in DOMAIN opened : opened[p] \in Document
    /\ calls \in UNION {[1 .. n -> Steps] : n \in 0 .. 3}
    /\ calls # <<>> => state[active] = "shown"
    /\ answered \cup failed \subseteq unsaved /\ unsaved \subseteq Document

\* The cache of the factory leads from the path of every document that is open to
\* that document, and nowhere else: no file is open as two documents, and no entry
\* is left of a document that is gone, whichever window was closed last and
\* whatever paths the documents were given meanwhile.
CacheExact ==
    /\ \A p \in DOMAIN opened : opened[p] \in Alive /\ path[opened[p]] = p
    /\ \A d \in Alive : path[d] # NoPath => get(path[d]) = d

\* The changes of a document are told to the windows that show it, those about to
\* be deleted included, and to no window that is gone or shows another.
ListenersExact ==
    \A d \in Document : listeners[d] = {w \in Window : document[w] = d}

\* The text of a document that was changed and not written is only lost where the
\* user, asked by a window that showed it, chose to discard it after the change.
AsksBeforeLoss ==
    [][\A d \in unsaved \ answered : d \in Alive => d \in Alive']_vars

\* Where saves do what they should, this holds: a text is only lost unasked after a
\* save of it, asked for since it was last changed, of which nothing came.
LosesFailedSaves ==
    [][\A d \in unsaved \ (answered \cup failed) : d \in Alive => d \in Alive']_vars
=============================================================================
