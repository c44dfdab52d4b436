---------------------------- MODULE MCUIManager ----------------------------
(* Small instances of UIManager for TLC: a main window and a dialog in it. *)
EXTENDS UIManager

CONSTANTS program, editor, browser

Parts == {program, editor, browser}
\* The tabs are those of the dialog, which may have a place for tool bars too.
Bags == {"menubar", "window", "dialog", "tabs"}
KindOfBag(b) == CASE b = "menubar" -> "menubar" [] b = "tabs" -> "stack"
                  [] OTHER -> b
LevelOfBag(b) == IF b \in {"tabs", "dialog"} THEN 1 ELSE 2
NameOfBag(b) == IF b \in {"dialog", "window"} THEN "toolbar" ELSE b
EntryOfPart(p) == IF p = program THEN 2 ELSE 1
Items == {"open", "quit", "cut", "undo", "find", "text"}

Folder(n, p) == [tag |-> "folder", n |-> n, p |-> p]
An(n, p) == [tag |-> "item", n |-> n, p |-> p]
Line(n, p) == [tag |-> "separator", n |-> n, p |-> p]
End == [tag |-> "end", n |-> "", p |-> 0]

\* A menu with a submenu that the other parts extend, a menu for editing that two
\* parts share, a folder in a tool bar, which is left out, three tool bars of
\* different priorities, and a tool bar and a menu of one name and with one action.
Describes(p) ==
    CASE p = program ->
            <<[bag |-> "menubar",
               tags |-> <<Folder("file", 0), An("open", 0), Line("line", 0),
                          Folder("recent", 1), An("open", 1), End, An("quit", 2), End>>],
              [bag |-> "toolbar", tags |-> <<Folder("main", 2), End>>]>>
      [] p = editor ->
            <<[bag |-> "tabs", tags |-> <<An("text", 0), Folder("more", 0), Line("l", 0), End>>],
              [bag |-> "menubar",
               tags |-> <<Folder("edit", 1), An("cut", 1), An("undo", 0), An("absent", 0), End>>],
              [bag |-> "toolbar", tags |-> <<Folder("editbar", 1), An("cut", 1), End>>]>>
      [] OTHER ->
            <<[bag |-> "menubar",
               tags |-> <<Folder("file", 0), Folder("recent", 1), An("find", 2), Line("mark", 0),
                          End, End,
                          Folder("edit", 1), Line("rule", 0), An("find", 2), End>>],
              [bag |-> "toolbar",
               tags |-> <<Folder("recent", 0), An("find", 0), Folder("more", 0), An("find", 0),
                          End, End, An("find", 0), Line("l", 0)>>]>>

\* What the proofs ask of the descriptions.
ASSUME OneDepthAssumption == OneDepth
ASSUME SeparatorsApartAssumption == SeparatorsApart
=============================================================================
