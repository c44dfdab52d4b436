\* Three parts of a main window and of a dialog in it, added and removed in any
\* order, with containers that come, go and are cleared.
SPECIFICATION Spec
CONSTANTS
  program = program
  editor = editor
  browser = browser
  Bag <- Bags
  BagKind <- KindOfBag
  BagLevel <- LevelOfBag
  BagName <- NameOfBag
  Levels = 2
  Part <- Parts
  uidef <- Describes
  Entry <- EntryOfPart
  Item <- Items
  RemovesUsed = FALSE
INVARIANTS TypeOK FoldersExact MergeExact PriorityOrder
