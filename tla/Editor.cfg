\* Two windows and two files; devices may not open, and dialogs may be dismissed.
SPECIFICATION Spec
CONSTANTS
  w1 = w1
  w2 = w2
  d1 = d1
  d2 = d2
  d3 = d3
  p1 = p1
  p2 = p2
  Window <- Windows
  Document <- Documents
  Path <- Paths
  NoDocument = NoDocument
  NoPath = NoPath
  NoWindow = NoWindow
INVARIANTS TypeOK CacheExact ListenersExact
PROPERTIES LosesFailedSaves
CHECK_DEADLOCK FALSE
