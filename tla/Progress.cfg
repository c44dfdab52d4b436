\* Two threads report; an operation starts and ends between reports.
SPECIFICATION Spec
CONSTANTS
  r1 = r1
  r2 = r2
  Reporter <- TwoThreads
  Overlap = FALSE
  MaxProgress = 2
  MaxSignals = 1
  Free = Free
  Unset = Unset
INVARIANTS TypeOK NothingLeftShown ShowsTheOperation
PROPERTY HidesInTheEnd
