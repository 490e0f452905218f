SPECIFICATION FairSpec
CONSTANTS
  Tasks = {t1, t2, t3, t4}
  Callers = {c1, c2}
  Disposer = d
  Worker = w
  TerminateInternal = t1
  None = None
INVARIANTS NoUseAfterFree RefCountIsOwners CancelledStaysQuiet
PROPERTIES DisposeReturns NothingLeaks
CHECK_DEADLOCK FALSE
