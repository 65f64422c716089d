CONSTANTS
  o1 = o1
  o2 = o2
  Objects <- MCObjects
  EarlyQuit = {o1}

SPECIFICATION FairSpec

\* The program ends when the objects are destroyed.
CHECK_DEADLOCK FALSE

INVARIANTS
  TypeOK
  SemaphoreOutlivesPost
  ChildDoesNotOutliveObject
  LoopPointerValid

PROPERTY StartLoopReturns
