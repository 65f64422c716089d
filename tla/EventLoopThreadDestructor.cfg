CONSTANTS
  o1 = o1
  o2 = o2
  Objects <- MCObjects
  EarlyQuit = {}

SPECIFICATION FairSpec

\* The program ends when the objects are destroyed.
CHECK_DEADLOCK FALSE

PROPERTY DestructorReturns
