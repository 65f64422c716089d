CONSTANTS
  MaxConns = 3
  MaxFds = 2
  MaxThreads = 1

SPECIFICATION FairSpec

\* The loop ends.
CHECK_DEADLOCK FALSE

INVARIANTS
  TypeOK
  NoDanglingChannel
  ServerAndPollerAgree

PROPERTIES
  ClosedIsDeleted
  WaitingClientIsAccepted
