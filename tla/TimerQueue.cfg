CONSTANTS
  Micro = 2
  MinDelay = 2
  Intervals = {1, 2}
  MaxTimers = 2
  MaxTime = 6

SPECIFICATION FairSpec

\* At the end of time nothing may be left to do.
CHECK_DEADLOCK FALSE

INVARIANTS
  TypeOK
  EarliestIsArmed

PROPERTIES
  RunsWhenDue
  CancelIsFinal
  ScheduledTimerRuns
