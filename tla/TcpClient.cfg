CONSTANTS
  MaxFds = 3

SPECIFICATION FairSpec

\* The loop or the process ends.
CHECK_DEADLOCK FALSE

INVARIANTS
  TypeOK
  SurvivesRefusals
  AttemptOrConnection

PROPERTIES
  ResetsOwnChannel
  
  ConnectsWhenServerIsUp
