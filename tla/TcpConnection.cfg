CONSTANTS
  MaxSent = 4
  SendBuffer = 2
  highWaterMark = 2
  MaxInbound = 2

SPECIFICATION FairSpec

\* The connection is destroyed, or the process has crashed.
CHECK_DEADLOCK FALSE

INVARIANTS
  TypeOK
  StreamIsIntact

PROPERTIES
  OneDownPerUp
  NothingWrittenAfterEnd
  DrainIsAnnounced
  EndedIsDestroyed
