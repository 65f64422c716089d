CONSTANTS
  MaxSent = 3
  SendBuffer = 1
  highWaterMark = 2
  MaxInbound = 1

SPECIFICATION FairSpec

CHECK_DEADLOCK FALSE

PROPERTIES
  ShutdownClosesWriteSide
