CONSTANTS
  MaxSent = 3
  SendBuffer = 1
  highWaterMark = 2
  MaxInbound = 1

SPECIFICATION Spec

CHECK_DEADLOCK FALSE

INVARIANTS
  PeerGetsWhatWasSent
