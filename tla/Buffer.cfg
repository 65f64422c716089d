CONSTANTS
  Bytes = {0, 1}
  Zero = 0
  CheapPrepend = 1
  InitialSize = 3
  ExtraBuf = 2
  MaxChunk = 3
  MaxReadable = 5

SPECIFICATION Spec

INVARIANTS
  TypeOK
  SizeIsBounded

PROPERTY QueueRefined
