CONSTANTS
  c1 = c1
  c2 = c2
  Channels <- TwoChannels
  InitEventListSize = 1

SPECIFICATION FairSpec

INVARIANTS
  TypeOK
  EpollAgrees

PROPERTIES
  OnlyRegisteredAreReturned
  ReadyChannelIsReturned
