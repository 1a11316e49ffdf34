SPECIFICATION FairSpec
CONSTANTS
  Readers <- MCReaders
  ChannelDepth = 1
  MaxFetches = 2
  MaxFaults = 2
  MaxRequests = 2
INVARIANT ReaderServesItsStream
PROPERTIES ExternalRetuneStands SourceRecovers RestartIsServed
CHECK_DEADLOCK FALSE
