SPECIFICATION MCSpec
CONSTANTS
  BufferSize = 0
  CapacityFactor = 1
  MaxItems = 2
  ChannelDepth = 2
  MaxFetches = 2
  BytesPerSample = 2
  ChunkSizes = {1, 5}
  PacketLens = {1, 3, 6}
  Scripts <- MCScripts
  ParserChunks = {1, 3, 8}
  MaxUsize = 8
  MaxFramesPerBlock = 2
  MaxBinaryPayload = 4
  MaxJsonBuffer = 5
  CompactThreshold = 3
  MaxResets = 1
  Rates = {3, 6}
  Paths = {2, 4, 6}
  ServerBuffer = 4
  LinkDepth = 10
  Settle = 1
  Window = 3
  Tolerance = 98
  MaxTime = 7
  MaxTrouble = 2
  MaxDrops = 3
INVARIANTS NeverTrims PacketsComeAsSent NothingIsMissed SkipsAndBufferAreExact VerdictIsRight StatsAreCurrent
PROPERTY VerdictStands
CHECK_DEADLOCK FALSE
