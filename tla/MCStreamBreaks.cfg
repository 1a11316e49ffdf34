SPECIFICATION Spec
CONSTANTS
  Geometries <- MCGeometries
  CenterChange = 1
  RateBand = 10
  Skews <- MCSkews
  PacketLens = {1, 2}
  MaxSamples = 5
  BufferSize = 0
  CapacityFactor = 1
  Downstream = 1
  MaxFetches = 2
INVARIANT QueueIsWellFormed
PROPERTIES IndexNeverRevisited ImplementsContract
CHECK_DEADLOCK FALSE
