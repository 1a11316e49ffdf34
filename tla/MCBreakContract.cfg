SPECIFICATION Spec
CONSTANTS
  Geometries <- MCGeometries
  CenterChange = 1
  RateBand = 10
  Skews <- MCSkews
  PacketLens = {0, 1, 2}
  MaxSamples = 4
INVARIANTS GapsAreExact GeometryIsTold
CHECK_DEADLOCK FALSE
