SPECIFICATION Spec
CONSTANTS
  Geometries <- MCGeometries
  NoGeometry = "none"
  PacketLens = {0, 1, 2}
  ReadSizes = {0, 1, 2}
  QueueDepth = 2
  MaxSamples = 4
  MaxErrors = 1
  MaxSessions = 2
INVARIANT ReadsNeverSpanRetunes
CHECK_DEADLOCK FALSE
