SPECIFICATION MCFairSpec
CONSTANTS
  Fields <- MCFields
  Values = {0, 1, 2}
  Mission <- MCMission
  Configured <- MCConfigured
  Requests <- MCRequests
  TuningReconnects = 2
  MaxReboots = 1
  MaxHealthy = 1
  TuningSessions = 2
  Packets <- MCPackets
  FreqBand = 1
  RateBand = 10
  ChannelDepth = 2
  MaxReconnects = 1
  MaxErrors = 2
  ReadSizes = {1, 3}
  MaxSamples = 6
  MaxSessions = 2
INVARIANTS TuningIsKept ReadsAreTrue LossesAreFlagged
PROPERTY ReaderComesToRest
CHECK_DEADLOCK FALSE
