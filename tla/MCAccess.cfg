SPECIFICATION Spec
CONSTANTS
  Files <- MCFiles
  Counts = {1, 2, 3}
  ToolTime = 9
  MaxSeeks = 4
  TailWindow = 4
  NearBefore = 2
  Near = 5
  HeadBefore = 1
  HeadSize = 4
  Search = 6
  StrmBefore = 3
  Strm = 6
  ScanAhead = 20
  Small = 9
  Blocks <- MCBlocks
  Missions <- MCMissions
  RemoteCalls <- MCCalls
  Others <- MCOthers
  MaxFaults = 2
  MaxOthers = 1
  Jobs <- MCJobs
  Callers <- MCCallers
  Builds <- MCBuilds
  Lengths = {1, 2}
  MaxSamples = 2
  PyThreads = {"t1", "t2"}
  Servers <- MCServers
  BlockSizes = {0, 1, 2, 3}
  MaxRead = 2
  Controllers = {"c1", "c2"}
  Streamers = {"s1", "s2"}
  Values = {1, 2}
  MaxSets = 3
  Installs <- MCInstalls
  Pool <- MCPool
  OpeningRequests <- MCRequests
  MaxRetries = 1
  MaxChanges = 1
  MaxOpenings = 2
  Sweeps <- MCSweeps
  Devices <- MCDevices
  PacketShapes <- MCShapes
  MAX_VALUES = 3
  Trees <- MCTrees
  MaxPackets = 2
  MaxErrors = 2
  CONNECT_ATTEMPTS = 4
  CONNECT_BACKOFF_INITIAL = 1
  CONNECT_BACKOFF_MAX = 8
  CONNECT_TOTAL_BUDGET = 40
  Delays = {0, 3, 20}
  MaxUp = 9
  ProbeStreams <- MCStreams
  Payload = 2
  Chunks = {1, 2, 5}
  Settle = 2
  ProbeWindow = 4
  PROBE_STALL_TIMEOUT = 4
  PROBE_HEADER_SCAN = 14
  MaxCells = 18
INVARIANTS PlaybackIsExact SeeksAndReadsAgree ProbesAreHonest AnswersAreTheDevices DriverTellsTheSource OpeningIsRight SpectraAndFixesAreTrue ConnectingIsBounded
PROPERTY CallsKeepTheirWord BindingKeepsItsWord
CHECK_DEADLOCK FALSE
