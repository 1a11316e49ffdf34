SPECIFICATION Spec
CONSTANTS
  Tolerance = 24
  ResolutionFloor = 4
  DecayNum = 999
  DecayDen = 1000
  Durations = {16, 40}
  Jumps <- MCJumps
  Rounding = 1
  MaxPackets = 4
INVARIANTS WholePacketsShow SequenceIsQuiet
CHECK_DEADLOCK FALSE
