SPECIFICATION Spec
CONSTANTS
  MaxSamples = 4
  Sizes = {0, 1, 2, 3}
  QueueDepth = 1
  Delay = 1
  Lead = 1
  MaxClock = 2
INVARIANT InputIsAnsweredFor
PROPERTY EndsWithInput
