SPECIFICATION PipeSpec
CONSTANTS
  Streams <- TimingStreams
  Gaps = {0, 4, 7}
  Blank <- MCBlank
  Capacity = 4
  Levels = 5
  IntMax = 6
  BramDepth = 1
  BramLatency = 1
  HostRingDepth = 1
  RingDepth = 1
  DmaQueueDepth = 1
  CycleLimit = 50
INVARIANTS PipeTypeOK InFlightInOrder LatencyLaw ResourcesSuffice
PROPERTIES EventuallyDone
CHECK_DEADLOCK FALSE
