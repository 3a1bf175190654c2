SPECIFICATION PipeSpec
CONSTANTS
  Streams <- ContentStreams
  Gaps = {}
  Blank <- MCBlank
  Capacity = 2
  Levels = 5
  IntMax = 7
  BramDepth = 2
  BramLatency = 1
  HostRingDepth = 2
  RingDepth = 2
  DmaQueueDepth = 2
  CycleLimit = 40
INVARIANTS FaultsAreContent TotalsAgree
PROPERTIES  ImplementsTrader GoodStreamsComplete
CHECK_DEADLOCK FALSE
