SPECIFICATION UnitsSpec
CONSTANTS
  IntMax = 3
  Prices = {1, 2}
  Quantities = {0, 1, 3}
  Imbalances <- MCImbalances
  Spreads <- MCSpreads
  Payloads <- MCPayloads
  Lengths = {0, 1, 3, 4, 7, 8, 11}
  Capacity = 2
  Room = 11
  MaxFlips = 2
  Buffers <- MCBuffers
  MaxEvents = 2
  MaxWhole = 5
  Latencies = {14, 63, 65}
  MaxSamples = 103
  StackRoom = 101
INVARIANTS
  OutputIsContOfi SymmetricAndMonotone
  CrcIsRemainder AcceptedIsSent
  StatusExplainsStop NothingLostBetweenCalls
  ReportIsExact
PROPERTY ParsingEnds
CHECK_DEADLOCK FALSE
