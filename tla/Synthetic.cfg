SPECIFICATION SyntheticSpec
CONSTANTS
  MessageCount = 7
  SeedMessages = 2
  ReduceAt = 3
  LiveSize = 3
  Capacity = 3
  PriceLevels = 2
  Levels = 2
  MaxLots = 3
  BaseBid = 3
  BaseAsk = 5
  IntMax = 20
INVARIANTS EveryMessageApplies ListMatchesTable OracleAgrees
CHECK_DEADLOCK FALSE
