SPECIFICATION TimingSpec
CONSTANTS
  GapCap = 12
  Gaps = {0, 3, 8, 12, 20}
  Blocks = {4, 7}
  MaxBlocks = 7
  MaxMessages = 5
  StageCycles = 10
  Slack = 32
  MayFail = {FALSE, TRUE}
INVARIANTS LimitSuffices CapHidesNothing
CHECK_DEADLOCK FALSE
