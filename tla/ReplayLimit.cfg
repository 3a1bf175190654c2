SPECIFICATION TimingSpec
CONSTANTS
  GapCap = 0
  Gaps = {100}
  Blocks = {6}
  MaxBlocks = 7
  MaxMessages = 20000
  StageCycles = 10
  Slack = 100000
  MayFail = {FALSE}
INVARIANTS NotOkMeansStageError
CHECK_DEADLOCK FALSE
