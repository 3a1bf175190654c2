SPECIFICATION BenchSpec
CONSTANTS
  BramDepth = 2
  BramLatency = 2
  Words = {w0, w1, w2}
  Blank = w0
INVARIANT AnswersAfterLatency
