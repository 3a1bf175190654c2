SPECIFICATION UnitsSpec
CONSTANTS
  Count = 3
  Values = {v0, v1, v2}
  Default = v0
  Capacity = 3
  References = {0, 1, 2, 3}
  Prices = {1, 2}
  Shares = {1, 2}
  BramDepth = 2
  BramLatency = 1
  Words = {w0, w1}
  Blank = w0
  Null = null
  Clients = {c1, c2}
  MaxCallbacks = 2
  MaxSteps = 3
INVARIANTS RingInv TableInv AnswersAfterLatency AcceptedCallbacksRun
PROPERTIES ImplementsFifo ImplementsOrderMap
