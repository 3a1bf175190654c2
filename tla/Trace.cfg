SPECIFICATION RigSpec
CONSTANTS
  Null = null
  MaxCallbacks = 2
  Width = 3
  CycleLimit = 3
INVARIANTS TraceShowsCycle
PROPERTY PipelineClock
CHECK_DEADLOCK FALSE
