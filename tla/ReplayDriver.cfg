SPECIFICATION DriverSpec
CONSTANTS
  ModelCapacity = 3
  Limits = {2, 3}
  GapCap = 3
  Files <- MCFiles
  Symbols = {"XYZ", "QQQ"}
  MaxFrames = 3
  Times = {100, 106, 116}
INVARIANTS RejectedForFraming StreamIsSlice ArrivalsFollowTime
PROPERTY DriverEnds
CHECK_DEADLOCK FALSE
