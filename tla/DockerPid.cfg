SPECIFICATION AllSpec
CONSTANTS
  Caller = {C1, C2}
  Viewer = {C1, C2, C3}
  MaxPid = 2
INVARIANT ReadsLatestProcess
CHECK_DEADLOCK FALSE
