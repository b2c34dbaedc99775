SPECIFICATION FairSpec
CONSTANT MaxLoops = 3
PROPERTY StopAutoRefreshStops
CHECK_DEADLOCK FALSE
