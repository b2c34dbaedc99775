SPECIFICATION AllSpec
CONSTANTS
  MaxLoops = 3
  Updater = {u1, u2}
INVARIANT NoCloseOfClosed
PROPERTIES SwitchStartsPolling PollingSurvivesWhileShown ShutdownStopsAllLoops ReleasesBeforeExit StopEndsTheProgram InlineOnlyAtTheEdges
CHECK_DEADLOCK FALSE
