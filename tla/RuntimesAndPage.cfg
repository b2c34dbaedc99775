SPECIFICATION PageSpec
CONSTANTS
  Container = {A, B}
  NoContainer = NoContainer
  Refresher = {r1, r2}
  MaxOpens = 2
  Caller = {C1, C2}
  Viewer = {C1, C2, C3}
  MaxPid = 2
INVARIANTS CrashNeedsClose FetchedOnce SettledNotAsked CrashNeedsFailure ViewsAreRemoved AloneGetsPaths AcceptedAtMostOneBehind HeaderReflectsInfo
PROPERTIES CallsReturn InfoArrives ImplementsCurrentHandle
CHECK_DEADLOCK FALSE
