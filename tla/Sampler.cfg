SPECIFICATION Spec
CONSTANTS
  Worker = {w1, w2}
  Container <- Containers
  Pid <- Pids
  InitPid = 1
  Process <- Processes
  Iface = {eth0}
  MaxCount = 1
  MaxUsed <- Uses
  MaxLives <- Lives
  NoContainer = NoContainer
INVARIANTS ProcessBaselineOwned ForeignNetworkNeedsCrossing WrapNeedsCause
SYMMETRY Symmetry
