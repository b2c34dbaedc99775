SPECIFICATION ListsSpec
CONSTANTS
  A = A
  B = B
  R1 = R1
  R2 = R2
  Image <- TwoImages
  Rows <- RowCount
  Lists <- ThreeLists
  NoImage = NoImage
  Notice = Notice
  Refresher = {R1, R2}
  HostPid = {1, 2, 3, 4}
  NsPid = {1, 2, 3}
  Shim = 9
  MaxBorn = 4
  NName = NName
  NSub = NSub
  FileName <- Names
  SubDir = NSub
  LayerLists <- ThreeLayers
  Normal <- Clean
  Injected = {"/var/run/secrets"}
  Root = "/"
  Sources <- UpToTwo
  Deep = 0
INVARIANTS QuietRowsLeadToTheirEntries HostPidsAreTheirs EveryProcessDrawn MergedIsOverlay MountsAreMergedOnce DetectionAgrees
SYMMETRY Symmetry
CHECK_DEADLOCK FALSE
