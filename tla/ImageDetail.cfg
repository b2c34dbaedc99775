SPECIFICATION Spec
CONSTANTS
  A = A
  B = B
  R1 = R1
  R2 = R2
  Image <- Images
  NoImage = NoImage
  LayerCount <- LayersOf
  HasDir <- Dirs
  Refresher = {R1, R2}
  MaxOpen = 2
INVARIANTS QuietTabIsOfStored FocusOnOpenPane DiffFollowsSelection HeldIsOfImage
SYMMETRY Symmetry
CHECK_DEADLOCK FALSE
