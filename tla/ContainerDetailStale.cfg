SPECIFICATION Spec
CONSTANTS
  Container = {A, B}
  NoContainer = NoContainer
  Refresher = {r1, r2}
  MaxOpens = 2
INVARIANTS HeaderShowsContainer
CHECK_DEADLOCK FALSE
