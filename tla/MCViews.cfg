SPECIFICATION AllSpec
CONSTANTS
  A = A
  B = B
  C = C
  P = P
  Container <- TwoContainers
  Refresher = {R1, R2}
  Pod = {P}
  PodOf <- OneOfPod
  NoPod = NoPod
  Rank <- Ranks
  Listings <- TwoListings
  NoNode = NoNode
  PodInfo <- ThreePods
  Counts <- OneOrNone
  PodLists <- TwoPodLists
  Notice = Notice
  NoContainer = NoContainer
  MaxOpen = 2
  MaxFailed = 1
INVARIANTS RoutedToShownPage FocusOnScreen PodsStayAsLeft QuietListsAreDrawn DrawnIsOfThePage PanelsShowOneContainer
PROPERTIES PollerEnds CursorSurvivesRefresh
CHECK_DEADLOCK FALSE
