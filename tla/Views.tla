-------------------------------- MODULE Views -------------------------------
(***************************************************************************)
(* The parts of the main page and of the container page: the pages with    *)
(* their poller, the container tree, the pod list, and the views of the    *)
(* container page.  They share no variable, so a behaviour here is one of  *)
(* one part, the others resting.                                           *)
(***************************************************************************)
EXTENDS Browse

CONSTANTS
    Container, Refresher,
    Pod, PodOf, NoPod, Rank, Listings, NoNode,      \* of the tree
    PodInfo, Counts, PodLists, Notice,              \* of the pod list
    NoContainer, MaxOpen, MaxFailed                 \* of the views of a container

VARIABLES entries, tree, shut, collapsed, cursor, ui, job, user, crashed
VARIABLES pods, table, row, pui, pjob, pcrashed
VARIABLES view, container, kept, sui, sjob, closures, drawn, warns, pane, opened, sdue, overtaken

CT == INSTANCE ContainerTree
PL == INSTANCE PodList WITH cursor <- row, ui <- pui, job <- pjob, crashed <- pcrashed
SV == INSTANCE SubView WITH ui <- sui, job <- sjob, due <- sdue

ASSUME TreeAssumption == CT!PodAssumption /\ CT!RankAssumption /\ CT!ListingAssumption
ASSUME PodsAssumption == PL!NoPodAssumption /\ PL!CountAssumption /\ PL!ListAssumption
ASSUME SubAssumption  == SV!SubViewAssumption

treeVars == <<entries, tree, shut, collapsed, cursor, ui, job, user, crashed>>
podVars  == <<pods, table, row, pui, pjob, pcrashed>>
subVars  == <<view, container, kept, sui, sjob, closures, drawn, warns, pane, opened, sdue, overtaken>>
allVars  == <<vars, treeVars, podVars, subVars>>

AllInit == Init /\ CT!Init /\ PL!Init /\ SV!Init

\* The views of the container page rest: none was opened, no key pressed.
SubRest == view = "grid" /\ opened = 0 /\ pane = "processes"

AllNext ==
    \/ SubRest /\ CT!Init /\ PL!Init /\ Next /\ UNCHANGED <<treeVars, podVars, subVars>>
    \/ SubRest /\ Init /\ PL!Init /\ CT!Next /\ UNCHANGED <<vars, podVars, subVars>>
    \/ SubRest /\ Init /\ CT!Init /\ PL!Next /\ UNCHANGED <<vars, treeVars, subVars>>
    \/ Init /\ CT!Init /\ PL!Init /\ SV!Next /\ UNCHANGED <<vars, treeVars, podVars>>

AllSpec == AllInit /\ [][AllNext]_allVars /\ Fairness

-----------------------------------------------------------------------------
(***************************************************************************)
(* The properties of the parts under names of their own.                   *)
(***************************************************************************)

AllTypeOK == TypeOK /\ CT!TypeOK /\ PL!TypeOK /\ SV!TypeOK

\* A pod is drawn as the user left it (ContainerTree).
PodsStayAsLeft == CT!PodsStayAsLeft

\* What is drawn when all is quiet is of one list (ContainerTree, PodList).
QuietListsAreDrawn == CT!QuietTreeIsOfOneList /\ PL!QuietTableShowsPods

\* A refresh leaves the cursor where it was (ContainerTree, PodList).
CursorSurvivesRefresh == CT!CursorSurvivesRefresh /\ PL!CursorStaysOnPod

\* What stays on screen is of the container of the page (SubView).
DrawnIsOfThePage == SV!DrawnIsOfThePage

\* No view shows two containers side by side (SubView).
PanelsShowOneContainer == SV!PanelsShowOneContainer
=============================================================================
