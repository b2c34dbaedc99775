----------------------------- MODULE ViewsProofs ----------------------------
(***************************************************************************)
(* Proofs about the parts of the main page and of the container page, for  *)
(* any listings, any number of refreshes under way and of pages opened.    *)
(***************************************************************************)
EXTENDS Views, WellFoundedInduction, FiniteSetTheorems, TLAPS

-----------------------------------------------------------------------------
(***************************************************************************)
(* Browse.                                                                 *)
(***************************************************************************)

\* The main page, with one detail page above it at most.
Stacked ==
    /\ history \in Seq(Page) /\ Len(history) \in {1, 2}
    /\ history[1] = "main"
    /\ Len(history) = 2 => history[2] \in Detail

BrowseInv ==
    /\ Stacked /\ front = CurrentPage
    /\ tab \in Tab
    /\ FocusOnScreen

\* What CurrentPage is of such a history.
LEMMA PageOfStack ==
    ASSUME Stacked
    PROVE  /\ CurrentPage \in Page
           /\ CurrentPage \in Detail <=> Len(history) = 2
           /\ CurrentPage = "main" <=> Len(history) = 1
  BY DEF Stacked, CurrentPage, Page, Detail

\* The keys that change pages.
LEMMA PageKeysKeep ==
    ASSUME BrowseInv, OpenDetail \/ Back
    PROVE  BrowseInv'
  <1>1. CASE OpenDetail
    <2>1. Len(history) = 1
      BY <1>1, PageOfStack DEF OpenDetail, BrowseInv
    <2>2. PICK page \in Detail : history' = Append(history, page) /\ SwitchToPage(page) /\ focus' = page
      BY <1>1 DEF OpenDetail, Detail
    <2>3. Len(history') = 2 /\ history'[1] = "main" /\ history'[2] = page /\ history' \in Seq(Page)
      BY <2>1, <2>2 DEF BrowseInv, Stacked, Page
    <2>4. Stacked' /\ CurrentPage' = page
      BY <2>3 DEF Stacked, CurrentPage
    <2>5. FocusOnScreen'
      BY <2>2 DEF FocusOnScreen, SwitchToPage, OwnFocus, Detail
    <2> QED
      BY <1>1, <2>2, <2>4, <2>5 DEF BrowseInv, OpenDetail, SwitchToPage
  <1>2. CASE Back
    <2>1. Len(history) = 2 /\ history[1] = "main" /\ history \in Seq(Page)
      BY <1>2, PageOfStack DEF Back, NavigateBack, BrowseInv, Stacked
    <2>2. /\ history' = SubSeq(history, 1, 1) /\ SwitchToPage("main")
          /\ focus' = tab /\ UNCHANGED tab
      BY <1>2, <2>1 DEF Back, NavigateBack, GetFocusPrimitive
    <2>3. Len(history') = 1 /\ history'[1] = "main" /\ history' \in Seq(Page)
      BY <2>1, <2>2
    <2>4. Stacked' /\ CurrentPage' = "main"
      BY <2>3 DEF Stacked, CurrentPage
    <2>5. FocusOnScreen'
      BY <2>2 DEF FocusOnScreen, SwitchToPage, OwnFocus, BrowseInv, Tab
    <2> QED
      BY <2>2, <2>4, <2>5 DEF BrowseInv, SwitchToPage
  <1> QED
    BY <1>1, <1>2

\* The other keys.
LEMMA OtherKeysKeep ==
    ASSUME BrowseInv, DetailKey \/ SwitchTabs \/ ShowHelp \/ CloseHelp
    PROVE  BrowseInv'
  <1>1. CASE DetailKey
    BY <1>1 DEF DetailKey, BrowseInv, Stacked, CurrentPage, FocusOnScreen, OwnFocus, Detail
  <1>2. ASSUME NEW t \in Tab, SwitchTab(t)
        PROVE  BrowseInv'
    BY <1>2 DEF SwitchTab, BrowseInv, Stacked, CurrentPage, FocusOnScreen, OwnFocus, Tab
  <1>3. CASE SwitchTabs
    <2>1. \A t \in Tab : NextTab(t) \in Tab
      BY DEF NextTab, Tab
    <2> QED
      BY <1>2, <1>3, <2>1 DEF SwitchTabs, BrowseInv
  <1>4. CASE ShowHelp \/ CloseHelp
    <2>1. Stacked' /\ CurrentPage' = CurrentPage /\ UNCHANGED <<tab, front>>
      BY <1>4 DEF ShowHelp, CloseHelp, Stacked, CurrentPage, BrowseInv
    <2>2. front \in Page
      BY PageOfStack DEF BrowseInv
    <2>3. FocusOnScreen'
      BY <1>4, <2>2 DEF ShowHelp, CloseHelp, FocusOnScreen, OwnFocus, Page, Detail, BrowseInv, Tab
    <2> QED
      BY <2>1, <2>3 DEF BrowseInv
  <1> QED
    BY <1>1, <1>3, <1>4

\* The inductive invariant behind the two results below.
THEOREM BrowseInductive == Spec => []BrowseInv
  <1>1. Init => BrowseInv
    BY DEF Init, BrowseInv, Stacked, CurrentPage, Page, FocusOnScreen, OwnFocus, Tab
  <1>2. BrowseInv /\ [Next]_vars => BrowseInv'
    <2> SUFFICES ASSUME BrowseInv, [Next]_vars PROVE BrowseInv'
      OBVIOUS
    <2>1. CASE Poll \/ OfferStop \/ RefreshCancel \/ UNCHANGED vars
      <3>1. UNCHANGED <<pageVars, tab>>
        BY <2>1 DEF Poll, StartAutoRefresh, Tick, ReadTab, RefreshReturns, ObserveDone,
                    OfferStop, RefreshCancel, vars
      <3> QED
        BY <3>1 DEF pageVars, BrowseInv, Stacked, CurrentPage, FocusOnScreen, OwnFocus
    <2> QED
      BY <2>1, PageKeysKeep, OtherKeysKeep DEF Next, Keys
  <1> QED
    BY <1>1, <1>2, PTL DEF Spec

\* The page that App.setupKeybindings routes keys by is the one on screen,
\* whatever pages, dialogs and tabs were visited (pkg/ui/navigation.go).
THEOREM KeysGoToShownPage == Spec => []RoutedToShownPage
  <1>1. BrowseInv => RoutedToShownPage
    <2> SUFFICES ASSUME BrowseInv PROVE RoutedToShownPage
      OBVIOUS
    <2>1. front = CurrentPage /\ history[1] = "main" /\ Len(history) \in {1, 2}
      BY DEF BrowseInv, Stacked
    <2>2. \A n \in {1, 2} : n <= 2
      OBVIOUS
    <2> QED
      BY <2>1, <2>2, Zenon DEF RoutedToShownPage
  <1> QED
    BY <1>1, BrowseInductive, PTL

\* The focus is on what the screen shows, for any history of keys
\* (MainView.GetFocusPrimitive and the back callbacks of pkg/ui/app.go).
THEOREM FocusStaysOnScreen == Spec => []FocusOnScreen
  BY BrowseInductive, PTL DEF BrowseInv

\* What the pages hold beside BrowseInv.
BrowseTypes ==
    /\ help \in {"none", "shown", "hidden"}
    /\ poller \in [at : {"none", "select", "lock", "refresh", "gone"}, tab : Tab]
    /\ cancelled \in BOOLEAN /\ stopped \in {"no", "offering", "yes"}

\* The variables of the pages stay in their types (navigation.go, main_view.go).
THEOREM BrowseTyped == Spec => []TypeOK
  <1>1. Init => BrowseTypes
    <2> SUFFICES ASSUME Init PROVE BrowseTypes
      OBVIOUS
    <2>1. poller = [at |-> "none", tab |-> "containers"] /\ cancelled = FALSE
      BY DEF Init
    <2>2. "none" \in {"none", "select", "lock", "refresh", "gone"} /\ "containers" \in Tab
      BY DEF Tab
    <2>3. poller \in [at : {"none", "select", "lock", "refresh", "gone"}, tab : Tab]
      BY <2>1, <2>2
    <2> QED
      BY <2>1, <2>3 DEF Init, BrowseTypes
  <1>2. BrowseInv /\ BrowseTypes /\ [Next]_vars => BrowseTypes'
    <2> SUFFICES ASSUME BrowseInv, BrowseTypes, [Next]_vars PROVE BrowseTypes'
      OBVIOUS
    <2>1. CASE Keys
      <3>1. UNCHANGED <<poller, cancelled, stopped>>
        BY <2>1 DEF Keys, OpenDetail, Back, NavigateBack, DetailKey, SwitchTabs, SwitchTab, ShowHelp, CloseHelp
      <3>2. help' \in {"none", "shown", "hidden"}
        BY <2>1 DEF Keys, OpenDetail, Back, NavigateBack, DetailKey, SwitchTabs, SwitchTab, ShowHelp, CloseHelp,
                    SwitchToPage, BrowseTypes
      <3> QED
        BY <3>1, <3>2 DEF BrowseTypes
    <2>2. CASE Poll \/ OfferStop \/ RefreshCancel
      <3>1. UNCHANGED help /\ tab \in Tab
        BY <2>2 DEF Poll, StartAutoRefresh, Tick, ReadTab, RefreshReturns, ObserveDone, OfferStop,
                    RefreshCancel, pageVars, BrowseInv
      <3>2. poller' \in [at : {"none", "select", "lock", "refresh", "gone"}, tab : Tab]
        BY <2>2, <3>1 DEF Poll, StartAutoRefresh, Tick, ReadTab, RefreshReturns, ObserveDone, OfferStop,
                    RefreshCancel, BrowseTypes
      <3>3. cancelled' \in BOOLEAN /\ stopped' \in {"no", "offering", "yes"}
        BY <2>2 DEF Poll, StartAutoRefresh, Tick, ReadTab, RefreshReturns, ObserveDone, OfferStop,
                    RefreshCancel, BrowseTypes
      <3> QED
        BY <3>1, <3>2, <3>3 DEF BrowseTypes
    <2>3. CASE UNCHANGED vars
      BY <2>3 DEF vars, pageVars, BrowseTypes
    <2> QED
      BY <2>1, <2>2, <2>3 DEF Next
  <1>3. BrowseInv /\ BrowseTypes => TypeOK
    <2> SUFFICES ASSUME BrowseInv, BrowseTypes PROVE TypeOK
      OBVIOUS
    <2>1. front \in Page /\ history \in Seq(Page) /\ Len(history) \in {1, 2}
      BY PageOfStack DEF BrowseInv, Stacked
    <2>2. focus \in Tab \cup Detail \cup {"help"}
      BY <2>1 DEF BrowseInv, FocusOnScreen, OwnFocus, Page
    <2>3. history # <<>>
      BY <2>1
    <2> QED
      BY <2>1, <2>2, <2>3 DEF BrowseInv, BrowseTypes, TypeOK
  <1> QED
    BY <1>1, <1>2, <1>3, BrowseInductive, PTL DEF Spec

-----------------------------------------------------------------------------
(***************************************************************************)
(* ContainerTree.                                                          *)
(***************************************************************************)

\* The records are records.
TreeShape ==
    /\ entries = [arr |-> entries.arr, len |-> entries.len]
    /\ tree = [kind |-> tree.kind, pods |-> tree.pods, alone |-> tree.alone]
    /\ tree.pods = [p \in DOMAIN tree.pods |-> [heading |-> tree.pods[p].heading,
                                                kids |-> tree.pods[p].kids]]

\* The user's pods are shut in the tree while they are drawn, and remembered
\* in the map while they are not.
PodsAsLeft ==
    \A p \in Pod \ user.swept :
        p \in user.shut <=> IF p \in DOMAIN tree.pods THEN CT!PodNode(p) \in shut ELSE p \in collapsed

\* A tree of s to which the pods in left have no children yet.
PartOf(s, left) ==
    [kind  |-> "rows",
     pods  |-> [p \in CT!PodsIn(s) |-> [heading |-> CT!Heading(s, p),
                                        kids |-> IF p \in left THEN {} ELSE CT!InPod(s, p)]],
     alone |-> CT!InPod(s, NoPod)]

\* No refresh has stored a word since the last drawing began.
NoneStored == ~crashed /\ \A r \in Refresher : job[r].pc \in {"idle", "load", "store"}

\* Then what is drawn is of the entries that are stored.
DrawnOfEntries ==
    NoneStored =>
        /\ ui.at = "kids" => ~CT!Torn(entries) /\ tree = PartOf(CT!Elems(entries), ui.left)
        /\ ui.at # "kids" /\ tree.kind = "rows" =>
              ~CT!Torn(entries) /\ tree = PartOf(CT!Elems(entries), {})

TreeInv == CT!TypeOK /\ TreeShape /\ PodsAsLeft /\ DrawnOfEntries

\* What a list of entries is grouped into.
LEMMA ListTyped ==
    ASSUME NEW s \in Seq(CT!Entry)
    PROVE  /\ CT!PodsIn(s) \subseteq Pod
           /\ \A p : CT!InPod(s, p) \subseteq CT!Entry
           /\ CT!InPod(<<>>, NoPod) = {} /\ \A p : CT!InPod(<<>>, p) = {}
  <1>1. \A i \in DOMAIN s : s[i] \in CT!Entry
    OBVIOUS
  <1>2. \A i \in DOMAIN s : PodOf[s[i].id] \in Pod \cup {NoPod}
    BY <1>1, TreeAssumption DEF CT!PodAssumption, CT!Entry
  <1>3. CT!PodsIn(s) \subseteq Pod
    BY <1>2 DEF CT!PodsIn
  <1>4. \A p : CT!InPod(s, p) \subseteq CT!Entry
    BY <1>1 DEF CT!InPod
  <1>5. \A p : CT!InPod(<<>>, p) = {}
    BY DEF CT!InPod
  <1> QED
    BY <1>3, <1>4, <1>5

\* The entries, and a list that a refresh holds.
LEMMA StoredTyped ==
    ASSUME CT!TypeOK
    PROVE  /\ entries.arr \in Seq(CT!Entry) /\ entries.len \in Nat
           /\ \A r \in Refresher : job[r].list \in Listings \cup {<<>>}
           /\ ~CT!Torn(entries) => CT!Elems(entries) \in Seq(CT!Entry)
  <1>1. Listings \cup {<<>>} \subseteq Seq(CT!Entry)
    <2>1. <<>> \in Seq(CT!Entry)
      OBVIOUS
    <2>2. Listings \subseteq Seq(CT!Entry)
      BY TreeAssumption DEF CT!ListingAssumption
    <2> QED
      BY <2>1, <2>2
  <1>2. entries.arr \in Seq(CT!Entry) /\ entries.len \in Nat
    BY <1>1 DEF CT!TypeOK
  <1>3. ASSUME ~CT!Torn(entries)
        PROVE  CT!Elems(entries) \in Seq(CT!Entry)
    <2>1. entries.len <= Len(entries.arr)
      BY <1>2, <1>3 DEF CT!Torn
    <2>2. \A a \in Seq(CT!Entry) : \A n \in Nat : n <= Len(a) => SubSeq(a, 1, n) \in Seq(CT!Entry)
      OBVIOUS
    <2> QED
      BY <1>2, <2>1, <2>2 DEF CT!Elems
  <1> QED
    BY <1>2, <1>3 DEF CT!TypeOK

\* The nodes of the tree are nodes; the visible ones are of the tree.
LEMMA NodesTyped ==
    ASSUME CT!TypeOK, NEW s
    PROVE  /\ CT!TopNodes(tree) \subseteq CT!Visible(tree, s)
           /\ CT!Visible(tree, s) \subseteq CT!Nodes(tree)
           /\ CT!Nodes(tree) \subseteq CT!Node
           /\ CT!FirstNodes(tree) \subseteq CT!TopNodes(tree)
           /\ \A n \in CT!TopNodes(tree) :
                 n.type = "pod" => n.id \in DOMAIN tree.pods /\ n = CT!PodNode(n.id)
  <1>1. \A p \in DOMAIN tree.pods : CT!PodNode(p) \in CT!Node
    BY DEF CT!TypeOK, CT!PodNode, CT!Node
  <1>2. \A e \in CT!Entry : CT!CtrNode(e.id) \in CT!Node
    BY DEF CT!CtrNode, CT!Node, CT!Entry
  <1>3. CT!TopNodes(tree) \subseteq CT!Node
    BY <1>1, <1>2 DEF CT!TopNodes, CT!TypeOK
  <1>4. \A p \in DOMAIN tree.pods : CT!KidsOf(tree, p) \subseteq CT!Node
    BY <1>2 DEF CT!KidsOf, CT!TypeOK
  <1>5. CT!Nodes(tree) \subseteq CT!Node
    BY <1>3, <1>4 DEF CT!Nodes
  <1>6. CT!TopNodes(tree) \subseteq CT!Visible(tree, s) /\ CT!Visible(tree, s) \subseteq CT!Nodes(tree)
    BY DEF CT!Visible, CT!Nodes
  <1>7. CT!FirstNodes(tree) \subseteq CT!TopNodes(tree)
    BY DEF CT!FirstNodes, CT!TopNodes
  <1>8. \A n \in CT!TopNodes(tree) :
            n.type = "pod" => n.id \in DOMAIN tree.pods /\ n = CT!PodNode(n.id)
    BY DEF CT!TopNodes, CT!PodNode, CT!CtrNode
  <1> QED
    BY <1>5, <1>6, <1>7, <1>8

\* Where a draw may leave the cursor.
LEMMA SettledTyped ==
    ASSUME CT!TypeOK, NEW n, NEW s
    PROVE  CT!Settled(n, tree, s) \subseteq CT!Node \cup {NoNode}
  BY NodesTyped DEF CT!Settled

\* A Refresh: it draws nothing, and once it has stored a word, nothing is said
\* of what is drawn.
LEMMA RefreshKeepsTree ==
    ASSUME TreeInv, NEW r \in Refresher, CT!Refresh(r)
    PROVE  TreeInv'
  <1>1. UNCHANGED <<tree, shut, collapsed, ui, user>> /\ ~crashed
    BY DEF CT!Refresh, CT!BeginRefresh, CT!LoadInfos, CT!StoreHalf, CT!StoreRest
  <1>2. PodsAsLeft'
    BY <1>1 DEF TreeInv, PodsAsLeft
  <1>3. CASE CT!BeginRefresh(r) \/ CT!LoadInfos(r)
    <2>1. /\ UNCHANGED <<entries, cursor, crashed>>
          /\ \E j \in [pc : {"load", "store"}, saved : CT!Node \cup {NoNode},
                       list : Listings \cup {<<>>}, ok : BOOLEAN] : job' = [job EXCEPT ![r] = j]
      BY <1>3 DEF CT!BeginRefresh, CT!LoadInfos, CT!NoJob, TreeInv, CT!TypeOK
    <2>2. CT!TypeOK'
      BY <1>1, <2>1 DEF TreeInv, CT!TypeOK
    <2>3. NoneStored' => NoneStored
      <3>1. job[r].pc \in {"idle", "load"}
        BY <1>3 DEF CT!BeginRefresh, CT!LoadInfos
      <3>2. \A o \in Refresher \ {r} : job'[o] = job[o]
        BY <2>1 DEF TreeInv, CT!TypeOK
      <3> QED
        BY <1>1, <3>1, <3>2 DEF NoneStored
    <2>4. DrawnOfEntries'
      BY <1>1, <2>1, <2>3 DEF TreeInv, DrawnOfEntries
    <2>5. TreeShape'
      BY <1>1, <2>1 DEF TreeInv, TreeShape
    <2> QED
      BY <1>2, <2>2, <2>4, <2>5 DEF TreeInv
  <1>4. CASE CT!StoreHalf(r) \/ CT!StoreRest(r)
    <2>1. /\ UNCHANGED <<cursor, crashed>>
          /\ \E j \in [pc : {"arr", "len", "queued"}, saved : CT!Node \cup {NoNode},
                       list : Listings \cup {<<>>}, ok : BOOLEAN] : job' = [job EXCEPT ![r] = j]
      BY <1>4 DEF CT!StoreHalf, CT!StoreRest, CT!Words, TreeInv, CT!TypeOK
    <2>2. \E w \in CT!Words : entries' = CT!StoreWord(entries, w, job[r].list)
      BY <1>4 DEF CT!StoreHalf, CT!StoreRest, CT!Words, CT!OtherWord
    <2>3. \/ entries' = [arr |-> job[r].list, len |-> entries.len]
          \/ entries' = [arr |-> entries.arr, len |-> Len(job[r].list)]
      BY <2>2 DEF CT!Words, CT!StoreWord, TreeInv, TreeShape
    <2>4. CT!TypeOK'
      BY <1>1, <2>1, <2>3, StoredTyped DEF TreeInv, CT!TypeOK
    <2>5. DrawnOfEntries'
      BY <2>1 DEF TreeInv, CT!TypeOK, DrawnOfEntries, NoneStored
    <2>6. TreeShape'
      BY <1>1, <2>3 DEF TreeInv, TreeShape
    <2> QED
      BY <1>2, <2>4, <2>5, <2>6 DEF TreeInv
  <1> QED
    BY <1>3, <1>4 DEF CT!Refresh

\* The closure of a failed refresh: what the map has not seen is swept.
LEMMA RunFailedKeepsTree ==
    ASSUME TreeInv, NEW r \in Refresher, CT!RunFailed(r)
    PROVE  TreeInv'
  <1>1. /\ tree' = [kind |-> "failed", pods |-> <<>>, alone |-> {}]
        /\ shut' = {} /\ cursor' = NoNode /\ job' = [job EXCEPT ![r] = CT!NoJob]
        /\ UNCHANGED <<entries, collapsed, ui, crashed>> /\ ui = CT!Idle
        /\ user' = [shut |-> user.shut, swept |-> user.swept
              \cup {p \in DOMAIN tree.pods : (CT!PodNode(p) \in shut) # (p \in collapsed)}]
    BY DEF CT!RunFailed, CT!Placeholder, TreeInv, CT!TypeOK
  <1>2. DOMAIN tree'.pods = {}
    BY <1>1
  <1>3. CT!TypeOK'
    BY <1>1, <1>2 DEF TreeInv, CT!TypeOK, CT!NoJob
  <1>4. TreeShape'
    BY <1>1, <1>2 DEF TreeInv, TreeShape
  <1>5. PodsAsLeft'
    <2> SUFFICES ASSUME NEW p \in Pod, p \notin user'.swept
                 PROVE  p \in user.shut <=> p \in collapsed
      BY <1>1, <1>2 DEF PodsAsLeft
    <2>1. p \notin user.swept
      BY <1>1
    <2>2. p \in DOMAIN tree.pods => (CT!PodNode(p) \in shut <=> p \in collapsed)
      BY <1>1
    <2> QED
      BY <2>1, <2>2 DEF TreeInv, PodsAsLeft
  <1>6. DrawnOfEntries'
    BY <1>1 DEF DrawnOfEntries, CT!Idle
  <1> QED
    BY <1>3, <1>4, <1>5, <1>6 DEF TreeInv

\* The drawing begins: headings, expansion and lone containers.
LEMMA StartRenderKeepsTree ==
    ASSUME TreeInv, NEW r \in Refresher, CT!StartRender(r)
    PROVE  TreeInv'
  <1>1. UNCHANGED <<entries, cursor, user>>
    BY DEF CT!StartRender
  <1>2. CASE CT!Torn(entries)
    <2>1. crashed' = TRUE /\ UNCHANGED <<tree, shut, collapsed, ui, job>>
      BY <1>2 DEF CT!StartRender
    <2> QED
      BY <1>1, <2>1 DEF TreeInv, CT!TypeOK, TreeShape, PodsAsLeft, DrawnOfEntries, NoneStored
  <1>3. CASE ~CT!Torn(entries)
    <2> DEFINE s == CT!Elems(entries)
    <2>1. s \in Seq(CT!Entry)
      BY <1>3, StoredTyped DEF TreeInv
    <2>2. CT!PodsIn(s) \subseteq Pod /\ CT!InPod(s, NoPod) \subseteq CT!Entry
      BY <2>1, ListTyped
    <2>3. /\ collapsed' = CT!SnapshotCollapsedPods
          /\ tree' = [kind  |-> "rows",
                      pods  |-> [p \in CT!PodsIn(s) |-> CT!PodRow(s, <<>>, p)],
                      alone |-> CT!InPod(s, NoPod)]
          /\ shut' = {CT!PodNode(p) : p \in CT!PodsIn(s) \cap collapsed'}
          /\ ui' = [at |-> "kids", wanted |-> job[r].saved, left |-> CT!PodsIn(s)]
          /\ job' = [job EXCEPT ![r] = CT!NoJob]
          /\ UNCHANGED crashed
      BY <1>3 DEF CT!StartRender
    <2>4. tree' = PartOf(s, CT!PodsIn(s))
      <3>1. \A p : CT!PodRow(s, <<>>, p) = [heading |-> CT!Heading(s, p), kids |-> {}]
        BY <2>1, ListTyped DEF CT!PodRow
      <3> HIDE DEF s
      <3> QED
        BY <2>3, <3>1 DEF PartOf
    <2> HIDE DEF s
    <2>5. /\ DOMAIN tree'.pods = CT!PodsIn(s) /\ tree'.alone = CT!InPod(s, NoPod)
          /\ tree'.kind = "rows" /\ \A p \in CT!PodsIn(s) : tree'.pods[p].kids = {}
      BY <2>4 DEF PartOf
    <2>6. CT!TypeOK'
      <3>1. shut' \subseteq CT!Node
        BY <2>2, <2>3 DEF CT!Node, CT!PodNode
      <3>2. collapsed' \subseteq Pod
        BY <2>3 DEF CT!SnapshotCollapsedPods, CT!ShutPods, TreeInv, CT!TypeOK
      <3>3. /\ ui' \in [at : {"idle", "kids", "restore"}, wanted : CT!Node \cup {NoNode},
                        left : SUBSET Pod]
            /\ job' \in [Refresher -> [pc : {"idle", "load", "store", "arr", "len", "queued"},
                                       saved : CT!Node \cup {NoNode},
                                       list : Listings \cup {<<>>}, ok : BOOLEAN]]
        BY <2>2, <2>3 DEF TreeInv, CT!TypeOK, CT!NoJob
      <3>4. /\ tree'.kind \in {"loading", "failed", "rows"}
            /\ DOMAIN tree'.pods \subseteq Pod /\ tree'.alone \subseteq CT!Entry
            /\ \A p \in DOMAIN tree'.pods : tree'.pods[p].kids \subseteq CT!Entry
        BY <2>2, <2>5
      <3> QED
        BY <1>1, <2>3, <3>1, <3>2, <3>3, <3>4 DEF TreeInv, CT!TypeOK
    <2>7. TreeShape'
      BY <1>1, <2>4 DEF TreeInv, TreeShape, PartOf
    <2>8. PodsAsLeft'
      <3> SUFFICES ASSUME NEW p \in Pod \ user.swept
                   PROVE  p \in user.shut <=> IF p \in CT!PodsIn(s) THEN CT!PodNode(p) \in shut'
                                              ELSE p \in collapsed'
        BY <1>1, <2>5 DEF PodsAsLeft
      <3>1. p \in CT!PodsIn(s) => (CT!PodNode(p) \in shut' <=> p \in collapsed')
        BY <2>3 DEF CT!PodNode
      <3>2. p \in user.shut <=> p \in collapsed'
        BY <2>3 DEF CT!SnapshotCollapsedPods, CT!ShutPods, TreeInv, PodsAsLeft
      <3> QED
        BY <3>1, <3>2
    <2>9. DrawnOfEntries'
      BY <1>1, <1>3, <2>3, <2>4 DEF DrawnOfEntries, s, CT!Torn, CT!Elems
    <2> QED
      BY <2>6, <2>7, <2>8, <2>9 DEF TreeInv
  <1> QED
    BY <1>2, <1>3

\* The children of one pod are drawn.
LEMMA AddKidsKeepsTree ==
    ASSUME TreeInv, CT!AddKids
    PROVE  TreeInv'
  <1>1. UNCHANGED <<entries, shut, collapsed, cursor, job, user>> /\ ui.at = "kids" /\ ~crashed
    BY DEF CT!AddKids
  <1>2. CASE CT!Torn(entries)
    <2>1. crashed' = TRUE /\ UNCHANGED <<tree, ui>>
      BY <1>2 DEF CT!AddKids
    <2> QED
      BY <1>1, <2>1 DEF TreeInv, CT!TypeOK, TreeShape, PodsAsLeft, DrawnOfEntries, NoneStored
  <1>3. CASE ~CT!Torn(entries)
    <2> DEFINE s == CT!Elems(entries)
    <2>1. PICK p \in ui.left :
              /\ tree' = [tree EXCEPT !.pods[p].kids = CT!InPod(s, p)]
              /\ ui' = [ui EXCEPT !.left = @ \ {p}]
              /\ UNCHANGED crashed
      BY <1>3 DEF CT!AddKids
    <2>2. s \in Seq(CT!Entry) /\ CT!InPod(s, p) \subseteq CT!Entry
      BY <1>3, StoredTyped, ListTyped DEF TreeInv
    <2> HIDE DEF s
    <2>3. /\ tree'.kind = tree.kind /\ tree'.alone = tree.alone
          /\ tree'.pods = [q \in DOMAIN tree.pods |->
                  [heading |-> tree.pods[q].heading,
                   kids |-> IF q = p THEN CT!InPod(s, p) ELSE tree.pods[q].kids]]
          /\ tree' = [kind |-> tree'.kind, pods |-> tree'.pods, alone |-> tree'.alone]
      BY <2>1, SMTT(30) DEF TreeInv, TreeShape
    <2>4. DOMAIN tree'.pods = DOMAIN tree.pods
      <3> DEFINE drawnPod(q) == [heading |-> tree.pods[q].heading,
                                  kids |-> IF q = p THEN CT!InPod(s, p) ELSE tree.pods[q].kids]
      <3>1. tree'.pods = [q \in DOMAIN tree.pods |-> drawnPod(q)]
        BY <2>3
      <3> HIDE DEF drawnPod
      <3> QED
        BY <3>1
    <2>5. ui' = [at |-> "kids", wanted |-> ui.wanted, left |-> ui.left \ {p}]
      BY <1>1, <2>1 DEF TreeInv, CT!TypeOK
    <2>6. CT!TypeOK'
      <3>1. \A q \in DOMAIN tree'.pods : tree'.pods[q].kids \subseteq CT!Entry
        BY <2>2, <2>3, <2>4 DEF TreeInv, CT!TypeOK
      <3>2. ui' \in [at : {"idle", "kids", "restore"}, wanted : CT!Node \cup {NoNode},
                     left : SUBSET Pod]
        BY <2>5 DEF TreeInv, CT!TypeOK
      <3> QED
        BY <1>1, <2>1, <2>3, <2>4, <3>1, <3>2 DEF TreeInv, CT!TypeOK
    <2>7. TreeShape'
      BY <1>1, <2>3 DEF TreeInv, TreeShape
    <2>8. PodsAsLeft'
      BY <1>1, <2>4 DEF TreeInv, PodsAsLeft
    <2>9. DrawnOfEntries'
      <3> SUFFICES ASSUME NoneStored'
                   PROVE  tree' = PartOf(s, ui.left \ {p})
        BY <1>1, <1>3, <2>5 DEF DrawnOfEntries, s, CT!Torn, CT!Elems
      <3>1. NoneStored
        BY <1>1, <2>1 DEF NoneStored
      <3>2. tree = PartOf(s, ui.left)
        BY <1>1, <3>1 DEF TreeInv, DrawnOfEntries, s
      <3>3. /\ tree.kind = "rows" /\ tree.alone = CT!InPod(s, NoPod)
            /\ DOMAIN tree.pods = CT!PodsIn(s)
            /\ \A q \in CT!PodsIn(s) : /\ tree.pods[q].heading = CT!Heading(s, q)
                                       /\ tree.pods[q].kids = IF q \in ui.left THEN {}
                                                              ELSE CT!InPod(s, q)
        BY <3>2 DEF PartOf
      <3> QED
        BY <2>3, <3>3 DEF PartOf
    <2> QED
      BY <2>6, <2>7, <2>8, <2>9 DEF TreeInv
  <1> QED
    BY <1>2, <1>3

\* The drawing ends: the status line, then the cursor.
LEMMA EndOfRenderKeepsTree ==
    ASSUME TreeInv, CT!UpdateStatusBar \/ CT!RestoreSelection
    PROVE  TreeInv'
  <1>1. UNCHANGED <<entries, tree, shut, collapsed, job, user>> /\ ~crashed
    BY DEF CT!UpdateStatusBar, CT!RestoreSelection
  <1>2. TreeShape' /\ PodsAsLeft' /\ (NoneStored' => NoneStored)
    BY <1>1 DEF TreeInv, TreeShape, PodsAsLeft, NoneStored
  <1>3. CASE CT!UpdateStatusBar
    <2>1. /\ ui.at = "kids" /\ ui.left = {} /\ crashed' = CT!Torn(entries)
          /\ ui' = [at |-> "restore", wanted |-> ui.wanted, left |-> ui.left] /\ UNCHANGED cursor
      BY <1>3 DEF CT!UpdateStatusBar, TreeInv, CT!TypeOK
    <2>2. CT!TypeOK'
      BY <1>1, <2>1 DEF TreeInv, CT!TypeOK, CT!Torn
    <2>3. DrawnOfEntries'
      BY <1>1, <1>2, <2>1 DEF TreeInv, DrawnOfEntries
    <2> QED
      BY <1>2, <2>2, <2>3 DEF TreeInv
  <1>4. CASE CT!RestoreSelection
    <2>1. ui.at = "restore" /\ ui' = CT!Idle /\ UNCHANGED crashed
      BY <1>4 DEF CT!RestoreSelection
    <2>2. cursor' \in CT!Node \cup {NoNode}
      BY <1>4, SettledTyped DEF CT!RestoreSelection, TreeInv
    <2>3. CT!TypeOK'
      BY <1>1, <2>1, <2>2 DEF TreeInv, CT!TypeOK, CT!Idle
    <2>4. DrawnOfEntries'
      BY <1>1, <1>2, <2>1 DEF TreeInv, DrawnOfEntries, CT!Idle
    <2> QED
      BY <1>2, <2>3, <2>4 DEF TreeInv
  <1> QED
    BY <1>3, <1>4

\* A key that leaves the pods of ps as the user sees them, and touches no other.
LEMMA LeftAsShown ==
    ASSUME PodsAsLeft, UNCHANGED tree, NEW ps \in SUBSET DOMAIN tree.pods,
           CT!Leaves(ps, shut'),
           \A p \in Pod \ ps :
               IF p \in DOMAIN tree.pods THEN CT!PodNode(p) \in shut' <=> CT!PodNode(p) \in shut
               ELSE p \in collapsed' <=> p \in collapsed
    PROVE  PodsAsLeft'
  BY DEF PodsAsLeft, CT!Leaves

\* The keys.
LEMMA KeysKeepTree ==
    ASSUME TreeInv, CT!Keys
    PROVE  TreeInv'
  <1>1. UNCHANGED <<entries, tree, ui, job, crashed>>
    BY DEF CT!Keys, CT!Move, CT!ToggleCurrentNode, CT!EnterPod, CT!CollapseAllPods,
           CT!ToggleAllNodes
  <1>2. TreeShape' /\ DrawnOfEntries'
    BY <1>1 DEF TreeInv, TreeShape, DrawnOfEntries, NoneStored
  <1>3. SUFFICES /\ shut' \subseteq CT!Node /\ collapsed' \subseteq Pod
                 /\ cursor' \in CT!Node \cup {NoNode}
                 /\ user' \in [shut : SUBSET Pod, swept : SUBSET Pod]
                 /\ PodsAsLeft'
    BY <1>1, <1>2 DEF TreeInv, CT!TypeOK
  <1>4. /\ shut \subseteq CT!Node /\ collapsed \subseteq Pod /\ DOMAIN tree.pods \subseteq Pod
        /\ cursor \in CT!Node \cup {NoNode} /\ user \in [shut : SUBSET Pod, swept : SUBSET Pod]
        /\ CT!TopNodes(tree) \subseteq CT!Node
    BY NodesTyped DEF TreeInv, CT!TypeOK
  <1>5. \A ps \in SUBSET DOMAIN tree.pods :
            CT!Leaves(ps, shut') => user' \in [shut : SUBSET Pod, swept : SUBSET Pod]
    BY <1>4 DEF CT!Leaves
  <1>6. CASE CT!Move
    BY <1>1, <1>4, <1>6, NodesTyped DEF CT!Move, TreeInv, PodsAsLeft
  <1>7. ASSUME CT!ToggleCurrentNode \/ CT!EnterPod, cursor.type = "pod"
        PROVE  /\ shut' \subseteq CT!Node /\ collapsed' \subseteq Pod
               /\ cursor' \in CT!Node \cup {NoNode}
               /\ user' \in [shut : SUBSET Pod, swept : SUBSET Pod]
               /\ PodsAsLeft'
    <2>1. /\ cursor \in CT!TopNodes(tree) /\ shut' = CT!Flip(shut, cursor)
          /\ CT!Leaves({cursor.id}, shut') /\ UNCHANGED cursor
          /\ \/ collapsed' = collapsed \cup {cursor.id}
             \/ collapsed' = collapsed \ {cursor.id}
             \/ collapsed' = collapsed
      BY <1>7 DEF CT!ToggleCurrentNode, CT!EnterPod
    <2>2. cursor.id \in DOMAIN tree.pods /\ cursor = CT!PodNode(cursor.id)
      BY <1>7, <2>1, NodesTyped DEF TreeInv
    <2>3. \A p \in Pod \ {cursor.id} :
              /\ CT!PodNode(p) \in shut' <=> CT!PodNode(p) \in shut
              /\ p \in collapsed' <=> p \in collapsed
      <3>1. \A p \in Pod \ {cursor.id} : CT!PodNode(p) # cursor
        BY <2>2 DEF CT!PodNode
      <3> QED
        BY <2>1, <3>1 DEF CT!Flip
    <2>4. PodsAsLeft'
      BY <1>1, <2>1, <2>2, <2>3, LeftAsShown DEF TreeInv
    <2>5. shut' \subseteq CT!Node
      BY <1>4, <2>1 DEF CT!Flip
    <2>6. collapsed' \subseteq Pod
      BY <1>4, <2>1, <2>2
    <2>7. user' \in [shut : SUBSET Pod, swept : SUBSET Pod]
      BY <1>5, <2>1, <2>2
    <2> QED
      BY <1>4, <2>1, <2>4, <2>5, <2>6, <2>7
  <1>8. ASSUME CT!ToggleCurrentNode, cursor.type # "pod"
        PROVE  /\ shut' \subseteq CT!Node /\ collapsed' \subseteq Pod
               /\ cursor' \in CT!Node \cup {NoNode}
               /\ user' \in [shut : SUBSET Pod, swept : SUBSET Pod]
               /\ PodsAsLeft'
    <2>1. /\ cursor \in CT!TopNodes(tree) /\ shut' = CT!Flip(shut, cursor)
          /\ UNCHANGED <<cursor, collapsed, user>>
      BY <1>8 DEF CT!ToggleCurrentNode
    <2>2. \A p \in Pod : CT!PodNode(p) # cursor
      BY <1>8 DEF CT!PodNode
    <2>3. PodsAsLeft'
      BY <1>1, <2>1, <2>2 DEF TreeInv, PodsAsLeft, CT!Flip
    <2> QED
      BY <1>4, <2>1, <2>3 DEF CT!Flip
  <1>9. CASE CT!CollapseAllPods \/ CT!ToggleAllNodes
    <2>1. CT!Leaves(DOMAIN tree.pods, shut')
      BY <1>9 DEF CT!CollapseAllPods, CT!ToggleAllNodes
    <2>2. cursor' \in CT!Node \cup {NoNode}
      BY <1>9, SettledTyped DEF CT!CollapseAllPods, CT!ToggleAllNodes, TreeInv
    <2>3. shut' \subseteq CT!Node /\ collapsed' \subseteq Pod
      BY <1>4, <1>9 DEF CT!CollapseAllPods, CT!ToggleAllNodes, CT!PodNode, CT!Node
    <2>4. \A p \in Pod \ DOMAIN tree.pods : p \in collapsed' <=> p \in collapsed
      BY <1>9 DEF CT!CollapseAllPods, CT!ToggleAllNodes
    <2>5. PodsAsLeft'
      BY <1>1, <2>1, <2>4, LeftAsShown DEF TreeInv
    <2> QED
      BY <1>5, <2>1, <2>2, <2>3, <2>5
  <1> QED
    BY <1>6, <1>7, <1>8, <1>9 DEF CT!Keys, CT!EnterPod

\* The inductive invariant behind the results on the tree.
THEOREM TreeInductive == CT!Spec => []TreeInv
  <1>1. CT!Init => TreeInv
    <2> SUFFICES ASSUME CT!Init PROVE TreeInv
      OBVIOUS
    <2>1. /\ entries = [arr |-> <<>>, len |-> 0]
          /\ tree = [kind |-> "loading", pods |-> <<>>, alone |-> {}]
          /\ ui = [at |-> "idle", wanted |-> NoNode, left |-> {}]
          /\ job = [r \in Refresher |-> [pc |-> "idle", saved |-> NoNode, list |-> <<>>, ok |-> TRUE]]
      BY DEF CT!Init, CT!Nil, CT!Slice, CT!Placeholder, CT!Idle, CT!NoJob
    <2>2. DOMAIN tree.pods = {}
      BY <2>1
    <2>3. CT!TypeOK
      <3>1. entries.arr = <<>> /\ entries.len = Len(<<>>)
        BY <2>1
      <3>2. /\ \E s \in Listings \cup {<<>>} : entries.arr = s
            /\ \E s \in Listings \cup {<<>>} : entries.len = Len(s)
        BY <3>1
      <3>3. /\ tree.kind \in {"loading", "failed", "rows"}
            /\ DOMAIN tree.pods \subseteq Pod /\ tree.alone \subseteq CT!Entry
            /\ \A p \in DOMAIN tree.pods : tree.pods[p].kids \subseteq CT!Entry
        BY <2>1, <2>2
      <3>4. /\ ui \in [at : {"idle", "kids", "restore"}, wanted : CT!Node \cup {NoNode},
                       left : SUBSET Pod]
            /\ job \in [Refresher -> [pc : {"idle", "load", "store", "arr", "len", "queued"},
                                      saved : CT!Node \cup {NoNode},
                                      list : Listings \cup {<<>>}, ok : BOOLEAN]]
        BY <2>1
      <3> QED
        BY <3>2, <3>3, <3>4 DEF CT!Init, CT!TypeOK
    <2>4. TreeShape /\ DrawnOfEntries
      BY <2>1, <2>2 DEF TreeShape, DrawnOfEntries
    <2>5. PodsAsLeft
      BY <2>2 DEF CT!Init, PodsAsLeft
    <2> QED
      BY <2>3, <2>4, <2>5 DEF TreeInv
  <1>2. TreeInv /\ [CT!Next]_(CT!vars) => TreeInv'
    <2>1. TreeInv /\ UNCHANGED CT!vars => TreeInv'
      BY DEF CT!vars, TreeInv, CT!TypeOK, TreeShape, PodsAsLeft, DrawnOfEntries, NoneStored
    <2> QED
      BY <2>1, RefreshKeepsTree, RunFailedKeepsTree, StartRenderKeepsTree, AddKidsKeepsTree,
         EndOfRenderKeepsTree, KeysKeepTree DEF CT!Next, CT!RunClosures
  <1> QED
    BY <1>1, <1>2, PTL DEF CT!Spec

\* A pod is drawn as the user left it, for any listings and however refreshes
\* overlap: the map and the nodes between them forget nothing but what a
\* failed refresh swept (snapshotCollapsedPods of container_list.go).
THEOREM PodsAreAsLeft == CT!Spec => []PodsStayAsLeft
  <1>1. TreeInv => PodsStayAsLeft
    BY DEF TreeInv, CT!TypeOK, PodsAsLeft, PodsStayAsLeft, CT!PodsStayAsLeft
  <1> QED
    BY <1>1, TreeInductive, PTL

\* Of the tree alone: when all is quiet, what is drawn is of the one list that
\* is stored (render of container_list.go).
THEOREM QuietTree == CT!Spec => []CT!QuietTreeIsOfOneList
  <1>1. ASSUME TreeInv, CT!Quiet, tree.kind = "rows"
        PROVE  ~CT!Torn(entries) /\ tree = CT!TreeOf(CT!Elems(entries))
    <2>1. NoneStored /\ ui.at # "kids"
      BY <1>1 DEF CT!Quiet, CT!Ready, CT!Idle, NoneStored
    <2>2. ~CT!Torn(entries) /\ tree = PartOf(CT!Elems(entries), {})
      BY <1>1, <2>1 DEF TreeInv, DrawnOfEntries
    <2> QED
      BY <2>2 DEF PartOf, CT!TreeOf, CT!PodRow
  <1>2. TreeInv => CT!QuietTreeIsOfOneList
    BY <1>1 DEF CT!QuietTreeIsOfOneList
  <1> QED
    BY <1>2, TreeInductive, PTL

\* Of the tree alone: where a refresh that found the cursor at rest leaves it
\* (restoreSelection of container_list.go).
THEOREM TreeCursor == CT!Spec => CT!CursorSurvivesRefresh
  <1> DEFINE Stays == /\ cursor \in CT!Visible(tree, shut) => cursor' = cursor
                      /\ cursor \notin CT!Nodes(tree) /\ cursor.type = "container"
                            => \A p \in DOMAIN tree.pods :
                                  PodOf[cursor.id] = p => cursor' = CT!PodNode(p)
             Step == ui.at = "restore" /\ ui' = CT!Idle /\ cursor = ui.wanted /\ cursor # NoNode
                        => Stays
  <1>1. ASSUME TreeInv, [CT!Next]_(CT!vars), ui.at = "restore", ui' = CT!Idle,
               cursor = ui.wanted, cursor # NoNode
        PROVE  Stays
    <2>1. CT!RestoreSelection
      <3>1. ui.at # "idle" /\ ui' # ui
        BY <1>1 DEF CT!Idle
      <3>2. ~CT!Keys
        BY <3>1 DEF CT!Keys, CT!Ready, CT!Idle, CT!Move, CT!ToggleCurrentNode, CT!EnterPod,
           CT!CollapseAllPods, CT!ToggleAllNodes
      <3>3. \A r \in Refresher : ~CT!Refresh(r) /\ ~CT!RunFailed(r) /\ ~CT!StartRender(r)
        BY <3>1 DEF CT!Refresh, CT!BeginRefresh, CT!LoadInfos, CT!StoreHalf, CT!StoreRest,
           CT!RunFailed, CT!StartRender, CT!Idle
      <3>4. ~CT!AddKids /\ ~CT!UpdateStatusBar /\ ~UNCHANGED CT!vars
        BY <1>1, <3>1 DEF CT!AddKids, CT!UpdateStatusBar, CT!vars
      <3> QED
        BY <1>1, <3>2, <3>3, <3>4 DEF CT!Next, CT!RunClosures
    <2>2. PICK n \in CT!Restored(cursor, tree) : cursor' \in CT!Settled(n, tree, shut)
      BY <1>1, <2>1 DEF CT!RestoreSelection
    <2>3. ASSUME cursor \in CT!Visible(tree, shut)
          PROVE  cursor' = cursor
      <3>1. cursor \in CT!Nodes(tree)
        BY <1>1, <2>3, NodesTyped DEF TreeInv
      <3>2. n = cursor
        BY <2>2, <3>1 DEF CT!Restored
      <3> QED
        BY <2>2, <2>3, <3>2 DEF CT!Settled
    <2>4. ASSUME cursor \notin CT!Nodes(tree), cursor.type = "container",
                 PodOf[cursor.id] \in DOMAIN tree.pods
          PROVE  cursor' = CT!PodNode(PodOf[cursor.id])
      <3>1. cursor \in CT!Node
        BY <1>1 DEF TreeInv, CT!TypeOK
      <3>2. n = CT!PodNode(PodOf[cursor.id])
        BY <2>2, <2>4, <3>1 DEF CT!Restored
      <3>3. n \in CT!Visible(tree, shut)
        BY <2>4, <3>2 DEF CT!Visible, CT!TopNodes
      <3> QED
        BY <2>2, <3>2, <3>3 DEF CT!Settled
    <2> QED
      BY <2>3, <2>4
  <1>2. TreeInv /\ [CT!Next]_(CT!vars) => [Step]_(CT!vars)
    BY <1>1
  <1>3. CT!CursorSurvivesRefresh <=> [][Step]_(CT!vars)
    BY DEF CT!CursorSurvivesRefresh
  <1> HIDE DEF Step
  <1> QED
    BY <1>2, <1>3, TreeInductive, PTL DEF CT!Spec

-----------------------------------------------------------------------------
(***************************************************************************)
(* PodList.                                                                *)
(***************************************************************************)

PodJob == [pc : {"idle", "load", "store", "arr", "len", "queued"},
           saved : PodInfo \cup {NoPod}, list : PodLists \cup {<<>>}, ok : BOOLEAN,
           under : PodInfo \cup {NoPod}]

PodsTyped ==
    /\ pods = [arr |-> pods.arr, len |-> pods.len]
    /\ pods.arr \in Seq(PL!Row) /\ pods.len \in Nat
    /\ table \in Seq(PL!Cell \cup {Notice})
    /\ pui \in [at : {"idle", "status", "restore"}, wanted : PodInfo \cup {NoPod},
                under : PodInfo \cup {NoPod}]
    /\ pjob \in [Refresher -> PodJob]
    /\ pcrashed \in BOOLEAN

\* What is drawn is of the pods stored, or a notice.
OfPods     == ~PL!Torn(pods) /\ table = PL!Draw(PL!Elems(pods))
TableDrawn ==
    ~pcrashed /\ (\A r \in Refresher : pjob[r].pc \in {"idle", "load", "store"})
        => table = <<Notice>> \/ OfPods

\* A Refresh that found a pod under the cursor wants this pod, is alone, and
\* draws what is stored.
UnderFollowed ==
    /\ \A r \in Refresher : pjob[r].under # NoPod =>
          /\ pjob[r].saved = pjob[r].under /\ pjob[r].pc # "idle"
          /\ pui = PL!Idle /\ \A o \in Refresher \ {r} : pjob[o].pc = "idle"
    /\ pui.under # NoPod =>
          /\ pui.wanted = pui.under /\ PL!Alone
          /\ ~pcrashed => OfPods

PodsInv == PodsTyped /\ TableDrawn /\ UnderFollowed

\* The numbers are well founded, so a set of them has a least one.
LEMMA Less == IsWellFoundedOn({s \in Nat \X Nat : s[1] < s[2]}, Nat)
  BY NatLessThanWellFounded DEF OpToRel

\* Some member of a set of numbers is the least.
LEMMA Least ==
    ASSUME NEW T, T \subseteq Nat, T # {}
    PROVE  \E x \in T : \A y \in T : x <= y
  <1> DEFINE R == {s \in Nat \X Nat : s[1] < s[2]}
  <1>1. PICK x \in T : \A y \in T : <<y, x>> \notin R
    <2> HIDE DEF R
    <2>1. IsWellFoundedOn(R, Nat)
      BY Less DEF R
    <2> QED
      BY <2>1, WFMin
  <1>2. \A y \in T : ~(y < x)
    BY <1>1
  <1> QED
    BY <1>2

\* The loop of restoreSelection finds the pod where there is one.
LEMMA RowOfWanted ==
    ASSUME NEW s \in Seq(PL!Row), NEW uid, \E i \in DOMAIN s : s[i].uid = uid
    PROVE  PL!RowOf(s, uid) \in DOMAIN s /\ s[PL!RowOf(s, uid)].uid = uid
  <1> DEFINE T == {i \in DOMAIN s : s[i].uid = uid}
  <1>1. T \subseteq Nat /\ T # {} /\ DOMAIN s = 1..Len(s) /\ Len(s) \in Nat
    OBVIOUS
  <1>2. PICK x \in T : \A y \in T : x <= y
    <2> HIDE DEF T
    <2> QED
      BY <1>1, Least
  <1>3. \A k \in 1..(x - 1) : s[k].uid # uid
    <2> SUFFICES ASSUME NEW k \in 1..(x - 1), s[k].uid = uid PROVE FALSE
      OBVIOUS
    <2>1. k \in DOMAIN s /\ ~(x <= k)
      BY <1>1
    <2> QED
      BY <1>2, <2>1
  <1>4. \E i \in DOMAIN s : s[i].uid = uid /\ \A k \in 1..(i - 1) : s[k].uid # uid
    BY <1>3
  <1> DEFINE First(i) == s[i].uid = uid /\ \A k \in 1..(i - 1) : s[k].uid # uid
  <1>5. PL!RowOf(s, uid) = CHOOSE i \in DOMAIN s : First(i)
    BY DEF PL!RowOf
  <1>6. \E i \in DOMAIN s : First(i)
    BY <1>4
  <1>7. PL!RowOf(s, uid) \in DOMAIN s /\ First(PL!RowOf(s, uid))
    <2> HIDE DEF First
    <2> QED
      BY <1>5, <1>6
  <1> QED
    BY <1>7

\* A drawing has one row for each pod.
LEMMA DrawTyped ==
    ASSUME NEW s \in Seq(PL!Row)
    PROVE  /\ PL!Draw(s) \in Seq(PL!Cell) /\ Len(PL!Draw(s)) = Len(s)
           /\ DOMAIN PL!Draw(s) = DOMAIN s
           /\ \A i \in DOMAIN s : PL!Draw(s)[i].uid = s[i].uid /\ PL!Draw(s)[i] \in PL!Cell
  <1>1. \A c : PL!Colour(c) \in {"green", "yellow", "red"}
    BY DEF PL!Colour
  <1>2. \A i \in DOMAIN s : PL!Draw(s)[i].uid = s[i].uid /\ PL!Draw(s)[i] \in PL!Cell
    <2> TAKE i \in DOMAIN s
    <2>1. s[i].uid \in PodInfo /\ s[i].count \in Counts
      <3>1. s[i] \in PL!Row
        OBVIOUS
      <3> QED
        BY <3>1 DEF PL!Row
    <2>2. PL!Draw(s)[i] = [uid |-> s[i].uid, count |-> s[i].count,
                           colour |-> PL!Colour(s[i].count)]
      BY DEF PL!Draw
    <2> QED
      BY <1>1, <2>1, <2>2 DEF PL!Cell
  <1>3. PL!Draw(s) \in [1..Len(s) -> PL!Cell]
    BY <1>2 DEF PL!Draw
  <1>4. PL!Draw(s) \in Seq(PL!Cell) /\ Len(PL!Draw(s)) = Len(s)
    BY <1>3
  <1> QED
    BY <1>2, <1>4 DEF PL!Draw

\* The lists.
LEMMA PodsStored ==
    ASSUME PodsTyped
    PROVE  /\ PodLists \cup {<<>>} \subseteq Seq(PL!Row)
           /\ ~PL!Torn(pods) =>
                 /\ PL!Elems(pods) \in Seq(PL!Row) /\ Len(PL!Elems(pods)) = pods.len
                 /\ \A i \in 1..pods.len : PL!Elems(pods)[i] = pods.arr[i]
  <1>1. PodLists \cup {<<>>} \subseteq Seq(PL!Row)
    <2>1. <<>> \in Seq(PL!Row)
      OBVIOUS
    <2>2. PodLists \subseteq Seq(PL!Row)
      BY PodsAssumption DEF PL!ListAssumption
    <2> QED
      BY <2>1, <2>2
  <1>2. ASSUME ~PL!Torn(pods)
        PROVE  /\ PL!Elems(pods) \in Seq(PL!Row) /\ Len(PL!Elems(pods)) = pods.len
               /\ \A i \in 1..pods.len : PL!Elems(pods)[i] = pods.arr[i]
    <2>1. pods.len <= Len(pods.arr)
      BY <1>2 DEF PL!Torn, PodsTyped
    <2>2. \A a \in Seq(PL!Row) : \A n \in Nat : n <= Len(a) =>
              /\ SubSeq(a, 1, n) \in Seq(PL!Row) /\ Len(SubSeq(a, 1, n)) = n
              /\ \A i \in 1..n : SubSeq(a, 1, n)[i] = a[i]
      OBVIOUS
    <2> QED
      BY <2>1, <2>2 DEF PL!Elems, PodsTyped
  <1> QED
    BY <1>1, <1>2

\* A Refresh begins: alone on a row of the list that is stored, it wants the
\* pod of the row.
LEMMA BeginKeepsPods ==
    ASSUME PodsInv, NEW r \in Refresher, PL!BeginRefresh(r)
    PROVE  PodsInv'
  <1>1. /\ UNCHANGED <<pods, table, row>> /\ ~pcrashed /\ pjob[r].pc = "idle"
        /\ pui' = [at |-> pui.at, wanted |-> pui.wanted, under |-> NoPod]
    BY DEF PL!BeginRefresh, PodsInv, PodsTyped
  <1>2. CASE PL!WildPod
    <2>1. pcrashed' = TRUE /\ UNCHANGED pjob
      BY <1>2 DEF PL!BeginRefresh
    <2>2. PodsTyped'
      BY <1>1, <2>1 DEF PodsInv, PodsTyped
    <2>3. pui = PL!Idle => pui' = PL!Idle
      BY <1>1 DEF PL!Idle
    <2>4. UnderFollowed'
      BY <1>1, <2>1, <2>3 DEF PodsInv, UnderFollowed
    <2> QED
      BY <2>1, <2>2, <2>4 DEF PodsInv, TableDrawn
  <1>3. CASE ~PL!WildPod
    <2> DEFINE saved == PL!SelectedPod
               under == IF PL!Alone /\ pui = PL!Idle THEN PL!DrawnPod ELSE NoPod
    <2>1. pjob' = [PL!Disturb(pjob) EXCEPT ![r] =
                      [PL!NoJob EXCEPT !.pc = "load", !.saved = saved, !.under = under]]
          /\ UNCHANGED pcrashed
      BY <1>3 DEF PL!BeginRefresh
    <2>2. saved \in PodInfo \cup {NoPod}
      <3>1. ASSUME row \in 1..pods.len
            PROVE  pods.arr[row].uid \in PodInfo
        <4>1. pods.arr[row] \in PL!Row
          BY <1>3, <3>1 DEF PL!WildPod, PodsInv, PodsTyped
        <4> QED
          BY <4>1 DEF PL!Row
      <3> QED
        BY <3>1 DEF PL!SelectedPod
    <2>3. under \in PodInfo \cup {NoPod}
      <3>1. ASSUME row \in DOMAIN table, table[row] # Notice
            PROVE  table[row].uid \in PodInfo
        <4>1. table[row] \in PL!Cell
          BY <3>1 DEF PodsInv, PodsTyped
        <4> QED
          BY <4>1 DEF PL!Cell
      <3> QED
        BY <3>1 DEF PL!DrawnPod
    <2>4. under # NoPod => saved = under /\ PL!Alone /\ pui = PL!Idle
      <3> SUFFICES ASSUME PL!Alone, pui = PL!Idle, row \in DOMAIN table, table[row] # Notice
                   PROVE  saved = table[row].uid
        BY DEF PL!DrawnPod
      <3>1. table # <<Notice>>
        OBVIOUS
      <3>2. OfPods
        BY <1>1, <3>1 DEF PL!Alone, PodsInv, TableDrawn
      <3>3. /\ PL!Elems(pods) \in Seq(PL!Row) /\ Len(PL!Elems(pods)) = pods.len
            /\ \A i \in 1..pods.len : PL!Elems(pods)[i] = pods.arr[i]
        BY <3>2, PodsStored DEF OfPods, PodsInv
      <3>4. row \in 1..pods.len /\ table[row].uid = PL!Elems(pods)[row].uid
        BY <3>2, <3>3, DrawTyped DEF OfPods
      <3> QED
        BY <3>3, <3>4 DEF PL!SelectedPod
    <2> HIDE DEF saved, under
    <2>5. /\ pjob'[r] = [pc |-> "load", saved |-> saved, list |-> <<>>, ok |-> TRUE, under |-> under]
          /\ \A o \in Refresher \ {r} :
                pjob'[o] = [pc |-> pjob[o].pc, saved |-> pjob[o].saved, list |-> pjob[o].list,
                            ok |-> pjob[o].ok, under |-> NoPod]
          /\ DOMAIN pjob' = Refresher /\ pjob' = [o \in Refresher |-> pjob'[o]]
      BY <2>1, ZenonT(60) DEF PL!Disturb, PL!NoJob, PodsInv, PodsTyped, PodJob
    <2>6. PodsTyped'
      <3>1. pjob'[r] \in PodJob
        BY <2>2, <2>3, <2>5 DEF PodJob
      <3>2. \A o \in Refresher \ {r} : pjob'[o] \in PodJob
        BY <2>5 DEF PodsInv, PodsTyped, PodJob
      <3> QED
        BY <1>1, <2>1, <2>5, <3>1, <3>2 DEF PodsInv, PodsTyped
    <2>7. TableDrawn'
      BY <1>1, <2>1, <2>5 DEF PodsInv, TableDrawn, OfPods
    <2>8. UnderFollowed'
      <3>1. \A o \in Refresher \ {r} : pjob'[o].under = NoPod /\ pjob'[o].pc = pjob[o].pc
        BY <2>5
      <3>2. pjob'[r].under = under /\ pjob'[r].saved = saved /\ pjob'[r].pc = "load"
        BY <2>5
      <3>3. pui = PL!Idle => pui' = PL!Idle
        BY <1>1 DEF PL!Idle
      <3>4. pui'.under = NoPod
        BY <1>1
      <3> QED
        BY <2>4, <3>1, <3>2, <3>3, <3>4 DEF UnderFollowed, PL!Alone
    <2> QED
      BY <2>6, <2>7, <2>8 DEF PodsInv
  <1> QED
    BY <1>2, <1>3

\* The rest of a Refresh: a word that is stored disturbs no drawing, for no
\* closure that followed a pod is under way.
LEMMA LoadKeepsPods ==
    ASSUME PodsInv, NEW r \in Refresher, PL!LoadPods(r) \/ PL!StoreHalf(r) \/ PL!StoreRest(r)
    PROVE  PodsInv'
  <1>1. UNCHANGED <<table, row, pui, pcrashed>> /\ pjob[r].pc \in {"load", "store", "arr", "len"}
    BY DEF PL!LoadPods, PL!StoreHalf, PL!StoreRest, PL!Words
  <1>2. /\ pjob' \in [Refresher -> PodJob]
        /\ pjob'[r].saved = pjob[r].saved /\ pjob'[r].under = pjob[r].under
        /\ \A o \in Refresher \ {r} : pjob'[o] = pjob[o]
        /\ IF PL!LoadPods(r) THEN pjob'[r].pc = "store" /\ pjob[r].pc = "load"
                             ELSE pjob'[r].pc \in {"arr", "len", "queued"}
    <2>1. pjob \in [Refresher -> PodJob]
      BY DEF PodsInv, PodsTyped
    <2>2. CASE PL!LoadPods(r)
      BY <2>1, <2>2 DEF PL!LoadPods, PodJob
    <2>3. CASE PL!StoreHalf(r)
      BY <2>1, <2>3 DEF PL!StoreHalf, PL!LoadPods, PL!Words, PodJob
    <2>4. CASE PL!StoreRest(r)
      BY <2>1, <2>4 DEF PL!StoreRest, PL!LoadPods, PL!Words, PodJob
    <2> QED
      BY <2>2, <2>3, <2>4
  <1>3. \/ PL!LoadPods(r) /\ UNCHANGED pods
        \/ /\ ~PL!LoadPods(r)
           /\ \E w \in PL!Words : pods' = PL!StoreWord(pods, w, pjob[r].list)
    BY DEF PL!LoadPods, PL!StoreHalf, PL!StoreRest, PL!Words, PL!OtherWord
  <1>4. /\ pods' = [arr |-> pods'.arr, len |-> pods'.len]
        /\ pods'.arr \in Seq(PL!Row) /\ pods'.len \in Nat
    <2>1. pjob[r].list \in Seq(PL!Row)
      BY PodsStored DEF PodsInv, PodsTyped, PodJob
    <2>2. \/ pods' = pods
          \/ pods' = [arr |-> pjob[r].list, len |-> pods.len]
          \/ pods' = [arr |-> pods.arr, len |-> Len(pjob[r].list)]
      BY <1>3 DEF PL!Words, PL!StoreWord, PodsInv, PodsTyped
    <2> QED
      BY <2>1, <2>2 DEF PodsInv, PodsTyped
  <1>5. PodsTyped'
    BY <1>1, <1>2, <1>4 DEF PodsInv, PodsTyped
  <1>7. TableDrawn'
    BY <1>1, <1>2, <1>3 DEF PodsInv, TableDrawn, OfPods
  <1>8. UnderFollowed'
    BY <1>1, <1>2 DEF PodsInv, UnderFollowed, PL!Alone, PL!LoadPods
  <1> QED
    BY <1>5, <1>7, <1>8 DEF PodsInv

\* The closures: a notice, or the table of what is stored.
LEMMA DrawKeepsPods ==
    ASSUME PodsInv, NEW r \in Refresher, PL!RunFailed(r) \/ PL!Render(r)
    PROVE  PodsInv'
  <1>1. pui = PL!Idle /\ pjob[r].pc = "queued" /\ ~pcrashed /\ UNCHANGED pods
    BY DEF PL!RunFailed, PL!Render
  <1>2. CASE PL!Render(r) /\ PL!Torn(pods)
    <2>1. pcrashed' = TRUE /\ UNCHANGED <<table, pui, pjob>>
      BY <1>2, <1>1 DEF PL!Render, PL!RunFailed
    <2> QED
      BY <1>1, <2>1 DEF PodsInv, PodsTyped, TableDrawn, UnderFollowed, PL!Alone
  <1>3. CASE PL!RunFailed(r) \/ ~PL!Torn(pods)
    <2>1. /\ pjob' = [pjob EXCEPT ![r] = PL!NoJob] /\ UNCHANGED pcrashed
          /\ \/ table' = <<Notice>> /\ UNCHANGED pui
             \/ /\ ~PL!Torn(pods) /\ table' = PL!Draw(PL!Elems(pods))
                /\ pui' = [at |-> "status", wanted |-> pjob[r].saved, under |-> pjob[r].under]
      BY <1>3 DEF PL!Render, PL!RunFailed
    <2>2. table' \in Seq(PL!Cell \cup {Notice}) /\ (table' = <<Notice>> \/ OfPods')
      <3>1. CASE table' = <<Notice>>
        BY <3>1
      <3>2. CASE ~PL!Torn(pods) /\ table' = PL!Draw(PL!Elems(pods))
        <4>1. table' \in Seq(PL!Cell)
          BY <3>2, PodsStored, DrawTyped DEF PodsInv
        <4> QED
          BY <1>1, <3>2, <4>1 DEF OfPods, PL!Torn, PL!Elems
      <3> QED
        BY <2>1, <3>1, <3>2
    <2>3. pjob' \in [Refresher -> PodJob]
          /\ pui' \in [at : {"idle", "status", "restore"}, wanted : PodInfo \cup {NoPod},
                       under : PodInfo \cup {NoPod}]
      BY <2>1 DEF PodsInv, PodsTyped, PodJob, PL!NoJob
    <2>4. PodsTyped'
      BY <1>1, <2>1, <2>2, <2>3 DEF PodsInv, PodsTyped
    <2>5. pjob'[r] = PL!NoJob /\ \A o \in Refresher \ {r} : pjob'[o] = pjob[o]
      BY <2>1 DEF PodsInv, PodsTyped
    <2>6. \A o \in Refresher : pjob'[o].under = NoPod
      BY <1>1, <2>5 DEF PL!NoJob, PodsInv, UnderFollowed
    <2>7. ASSUME pui'.under # NoPod
          PROVE  pui'.wanted = pui'.under /\ PL!Alone' /\ OfPods'
      <3>1. ~PL!Torn(pods) /\ table' = PL!Draw(PL!Elems(pods))
            /\ pui'.wanted = pjob[r].saved /\ pui'.under = pjob[r].under
        BY <1>1, <2>1, <2>7 DEF PL!Idle
      <3>2. PL!Alone'
        BY <2>5, <2>7, <3>1 DEF PL!Alone, PL!NoJob, PodsInv, UnderFollowed
      <3> QED
        BY <1>1, <2>7, <3>1, <3>2 DEF PodsInv, UnderFollowed, OfPods, PL!Torn, PL!Elems
    <2> QED
      BY <2>2, <2>4, <2>6, <2>7 DEF PodsInv, TableDrawn, UnderFollowed
  <1> QED
    BY <1>2, <1>3

\* The status line, the cursor, and the arrow keys.
LEMMA CursorKeepsPods ==
    ASSUME PodsInv,
           PL!UpdateStatusBar \/ PL!RestoreSelection \/ \E to \in DOMAIN table : PL!Move(to)
    PROVE  PodsInv'
  <1>1. UNCHANGED <<pods, table>> /\ ~pcrashed
    BY DEF PL!UpdateStatusBar, PL!RestoreSelection, PL!Move
  <1>2. CASE PL!UpdateStatusBar
    <2>1. /\ pui.at = "status" /\ pcrashed' = PL!Torn(pods) /\ UNCHANGED pjob
          /\ pui' = [at |-> "restore", wanted |-> pui.wanted, under |-> pui.under]
      BY <1>2 DEF PL!UpdateStatusBar, PodsInv, PodsTyped
    <2>2. \A r \in Refresher : pjob[r].under = NoPod
      BY <2>1 DEF PodsInv, UnderFollowed, PL!Idle
    <2>3. PodsTyped'
      <3>1. pui' \in [at : {"idle", "status", "restore"}, wanted : PodInfo \cup {NoPod},
                      under : PodInfo \cup {NoPod}]
        BY <2>1 DEF PodsInv, PodsTyped
      <3> QED
        BY <1>1, <2>1, <3>1 DEF PodsInv, PodsTyped, PL!Torn
    <2>4. UnderFollowed'
      BY <1>1, <2>1, <2>2 DEF PodsInv, UnderFollowed, OfPods, PL!Alone
    <2> QED
      BY <1>1, <2>1, <2>3, <2>4 DEF PodsInv, TableDrawn, OfPods
  <1>3. CASE PL!RestoreSelection
    <2>1. /\ pui.at = "restore" /\ UNCHANGED pjob
          /\ \/ pui' = PL!Idle /\ UNCHANGED pcrashed
             \/ PL!Torn(pods) /\ pcrashed' = TRUE /\ UNCHANGED pui
      BY <1>3 DEF PL!RestoreSelection
    <2>2. \A r \in Refresher : pjob[r].under = NoPod
      BY <2>1 DEF PodsInv, UnderFollowed, PL!Idle
    <2>3. PodsTyped'
      <3>1. pui' \in [at : {"idle", "status", "restore"}, wanted : PodInfo \cup {NoPod},
                      under : PodInfo \cup {NoPod}]
        BY <2>1 DEF PodsInv, PodsTyped, PL!Idle
      <3> QED
        BY <1>1, <2>1, <3>1 DEF PodsInv, PodsTyped
    <2> QED
      BY <1>1, <2>1, <2>2, <2>3 DEF PodsInv, TableDrawn, UnderFollowed, OfPods, PL!Alone, PL!Idle
  <1>4. CASE \E to \in DOMAIN table : PL!Move(to)
    <2>1. pjob' = PL!Disturb(pjob) /\ pui = PL!Idle /\ UNCHANGED <<pui, pcrashed>>
      BY <1>4 DEF PL!Move
    <2>2. /\ pjob' \in [Refresher -> PodJob]
          /\ \A r \in Refresher : pjob'[r].under = NoPod /\ pjob'[r].pc = pjob[r].pc
      BY <2>1 DEF PL!Disturb, PodsInv, PodsTyped, PodJob
    <2> QED
      BY <1>1, <2>1, <2>2 DEF PodsInv, PodsTyped, TableDrawn, UnderFollowed, OfPods, PL!Idle
  <1> QED
    BY <1>2, <1>3, <1>4

\* The inductive invariant behind the results on the table.
THEOREM PodsInductive == PL!Spec => []PodsInv
  <1>1. PL!Init => PodsInv
    <2> SUFFICES ASSUME PL!Init PROVE PodsInv
      OBVIOUS
    <2>1. /\ pods = [arr |-> <<>>, len |-> 0] /\ table = <<Notice>> /\ pcrashed = FALSE
          /\ pui = [at |-> "idle", wanted |-> NoPod, under |-> NoPod]
          /\ pjob = [r \in Refresher |-> [pc |-> "idle", saved |-> NoPod, list |-> <<>>, ok |-> TRUE,
                                          under |-> NoPod]]
      BY DEF PL!Init, PL!Nil, PL!Slice, PL!Idle, PL!NoJob
    <2>2. pods.arr \in Seq(PL!Row) /\ pods.len \in Nat /\ table \in Seq(PL!Cell \cup {Notice})
      BY <2>1
    <2>3. /\ pui \in [at : {"idle", "status", "restore"}, wanted : PodInfo \cup {NoPod},
                      under : PodInfo \cup {NoPod}]
          /\ pjob \in [Refresher -> PodJob]
      BY <2>1 DEF PodJob
    <2>4. PodsTyped
      BY <2>1, <2>2, <2>3 DEF PodsTyped
    <2> QED
      BY <2>1, <2>4 DEF PodsInv, TableDrawn, UnderFollowed
  <1>2. PodsInv /\ [PL!Next]_(PL!vars) => PodsInv'
    <2>1. PodsInv /\ UNCHANGED PL!vars => PodsInv'
      BY DEF PL!vars, PodsInv, PodsTyped, TableDrawn, OfPods, UnderFollowed, PL!Alone
    <2> QED
      BY <2>1, BeginKeepsPods, LoadKeepsPods, DrawKeepsPods, CursorKeepsPods
         DEF PL!Next, PL!Refresh
  <1> QED
    BY <1>1, <1>2, PTL DEF PL!Spec

\* What the pod table holds beside PodsInv: the words of lists of pods, and a
\* cursor that is in the table whenever the UI goroutine is idle.
PodsBound ==
    /\ pods.arr \in PodLists \cup {<<>>}
    /\ \E s \in PodLists \cup {<<>>} : pods.len = Len(s)
    /\ row \in Nat /\ (pui.at = "idle" => row <= Len(table))

\* tview keeps a row within the table.
LEMMA ClampTyped ==
    ASSUME NEW n \in Nat, NEW t, Len(t) \in Nat
    PROVE  PL!Clamp(n, t) \in Nat /\ PL!Clamp(n, t) <= Len(t)
  BY DEF PL!Clamp

\* A step of a Refresh stores words of lists.
LEMMA RefreshBound ==
    ASSUME PodsInv, PodsBound, NEW r \in Refresher, PL!Refresh(r)
    PROVE  PodsBound'
  <1>1. UNCHANGED <<table, row>> /\ pui'.at = pui.at
    BY DEF PL!Refresh, PL!BeginRefresh, PL!LoadPods, PL!StoreHalf, PL!StoreRest, PodsInv, PodsTyped
  <1>2. /\ pods'.arr \in {pods.arr, pjob[r].list}
        /\ pods'.len \in {pods.len, Len(pjob[r].list)}
    <2>1. \/ UNCHANGED pods
          \/ \E w \in PL!Words : pods' = PL!StoreWord(pods, w, pjob[r].list)
      BY DEF PL!Refresh, PL!BeginRefresh, PL!LoadPods, PL!StoreHalf, PL!StoreRest, PL!Words, PL!OtherWord
    <2> QED
      BY <2>1 DEF PL!Words, PL!StoreWord, PodsInv, PodsTyped
  <1>3. pjob[r].list \in PodLists \cup {<<>>}
    BY DEF PodsInv, PodsTyped, PodJob
  <1>4. \E s \in PodLists \cup {<<>>} : pods'.len = Len(s)
    BY <1>2, <1>3 DEF PodsBound
  <1> QED
    BY <1>1, <1>2, <1>3, <1>4 DEF PodsBound

\* The closures and the keys keep the cursor in the table.
LEMMA CursorBound ==
    ASSUME PodsInv, PodsInv', PodsBound,
           \/ \E r \in Refresher : PL!RunFailed(r) \/ PL!Render(r)
           \/ PL!UpdateStatusBar \/ PL!RestoreSelection \/ \E to \in DOMAIN table : PL!Move(to)
    PROVE  PodsBound'
  <1>1. UNCHANGED pods
    BY DEF PL!RunFailed, PL!Render, PL!UpdateStatusBar, PL!RestoreSelection, PL!Move
  <1>2. Len(table) \in Nat /\ Len(table') \in Nat /\ DOMAIN table = 1..Len(table)
    BY DEF PodsInv, PodsTyped
  <1>3. ASSUME NEW r \in Refresher, PL!RunFailed(r)
        PROVE  row' \in Nat /\ row' <= Len(table')
    BY <1>2, <1>3, ClampTyped DEF PL!RunFailed, PodsBound
  <1>4. ASSUME NEW r \in Refresher, PL!Render(r)
        PROVE  row' \in Nat /\ (pui'.at = "idle" => row' <= Len(table'))
    BY <1>4 DEF PL!Render, PodsBound
  <1>5. CASE PL!UpdateStatusBar
    BY <1>1, <1>5 DEF PL!UpdateStatusBar, PodsBound, PodsInv, PodsTyped
  <1>6. CASE PL!RestoreSelection
    <2>1. CASE PL!Torn(pods) /\ table # <<>>
      BY <1>1, <1>6, <2>1 DEF PL!RestoreSelection, PodsBound
    <2>2. CASE table = <<>>
      BY <1>1, <1>2, <1>6, <2>2 DEF PL!RestoreSelection, PodsBound
    <2>3. CASE ~PL!Torn(pods) /\ table # <<>>
      <3> DEFINE i == PL!RowOf(PL!Elems(pods), pui.wanted)
      <3>1. PL!Elems(pods) \in Seq(PL!Row)
        BY <2>3, PodsStored DEF PodsInv
      <3>2. i \in Nat
        <4>1. CASE \E k \in DOMAIN PL!Elems(pods) : PL!Elems(pods)[k].uid = pui.wanted
          <5>1. i \in DOMAIN PL!Elems(pods)
            BY <3>1, <4>1, RowOfWanted
          <5> QED
            BY <3>1, <5>1
        <4>2. CASE ~\E k \in DOMAIN PL!Elems(pods) : PL!Elems(pods)[k].uid = pui.wanted
          BY <4>2 DEF PL!RowOf
        <4> QED
          BY <4>1, <4>2
      <3>3. row' = PL!Clamp(i, table) /\ UNCHANGED table
        BY <1>6, <2>3 DEF PL!RestoreSelection
      <3> HIDE DEF i
      <3> QED
        BY <1>1, <1>2, <3>2, <3>3, ClampTyped DEF PodsBound
    <2> QED
      BY <2>1, <2>2, <2>3
  <1>7. ASSUME NEW to \in DOMAIN table, PL!Move(to)
        PROVE  PodsBound'
    BY <1>1, <1>2, <1>7 DEF PL!Move, PodsBound
  <1> QED
    BY <1>1, <1>3, <1>4, <1>5, <1>6, <1>7 DEF PodsBound

\* The variables of the pod table stay in their types (pod_list.go).
THEOREM PodsAreTyped == PL!Spec => []PL!TypeOK
  <1>1. PL!Init => PodsBound
    BY DEF PL!Init, PodsBound, PL!Nil, PL!Slice
  <1>2. PodsInv /\ PodsInv' /\ PodsBound /\ [PL!Next]_(PL!vars) => PodsBound'
    <2>1. PodsBound /\ UNCHANGED PL!vars => PodsBound'
      BY DEF PL!vars, PodsBound
    <2> QED
      BY <2>1, RefreshBound, CursorBound DEF PL!Next
  <1>3. PodsInv /\ PodsBound => PL!TypeOK
    BY DEF PodsInv, PodsTyped, PodsBound, PodJob, PL!TypeOK, PL!Idle
  <1> QED
    BY <1>1, <1>2, <1>3, PodsInductive, PTL DEF PL!Spec

\* When all is quiet, the tree and the table are of the lists that are stored,
\* for any listings and any number of refreshes that overlap, fail and tear
\* them (container_list.go, pod_list.go).
THEOREM QuietLists == CT!Spec /\ PL!Spec => []QuietListsAreDrawn
  <1>1. PodsInv => PL!QuietTableShowsPods
    BY DEF PodsInv, TableDrawn, OfPods, PL!QuietTableShowsPods, PL!Quiet, PL!Alone
  <1>2. CT!QuietTreeIsOfOneList /\ PL!QuietTableShowsPods => QuietListsAreDrawn
    BY DEF QuietListsAreDrawn
  <1> QED
    BY <1>1, <1>2, QuietTree, PodsInductive, PTL

\* Of the table alone: a refresh that found a pod under the cursor leaves the
\* cursor on the pod (restoreSelection of pod_list.go).
THEOREM TableCursor == PL!Spec => PL!CursorStaysOnPod
  <1> DEFINE Step == pui.at = "restore" /\ pui' = PL!Idle /\ pui.under # NoPod
                       /\ (\E i \in DOMAIN table : table[i].uid = pui.under)
                       => table[row'].uid = pui.under
  <1>1. ASSUME PodsInv, [PL!Next]_(PL!vars), pui.at = "restore", pui' = PL!Idle,
               pui.under # NoPod, \E i \in DOMAIN table : table[i].uid = pui.under
        PROVE  table[row'].uid = pui.under
    <2>1. PL!RestoreSelection /\ pui' # pui
      <3>1. pui.at # "idle" /\ pui' # pui /\ pui'.at = "idle"
        BY <1>1 DEF PL!Idle
      <3>2. \A r \in Refresher : ~PL!Refresh(r)
        <4> SUFFICES ASSUME NEW r \in Refresher, PL!Refresh(r) PROVE FALSE
          OBVIOUS
        <4>1. pui' = pui \/ pui' = [pui EXCEPT !.under = NoPod]
          BY DEF PL!Refresh, PL!BeginRefresh, PL!LoadPods, PL!StoreHalf, PL!StoreRest
        <4> QED
          BY <1>1, <3>1, <4>1 DEF PodsInv, PodsTyped
      <3>3. \A r \in Refresher : ~PL!RunFailed(r) /\ ~PL!Render(r)
        BY <3>1 DEF PL!RunFailed, PL!Render, PL!Idle
      <3>4. ~PL!UpdateStatusBar /\ ~UNCHANGED PL!vars /\ \A to : ~PL!Move(to)
        BY <1>1, <3>1 DEF PL!UpdateStatusBar, PL!Move, PL!Idle, PL!vars
      <3> QED
        BY <1>1, <3>1, <3>2, <3>3, <3>4 DEF PL!Next
    <2>2. table # <<>> /\ ~pcrashed
      BY <1>1, <2>1 DEF PL!RestoreSelection
    <2>3. OfPods /\ pui.wanted = pui.under
      BY <1>1, <2>2 DEF PodsInv, UnderFollowed
    <2> DEFINE s == PL!Elems(pods)
    <2>4. s \in Seq(PL!Row) /\ table = PL!Draw(s)
      BY <1>1, <2>3, PodsStored DEF PodsInv, OfPods
    <2>5. row' = PL!Clamp(PL!RowOf(s, pui.under), table)
      BY <2>1, <2>2, <2>3 DEF PL!RestoreSelection, OfPods
    <2> HIDE DEF s
    <2>6. /\ Len(table) = Len(s) /\ DOMAIN table = DOMAIN s
          /\ \A i \in DOMAIN s : table[i].uid = s[i].uid
      BY <2>4, DrawTyped
    <2>7. PL!RowOf(s, pui.under) \in DOMAIN s /\ s[PL!RowOf(s, pui.under)].uid = pui.under
      <3>1. \E i \in DOMAIN s : s[i].uid = pui.under
        BY <1>1, <2>6
      <3> QED
        BY <2>4, <3>1, RowOfWanted
    <2>8. PL!Clamp(PL!RowOf(s, pui.under), table) = PL!RowOf(s, pui.under)
      <3>1. PL!RowOf(s, pui.under) \in 1..Len(s)
        BY <2>4, <2>7
      <3> QED
        BY <2>6, <3>1 DEF PL!Clamp
    <2> QED
      BY <2>5, <2>6, <2>7, <2>8
  <1>2. PodsInv /\ [PL!Next]_(PL!vars) => [Step]_(PL!vars)
    BY <1>1
  <1>3. PL!CursorStaysOnPod <=> [][Step]_(PL!vars)
    BY DEF PL!CursorStaysOnPod
  <1> HIDE DEF Step
  <1> QED
    BY <1>2, <1>3, PodsInductive, PTL DEF PL!Spec

\* However lists and keys come, a refresh that finds the cursor at rest leaves
\* it on its node, or its pod (restoreSelection of both lists).
THEOREM CursorStays == CT!Spec /\ PL!Spec => CursorSurvivesRefresh
  BY TreeCursor, TableCursor DEF CursorSurvivesRefresh

-----------------------------------------------------------------------------
(***************************************************************************)
(* SubView.                                                                *)
(***************************************************************************)

Keeping == {"processTree", "top", "mounts", "layers"}

\* What the views keep, and that they clear it.
LEMMA WhatViewsKeep ==
    ASSUME view \in DOMAIN SV!View
    PROVE  /\ view \in Keeping \cup {"grid", "summary", "processSummary", "runtime", "network"}
           /\ SV!This.clears = SV!This.keeps
           /\ view \notin Keeping => SV!This.keeps = {}
           /\ view = "processTree" => SV!This.keeps = {"Processes"}
           /\ view = "top" => SV!This.keeps = {"ProcessStats", "Network"}
           /\ view = "mounts" => SV!This.keeps = {"Mounts", "Runtime"}
           /\ view = "layers" =>
                 SV!This.keeps = {"Storage", "Config", "Runtime", "RWLayerStats", "Image"}
           /\ SV!This.keeps \subseteq SV!Question /\ SV!This.asks \subseteq SV!Question
  <1>1. view \in Keeping \cup {"grid", "summary", "processSummary", "runtime", "network"}
    BY DEF SV!View, Keeping
  <1>2. CASE view = "processTree"
    <2>1. SV!This = SV!ProcessTree
      BY <1>2 DEF SV!This, SV!View
    <2> QED
      BY <1>2, <2>1 DEF SV!ProcessTree, Keeping, SV!Question
  <1>3. CASE view = "top"
    <2>1. SV!This = SV!Top
      BY <1>3 DEF SV!This, SV!View
    <2> QED
      BY <1>3, <2>1 DEF SV!Top, Keeping, SV!Question
  <1>4. CASE view = "mounts"
    <2>1. SV!This = SV!Mounts
      BY <1>4 DEF SV!This, SV!View
    <2> QED
      BY <1>4, <2>1 DEF SV!Mounts, Keeping, SV!Question
  <1>5. CASE view = "layers"
    <2>1. SV!This = SV!Layers
      BY <1>5 DEF SV!This, SV!View
    <2> QED
      BY <1>5, <2>1 DEF SV!Layers, Keeping, SV!Question
  <1>6. CASE view = "grid"
    <2>1. SV!This = SV!Grid
      BY <1>6 DEF SV!This, SV!View
    <2> QED
      BY <1>6, <2>1 DEF SV!Grid, Keeping, SV!Question
  <1>7. CASE view = "summary"
    <2>1. SV!This = SV!Summary
      BY <1>7 DEF SV!This, SV!View
    <2> QED
      BY <1>7, <2>1 DEF SV!Summary, Keeping, SV!Question
  <1>8. CASE view = "processSummary"
    <2>1. SV!This = SV!ProcessSummary
      BY <1>8 DEF SV!This, SV!View
    <2> QED
      BY <1>8, <2>1 DEF SV!ProcessSummary, Keeping, SV!Question
  <1>9. CASE view = "runtime"
    <2>1. SV!This = SV!RuntimeInfo
      BY <1>9 DEF SV!This, SV!View
    <2> QED
      BY <1>9, <2>1 DEF SV!RuntimeInfo, Keeping, SV!Question
  <1>10. CASE view = "network"
    <2>1. SV!This = SV!NetworkInfo
      BY <1>10 DEF SV!This, SV!View
    <2> QED
      BY <1>10, <2>1 DEF SV!NetworkInfo, Keeping, SV!Question
  <1> QED
    BY <1>1, <1>2, <1>3, <1>4, <1>5, <1>6, <1>7, <1>8, <1>9, <1>10 DEF Keeping

\* Answers of one container make panels of one container.
OneAnswerer(a, qs, c) == \A q \in qs : a[q] \in {c, NoContainer}

\* An answer is of the container that gave it.
LEMMA OfOne ==
    ASSUME NEW a, NEW c, NEW qs, OneAnswerer(a, qs, c)
    PROVE  SV!Of(a, qs) \subseteq {c} \ {NoContainer}
  BY DEF SV!Of, OneAnswerer

\* So is an answer that another one stands in for.
LEMMA ElseOne ==
    ASSUME NEW a, NEW c, NEW q1, NEW q2, OneAnswerer(a, {q1, q2}, c)
    PROVE  SV!Else(a, q1, q2) \subseteq {c} \ {NoContainer}
  BY DEF SV!Else, SV!Of, OneAnswerer

\* The questions whose answers a view draws from.
Drawn == IF SV!This.keeps = {} THEN SV!Question ELSE SV!This.keeps

Panes == DOMAIN SV!Blank

\* The panes of a view do not depend on the answers.
LEMMA SamePanes ==
    ASSUME view \in DOMAIN SV!View, NEW a, NEW k
    PROVE  DOMAIN SV!Panels(a, k) = Panes
  <1>1. Panes = DOMAIN SV!Panels(SV!Nothing, NoContainer)
    BY DEF Panes, SV!Blank
  <1>2. \E ps : \A b, l : DOMAIN SV!Panels(b, l) = ps
    <2>1. CASE view = "grid"
      BY <2>1 DEF SV!Panels, SV!GridPanels
    <2>2. CASE view = "summary"
      BY <2>2 DEF SV!Panels, SV!SummaryPanels
    <2>3. CASE view = "processSummary"
      BY <2>3 DEF SV!Panels, SV!ProcessSections
    <2>4. CASE view = "processTree"
      BY <2>4 DEF SV!Panels, SV!TreePanels
    <2>5. CASE view = "top"
      BY <2>5 DEF SV!Panels, SV!TopPanels
    <2>6. CASE view = "mounts"
      BY <2>6 DEF SV!Panels, SV!MountsTree
    <2>7. CASE view = "layers"
      BY <2>7 DEF SV!Panels, SV!LayersPanels
    <2>8. CASE view = "runtime"
      BY <2>8 DEF SV!Panels, SV!RuntimePanels
    <2>9. CASE view = "network"
      BY <2>9 DEF SV!Panels, SV!NetworkPanels
    <2> QED
      BY <2>1, <2>2, <2>3, <2>4, <2>5, <2>6, <2>7, <2>8, <2>9, WhatViewsKeep DEF Keeping
  <1> QED
    BY <1>1, <1>2

\* The panels of the answers of c are of c; the label is of the page.
LEMMA PanelsOfOne ==
    ASSUME view \in DOMAIN SV!View, NEW a, NEW k, NEW c, OneAnswerer(a, Drawn, c)
    PROVE  \A p \in DOMAIN SV!Panels(a, k) \ {"label"} : SV!Panels(a, k)[p] \subseteq {c} \ {NoContainer}
  <1> DEFINE Mono(x) == x \subseteq {c} \ {NoContainer}
  <1>1. \A qs : qs \subseteq Drawn => Mono(SV!Of(a, qs))
    BY OfOne DEF OneAnswerer
  <1>2. \A q1, q2 \in Drawn : Mono(SV!Else(a, q1, q2))
    BY ElseOne DEF OneAnswerer
  <1> HIDE DEF Mono
  <1>3. \A x, y : Mono(x) /\ Mono(y) => Mono(x \cup y)
    BY DEF Mono
  <1>4. Mono({})
    BY DEF Mono
  <1>5. SUFFICES \A p \in DOMAIN SV!Panels(a, k) \ {"label"} : Mono(SV!Panels(a, k)[p])
    BY DEF Mono
  <1>6. view \notin Keeping => Drawn = SV!Question
    BY WhatViewsKeep DEF Drawn
  <1>10. CASE view = "grid"
    <2>1. Drawn = SV!Question
      BY <1>6, <1>10 DEF Keeping
    <2>2. /\ Mono(SV!NetworkPanel(a)) /\ Mono(SV!StdioPanel(a)) /\ Mono(SV!NamespacePanel(a))
          /\ Mono(SV!ProcessTreePanel(a)) /\ Mono(SV!ImageTree(a))
      BY <1>1, <2>1 DEF SV!NetworkPanel, SV!StdioPanel, SV!NamespacePanel, SV!ProcessTreePanel,
         SV!ImageTree, SV!Question
    <2>3. Mono(SV!CgroupTree(a))
      BY <1>2, <2>1 DEF SV!CgroupTree, SV!Question
    <2>4. Mono(SV!FilesystemTree(a))
      BY <1>1, <1>3, <2>1 DEF SV!FilesystemTree, SV!MountsNode, SV!RootfsNode, SV!Question
    <2>5. Mono(SV!PodPanel(a))
      BY <1>1, <1>4, <2>1 DEF SV!PodPanel, SV!Question
    <2> QED
      BY <1>10, <2>2, <2>3, <2>4, <2>5 DEF SV!Panels, SV!GridPanels
  <1>11. CASE view = "summary"
    <2>1. Drawn = SV!Question
      BY <1>6, <1>11 DEF Keeping
    <2>2. Mono(SV!KPIStrip(a))
      BY <1>1, <1>2, <1>3, <2>1 DEF SV!KPIStrip, SV!Question
    <2>3. Mono(SV!StatusPanel(a)) /\ Mono(SV!ImageRuntimePanel(a))
      BY <1>1, <2>1 DEF SV!StatusPanel, SV!ImageRuntimePanel, SV!Question
    <2> QED
      BY <1>11, <2>2, <2>3 DEF SV!Panels, SV!SummaryPanels
  <1>12. CASE view = "processSummary"
    BY <1>1, <1>6, <1>12 DEF SV!Panels, SV!ProcessSections, SV!Question, Keeping
  <1>13. CASE view = "processTree"
    BY <1>1, <1>13, WhatViewsKeep DEF SV!Panels, SV!TreePanels, Drawn
  <1>14. CASE view = "top"
    BY <1>1, <1>14, WhatViewsKeep DEF SV!Panels, SV!TopPanels, Drawn
  <1>15. CASE view = "mounts"
    BY <1>1, <1>4, <1>15, WhatViewsKeep DEF SV!Panels, SV!MountsTree, Drawn
  <1>16. CASE view = "layers"
    <2>1. Drawn = {"Storage", "Config", "Runtime", "RWLayerStats", "Image"}
      BY <1>16, WhatViewsKeep DEF Drawn
    <2>2. Mono(SV!LayerHeader(a)) /\ Mono(SV!LayersTree(a))
      BY <1>1, <1>2, <1>3, <1>4, <2>1 DEF SV!LayerHeader, SV!LayersTree, SV!RWLayerNode
    <2> QED
      BY <1>16, <2>2 DEF SV!Panels, SV!LayersPanels
  <1>17. CASE view = "runtime"
    BY <1>1, <1>3, <1>6, <1>17 DEF SV!Panels, SV!RuntimePanels, SV!ShimNode, SV!NamespaceNode,
       SV!Question, Keeping
  <1>18. CASE view = "network"
    BY <1>1, <1>6, <1>18 DEF SV!Panels, SV!NetworkPanels, SV!Question, Keeping
  <1> QED
    BY <1>10, <1>11, <1>12, <1>13, <1>14, <1>15, <1>16, <1>17, <1>18, WhatViewsKeep DEF Keeping

SubJob == [pc : {"idle", "ask", "store", "render", "error", "ended"},
           of : SV!Maybe, got : [SV!Question -> SV!Maybe]]

SubTyped ==
    /\ view \in DOMAIN SV!View /\ container \in SV!Maybe
    /\ kept \in [SV!Question -> SV!Maybe]
    /\ sjob \in [Refresher -> SubJob]
    /\ sdue \in BOOLEAN /\ overtaken \in BOOLEAN

\* Panels of one container, and panels of the container of the page.
OneOf(f)    == \E c \in SV!Maybe : \A p \in DOMAIN f \ {"detail", "label"} : f[p] \subseteq {c} \ {NoContainer}
PageOnly(f) == \A p \in DOMAIN f \ SV!Loose : f[p] \subseteq {container}

\* What a closure may draw.
Fits(f) ==
    /\ OneOf(f)
    /\ DOMAIN f = Panes \/ (view = "top" /\ f = [table |-> {}])
    /\ ~overtaken => PageOnly(f)

KeptFit ==
    /\ \E c \in SV!Maybe : OneAnswerer(kept, SV!This.keeps, c)
    /\ ~overtaken => OneAnswerer(kept, SV!This.keeps, container)

JobsFit ==
    \A r \in Refresher :
        /\ OneAnswerer(sjob[r].got, SV!Question, sjob[r].of)
        /\ sjob[r].pc = "idle" => sjob[r].of = NoContainer
        /\ ~overtaken /\ sjob[r].pc \notin {"idle", "ended"} => sjob[r].of = container

ClosuresFit == \A d \in closures : Fits(d.draw)

OfThePage ==
    /\ PageOnly(drawn)
    /\ view = "grid" /\ kept["Info"] \in {container, NoContainer} => drawn["detail"] \subseteq {container}

DrawnFits ==
    /\ DOMAIN drawn = Panes \cup {"detail"}
    /\ OneOf(drawn)
    /\ ~overtaken => sdue \/ SV!Pending \/ sui = "draw" \/ OfThePage

SubInv == SubTyped /\ KeptFit /\ JobsFit /\ ClosuresFit /\ DrawnFits

\* What depends on the view alone stays with it.
LEMMA ViewStays ==
    ASSUME UNCHANGED view
    PROVE  /\ SV!This' = SV!This /\ SV!Loose' = SV!Loose /\ Drawn' = Drawn /\ Panes' = Panes
           /\ \A a, k : SV!Panels(a, k)' = SV!Panels(a, k)
  <1>1. SV!This' = SV!This /\ SV!Loose' = SV!Loose
    BY DEF SV!This, SV!Loose
  <1>2. Drawn' = Drawn
    BY <1>1 DEF Drawn
  <1>3. \A a, k : SV!Panels(a, k)' = SV!Panels(a, k)
    BY DEF SV!Panels
  <1>4. Panes' = Panes
    BY <1>3 DEF Panes, SV!Blank
  <1> QED
    BY <1>1, <1>2, <1>3, <1>4

\* What fits the view fits while the view stays.
LEMMA FitsStays ==
    ASSUME UNCHANGED <<view, container, overtaken>>, NEW f
    PROVE  Fits(f)' <=> Fits(f)
  BY ViewStays DEF Fits, OneOf, PageOnly

\* What is drawn of one container's answers fits; so does a message.
LEMMA PanelsFit ==
    ASSUME SubTyped, NEW a, NEW k, NEW c \in SV!Maybe, OneAnswerer(a, Drawn, c),
           ~overtaken => c = container
    PROVE  Fits(SV!Panels(a, k))
  <1> DEFINE f == SV!Panels(a, k)
  <1>1. DOMAIN f = Panes
    BY SamePanes DEF SubTyped
  <1>2. \A p \in DOMAIN f \ {"label"} : f[p] \subseteq {c} \ {NoContainer}
    BY PanelsOfOne DEF SubTyped
  <1> HIDE DEF f
  <1>3. Fits(f)
    BY <1>1, <1>2 DEF Fits, OneOf, PageOnly, SV!Loose
  <1> QED
    BY <1>3 DEF f

\* An empty panel fits every view.
LEMMA BlankFits ==
    ASSUME SubTyped
    PROVE  Fits(SV!Blank) /\ (view = "top" => Fits([table |-> {}]))
  <1>1. \A p \in DOMAIN SV!Blank : SV!Blank[p] = {}
    BY DEF SV!Blank
  <1>2. NoContainer \in SV!Maybe
    BY DEF SV!Maybe
  <1>3. Fits(SV!Blank)
    BY <1>1, <1>2 DEF Fits, OneOf, PageOnly, Panes
  <1>4. view = "top" => Fits([table |-> {}])
    BY <1>2 DEF Fits, OneOf, PageOnly
  <1> QED
    BY <1>3, <1>4

\* A closure that fits is queued: it is pending.
LEMMA QueueKeeps ==
    ASSUME SubInv, NEW d, Fits(d.draw), closures' = closures \cup {d},
           UNCHANGED <<view, container, drawn, overtaken>>
    PROVE  ClosuresFit' /\ DrawnFits'
  <1>1. ClosuresFit'
    BY FitsStays DEF SubInv, ClosuresFit
  <1>2. SV!Pending'
    BY DEF SV!Pending
  <1> QED
    BY <1>1, <1>2, ViewStays DEF SubInv, DrawnFits, OneOf

\* What is kept while neither it nor the page changes.
LEMMA KeptStays ==
    ASSUME SubInv, UNCHANGED <<view, container, overtaken>>,
           \A q \in SV!This.keeps : kept'[q] \in {kept[q], NoContainer}
    PROVE  KeptFit'
  BY ViewStays DEF SubInv, KeptFit, OneAnswerer

\* Another container: what the view kept is cleared; a load or a drawing that
\* is pending is overtaken.
LEMMA SetContainerKeeps ==
    ASSUME SubInv, NEW c \in Container, SV!SetContainer(c)
    PROVE  SubInv'
  <1>1. /\ container' = c /\ sdue' = TRUE /\ overtaken' = (overtaken \/ SV!Pending)
        /\ kept' = [q \in SV!Question |-> IF q \in SV!This.clears THEN NoContainer ELSE kept[q]]
        /\ UNCHANGED <<view, sjob, closures, drawn>>
    BY DEF SV!SetContainer
  <1>2. SubTyped'
    BY <1>1 DEF SubInv, SubTyped, SV!Maybe, SV!Pending
  <1>3. KeptFit'
    <2>1. \A q \in SV!This.keeps : kept'[q] = NoContainer
      BY <1>1, WhatViewsKeep DEF SubInv, SubTyped
    <2>2. NoContainer \in SV!Maybe
      BY DEF SV!Maybe
    <2> QED
      BY <1>1, <2>1, <2>2, ViewStays DEF KeptFit, OneAnswerer
  <1>4. ~overtaken' => ~overtaken /\ ~SV!Pending
    BY <1>1
  <1>5. JobsFit'
    BY <1>1, <1>4 DEF SubInv, JobsFit, SV!Pending, OneAnswerer
  <1>6. ClosuresFit'
    <2>1. ASSUME NEW d \in closures
          PROVE  Fits(d.draw)'
      <3>1. Fits(d.draw) /\ overtaken'
        BY <1>1, <1>4, <2>1 DEF SubInv, ClosuresFit, SV!Pending
      <3> QED
        BY <1>1, <3>1, ViewStays DEF Fits, OneOf
    <2> QED
      BY <1>1, <2>1 DEF ClosuresFit
  <1>7. DrawnFits'
    BY <1>1, ViewStays DEF SubInv, DrawnFits, OneOf
  <1> QED
    BY <1>2, <1>3, <1>5, <1>6, <1>7 DEF SubInv

\* SetContainer draws what is left.
LEMMA DrawClearedKeeps ==
    ASSUME SubInv, SV!DrawCleared
    PROVE  SubInv'
  <1> DEFINE f == IF SV!This.keeps = {} THEN SV!Blank ELSE SV!Panels(kept, container)
             d == [by |-> opened, warns |-> FALSE, draw |-> f]
  <1>1. closures' = closures \cup {d} /\ UNCHANGED <<view, container, kept, sjob, drawn, sdue, overtaken>>
    BY DEF SV!DrawCleared
  <1>2. Fits(f)
    <2>1. CASE SV!This.keeps = {}
      BY <2>1, BlankFits DEF SubInv
    <2>2. CASE SV!This.keeps # {}
      <3>1. PICK c \in SV!Maybe : OneAnswerer(kept, SV!This.keeps, c)
        BY DEF SubInv, KeptFit
      <3>2. CASE overtaken
        BY <2>2, <3>1, <3>2, PanelsFit DEF SubInv, Drawn
      <3>3. CASE ~overtaken
        <4>1. OneAnswerer(kept, Drawn, container) /\ container \in SV!Maybe
          BY <2>2, <3>3 DEF SubInv, SubTyped, KeptFit, Drawn
        <4> QED
          BY <2>2, <4>1, PanelsFit DEF SubInv
      <3> QED
        BY <3>2, <3>3 DEF SubInv, SubTyped
    <2> QED
      BY <2>1, <2>2
  <1>3. ClosuresFit' /\ DrawnFits'
    <2>1. d.draw = f
      OBVIOUS
    <2> HIDE DEF d, f
    <2>2. Fits(d.draw)
      BY <1>2, <2>1
    <2> QED
      BY <1>1, <2>2, QueueKeeps
  <1>4. SubTyped' /\ JobsFit'
    BY <1>1 DEF SubInv, SubTyped, JobsFit, OneAnswerer
  <1>5. KeptFit'
    BY <1>1, ViewStays DEF SubInv, KeptFit, OneAnswerer
  <1> QED
    BY <1>3, <1>4, <1>5 DEF SubInv

\* A Refresh copies the handle and asks: every answer is of the handle.
LEMMA AskKeeps ==
    ASSUME SubInv, NEW r \in Refresher, SV!Begin(r) \/ SV!Ask(r)
    PROVE  SubInv'
  <1>1. UNCHANGED <<view, container, sui, closures, drawn, overtaken>>
    BY DEF SV!Begin, SV!Ask
  <1>2. sjob[r] \in SubJob /\ sjob \in [Refresher -> SubJob]
    BY DEF SubInv, SubTyped
  <1>3. ClosuresFit'
    BY <1>1, FitsStays DEF SubInv, ClosuresFit
  <1>4. CASE SV!Begin(r)
    <2>1. sjob[r].pc = "idle" /\ UNCHANGED kept /\ sdue' = FALSE
      BY <1>4 DEF SV!Begin
    <2>2. sjob' = [sjob EXCEPT ![r] = [sjob[r] EXCEPT !.pc = "ask", !.of = container]]
      BY <1>4 DEF SV!Begin
    <2>3. /\ sjob'[r].pc = "ask" /\ sjob'[r].of = container /\ sjob'[r].got = sjob[r].got
          /\ \A o \in Refresher \ {r} : sjob'[o] = sjob[o]
          /\ DOMAIN sjob' = Refresher /\ sjob' = [o \in Refresher |-> sjob'[o]]
          /\ sjob'[r] = [pc |-> "ask", of |-> container, got |-> sjob[r].got]
      BY <1>2, <2>2 DEF SubJob
    <2>9. SubTyped'
      <3>1. sjob'[r] \in SubJob
        BY <1>2, <2>3 DEF SubJob, SubInv, SubTyped
      <3>2. sjob' \in [Refresher -> SubJob]
        BY <1>2, <2>3, <3>1
      <3> QED
        BY <1>1, <2>1, <3>2 DEF SubInv, SubTyped
    <2>4. JobsFit'
      <3>1. \A q \in SV!Question : sjob[r].got[q] = NoContainer
        BY <2>1 DEF SubInv, JobsFit, OneAnswerer
      <3> QED
        BY <1>1, <2>3, <3>1 DEF SubInv, JobsFit, OneAnswerer
    <2>5. SV!Pending'
      BY <2>3 DEF SV!Pending
    <2>6. KeptFit' /\ DrawnFits'
      BY <1>1, <2>1, <2>5, ViewStays DEF SubInv, KeptFit, DrawnFits, OneOf, OneAnswerer
    <2> QED
      BY <1>3, <2>4, <2>6, <2>9 DEF SubInv
  <1>5. CASE SV!Ask(r)
    <2>1. PICK got \in SUBSET SV!Question :
             /\ sjob[r].pc = "ask" /\ UNCHANGED sdue
             /\ sjob' = [sjob EXCEPT ![r].got = [q \in SV!Question |-> IF q \in got THEN sjob[r].of
                                                                       ELSE NoContainer],
                                     ![r].pc = IF ~(SV!This.needs \subseteq got) THEN "error"
                                               ELSE IF SV!This.keeps = {} THEN "render" ELSE "store"]
             /\ kept' = IF view = "grid" /\ "Info" \in got THEN [kept EXCEPT !["Info"] = sjob[r].of]
                        ELSE kept
      <3>1. SV!This.asks \subseteq SV!Question
        BY WhatViewsKeep DEF SubInv, SubTyped
      <3>2. PICK missed : \E got : got = SV!This.asks \ missed
             /\ sjob[r].pc = "ask" /\ UNCHANGED sdue
             /\ sjob' = [sjob EXCEPT ![r].got = [q \in SV!Question |-> IF q \in got THEN sjob[r].of
                                                                       ELSE NoContainer],
                                     ![r].pc = IF ~(SV!This.needs \subseteq got) THEN "error"
                                               ELSE IF SV!This.keeps = {} THEN "render" ELSE "store"]
             /\ kept' = IF view = "grid" /\ "Info" \in got THEN [kept EXCEPT !["Info"] = sjob[r].of]
                        ELSE kept
        BY <1>5 DEF SV!Ask
      <3> QED
        BY <3>1, <3>2
    <2> DEFINE a == [q \in SV!Question |-> IF q \in got THEN sjob[r].of ELSE NoContainer]
    <2>2. sjob[r].of \in SV!Maybe /\ NoContainer \in SV!Maybe
      BY <1>2 DEF SubJob, SV!Maybe
    <2>3. a \in [SV!Question -> SV!Maybe] /\ OneAnswerer(a, SV!Question, sjob[r].of)
      BY <2>2 DEF OneAnswerer
    <2>4. /\ sjob'[r].of = sjob[r].of /\ sjob'[r].got = a
          /\ sjob'[r].pc \in {"error", "render", "store"}
          /\ \A o \in Refresher \ {r} : sjob'[o] = sjob[o]
          /\ sjob' \in [Refresher -> SubJob]
      <3> HIDE DEF a
      <3>1. PICK pc \in {"error", "render", "store"} :
                sjob' = [sjob EXCEPT ![r].got = a, ![r].pc = pc]
        BY <2>1 DEF a
      <3>2. /\ sjob'[r].of = sjob[r].of /\ sjob'[r].got = a /\ sjob'[r].pc = pc
            /\ \A o \in Refresher \ {r} : sjob'[o] = sjob[o]
            /\ DOMAIN sjob' = Refresher /\ sjob' = [o \in Refresher |-> sjob'[o]]
            /\ sjob'[r] = [pc |-> pc, of |-> sjob[r].of, got |-> a]
        BY <1>2, <3>1 DEF SubJob
      <3>3. sjob'[r] \in SubJob
        BY <1>2, <2>3, <3>2 DEF SubJob
      <3> QED
        BY <1>2, <3>2, <3>3
    <2> HIDE DEF a
    <2>5. JobsFit'
      BY <1>1, <2>1, <2>3, <2>4 DEF SubInv, JobsFit
    <2>6. SV!Pending'
      BY <2>4 DEF SV!Pending
    <2>7. kept' \in [SV!Question -> SV!Maybe]
      BY <2>1, <2>2 DEF SubInv, SubTyped
    <2>8. SubTyped'
      BY <1>1, <2>1, <2>4, <2>7, ViewStays DEF SubInv, SubTyped
    <2>9. \A q \in SV!This.keeps : kept'[q] \in {kept[q], NoContainer}
      <3>1. CASE view = "grid"
        BY <3>1, WhatViewsKeep DEF Keeping, SubInv, SubTyped
      <3>2. CASE view # "grid"
        BY <2>1, <3>2
      <3> QED
        BY <3>1, <3>2
    <2>10. KeptFit' /\ DrawnFits'
      BY <1>1, <2>6, <2>9, KeptStays, ViewStays DEF SubInv, DrawnFits, OneOf
    <2> QED
      BY <1>3, <2>5, <2>8, <2>10 DEF SubInv
  <1> QED
    BY <1>4, <1>5

\* The answers are kept together.
LEMMA StoreKeeps ==
    ASSUME SubInv, NEW r \in Refresher, SV!Store(r)
    PROVE  SubInv'
  <1>1. /\ sjob[r].pc = "store" /\ sjob' = [sjob EXCEPT ![r] = [sjob[r] EXCEPT !.pc = "render"]]
        /\ kept' = [q \in SV!Question |-> IF q \in SV!This.keeps THEN sjob[r].got[q] ELSE kept[q]]
        /\ UNCHANGED <<view, container, sui, closures, drawn, sdue, overtaken>>
    BY DEF SV!Store
  <1>2. sjob[r] \in SubJob /\ sjob \in [Refresher -> SubJob]
    BY DEF SubInv, SubTyped
  <1>3. /\ sjob'[r].pc = "render" /\ sjob'[r].of = sjob[r].of /\ sjob'[r].got = sjob[r].got
        /\ \A o \in Refresher \ {r} : sjob'[o] = sjob[o]
        /\ sjob' \in [Refresher -> SubJob]
    BY <1>1, <1>2 DEF SubJob
  <1>4. kept' \in [SV!Question -> SV!Maybe]
    <2>1. sjob[r].got \in [SV!Question -> SV!Maybe]
      BY <1>2 DEF SubJob
    <2> QED
      BY <1>1, <2>1 DEF SubInv, SubTyped
  <1>5. SubTyped'
    BY <1>1, <1>3, <1>4 DEF SubInv, SubTyped
  <1>6. OneAnswerer(kept', SV!This.keeps, sjob[r].of) /\ sjob[r].of \in SV!Maybe
    <2>1. SV!This.keeps \subseteq SV!Question
      BY WhatViewsKeep DEF SubInv, SubTyped
    <2>2. sjob[r].of \in SV!Maybe
      BY <1>2 DEF SubJob
    <2> QED
      BY <1>1, <2>1, <2>2 DEF SubInv, JobsFit, OneAnswerer
  <1>7. KeptFit'
    <2>1. ~overtaken => sjob[r].of = container
      BY <1>1 DEF SubInv, JobsFit
    <2> QED
      BY <1>1, <1>6, <2>1, ViewStays DEF KeptFit, OneAnswerer
  <1>8. JobsFit'
    BY <1>1, <1>3 DEF SubInv, JobsFit, OneAnswerer
  <1>9. ClosuresFit'
    BY <1>1, FitsStays DEF SubInv, ClosuresFit
  <1>10. SV!Pending'
    BY <1>3 DEF SV!Pending
  <1>11. DrawnFits'
    BY <1>1, <1>10, ViewStays DEF SubInv, DrawnFits, OneOf
  <1> QED
    BY <1>5, <1>7, <1>8, <1>9, <1>11 DEF SubInv

\* A Refresh ends.
LEMMA EndStays ==
    ASSUME SubInv, NEW r \in Refresher, UNCHANGED <<container, overtaken>>,
           sjob' = [sjob EXCEPT ![r] = [SV!NoJob EXCEPT !.pc = "ended"]]
    PROVE  sjob' \in [Refresher -> SubJob] /\ JobsFit'
  <1> DEFINE j == [SV!NoJob EXCEPT !.pc = "ended"]
  <1>1. j = [pc |-> "ended", of |-> NoContainer, got |-> SV!Nothing] /\ sjob' = [sjob EXCEPT ![r] = j]
    BY DEF SV!NoJob
  <1> HIDE DEF j
  <1>2. /\ SV!Nothing \in [SV!Question -> SV!Maybe] /\ NoContainer \in SV!Maybe
        /\ OneAnswerer(SV!Nothing, SV!Question, NoContainer)
    BY DEF SV!Nothing, SV!Maybe, OneAnswerer
  <1>3. sjob' \in [Refresher -> SubJob]
    <2>1. j \in SubJob
      BY <1>1, <1>2 DEF SubJob
    <2> QED
      BY <1>1, <2>1 DEF SubInv, SubTyped
  <1>4. /\ sjob'[r].pc = "ended" /\ sjob'[r].of = NoContainer /\ sjob'[r].got = SV!Nothing
        /\ \A o \in Refresher \ {r} : sjob'[o] = sjob[o]
    BY <1>1 DEF SubInv, SubTyped
  <1>5. JobsFit'
    BY <1>2, <1>4 DEF SubInv, JobsFit
  <1> QED
    BY <1>3, <1>5

\* Without the mandatory answer the view forgets it and draws a message.
LEMMA FailKeeps ==
    ASSUME SubInv, NEW r \in Refresher, SV!Fail(r)
    PROVE  SubInv'
  <1> DEFINE d == [by |-> r, warns |-> FALSE, draw |-> SV!Failed(kept')]
  <1>1. /\ kept' = [q \in SV!Question |-> IF q \in SV!Forgets THEN NoContainer ELSE kept[q]]
        /\ closures' = closures \cup {d}
        /\ sjob' = [sjob EXCEPT ![r] = [SV!NoJob EXCEPT !.pc = "ended"]]
        /\ UNCHANGED <<view, container, drawn, sdue, overtaken>>
    BY DEF SV!Fail
  <1>2. kept' \in [SV!Question -> SV!Maybe]
    BY <1>1 DEF SubInv, SubTyped, SV!Maybe
  <1>3. \A q \in SV!This.keeps : kept'[q] \in {kept[q], NoContainer}
    BY <1>1, WhatViewsKeep DEF SubInv, SubTyped
  <1>4. Fits(SV!Failed(kept'))
    <2>1. CASE view \in {"mounts", "layers"}
      <3>1. Drawn = SV!This.keeps
        BY <2>1, WhatViewsKeep DEF Drawn, SubInv, SubTyped
      <3>2. PICK c \in SV!Maybe : OneAnswerer(kept', Drawn, c) /\ (~overtaken => c = container)
        <4>1. PICK c \in SV!Maybe : OneAnswerer(kept, SV!This.keeps, c)
          BY DEF SubInv, KeptFit
        <4>2. overtaken => OneAnswerer(kept', Drawn, c)
          BY <1>3, <3>1, <4>1 DEF OneAnswerer
        <4>3. ~overtaken => OneAnswerer(kept', Drawn, container) /\ container \in SV!Maybe
          BY <1>3, <3>1 DEF OneAnswerer, SubInv, SubTyped, KeptFit
        <4> QED
          BY <4>2, <4>3 DEF SubInv, SubTyped
      <3>3. SV!Failed(kept') = SV!Panels(kept', container)
        BY <2>1 DEF SV!Failed
      <3>4. Fits(SV!Panels(kept', container))
        BY <3>2, PanelsFit DEF SubInv
      <3> QED
        BY <3>3, <3>4
    <2>2. CASE view = "top"
      <3>1. SV!Failed(kept') = [table |-> {}]
        BY <2>2 DEF SV!Failed
      <3> QED
        BY <2>2, <3>1, BlankFits DEF SubInv
    <2>3. CASE view \notin {"mounts", "layers", "top"}
      <3>1. SV!Failed(kept') = SV!Blank
        BY <2>3 DEF SV!Failed
      <3> QED
        BY <3>1, BlankFits DEF SubInv
    <2> QED
      BY <2>1, <2>2, <2>3
  <1>5. ClosuresFit' /\ DrawnFits'
    <2>1. d.draw = SV!Failed(kept')
      OBVIOUS
    <2> HIDE DEF d
    <2>2. Fits(d.draw)
      BY <1>4, <2>1
    <2> QED
      BY <1>1, <2>2, QueueKeeps
  <1>6. KeptFit'
    BY <1>1, <1>3, KeptStays
  <1>7. sjob' \in [Refresher -> SubJob] /\ JobsFit'
    BY <1>1, EndStays
  <1>8. SubTyped'
    BY <1>1, <1>2, <1>7 DEF SubInv, SubTyped
  <1> QED
    BY <1>5, <1>6, <1>7, <1>8 DEF SubInv

\* With it, what is drawn is of the answers, or of those kept.
LEMMA RenderKeeps ==
    ASSUME SubInv, NEW r \in Refresher, SV!Render(r)
    PROVE  SubInv'
  <1> DEFINE a == IF SV!This.keeps = {} THEN sjob[r].got ELSE kept
             d == [by |-> r, warns |-> view = "grid" /\ SV!StdioPanel(a) = {},
                   draw |-> SV!Panels(a, container)]
  <1>1. /\ sjob[r].pc = "render" /\ closures' = closures \cup {d}
        /\ sjob' = [sjob EXCEPT ![r] = [SV!NoJob EXCEPT !.pc = "ended"]]
        /\ UNCHANGED <<view, container, kept, drawn, sdue, overtaken>>
    BY DEF SV!Render
  <1>2. \E c \in SV!Maybe : OneAnswerer(a, Drawn, c) /\ (~overtaken => c = container)
    <2>1. CASE SV!This.keeps = {}
      <3>1. OneAnswerer(a, Drawn, sjob[r].of) /\ (~overtaken => sjob[r].of = container)
        BY <1>1, <2>1 DEF SubInv, JobsFit, Drawn
      <3>2. sjob[r].of \in SV!Maybe
        BY DEF SubInv, SubTyped, SubJob
      <3> QED
        BY <3>1, <3>2
    <2>2. CASE SV!This.keeps # {}
      BY <2>2 DEF SubInv, SubTyped, KeptFit, Drawn
    <2> QED
      BY <2>1, <2>2
  <1> HIDE DEF a
  <1>3. Fits(SV!Panels(a, container))
    BY <1>2, PanelsFit DEF SubInv
  <1>4. ClosuresFit' /\ DrawnFits'
    <2>1. d.draw = SV!Panels(a, container)
      OBVIOUS
    <2> HIDE DEF d
    <2>2. Fits(d.draw)
      BY <1>3, <2>1
    <2> QED
      BY <1>1, <2>2, QueueKeeps
  <1>5. sjob' \in [Refresher -> SubJob] /\ JobsFit'
    BY <1>1, EndStays
  <1>6. KeptFit'
    BY <1>1, KeptStays
  <1>7. SubTyped'
    BY <1>1, <1>5 DEF SubInv, SubTyped
  <1> QED
    BY <1>4, <1>5, <1>6, <1>7 DEF SubInv

\* The panes of the views that are spoken of by name.
LEMMA NamedPanes ==
    ASSUME view \in DOMAIN SV!View
    PROVE  /\ view = "top" => Panes = {"table", "net"}
           /\ view = "grid" => Panes = {"network", "stdio", "ns", "cgroup", "fs", "pod", "processes",
                                        "image"}
  <1>1. Panes = DOMAIN SV!Panels(SV!Nothing, NoContainer)
    BY DEF Panes, SV!Blank
  <1>2. CASE view = "top"
    BY <1>1, <1>2 DEF SV!Panels, SV!TopPanels
  <1>3. CASE view = "grid"
    BY <1>1, <1>3 DEF SV!Panels, SV!GridPanels
  <1> QED
    BY <1>2, <1>3

\* A closure draws: all panes but the top page's network line, and the detail.
LEMMA RunClosureKeeps ==
    ASSUME SubInv, NEW d \in closures, SV!RunClosure(d)
    PROVE  SubInv'
  <1>1. /\ sui = "idle" /\ closures' = closures \ {d}
        /\ drawn' = [p \in DOMAIN drawn |->
                        IF p \in DOMAIN d.draw THEN d.draw[p]
                        ELSE IF p = "detail" /\ view = "grid" THEN SV!DetailOf(d.draw)
                        ELSE drawn[p]]
        /\ UNCHANGED <<view, container, kept, sui, sjob, sdue, overtaken>>
    BY DEF SV!RunClosure
  <1>2. Fits(d.draw) /\ DOMAIN drawn = Panes \cup {"detail"} /\ view \in DOMAIN SV!View
    BY DEF SubInv, ClosuresFit, DrawnFits, SubTyped
  <1>3. SubTyped' /\ JobsFit' /\ KeptFit'
    BY <1>1, KeptStays DEF SubInv, SubTyped, JobsFit, OneAnswerer
  <1>4. ClosuresFit'
    BY <1>1, FitsStays DEF SubInv, ClosuresFit
  <1>5. DOMAIN drawn' = DOMAIN drawn
    BY <1>1
  <1>6. OneOf(drawn')
    <2>1. CASE DOMAIN d.draw = Panes
      <3>1. \A p \in DOMAIN drawn' \ {"detail", "label"} : p \in DOMAIN d.draw /\ drawn'[p] = d.draw[p]
        BY <1>1, <1>2, <1>5, <2>1
      <3> QED
        BY <1>2, <3>1 DEF Fits, OneOf
    <2>2. CASE view = "top" /\ d.draw = [table |-> {}]
      <3>1. PICK c \in SV!Maybe :
                \A p \in DOMAIN drawn \ {"detail", "label"} : drawn[p] \subseteq {c} \ {NoContainer}
        BY DEF SubInv, DrawnFits, OneOf
      <3>2. \A p \in DOMAIN drawn' : drawn'[p] = {} \/ drawn'[p] = drawn[p]
        BY <1>1, <2>2
      <3> QED
        BY <1>5, <3>1, <3>2 DEF OneOf
    <2> QED
      BY <1>2, <2>1, <2>2 DEF Fits
  <1>7. ASSUME ~overtaken
        PROVE  OfThePage'
    <2>1. PageOnly(d.draw)
      BY <1>2, <1>7 DEF Fits
    <2>2. PageOnly(drawn')
      <3>1. \A p \in DOMAIN drawn \ SV!Loose : p \in DOMAIN d.draw
        BY <1>2, NamedPanes DEF Fits, SV!Loose
      <3> QED
        BY <1>1, <1>5, <2>1, <3>1 DEF PageOnly
    <2>3. ASSUME view = "grid"
          PROVE  drawn'["detail"] \subseteq {container}
      <3>1. /\ DOMAIN d.draw = Panes
            /\ Panes = {"network", "stdio", "ns", "cgroup", "fs", "pod", "processes", "image"}
            /\ "detail" \notin Panes
        BY <1>2, <2>3, NamedPanes DEF Fits
      <3>2. d.draw["fs"] \subseteq {container} /\ d.draw["image"] \subseteq {container}
        BY <2>1, <2>3, <3>1 DEF PageOnly, SV!Loose
      <3>3. drawn'["detail"] = SV!DetailOf(d.draw)
        BY <1>1, <1>2, <2>3, <3>1
      <3> QED
        BY <3>2, <3>3 DEF SV!DetailOf
    <2> QED
      BY <1>1, <2>2, <2>3, ViewStays DEF OfThePage, PageOnly
  <1>8. DrawnFits'
    BY <1>1, <1>2, <1>5, <1>6, <1>7, ViewStays DEF DrawnFits, OneOf
  <1> QED
    BY <1>3, <1>4, <1>8 DEF SubInv

\* A pane of the grid is selected: the detail follows.
LEMMA SelectKeeps ==
    ASSUME SubInv, NEW p \in {"processes", "cgroup", "fs", "image"}, SV!Select(p)
    PROVE  SubInv'
  <1>1. PICK x : /\ x \in {{}, drawn[p] \cup (IF p = "processes" /\ drawn[p] # {}
                                              THEN {kept["Info"]} \ {NoContainer} ELSE {})}
                 /\ drawn' = [drawn EXCEPT !["detail"] = x]
    BY DEF SV!Select
  <1>2. view = "grid" /\ UNCHANGED <<view, container, kept, sui, sjob, closures, sdue, overtaken>>
    BY DEF SV!Select
  <1>3. SubTyped' /\ JobsFit' /\ KeptFit'
    BY <1>2, KeptStays DEF SubInv, SubTyped, JobsFit, OneAnswerer
  <1>4. ClosuresFit'
    BY <1>2, FitsStays DEF SubInv, ClosuresFit
  <1>5. /\ DOMAIN drawn' = DOMAIN drawn /\ \A o \in DOMAIN drawn \ {"detail"} : drawn'[o] = drawn[o]
        /\ DOMAIN drawn = Panes \cup {"detail"} /\ drawn'["detail"] = x
    BY <1>1 DEF SubInv, DrawnFits
  <1>6. OneOf(drawn')
    BY <1>5 DEF SubInv, DrawnFits, OneOf
  <1>7. SV!Pending' <=> SV!Pending
    BY <1>2 DEF SV!Pending
  <1>8. ASSUME OfThePage
        PROVE  OfThePage'
    <2>1. PageOnly(drawn)'
      BY <1>2, <1>5, <1>8, ViewStays DEF OfThePage, PageOnly, SV!Loose
    <2>2. drawn[p] \subseteq {container}
      <3>1. p \in DOMAIN drawn \ SV!Loose
        BY <1>2, <1>5, NamedPanes DEF SV!Loose, SubInv, SubTyped
      <3> QED
        BY <1>8, <3>1 DEF OfThePage, PageOnly
    <2>3. kept["Info"] \in {container, NoContainer} => x \subseteq {container}
      BY <1>1, <2>2
    <2> QED
      BY <1>2, <1>5, <2>1, <2>3 DEF OfThePage
  <1>9. DrawnFits'
    BY <1>2, <1>5, <1>6, <1>7, <1>8, ViewStays DEF SubInv, DrawnFits, OneOf
  <1> QED
    BY <1>3, <1>4, <1>9 DEF SubInv

\* The inductive invariant behind the results on the views of a container.
THEOREM SubInductive == SV!Spec => []SubInv
  <1>1. SV!Init => SubInv
    <2> SUFFICES ASSUME SV!Init PROVE SubInv
      OBVIOUS
    <2>1. /\ NoContainer \in SV!Maybe /\ SV!Nothing \in [SV!Question -> SV!Maybe]
          /\ \A qs \in SUBSET SV!Question : OneAnswerer(SV!Nothing, qs, NoContainer)
      BY DEF SV!Maybe, SV!Nothing, OneAnswerer
    <2>2. SubTyped
      BY <2>1 DEF SV!Init, SubTyped, SV!NoJob, SubJob
    <2>3. KeptFit
      BY <2>1, <2>2, WhatViewsKeep DEF SV!Init, KeptFit, SubTyped
    <2>4. JobsFit
      BY <2>1 DEF SV!Init, JobsFit, SV!NoJob
    <2>5. DrawnFits /\ ClosuresFit
      BY <2>1 DEF SV!Init, DrawnFits, ClosuresFit, OneOf, OfThePage, PageOnly, Panes
    <2> QED
      BY <2>2, <2>3, <2>4, <2>5 DEF SubInv
  <1>2. SubInv /\ [SV!Next]_(SV!vars) => SubInv'
    <2> SUFFICES ASSUME SubInv, [SV!Next]_(SV!vars) PROVE SubInv'
      OBVIOUS
    <2>1. CASE UNCHANGED SV!vars
      <3>1. UNCHANGED <<view, container, kept, sui, sjob, closures, drawn, sdue, overtaken>>
        BY <2>1 DEF SV!vars
      <3>2. SubTyped' /\ JobsFit' /\ KeptFit' /\ (SV!Pending' <=> SV!Pending)
        BY <3>1, KeptStays DEF SubInv, SubTyped, JobsFit, OneAnswerer, SV!Pending
      <3>3. ClosuresFit'
        BY <3>1, FitsStays DEF SubInv, ClosuresFit
      <3>4. DrawnFits'
        BY <3>1, <3>2, ViewStays DEF SubInv, DrawnFits, OneOf, OfThePage, PageOnly
      <3> QED
        BY <3>2, <3>3, <3>4 DEF SubInv
    <2> QED
      BY <2>1, SetContainerKeeps, DrawClearedKeeps, AskKeeps, StoreKeeps, FailKeeps, RenderKeeps,
         RunClosureKeeps, SelectKeeps DEF SV!Next, SV!Refresh
  <1> QED
    BY <1>1, <1>2, PTL DEF SV!Spec

\* No view of the container page shows the answers of two containers side by
\* side, however openings and loads overlap and whichever questions fail (the
\* Refresh and render methods of pkg/ui/views).
THEOREM OneContainerShown == SV!Spec => []PanelsShowOneContainer
  <1>1. ASSUME OneOf(drawn)
        PROVE  Cardinality(UNION {drawn[p] : p \in DOMAIN drawn \ {"detail", "label"}}) <= 1
    <2>1. PICK c : \A p \in DOMAIN drawn \ {"detail", "label"} : drawn[p] \subseteq {c}
      BY <1>1 DEF OneOf
    <2> DEFINE U == UNION {drawn[p] : p \in DOMAIN drawn \ {"detail", "label"}}
    <2>2. U \subseteq {c}
      BY <2>1
    <2> HIDE DEF U
    <2>3. U = {} \/ U = {c}
      BY <2>2
    <2>4. Cardinality(U) \in {0, 1}
      BY <2>3, FS_EmptySet, FS_Singleton
    <2> QED
      BY <2>4 DEF U
  <1>2. SubInv => OneOf(drawn)
    BY DEF SubInv, DrawnFits
  <1>3. OneOf(drawn) => PanelsShowOneContainer
    <2>1. PanelsShowOneContainer <=>
              Cardinality(UNION {drawn[p] : p \in DOMAIN drawn \ {"detail", "label"}}) <= 1
      BY DEF PanelsShowOneContainer, SV!PanelsShowOneContainer, SV!Cardinality, Cardinality
    <2> QED
      BY <1>1, <2>1
  <1> QED
    BY <1>2, <1>3, SubInductive, PTL

\* Where no opening overtook a load, what stays on screen is of the container
\* of the page, for any containers, loads and failures (SetContainer and
\* Refresh of the views in pkg/ui/views).
THEOREM ShownIsOfThePage == SV!Spec => []DrawnIsOfThePage
  <1>1. SubInv => DrawnIsOfThePage
    BY DEF SubInv, DrawnFits, OfThePage, PageOnly, DrawnIsOfThePage, SV!DrawnIsOfThePage, SV!Quiet
  <1> QED
    BY <1>1, SubInductive, PTL

\* The label of a drawing is of a container, if there is a label.
Labels(f) == "label" \in DOMAIN f => f["label"] \subseteq Container

\* What a view holds beside SubInv.
SubTypes ==
    /\ sui \in {"idle", "draw"} /\ warns \in BOOLEAN
    /\ pane \in {"processes", "cgroup", "fs", "image"} /\ opened \in 0..MaxOpen
    /\ Labels(drawn) /\ drawn["detail"] \subseteq Container
    /\ \A d \in closures : Labels(d.draw) /\ d.warns \in BOOLEAN

\* A panel but the label is labelled by nobody; the label is the page's.
LEMMA PanelsLabelled ==
    ASSUME view \in DOMAIN SV!View, NEW a, NEW k \in SV!Maybe
    PROVE  Labels(SV!Panels(a, k))
  <1>1. CASE view = "processTree"
    BY <1>1 DEF SV!Panels, SV!TreePanels, Labels, SV!Maybe
  <1>2. CASE view \in {"grid", "summary", "processSummary", "top"}
    BY <1>2 DEF SV!Panels, SV!GridPanels, SV!SummaryPanels, SV!ProcessSections, SV!TopPanels, Labels
  <1>3. CASE view \in {"mounts", "layers", "runtime", "network"}
    BY <1>3 DEF SV!Panels, SV!MountsTree, SV!LayersPanels, SV!RuntimePanels, SV!NetworkPanels, Labels
  <1> QED
    BY <1>1, <1>2, <1>3, WhatViewsKeep DEF Keeping

\* An empty drawing, and a message, need no label.
LEMMA MessagesLabelled ==
    ASSUME SubTyped, NEW k
    PROVE  Labels(SV!Blank) /\ Labels(SV!Failed(k))
  <1>1. Labels(SV!Blank)
    <2>1. \A p \in DOMAIN SV!Blank : SV!Blank[p] = {}
      BY DEF SV!Blank
    <2> QED
      BY <2>1 DEF Labels
  <1>2. Labels([table |-> {}])
    BY DEF Labels
  <1>3. Labels(SV!Panels(k, container))
    BY PanelsLabelled DEF SubTyped
  <1> QED
    BY <1>1, <1>2, <1>3 DEF SV!Failed

\* What has the label of a container has it after a step.
LEMMA LabelsStay == ASSUME NEW f PROVE Labels(f)' <=> Labels(f)
  BY DEF Labels

\* A step that queues what is labelled and draws nothing.
LEMMA QueueTyped ==
    ASSUME SubTypes, UNCHANGED <<drawn, warns, pane>>, sui' \in {"idle", "draw"}, opened' \in 0..MaxOpen,
           \A d \in closures' \ closures : Labels(d.draw) /\ d.warns \in BOOLEAN
    PROVE  SubTypes'
  BY LabelsStay DEF SubTypes

\* No view draws the detail as a panel.
LEMMA NoDetail ==
    ASSUME view \in DOMAIN SV!View
    PROVE  "detail" \notin Panes
  <1>1. Panes = DOMAIN SV!Panels(SV!Nothing, NoContainer)
    BY DEF Panes, SV!Blank
  <1>2. CASE view \in {"grid", "summary", "processSummary", "processTree", "top"}
    BY <1>1, <1>2 DEF SV!Panels, SV!GridPanels, SV!SummaryPanels, SV!ProcessSections, SV!TreePanels,
                      SV!TopPanels
  <1>3. CASE view \in {"mounts", "layers", "runtime", "network"}
    BY <1>1, <1>3 DEF SV!Panels, SV!MountsTree, SV!LayersPanels, SV!RuntimePanels, SV!NetworkPanels
  <1> QED
    BY <1>2, <1>3, WhatViewsKeep DEF Keeping

\* Every step of a view keeps its types.
LEMMA SubStepTyped ==
    ASSUME SubInv, SubInv', SubTypes, SV!Next
    PROVE  SubTypes'
  <1>0. SubTyped /\ view \in DOMAIN SV!View /\ container \in SV!Maybe /\ opened \in Nat /\ MaxOpen \in Nat
    BY SubAssumption DEF SubInv, SubTyped, SubTypes, SV!SubViewAssumption
  <1>1. ASSUME NEW c \in Container, SV!SetContainer(c) PROVE SubTypes'
    <2>1. opened' \in 0..MaxOpen /\ sui' \in {"idle", "draw"} /\ UNCHANGED <<drawn, warns, pane, closures>>
      BY <1>0, <1>1 DEF SV!SetContainer
    <2> QED
      BY <2>1, QueueTyped
  <1>2. CASE SV!DrawCleared
    <2> DEFINE f == IF SV!This.keeps = {} THEN SV!Blank ELSE SV!Panels(kept, container)
               d == [by |-> opened, warns |-> FALSE, draw |-> f]
    <2>1. sui' = "idle" /\ closures' = closures \cup {d} /\ UNCHANGED <<drawn, warns, pane, opened>>
      BY <1>2 DEF SV!DrawCleared
    <2>2. Labels(f)
      BY <1>0, MessagesLabelled, PanelsLabelled
    <2>3. d.draw = f /\ d.warns = FALSE
      OBVIOUS
    <2> HIDE DEF d, f
    <2> QED
      BY <2>1, <2>2, <2>3, QueueTyped DEF SubTypes
  <1>3. ASSUME NEW r \in Refresher, SV!Begin(r) \/ SV!Ask(r) \/ SV!Store(r) PROVE SubTypes'
    <2>1. UNCHANGED <<drawn, warns, pane, closures, sui, opened>>
      BY <1>3 DEF SV!Begin, SV!Ask, SV!Store
    <2> QED
      BY <2>1, QueueTyped DEF SubTypes
  <1>4. ASSUME NEW r \in Refresher, SV!Fail(r) PROVE SubTypes'
    <2> DEFINE k == [q \in SV!Question |-> IF q \in SV!Forgets THEN NoContainer ELSE kept[q]]
               f == SV!Failed(k)
               d == [by |-> r, warns |-> FALSE, draw |-> f]
    <2>1. closures' = closures \cup {d} /\ UNCHANGED <<drawn, warns, pane, sui, opened>>
      BY <1>4 DEF SV!Fail
    <2>2. Labels(f)
      BY <1>0, MessagesLabelled
    <2>3. d.draw = f /\ d.warns = FALSE
      OBVIOUS
    <2> HIDE DEF d, f
    <2> QED
      BY <2>1, <2>2, <2>3, QueueTyped DEF SubTypes
  <1>5. ASSUME NEW r \in Refresher, SV!Render(r) PROVE SubTypes'
    <2> DEFINE a == IF SV!This.keeps = {} THEN sjob[r].got ELSE kept
               f == SV!Panels(a, container)
               w == view = "grid" /\ SV!StdioPanel(a) = {}
               d == [by |-> r, warns |-> w, draw |-> f]
    <2>1. closures' = closures \cup {d} /\ UNCHANGED <<drawn, warns, pane, sui, opened>>
      BY <1>5 DEF SV!Render
    <2>2. Labels(f)
      BY <1>0, PanelsLabelled
    <2>3. d.draw = f /\ d.warns = w /\ w \in BOOLEAN
      OBVIOUS
    <2> HIDE DEF d, f, w
    <2> QED
      BY <2>1, <2>2, <2>3, QueueTyped DEF SubTypes
  <1>6. ASSUME NEW d \in closures, SV!RunClosure(d) PROVE SubTypes'
    <2>1. /\ closures' = closures \ {d} /\ UNCHANGED <<view, pane, sui, opened>>
          /\ drawn' = [p \in DOMAIN drawn |-> IF p \in DOMAIN d.draw THEN d.draw[p]
                                              ELSE IF p = "detail" /\ view = "grid" THEN SV!DetailOf(d.draw)
                                              ELSE drawn[p]]
          /\ warns' = (warns \/ d.warns)
      BY <1>6 DEF SV!RunClosure
    <2>2. /\ Labels(d.draw) /\ d.warns \in BOOLEAN /\ Labels(drawn) /\ drawn["detail"] \subseteq Container
          /\ DOMAIN drawn = Panes \cup {"detail"} /\ Fits(d.draw)
      BY DEF SubTypes, SubInv, DrawnFits, ClosuresFit
    <2>3. Labels(drawn')
      BY <2>1, <2>2 DEF Labels
    <2>4. "detail" \notin DOMAIN d.draw
      <3>1. "detail" \notin Panes
        BY <1>0, NoDetail
      <3> QED
        BY <2>2, <3>1 DEF Fits
    <2>5. drawn'["detail"] \subseteq Container
      <3>1. CASE view = "grid"
        <4>1. d.draw["fs"] \subseteq Container /\ d.draw["image"] \subseteq Container
          <5>1. {"fs", "image"} \subseteq DOMAIN d.draw \ {"detail", "label"}
            BY <1>0, <2>2, <3>1, NamedPanes DEF Fits
          <5> QED
            BY <2>2, <5>1 DEF Fits, OneOf, SV!Maybe
        <4>2. drawn'["detail"] = SV!DetailOf(d.draw)
          BY <2>1, <2>2, <2>4, <3>1
        <4> QED
          BY <4>1, <4>2 DEF SV!DetailOf
      <3>2. CASE view # "grid"
        BY <2>1, <2>2, <2>4, <3>2
      <3> QED
        BY <3>1, <3>2
    <2>6. warns' \in BOOLEAN
      BY <2>1, <2>2 DEF SubTypes
    <2>7. \A e \in closures' : Labels(e.draw) /\ e.warns \in BOOLEAN
      BY <2>1 DEF SubTypes
    <2> QED
      BY <2>1, <2>3, <2>5, <2>6, <2>7, LabelsStay DEF SubTypes
  <1>7. ASSUME NEW p \in {"processes", "cgroup", "fs", "image"}, SV!Select(p) PROVE SubTypes'
    <2>1. PICK x : /\ x \in {{}, drawn[p] \cup (IF p = "processes" /\ drawn[p] # {}
                                                THEN {kept["Info"]} \ {NoContainer} ELSE {})}
                   /\ drawn' = [drawn EXCEPT !["detail"] = x]
      BY <1>7 DEF SV!Select
    <2>2. view = "grid" /\ pane' = p /\ UNCHANGED <<closures, warns, sui, opened>>
      BY <1>7 DEF SV!Select
    <2>3. x \subseteq Container
      <3>1. p \in DOMAIN drawn \ {"detail", "label"}
        BY <1>0, <2>2, NamedPanes DEF SubInv, DrawnFits
      <3>2. drawn[p] \subseteq Container
        BY <3>1 DEF SubInv, DrawnFits, OneOf, SV!Maybe
      <3>3. kept["Info"] \in SV!Maybe
        BY DEF SubInv, SubTyped, SV!Question
      <3> QED
        BY <2>1, <3>2, <3>3 DEF SV!Maybe
    <2>4. Labels(drawn') /\ drawn'["detail"] \subseteq Container
      BY <2>1, <2>3 DEF Labels, SubTypes, SubInv, DrawnFits
    <2> QED
      BY <2>2, <2>4, LabelsStay DEF SubTypes
  <1> QED
    BY <1>1, <1>2, <1>3, <1>4, <1>5, <1>6, <1>7 DEF SV!Next, SV!Refresh

\* The variables of the views of a container stay in their types.
THEOREM SubsAreTyped == SV!Spec => []SV!TypeOK
  <1>1. SV!Init => SubTypes
    <2> SUFFICES ASSUME SV!Init PROVE SubTypes
      OBVIOUS
    <2>1. "detail" \in DOMAIN drawn /\ \A p \in DOMAIN drawn : drawn[p] = {}
      BY DEF SV!Init
    <2>2. Labels(drawn) /\ drawn["detail"] \subseteq Container
      BY <2>1 DEF Labels
    <2>3. opened = 0 /\ closures = {} /\ sui = "idle" /\ warns = FALSE /\ pane = "processes"
      BY DEF SV!Init
    <2>4. 0 \in 0..MaxOpen
      BY SubAssumption DEF SV!SubViewAssumption
    <2> QED
      BY <2>2, <2>3, <2>4 DEF SubTypes
  <1>2. SubInv /\ SubInv' /\ SubTypes /\ [SV!Next]_(SV!vars) => SubTypes'
    <2>1. SubTypes /\ UNCHANGED SV!vars => SubTypes'
      BY LabelsStay DEF SubTypes, SV!vars
    <2> QED
      BY <2>1, SubStepTyped
  <1>3. SubInv /\ SubTypes => SV!TypeOK
    <2> SUFFICES ASSUME SubInv, SubTypes PROVE SV!TypeOK
      OBVIOUS
    <2>1. \A d \in closures : DOMAIN d.draw \subseteq DOMAIN drawn
      <3>1. view = "top" => "table" \in Panes
        BY NamedPanes DEF SubInv, SubTyped
      <3>2. \A d \in closures : DOMAIN d.draw = Panes \/ (view = "top" /\ DOMAIN d.draw = {"table"})
        BY DEF SubInv, ClosuresFit, Fits
      <3> QED
        BY <3>1, <3>2 DEF SubInv, DrawnFits
    <2>2. \A p \in DOMAIN drawn : drawn[p] \subseteq Container
      <3>1. PICK c \in SV!Maybe : \A p \in DOMAIN drawn \ {"detail", "label"} : drawn[p] \subseteq {c} \ {NoContainer}
        BY DEF SubInv, DrawnFits, OneOf
      <3> QED
        BY <3>1 DEF SubTypes, Labels, SV!Maybe
    <2> QED
      BY <2>1, <2>2 DEF SubInv, SubTyped, SubTypes, SubJob, SV!TypeOK
  <1> QED
    BY <1>1, <1>2, <1>3, SubInductive, PTL DEF SV!Spec

-----------------------------------------------------------------------------
\* A behaviour of the parts side by side, which the run checks, is one of each
\* part, of which the theorems above speak.
THEOREM ViewsPartsOfAll == AllSpec => Spec /\ CT!Spec /\ PL!Spec /\ SV!Spec
  <1>1. AllInit => Init /\ CT!Init /\ PL!Init /\ SV!Init
    BY DEF AllInit
  <1>2. [AllNext]_allVars => /\ [Next]_vars /\ [CT!Next]_(CT!vars) /\ [PL!Next]_(PL!vars)
                             /\ [SV!Next]_(SV!vars)
    BY DEF AllNext, allVars, treeVars, podVars, subVars, vars, CT!vars, PL!vars, SV!vars
  <1> QED
    BY <1>1, <1>2, PTL DEF AllSpec, Spec, CT!Spec, PL!Spec, SV!Spec

\* Every variable of the pages, the tree, the pod table and the views stays in
\* its type, for any constants.
THEOREM ViewsTyped == AllSpec => []AllTypeOK
  <1>1. TypeOK /\ TreeInv /\ PL!TypeOK /\ SV!TypeOK => AllTypeOK
    BY DEF TreeInv, AllTypeOK
  <1> QED
    BY <1>1, ViewsPartsOfAll, BrowseTyped, TreeInductive, PodsAreTyped, SubsAreTyped, PTL

=============================================================================
