--------------------------- MODULE ContainerTree ---------------------------
(***************************************************************************)
(* The container list of the main page (pkg/ui/views/container_list.go): a *)
(* tree of pods with their containers, and of containers without a pod.    *)
(* Refresh runs in goroutines (the 3 s poller, the r key, a tab switch); it *)
(* stores v.entries without a lock and queues a closure that draws         *)
(* whatever v.entries is by then.  Drawing reads the entries several times: *)
(* once to group them, once per pod for its children, once for the status. *)
(*                                                                         *)
(* The collapsed pods are remembered in a map beside the tree nodes, which *)
(* every drawing replaces.  Enter changes the node only; the map learns of *)
(* it when the next successful refresh is drawn.                           *)
(*                                                                         *)
(* Of tview's TreeView the cursor is modelled: a draw moves it from a node *)
(* that is hidden or gone to the first selectable node, and to nil where   *)
(* there is none.  The application has started (see AppLifecycle).         *)
(***************************************************************************)
EXTENDS SharedSlice, FiniteSets

CONSTANTS
    Container, Pod,
    PodOf,              \* the pod a container is labelled with, or NoPod
    NoPod,
    Rank,               \* the order of pods and of containers by name
    Listings,           \* what the runtime may answer: sequences of entries
    NoNode,             \* nil
    Refresher           \* bound: Refresh calls under way at once

Entry == [id : Container, up : BOOLEAN]

\* What the parameters are assumed to be.
PodAssumption     == NoPod \notin Pod /\ PodOf \in [Container -> Pod \cup {NoPod}]
RankAssumption    == Rank \in [Pod \cup Container -> Nat]
ListingAssumption == Listings \subseteq Seq(Entry)

VARIABLES
    entries,            \* v.entries
    tree,               \* what is drawn: its kind, the pods, the others
    shut,               \* the drawn top-level nodes that are not expanded
    collapsed,          \* v.collapsedPods
    cursor,             \* v.tree.GetCurrentNode, by its reference
    ui,                 \* the closure the UI goroutine is in, and where
    job,                \* each Refresh: where it is and what it has
    user,               \* history: the pods the user left collapsed, and those
                        \* whose last change a failed refresh swept away
    crashed             \* a read past an array

vars == <<entries, tree, shut, collapsed, cursor, ui, job, user, crashed>>

PodNode(p)  == [type |-> "pod", id |-> p]
CtrNode(c)  == [type |-> "container", id |-> c]
Node        == [type : {"pod"}, id : Pod] \cup [type : {"container"}, id : Container]
Idle        == [at |-> "idle", wanted |-> NoNode, left |-> {}]
NoJob       == [pc |-> "idle", saved |-> NoNode, list |-> <<>>, ok |-> TRUE]
Placeholder == [kind |-> "loading", pods |-> <<>>, alone |-> {}]

TypeOK ==
    /\ \E s \in Listings \cup {<<>>} : entries.arr = s
    /\ \E s \in Listings \cup {<<>>} : entries.len = Len(s)
    /\ tree.kind \in {"loading", "failed", "rows"}
    /\ DOMAIN tree.pods \subseteq Pod /\ tree.alone \subseteq Entry
    /\ \A p \in DOMAIN tree.pods : tree.pods[p].kids \subseteq Entry
    /\ shut \subseteq Node /\ collapsed \subseteq Pod
    /\ cursor \in Node \cup {NoNode}
    /\ ui \in [at : {"idle", "kids", "restore"}, wanted : Node \cup {NoNode},
               left : SUBSET Pod]
    /\ job \in [Refresher -> [pc : {"idle", "load", "store", "arr", "len", "queued"},
                              saved : Node \cup {NoNode},
                              list : Listings \cup {<<>>}, ok : BOOLEAN]]
    /\ user \in [shut : SUBSET Pod, swept : SUBSET Pod]
    /\ crashed \in BOOLEAN

Init ==
    /\ entries = Nil
    /\ tree = Placeholder /\ shut = {} /\ collapsed = {} /\ cursor = NoNode
    /\ ui = Idle
    /\ job = [r \in Refresher |-> NoJob]
    /\ user = [shut |-> {}, swept |-> {}]
    /\ crashed = FALSE

-----------------------------------------------------------------------------
(***************************************************************************)
(* The tree that a list of entries makes.                                  *)
(***************************************************************************)

InPod(s, p) == {s[i] : i \in {j \in DOMAIN s : PodOf[s[j].id] = p}}
PodsIn(s)   == {PodOf[s[i].id] : i \in DOMAIN s} \ {NoPod}

\* A pod's heading: running and total containers.
Heading(s, p) == [running |-> Cardinality({e \in InPod(s, p) : e.up}),
                  total   |-> Cardinality(InPod(s, p))]

PodRow(s, t, p) == [heading |-> Heading(s, p), kids |-> InPod(t, p)]

\* The tree drawn from s and nothing else.
TreeOf(s) == [kind  |-> "rows",
              pods  |-> [p \in PodsIn(s) |-> PodRow(s, s, p)],
              alone |-> InPod(s, NoPod)]

TopNodes(t) == {PodNode(p) : p \in DOMAIN t.pods} \cup {CtrNode(e.id) : e \in t.alone}
KidsOf(t, p) == {CtrNode(e.id) : e \in t.pods[p].kids}
Nodes(t)     == TopNodes(t) \cup UNION {KidsOf(t, p) : p \in DOMAIN t.pods}
Visible(t, s) ==
    TopNodes(t) \cup UNION {KidsOf(t, p) : p \in {q \in DOMAIN t.pods : PodNode(q) \notin s}}

\* The first child of the root: pods come first, and each kind is in the
\* order of the names, in any order where names are the same.
FirstNodes(t) ==
    LET pods == {PodNode(p) : p \in DOMAIN t.pods}
        top  == IF pods # {} THEN pods ELSE TopNodes(t)
    IN  {n \in top : \A m \in top : Rank[n.id] <= Rank[m.id]}

\* Where a draw leaves the cursor.
Settled(n, t, s) ==
    IF n \in Visible(t, s) \cup {NoNode} THEN {n}
    ELSE IF FirstNodes(t) # {} THEN FirstNodes(t) ELSE {NoNode}

\* restoreSelection: the saved container, else its pod, else the first node.
Restored(n, t) ==
    CASE n \in Nodes(t) -> {n}
      [] /\ n \notin Nodes(t) /\ n \in Node /\ n.type = "container"
         /\ PodOf[n.id] \in DOMAIN t.pods -> {PodNode(PodOf[n.id])}
      [] OTHER -> IF FirstNodes(t) # {} THEN FirstNodes(t) ELSE {NoNode}

-----------------------------------------------------------------------------
(***************************************************************************)
(* Refresh, in a goroutine.                                                *)
(***************************************************************************)

\* ListContainers answers; on success the cursor is read, from outside the UI
\* goroutine, before the containers are asked for their infos.
BeginRefresh(r) ==
    /\ ~crashed /\ job[r].pc = "idle"
    /\ \/ job' = [job EXCEPT ![r] = [NoJob EXCEPT !.pc = "load", !.saved = cursor]]
       \/ job' = [job EXCEPT ![r] = [NoJob EXCEPT !.pc = "store", !.ok = FALSE]]
    /\ UNCHANGED <<entries, tree, shut, collapsed, cursor, ui, user, crashed>>

\* The infos have come; a container that gave none is not in the list.
LoadInfos(r) ==
    /\ ~crashed /\ job[r].pc = "load"
    /\ \E s \in Listings : job' = [job EXCEPT ![r].pc = "store", ![r].list = s]
    /\ UNCHANGED <<entries, tree, shut, collapsed, cursor, ui, user, crashed>>

\* v.entries = entries, or nil, in two words; then the closure is queued.
StoreHalf(r) ==
    /\ ~crashed /\ job[r].pc = "store"
    /\ \E w \in Words :
          /\ entries' = StoreWord(entries, w, job[r].list)
          /\ job' = [job EXCEPT ![r].pc = w]
    /\ UNCHANGED <<tree, shut, collapsed, cursor, ui, user, crashed>>

\* A mutant: the failure empties the entries and is not drawn.
StoreRestUnqueued(r) ==
    /\ ~crashed /\ job[r].pc \in Words
    /\ entries' = StoreWord(entries, OtherWord(job[r].pc), job[r].list)
    /\ job' = [job EXCEPT ![r] = IF job[r].ok THEN [job[r] EXCEPT !.pc = "queued", !.list = <<>>]
                                 ELSE NoJob]
    /\ UNCHANGED <<tree, shut, collapsed, cursor, ui, user, crashed>>

StoreRest(r) ==
    /\ ~crashed /\ job[r].pc \in Words
    /\ entries' = StoreWord(entries, OtherWord(job[r].pc), job[r].list)
    /\ job' = [job EXCEPT ![r].pc = "queued", ![r].list = <<>>]
    /\ UNCHANGED <<tree, shut, collapsed, cursor, ui, user, crashed>>

Refresh(r) == BeginRefresh(r) \/ LoadInfos(r) \/ StoreHalf(r) \/ StoreRest(r)

-----------------------------------------------------------------------------
(***************************************************************************)
(* The closures, on the UI goroutine.                                      *)
(***************************************************************************)

\* The error closure replaces the tree by a message, unseen by the map.
RunFailed(r) ==
    /\ ~crashed /\ ui = Idle /\ job[r].pc = "queued" /\ ~job[r].ok
    /\ tree' = [Placeholder EXCEPT !.kind = "failed"]
    /\ shut' = {} /\ cursor' = NoNode
    /\ user' = [user EXCEPT !.swept =
                   @ \cup {p \in DOMAIN tree.pods : (PodNode(p) \in shut) # (p \in collapsed)}]
    /\ job' = [job EXCEPT ![r] = NoJob]
    /\ UNCHANGED <<entries, collapsed, ui, crashed>>

ShutPods == {p \in DOMAIN tree.pods : PodNode(p) \in shut}

\* A mutant: what is drawn is not looked at.
SnapshotNothing == collapsed

\* snapshotCollapsedPods: the pods drawn are collapsed as they are drawn, the
\* others as they were.
SnapshotCollapsedPods == (collapsed \ DOMAIN tree.pods) \cup ShutPods

\* render up to the children: headings, expansion and the lone containers.
StartRender(r) ==
    /\ ~crashed /\ ui = Idle /\ job[r].pc = "queued" /\ job[r].ok
    /\ IF Torn(entries)
       THEN crashed' = TRUE /\ UNCHANGED <<tree, shut, collapsed, ui, job>>
       ELSE LET s == Elems(entries)
            IN  /\ collapsed' = SnapshotCollapsedPods
                /\ tree' = [kind  |-> "rows",
                            pods  |-> [p \in PodsIn(s) |-> PodRow(s, <<>>, p)],
                            alone |-> InPod(s, NoPod)]
                /\ shut' = {PodNode(p) : p \in PodsIn(s) \cap collapsed'}
                /\ ui' = [at |-> "kids", wanted |-> job[r].saved, left |-> PodsIn(s)]
                /\ job' = [job EXCEPT ![r] = NoJob]
                /\ UNCHANGED crashed
    /\ UNCHANGED <<entries, cursor, user>>

\* podContainers: the children of a pod, from the entries as they are now.
AddKids ==
    /\ ~crashed /\ ui.at = "kids" /\ ui.left # {}
    /\ IF Torn(entries)
       THEN crashed' = TRUE /\ UNCHANGED <<tree, ui>>
       ELSE \E p \in {q \in ui.left : \A o \in ui.left : Rank[q] <= Rank[o]} :
               /\ tree' = [tree EXCEPT !.pods[p].kids = InPod(Elems(entries), p)]
               /\ ui' = [ui EXCEPT !.left = @ \ {p}]
               /\ UNCHANGED crashed
    /\ UNCHANGED <<entries, shut, collapsed, cursor, job, user>>

\* updateStatusBar ranges over the entries once more.
UpdateStatusBar ==
    /\ ~crashed /\ ui.at = "kids" /\ ui.left = {}
    /\ crashed' = Torn(entries)
    /\ ui' = [ui EXCEPT !.at = "restore"]
    /\ UNCHANGED <<entries, tree, shut, collapsed, cursor, job, user>>

\* A mutant: the cursor is left to the draw.
RestoreFirst ==
    /\ ~crashed /\ ui.at = "restore"
    /\ \E n \in Restored(NoNode, tree) : cursor' \in Settled(n, tree, shut)
    /\ ui' = Idle
    /\ UNCHANGED <<entries, tree, shut, collapsed, job, user, crashed>>

RestoreSelection ==
    /\ ~crashed /\ ui.at = "restore"
    /\ \E n \in Restored(ui.wanted, tree) : cursor' \in Settled(n, tree, shut)
    /\ ui' = Idle
    /\ UNCHANGED <<entries, tree, shut, collapsed, job, user, crashed>>

RunClosures ==
    \/ \E r \in Refresher : RunFailed(r) \/ StartRender(r)
    \/ AddKids \/ UpdateStatusBar \/ RestoreSelection

-----------------------------------------------------------------------------
(***************************************************************************)
(* Keys on the tree.  That a nested container can be "collapsed" too shows *)
(* nowhere and is left out.                                                *)
(***************************************************************************)

\* The user's view of a set of pods after a key that leaves them as in s.
Leaves(pods, s) ==
    user' = [shut  |-> (user.shut \ pods) \cup {p \in pods : PodNode(p) \in s},
             swept |-> user.swept \ pods]

Ready == ~crashed /\ ui = Idle

Move ==
    /\ Ready /\ cursor' \in Visible(tree, shut) \ {cursor}
    /\ UNCHANGED <<entries, tree, shut, collapsed, ui, job, user, crashed>>

Flip(s, n) == IF n \in s THEN s \ {n} ELSE s \cup {n}

\* e, space: the node and the map.
ToggleCurrentNode ==
    /\ Ready /\ cursor \in TopNodes(tree)
    /\ shut' = Flip(shut, cursor)
    /\ IF cursor.type = "pod"
       THEN /\ collapsed' = IF cursor \in shut' THEN collapsed \cup {cursor.id}
                            ELSE collapsed \ {cursor.id}
            /\ Leaves({cursor.id}, shut')
       ELSE UNCHANGED <<collapsed, user>>
    /\ UNCHANGED <<entries, tree, cursor, ui, job, crashed>>

\* Enter on a pod: the node only.
EnterPod ==
    /\ Ready /\ cursor \in TopNodes(tree) /\ cursor.type = "pod"
    /\ shut' = Flip(shut, cursor)
    /\ Leaves({cursor.id}, shut')
    /\ UNCHANGED <<entries, tree, collapsed, cursor, ui, job, crashed>>

\* E.
CollapseAllPods ==
    /\ Ready
    /\ shut' = shut \cup {PodNode(p) : p \in DOMAIN tree.pods}
    /\ collapsed' = collapsed \cup DOMAIN tree.pods
    /\ Leaves(DOMAIN tree.pods, shut')
    /\ cursor' \in Settled(cursor, tree, shut')
    /\ UNCHANGED <<entries, tree, ui, job, crashed>>

\* a: everything collapses if all was expanded, and expands otherwise.
ToggleAllNodes ==
    /\ Ready
    /\ shut' = IF shut = {} THEN TopNodes(tree) ELSE {}
    /\ collapsed' = IF shut = {} THEN collapsed \cup DOMAIN tree.pods
                    ELSE collapsed \ DOMAIN tree.pods
    /\ Leaves(DOMAIN tree.pods, shut')
    /\ cursor' \in Settled(cursor, tree, shut')
    /\ UNCHANGED <<entries, tree, ui, job, crashed>>

Keys == Move \/ ToggleCurrentNode \/ EnterPod \/ CollapseAllPods \/ ToggleAllNodes

Next == (\E r \in Refresher : Refresh(r)) \/ RunClosures \/ Keys

Spec == Init /\ [][Next]_vars

-----------------------------------------------------------------------------
(***************************************************************************)
(* Properties.                                                             *)
(***************************************************************************)

Quiet == Ready /\ \A r \in Refresher : job[r].pc = "idle"

\* However refreshes overlap, fail, tear the entries and draw out of order:
\* when all is quiet, a drawn tree is the tree of one list, the one stored:
\* headings, children and lone containers agree.
QuietTreeIsOfOneList ==
    Quiet /\ tree.kind = "rows" => ~Torn(entries) /\ tree = TreeOf(Elems(entries))

\* A pod is drawn as the user left it, however often the tree is rebuilt and
\* whether the pod was away meanwhile; only a change made with Enter is lost
\* when a failed refresh sweeps the tree before the next drawing.
PodsStayAsLeft ==
    Ready => \A p \in DOMAIN tree.pods \ user.swept :
                 PodNode(p) \in shut <=> p \in user.shut

\* A refresh that finds the cursor where it read it keeps it there, and on the
\* container's pod when the container is gone and the pod is not.
CursorSurvivesRefresh ==
    [][ui.at = "restore" /\ ui' = Idle /\ cursor = ui.wanted /\ cursor # NoNode
         => /\ cursor \in Visible(tree, shut) => cursor' = cursor
            /\ cursor \notin Nodes(tree) /\ cursor.type = "container"
                  => \A p \in DOMAIN tree.pods : PodOf[cursor.id] = p => cursor' = PodNode(p)]_vars
=============================================================================
