------------------------------ MODULE SubView ------------------------------
(***************************************************************************)
(* The views inside the detail page (pkg/ui/views/detail_grid_view.go,     *)
(* detail_summary_view.go, process_summary_view.go, process_tree_view.go,  *)
(* top_view.go, mounts_view.go, image_layers_view.go, runtime_info_view.go *)
(* and network_info_view.go), one at a time.  They share a shape:          *)
(* SetContainer, on the UI goroutine, replaces the handle under the mutex; *)
(* Refresh, in a goroutine of its own, copies it, asks it questions, may   *)
(* keep the answers under the mutex, and queues a closure that draws.      *)
(* They differ in what they ask, keep, clear and draw.                     *)
(*                                                                         *)
(* An answer, kept or drawn, is represented by the container it is of.     *)
(* Every closure is queued by a goroutine of its own: they run in any      *)
(* order.                                                                  *)
(***************************************************************************)
EXTENDS Integers, FiniteSetsExt

CONSTANTS
    Container, NoContainer,
    Refresher,          \* bound: the calls of Refresh
    MaxOpen,            \* bound: calls of SetContainer
    MaxFailed           \* bound: questions one Refresh gets no answer to

\* What the parameters are assumed to be.
SubViewAssumption == NoContainer \notin Container /\ MaxOpen \in Nat /\ MaxFailed \in Nat

VARIABLES
    view,               \* which of the views this is
    container,          \* v.container
    kept,               \* the answers the view keeps
    ui,                 \* SetContainer is about to draw
    job,                \* each Refresh: where it is, its handle, its answers
    closures,           \* queued: who queued it, what it draws
    drawn,              \* each panel: the containers whose answers it shows
    warns,              \* the cgroup panel's title names missing answers
    pane,               \* the grid's focused pane
    opened, due,        \* calls of SetContainer; no Refresh has begun since the last
    overtaken           \* history: a SetContainer came while a Refresh or a closure was pending

vars == <<view, container, kept, ui, job, closures, drawn, warns, pane, opened, due, overtaken>>

Maybe    == Container \cup {NoContainer}
Question == {"Info", "State", "Config", "Runtime", "Network", "Stdio", "Processes", "ProcessStats",
             "Storage", "Mounts", "CGroup", "RWLayerStats", "Image"}
Nothing  == [q \in Question |-> NoContainer]

\* The containers the answers to the questions qs are of.
Of(a, qs) == {a[q] : q \in qs} \ {NoContainer}

\* The answer to the first question, else to the second.
Else(a, q1, q2) == IF a[q1] # NoContainer THEN {a[q1]} ELSE Of(a, {q2})

-----------------------------------------------------------------------------
(***************************************************************************)
(* The panels, each a function of the answers.                             *)
(***************************************************************************)

NetworkPanel(a)    == Of(a, {"Network"})
StdioPanel(a)      == Of(a, {"Stdio"})
NamespacePanel(a)  == Of(a, {"Config"})
\* (The label asks the handle anew for Runtime and State.)
ProcessTreePanel(a) == Of(a, {"Processes"})
CgroupTree(a)      == Else(a, "CGroup", "Config")
MountsNode(a)      == Of(a, {"Mounts"})
RootfsNode(a)      == Of(a, {"Storage", "Config"})
FilesystemTree(a)  == MountsNode(a) \cup RootfsNode(a)
PodPanel(a)        == IF a["Info"] = NoContainer THEN {} ELSE Of(a, {"Info", "Runtime"})
ImageTree(a)       == Of(a, {"Config", "Image"})

GridPanels(a) ==
    [network |-> NetworkPanel(a), stdio |-> StdioPanel(a), ns |-> NamespacePanel(a),
     cgroup |-> CgroupTree(a), fs |-> FilesystemTree(a), pod |-> PodPanel(a),
     processes |-> ProcessTreePanel(a), image |-> ImageTree(a)]

KPIStrip(a)          == Else(a, "State", "Info") \cup Else(a, "Config", "Info") \cup Of(a, {"Runtime"})
StatusPanel(a)       == Of(a, {"State", "Info"})
ImageRuntimePanel(a) == Of(a, {"Config", "Info", "Image", "Runtime"})

SummaryPanels(a) == [kpi |-> KPIStrip(a), left |-> StatusPanel(a), right |-> ImageRuntimePanel(a)]

ProcessSections(a) == [sections |-> Of(a, {"Config"})]

\* The label of the tree is of the handle the view has when it renders.
TreePanels(a, c) == [tree |-> Of(a, {"Processes"}), label |-> {c} \ {NoContainer}]

TopPanels(a) == [table |-> Of(a, {"ProcessStats"}), net |-> Of(a, {"Network"})]
MountsTree(a) == [tree |-> IF a["Mounts"] = NoContainer THEN {} ELSE Of(a, {"Mounts", "Runtime"})]

LayerHeader(a) == Else(a, "Storage", "Config") \cup Of(a, {"Runtime", "Image"})
RWLayerNode(a) == Of(a, {"Config", "Storage", "RWLayerStats"})
LayersTree(a)  == IF a["Storage"] = NoContainer THEN {} ELSE RWLayerNode(a)
LayersPanels(a) == [header |-> LayerHeader(a), tree |-> LayersTree(a)]

ShimNode(a)      == Of(a, {"Runtime", "State"})
NamespaceNode(a) == Of(a, {"Config"})
RuntimePanels(a) == [tree |-> ShimNode(a) \cup NamespaceNode(a)]

NetworkPanels(a) == [tree |-> Of(a, {"Network"})]

-----------------------------------------------------------------------------
(***************************************************************************)
(* The views: what a Refresh asks, which answer it cannot do without, what *)
(* the view keeps, what SetContainer clears, and whether it draws.         *)
(***************************************************************************)

Grid == [asks |-> {"Info", "Config", "Runtime", "Network", "Stdio", "Processes", "Storage",
                   "Mounts", "CGroup", "Image"},
         needs |-> {}, keeps |-> {}, clears |-> {}, draws |-> FALSE]
Summary == [asks |-> {"Info", "State", "Config", "Runtime", "Image"},
            needs |-> {}, keeps |-> {}, clears |-> {}, draws |-> FALSE]
ProcessSummary == [asks |-> {"Config"}, needs |-> {}, keeps |-> {}, clears |-> {}, draws |-> FALSE]
ProcessTree == [asks |-> {"Processes"}, needs |-> {"Processes"}, keeps |-> {"Processes"},
                clears |-> {"Processes"}, draws |-> FALSE]
Top == [asks |-> {"ProcessStats", "Network"}, needs |-> {"ProcessStats"},
        keeps |-> {"ProcessStats", "Network"}, clears |-> {"ProcessStats", "Network"},
        draws |-> FALSE]
Mounts == [asks |-> {"Mounts", "Runtime"}, needs |-> {"Mounts"}, keeps |-> {"Mounts", "Runtime"},
           clears |-> {"Mounts", "Runtime"}, draws |-> TRUE]
Layers == [asks |-> {"Storage", "Config", "Runtime", "RWLayerStats", "Image"},
           needs |-> {"Storage"},
           keeps |-> {"Storage", "Config", "Runtime", "RWLayerStats", "Image"},
           clears |-> {"Storage", "Config", "Runtime", "RWLayerStats", "Image"}, draws |-> TRUE]
RuntimeInfo == [asks |-> {"Runtime", "Config", "State"}, needs |-> {"Runtime"},
                keeps |-> {}, clears |-> {}, draws |-> TRUE]
NetworkInfo == [asks |-> {"Network"}, needs |-> {"Network"}, keeps |-> {}, clears |-> {},
                draws |-> TRUE]

View == [grid |-> Grid, summary |-> Summary, processSummary |-> ProcessSummary,
         processTree |-> ProcessTree, top |-> Top, mounts |-> Mounts, layers |-> Layers,
         runtime |-> RuntimeInfo, network |-> NetworkInfo]
This == View[view]

\* What a closure queued now draws: from what is kept, or from the answers.
Panels(a, c) ==
    CASE view = "grid" -> GridPanels(a)
      [] view = "summary" -> SummaryPanels(a)
      [] view = "processSummary" -> ProcessSections(a)
      [] view = "processTree" -> TreePanels(a, c)
      [] view = "top" -> TopPanels(a)
      [] view = "mounts" -> MountsTree(a)
      [] view = "layers" -> LayersPanels(a)
      [] view = "runtime" -> RuntimePanels(a)
      [] view = "network" -> NetworkPanels(a)

Blank == [p \in DOMAIN Panels(Nothing, NoContainer) |-> {}]

\* What is drawn when the mandatory answer did not come: a message, from what
\* is kept in the views that render it; Top leaves the network line alone.
Failed(k) ==
    CASE view \in {"mounts", "layers"} -> Panels(k, container)
      [] view = "top" -> [table |-> {}]
      [] OTHER -> Blank

NoJob == [pc |-> "idle", of |-> NoContainer, got |-> Nothing]

TypeOK ==
    /\ view \in DOMAIN View /\ container \in Maybe
    /\ kept \in [Question -> Maybe]
    /\ ui \in {"idle", "draw"}
    /\ job \in [Refresher -> [pc : {"idle", "ask", "store", "render", "error", "ended"},
                              of : Maybe, got : [Question -> Maybe]]]
    /\ \A d \in closures : DOMAIN d.draw \subseteq DOMAIN drawn
    /\ \A p \in DOMAIN drawn : drawn[p] \subseteq Container
    /\ warns \in BOOLEAN /\ pane \in {"processes", "cgroup", "fs", "image"}
    /\ opened \in 0..MaxOpen /\ due \in BOOLEAN /\ overtaken \in BOOLEAN

Init ==
    /\ view \in DOMAIN View
    /\ container = NoContainer /\ kept = Nothing
    /\ ui = "idle" /\ job = [r \in Refresher |-> NoJob]
    /\ closures = {}
    /\ drawn = [p \in DOMAIN Blank \cup {"detail"} |-> {}]
    /\ warns = FALSE /\ pane = "processes"
    /\ opened = 0 /\ due = FALSE /\ overtaken = FALSE

-----------------------------------------------------------------------------
Pending == closures # {} \/ \E r \in Refresher : job[r].pc \notin {"idle", "ended"}

\* A mutant: only what the error path checks is cleared.
SetContainerClearingMain(c) ==
    /\ ui = "idle" /\ opened < MaxOpen /\ c # container
    /\ container' = c
    /\ kept' = [q \in Question |-> IF q \in This.needs THEN NoContainer ELSE kept[q]]
    /\ ui' = IF This.draws THEN "draw" ELSE "idle"
    /\ opened' = opened + 1 /\ due' = TRUE
    /\ overtaken' = (overtaken \/ Pending)
    /\ UNCHANGED <<view, job, closures, drawn, warns, pane>>

SetContainer(c) ==
    /\ ui = "idle" /\ opened < MaxOpen /\ c # container
    /\ container' = c
    /\ kept' = [q \in Question |-> IF q \in This.clears THEN NoContainer ELSE kept[q]]
    /\ ui' = IF This.draws THEN "draw" ELSE "idle"
    /\ opened' = opened + 1 /\ due' = TRUE
    /\ overtaken' = (overtaken \/ Pending)
    /\ UNCHANGED <<view, job, closures, drawn, warns, pane>>

\* render of what is kept, or renderEmpty.
DrawCleared ==
    /\ ui = "draw" /\ ui' = "idle"
    /\ closures' = closures \cup
           {[by |-> opened, warns |-> FALSE,
             draw |-> IF This.keeps = {} THEN Blank ELSE Panels(kept, container)]}
    /\ UNCHANGED <<view, container, kept, job, drawn, warns, pane, opened, due, overtaken>>

-----------------------------------------------------------------------------
(***************************************************************************)
(* Refresh.                                                                *)
(***************************************************************************)

\* The handle is copied under the mutex.
Begin(r) ==
    /\ ui = "idle" /\ job[r].pc = "idle" /\ container # NoContainer
    /\ job' = [job EXCEPT ![r] = [@ EXCEPT !.pc = "ask", !.of = container]]
    /\ due' = FALSE
    /\ UNCHANGED <<view, container, kept, ui, closures, drawn, warns, pane, opened, overtaken>>

\* The questions; the grid keeps the PID of the first answer.
Ask(r) ==
    /\ job[r].pc = "ask"
    /\ \E missed \in UNION {kSubset(n, This.asks) : n \in 0..MaxFailed} :
          LET got == This.asks \ missed
              a   == [q \in Question |-> IF q \in got THEN job[r].of ELSE NoContainer]
          IN  /\ job' = [job EXCEPT ![r].got = a,
                                    ![r].pc = IF ~(This.needs \subseteq got) THEN "error"
                                              ELSE IF This.keeps = {} THEN "render" ELSE "store"]
              /\ kept' = IF view = "grid" /\ "Info" \in got THEN [kept EXCEPT !["Info"] = job[r].of]
                         ELSE kept
    /\ UNCHANGED <<view, container, ui, closures, drawn, warns, pane, opened, due, overtaken>>

\* A mutant: an answer that did not come leaves the one kept before.
StoreKeepingKnown(r) ==
    /\ job[r].pc = "store"
    /\ kept' = [q \in Question |-> IF job[r].got[q] # NoContainer THEN job[r].got[q] ELSE kept[q]]
    /\ job' = [job EXCEPT ![r].pc = "render"]
    /\ UNCHANGED <<view, container, ui, closures, drawn, warns, pane, opened, due, overtaken>>

\* All the answers are kept in one critical section, whoever has the page now.
Store(r) ==
    /\ job[r].pc = "store"
    /\ kept' = [q \in Question |-> IF q \in This.keeps THEN job[r].got[q] ELSE kept[q]]
    /\ job' = [job EXCEPT ![r].pc = "render"]
    /\ UNCHANGED <<view, container, ui, closures, drawn, warns, pane, opened, due, overtaken>>

\* Without the mandatory answer: it is forgotten (Layers keeps the rest), and a
\* message is drawn.
Forgets == CASE view = "layers" -> {"Storage"} [] view = "mounts" -> {"Mounts"} [] OTHER -> This.keeps

Fail(r) ==
    /\ job[r].pc = "error"
    /\ LET k == [q \in Question |-> IF q \in Forgets THEN NoContainer ELSE kept[q]]
       IN  kept' = k /\ closures' = closures \cup {[by |-> r, warns |-> FALSE, draw |-> Failed(k)]}
    /\ job' = [job EXCEPT ![r] = [NoJob EXCEPT !.pc = "ended"]]
    /\ UNCHANGED <<view, container, ui, drawn, warns, pane, opened, due, overtaken>>

\* A view that keeps answers reads them back, and the handle with them.
Render(r) ==
    /\ job[r].pc = "render"
    /\ LET a == IF This.keeps = {} THEN job[r].got ELSE kept
       IN  closures' = closures \cup
               {[by |-> r, warns |-> view = "grid" /\ StdioPanel(a) = {}, draw |-> Panels(a, container)]}
    /\ job' = [job EXCEPT ![r] = [NoJob EXCEPT !.pc = "ended"]]
    /\ UNCHANGED <<view, container, kept, ui, drawn, warns, pane, opened, due, overtaken>>

Refresh(r) == Begin(r) \/ Ask(r) \/ Store(r) \/ Fail(r) \/ Render(r)

-----------------------------------------------------------------------------
(***************************************************************************)
(* The UI goroutine.                                                       *)
(***************************************************************************)

\* The detail beside the grid is of the node a new tree has selected: a field
\* in the filesystem and image trees, none in the others.
DetailOf(d) == IF pane \in {"fs", "image"} THEN (IF pane = "fs" THEN d.fs ELSE d.image) ELSE {}

RunClosure(d) ==
    /\ ui = "idle" /\ d \in closures
    /\ closures' = closures \ {d}
    /\ drawn' = [p \in DOMAIN drawn |-> IF p \in DOMAIN d.draw THEN d.draw[p]
                                        ELSE IF p = "detail" /\ view = "grid" THEN DetailOf(d.draw)
                                        ELSE drawn[p]]
    /\ warns' = (warns \/ d.warns)
    /\ UNCHANGED <<view, container, kept, ui, job, pane, opened, due, overtaken>>

\* A pane of the grid gets the focus, or its cursor moves, to a node without
\* detail or with one.  A process is looked up under /proc of the PID kept.
Select(p) ==
    /\ ui = "idle" /\ view = "grid" /\ pane' = p
    /\ \E d \in {{}, drawn[p] \cup (IF p = "processes" /\ drawn[p] # {} THEN {kept["Info"]} \ {NoContainer}
                                    ELSE {})} :
          drawn' = [drawn EXCEPT !["detail"] = d]
    /\ UNCHANGED <<view, container, kept, ui, job, closures, warns, opened, due, overtaken>>

Next ==
    \/ (\E c \in Container : SetContainer(c)) \/ DrawCleared
    \/ (\E r \in Refresher : Refresh(r))
    \/ (\E d \in closures : RunClosure(d))
    \/ (\E p \in {"processes", "cgroup", "fs", "image"} : Select(p))

Spec == Init /\ [][Next]_vars

-----------------------------------------------------------------------------
(***************************************************************************)
(* Properties.                                                             *)
(***************************************************************************)

Quiet == ui = "idle" /\ ~Pending /\ ~due

\* The panels that are not drawn whole by every closure, or not from one handle.
Loose == {"detail"} \cup (IF view = "top" THEN {"net"} ELSE {}) \cup {"label"}

\* Where no container was opened over a load, what stays on screen is of the
\* container of the page: nothing that is kept or drawn outlives it, whichever
\* questions failed.  The grid's detail joins in when its PID is the
\* container's, or none.
DrawnIsOfThePage ==
    Quiet /\ ~overtaken =>
        /\ \A p \in DOMAIN drawn \ Loose : drawn[p] \subseteq {container}
        /\ view = "grid" /\ kept["Info"] \in {container, NoContainer} => drawn["detail"] \subseteq {container}

\* However openings and loads overlap, the panels of a view never show two
\* containers side by side: answers are kept, read back and drawn together.
PanelsShowOneContainer ==
    Cardinality(UNION {drawn[p] : p \in DOMAIN drawn \ {"detail", "label"}}) <= 1

\* "Append placeholder summary to cgroup panel title if needed"
\* (detail_grid_view.go:231): the title names missing answers only beside a
\* stdio panel without any.
TitleWarnsIfNeeded == Quiet /\ warns => drawn["stdio"] = {}
=============================================================================
