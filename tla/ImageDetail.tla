---------------------------- MODULE ImageDetail ----------------------------
(***************************************************************************)
(* The image page (pkg/ui/views/image_detail.go): four tabs over the info, *)
(* the config, the layers and the users of one image, with a file preview  *)
(* beside the platforms and two file browsers beside the layers, one for   *)
(* the diff of the selected layer and one for all layers merged.           *)
(*                                                                         *)
(* SetImage and the keys run on the UI goroutine, Refresh in goroutines of *)
(* its own.  Nothing is locked: a generation counter is to discard what    *)
(* was loaded for an earlier image.  A loaded value is represented by the  *)
(* image it is of, a drawn one likewise.                                   *)
(*                                                                         *)
(* Of tview: a tree whose root was replaced puts its cursor on the first   *)
(* selectable node at the next draw, and reports that as a change.  Back   *)
(* and the opening of an image are the application's (see Browse).         *)
(***************************************************************************)
EXTENDS Integers, Sequences

CONSTANTS
    Image, NoImage,
    LayerCount,         \* how many layers an image has
    HasDir,             \* the layers whose diff directory can be read
    Refresher,          \* bound: the calls of Refresh, each of its own goroutine
    MaxOpen             \* bound: openings

ASSUME ImageAssumption == NoImage \notin Image
ASSUME LayerAssumption == LayerCount \in [Image -> Nat] /\ HasDir \in [Image -> SUBSET Nat]
ASSUME OpenAssumption  == MaxOpen \in Nat

VARIABLES
    image, gen,         \* v.image, v.refreshGen
    data,               \* v.info, v.config, v.layers, v.usedBy
    page,               \* the active tab and what it was drawn from
    node, due,          \* the layer selected, or -1; the draw that selects one is due
    preview,            \* the platforms preview: open, focused
    diff,               \* the diff browser: open, focused, its layer
    merged,             \* the merged browser: open, focused, of which images,
                        \* the layer it highlights
    focus, shown,       \* the focused primitive; the page is on screen
    ui,                 \* where SetImage is
    job,                \* each Refresh: where it is and what it has
    redraws,            \* closures SetImage queued
    lapsed              \* history: a Refresh met a SetImage in one of its gaps,
                        \* or a SetImage came while the merged browser was open

viewVars == <<page, node, due, preview, diff, merged, focus, shown>>
vars     == <<image, gen, data, viewVars, ui, job, redraws, lapsed>>

Field  == <<"info", "config", "layers", "usedBy">>
Maybe  == Image \cup {NoImage}
Data   == [{"info", "config", "layers", "usedBy"} -> Maybe]
NoData == [f \in {"info", "config", "layers", "usedBy"} |-> NoImage]
Tab    == {"info", "platforms", "layers", "used-by"}
Layer  == [image : Image, index : Nat] \cup {NoImage}
NoPreview == [open |-> FALSE, focus |-> FALSE]
NoDiff    == [open |-> FALSE, focus |-> FALSE, of |-> NoImage]
NoMerged  == [open |-> FALSE, focus |-> FALSE, of |-> {}, sel |-> -1]

\* What each tab is drawn from: without the info, or the layers, nothing but a
\* message.
InfoShown(d) ==
    IF d.info = NoImage THEN NoData ELSE [NoData EXCEPT !.info = d.info, !.config = d.config]
PlatformsShown(d) == [NoData EXCEPT !.config = d.config]
LayersShown(d) ==
    IF d.layers = NoImage THEN NoData
    ELSE [NoData EXCEPT !.layers = d.layers, !.config = d.config]
UsedByShown(d) == [NoData EXCEPT !.usedBy = d.usedBy]

Shown(t, d) ==
    CASE t = "info" -> InfoShown(d)     [] t = "platforms" -> PlatformsShown(d)
      [] t = "layers" -> LayersShown(d) [] t = "used-by" -> UsedByShown(d)

NoJob == [pc |-> "idle", gen |-> 0, new |-> NoData, field |-> 1]
Ended == [NoJob EXCEPT !.pc = "ended"]

TypeOK ==
    /\ image \in Maybe /\ gen \in 0..MaxOpen
    /\ data \in Data
    /\ page \in [tab : Tab, of : Data]
    /\ node \in Int /\ due \in BOOLEAN
    /\ preview \in [open : BOOLEAN, focus : BOOLEAN]
    /\ diff \in [open : BOOLEAN, focus : BOOLEAN, of : Layer]
    /\ merged \in [open : BOOLEAN, focus : BOOLEAN, of : SUBSET Image, sel : Int]
    /\ focus \in {"manifest", "platforms", "preview", "layers", "diff", "merged", "used-by"}
    /\ shown \in BOOLEAN
    /\ ui \in [at : {"idle", "handle", "clear", "finish"}, image : Maybe, field : 1..5]
    /\ job \in [Refresher ->
                   [pc : {"idle", "ended", "gen", "info", "config", "layers", "failed", "check",
                          "store", "redraw", "error"},
                    gen : 0..MaxOpen, new : Data, field : 1..4]]
    /\ redraws \in 0..MaxOpen /\ lapsed \in BOOLEAN

Idle == [at |-> "idle", image |-> NoImage, field |-> 1]

Init ==
    /\ image = NoImage /\ gen = 0 /\ data = NoData
    /\ page = [tab |-> "info", of |-> NoData]
    /\ node = -1 /\ due = FALSE
    /\ preview = NoPreview /\ diff = NoDiff /\ merged = NoMerged
    /\ focus = "manifest" /\ shown = FALSE
    /\ ui = Idle /\ job = [r \in Refresher |-> NoJob]
    /\ redraws = 0 /\ lapsed = FALSE

-----------------------------------------------------------------------------
(***************************************************************************)
(* Drawing, on the UI goroutine.                                           *)
(***************************************************************************)

\* The diff browser of the layer selected; a message where its directory
\* cannot be read.
LayerAt(of, n) == IF n \in HasDir[of.layers] THEN [image |-> of.layers, index |-> n]
                  ELSE NoImage

\* A mutant: the browser stays where it was opened.
FollowNothing(n) == diff' = diff

\* followLayersBrowserSelection: a node that is no layer changes nothing.
FollowLayers(n) ==
    diff' = IF diff.open /\ n >= 0 THEN [diff EXCEPT !.of = LayerAt(page.of, n)] ELSE diff

\* The change callback of the layers tree.
Changed(n) ==
    /\ FollowLayers(n)
    /\ merged' = IF merged.open THEN [merged EXCEPT !.sel = n] ELSE merged

\* renderInfo, renderPlatforms, renderLayers, renderUsedBy: the tab t is drawn
\* from d.  A new layers tree has its root selected until the next draw.
RenderTab(t, d) ==
    /\ page' = [tab |-> t, of |-> Shown(t, d)]
    /\ IF t = "layers"
       THEN node' = -1 /\ due' = (d.layers # NoImage /\ LayerCount[d.layers] > 0)
       ELSE UNCHANGED <<node, due>>

\* The draw that follows every closure and every key.
DrawDue == due /\ shown /\ page.tab = "layers"

Draw ==
    /\ DrawDue
    /\ node' = 0 /\ due' = FALSE /\ Changed(0)
    /\ UNCHANGED <<image, gen, data, page, preview, focus, shown, ui, job, redraws, lapsed>>

\* GetFocusPrimitive.
GetFocusPrimitive(t, p, m, d) ==
    CASE t = "info" -> "manifest"
      [] t = "platforms" -> IF p.open /\ p.focus THEN "preview" ELSE "platforms"
      [] t = "layers" -> IF m.open /\ m.focus THEN "merged"
                         ELSE IF d.open /\ d.focus THEN "diff" ELSE "layers"
      [] t = "used-by" -> "used-by"

Refocus == focus' = GetFocusPrimitive(page'.tab, preview', merged', diff')

UIFree == ui = Idle /\ ~DrawDue

-----------------------------------------------------------------------------
(***************************************************************************)
(* SetImage, and the application's callback around it.                     *)
(***************************************************************************)

\* The generation is raised before the handle is replaced.
OpenImage(i) ==
    /\ UIFree /\ ~shown /\ gen < MaxOpen
    /\ gen' = gen + 1
    /\ ui' = [at |-> "handle", image |-> i, field |-> 1]
    /\ lapsed' = (lapsed \/ merged.open \/ \E r \in Refresher : job[r].pc = "store")
    /\ UNCHANGED <<image, data, viewVars, job, redraws>>

SetHandle ==
    /\ ui.at = "handle"
    /\ image' = ui.image /\ ui' = [ui EXCEPT !.at = "clear"]
    /\ lapsed' = (lapsed \/ \E r \in Refresher :
                       job[r].gen = gen /\ job[r].pc \notin {"idle", "ended", "gen", "redraw", "error"})
    /\ UNCHANGED <<gen, data, viewVars, job, redraws>>

ClearField ==
    /\ ui.at = "clear"
    /\ data' = [data EXCEPT ![Field[ui.field]] = NoImage]
    /\ ui' = [ui EXCEPT !.field = @ + 1, !.at = IF ui.field = 4 THEN "finish" ELSE @]
    /\ UNCHANGED <<image, gen, viewVars, job, redraws, lapsed>>

\* The redraw is queued, the load started, the page brought on screen.
FinishOpen(r) ==
    /\ ui.at = "finish" /\ job[r].pc = "idle"
    /\ redraws' = redraws + 1
    /\ job' = [job EXCEPT ![r].pc = "gen"]
    /\ shown' = TRUE
    /\ focus' = GetFocusPrimitive(page.tab, preview, merged, diff)
    /\ ui' = Idle
    /\ UNCHANGED <<image, gen, data, page, node, due, preview, diff, merged, lapsed>>

-----------------------------------------------------------------------------
(***************************************************************************)
(* Refresh, in a goroutine.  Every call reads v.image anew.                *)
(***************************************************************************)

Goto(r, place) == job' = [job EXCEPT ![r].pc = place]
LoadVars == <<image, gen, viewVars, ui, redraws, lapsed>>

LoadGen(r) ==
    /\ job[r].pc = "gen"
    /\ job' = [job EXCEPT ![r] = IF image = NoImage THEN Ended
                                 ELSE [@ EXCEPT !.pc = "info", !.gen = gen]]
    /\ UNCHANGED <<data, LoadVars>>

CallInfo(r) ==
    /\ job[r].pc = "info"
    /\ \/ job' = [job EXCEPT ![r].pc = "config", ![r].new.info = image]
       \/ Goto(r, "failed")
    /\ UNCHANGED <<data, LoadVars>>

\* (An error of Config, Layers or the users leaves the field nil.)
CallConfig(r) ==
    /\ job[r].pc = "config"
    /\ job' = [job EXCEPT ![r].pc = "layers", ![r].new.config = image]
    /\ UNCHANGED <<data, LoadVars>>

\* Layers, and resolveUsedBy with the info loaded before.
CallLayers(r) ==
    /\ job[r].pc = "layers"
    /\ job' = [job EXCEPT ![r].pc = "check", ![r].new.layers = image,
                          ![r].new.usedBy = job[r].new.info]
    /\ UNCHANGED <<data, LoadVars>>

\* A mutant: the results are stored without a look at the generation.
CheckNothing(r) ==
    /\ job[r].pc \in {"check", "failed"}
    /\ Goto(r, IF job[r].pc = "check" THEN "store" ELSE "error")
    /\ UNCHANGED <<data, LoadVars>>

CheckGen(r) ==
    /\ job[r].pc \in {"check", "failed"}
    /\ job' = [job EXCEPT ![r] = IF gen # job[r].gen THEN Ended
                                 ELSE IF job[r].pc = "check" THEN [@ EXCEPT !.pc = "store"]
                                 ELSE [NoJob EXCEPT !.pc = "error"]]
    /\ UNCHANGED <<data, LoadVars>>

\* The four assignments, one by one, and the closure.
StoreField(r) ==
    /\ job[r].pc = "store"
    /\ data' = [data EXCEPT ![Field[job[r].field]] = job[r].new[Field[job[r].field]]]
    /\ job' = [job EXCEPT ![r] = IF job[r].field = 4 THEN [NoJob EXCEPT !.pc = "redraw"]
                                 ELSE [@ EXCEPT !.field = job[r].field + 1]]
    /\ UNCHANGED LoadVars

Refresh(r) ==
    \/ LoadGen(r) \/ CallInfo(r) \/ CallConfig(r) \/ CallLayers(r)
    \/ CheckGen(r) \/ StoreField(r)

-----------------------------------------------------------------------------
(***************************************************************************)
(* The closures: SetImage's draws every tab, Refresh's the active one.  A  *)
(* tab that is not active is drawn anew before it is shown.                *)
(***************************************************************************)

\* A mutant: the closure queues another one.
RunRedrawAgain ==
    /\ UIFree /\ redraws > 0
    /\ RenderTab(page.tab, data)
    /\ redraws' = redraws + 1
    /\ UNCHANGED <<image, gen, data, preview, diff, merged, focus, shown, ui, job, lapsed>>

RunRedraw ==
    /\ UIFree /\ redraws > 0
    /\ RenderTab(page.tab, data)
    /\ redraws' = redraws - 1
    /\ UNCHANGED <<image, gen, data, preview, diff, merged, focus, shown, ui, job, lapsed>>

\* A mutant: the closure draws the tab it finds active, and only the header
\* while a browser is open.
RunRefreshedUnlessBrowsing(r) ==
    /\ UIFree /\ job[r].pc = "redraw"
    /\ IF merged.open \/ diff.open THEN UNCHANGED <<page, node, due>>
       ELSE RenderTab(page.tab, data)
    /\ job' = [job EXCEPT ![r] = Ended]
    /\ UNCHANGED <<image, gen, data, preview, diff, merged, focus, shown, ui, redraws, lapsed>>

RunRefreshed(r) ==
    /\ UIFree /\ job[r].pc = "redraw"
    /\ RenderTab(page.tab, data)
    /\ job' = [job EXCEPT ![r] = Ended]
    /\ UNCHANGED <<image, gen, data, preview, diff, merged, focus, shown, ui, redraws, lapsed>>

\* The error closure writes the header and nothing else.
RunFailed(r) ==
    /\ UIFree /\ job[r].pc = "error"
    /\ job' = [job EXCEPT ![r] = Ended]
    /\ UNCHANGED <<image, gen, data, viewVars, ui, redraws, lapsed>>

-----------------------------------------------------------------------------
(***************************************************************************)
(* Keys: HandleInput.                                                      *)
(***************************************************************************)

KeyVars == <<image, gen, data, ui, job, redraws>>
Key == UIFree /\ shown

Back ==
    /\ Key /\ shown' = FALSE
    /\ UNCHANGED <<KeyVars, page, node, due, preview, diff, merged, focus, lapsed>>

PressRefresh(r) ==
    /\ Key /\ job[r].pc = "idle" /\ Goto(r, "gen")
    /\ UNCHANGED <<image, gen, data, viewVars, ui, redraws, lapsed>>

\* switchTab closes the preview or the browsers of the tab it enters.  (What a
\* closed pane holds is replaced when it opens.)
SwitchTab(t) ==
    /\ Key
    /\ RenderTab(t, data)
    /\ preview' = IF t = "platforms" THEN NoPreview ELSE preview
    /\ IF t = "layers" THEN diff' = NoDiff /\ merged' = NoMerged
       ELSE UNCHANGED <<diff, merged>>
    /\ Refocus
    /\ UNCHANGED <<KeyVars, shown, lapsed>>

\* Tab moves between the panes where two are open, else to the next tab.
SwitchPane ==
    /\ Key
    /\ \/ /\ page.tab = "platforms" /\ preview.open
          /\ preview' = [preview EXCEPT !.focus = ~@]
          /\ UNCHANGED <<diff, merged>>
       \/ /\ page.tab = "layers" /\ diff.open
          /\ diff' = [diff EXCEPT !.focus = ~@]
          /\ UNCHANGED <<preview, merged>>
       \/ /\ page.tab = "layers" /\ ~diff.open /\ merged.open
          /\ merged' = [merged EXCEPT !.focus = ~@]
          /\ UNCHANGED <<preview, diff>>
    /\ page' = page /\ Refocus
    /\ UNCHANGED <<KeyVars, node, due, shown, lapsed>>

\* p.
TogglePreview ==
    /\ Key /\ page.tab = "platforms"
    /\ preview' = IF preview.open THEN NoPreview ELSE [preview EXCEPT !.open = TRUE]
    /\ focus' = IF preview.open THEN "platforms" ELSE focus
    /\ UNCHANGED <<KeyVars, page, node, due, diff, merged, shown, lapsed>>

\* The cursor moves to a layer, or to a field of one.
MoveLayers ==
    /\ Key /\ focus = "layers" /\ page.of.layers # NoImage
    /\ \E n \in (-1..LayerCount[page.of.layers] - 1) \ {node} : node' = n /\ Changed(n)
    /\ UNCHANGED <<KeyVars, page, due, preview, focus, shown, lapsed>>

\* initMergedTree merges the layers the view holds now.
MergedNow(m) == [m EXCEPT !.of = {data.layers} \ {NoImage}, !.sel = node]

Browsable == data.layers # NoImage /\ HasDir[data.layers] \cap 0..LayerCount[data.layers] - 1 # {}

\* A mutant: i opens the merged browser beside the diff browser.
PressMergedBeside ==
    /\ Key /\ page.tab = "layers"
    /\ diff' = diff
    /\ merged' = IF merged.open THEN NoMerged
                 ELSE IF Browsable THEN MergedNow([merged EXCEPT !.open = TRUE, !.focus = TRUE])
                 ELSE merged
    /\ focus' = IF merged.open \/ diff.open \/ Browsable
                THEN (IF merged'.open THEN "merged" ELSE "layers") ELSE focus
    /\ lapsed' = lapsed
    /\ UNCHANGED <<KeyVars, page, node, due, preview, shown>>

\* i: the diff browser closes; the merged one closes, or opens if any layer's
\* directory can be read.
PressMerged ==
    /\ Key /\ page.tab = "layers"
    /\ diff' = IF diff.open THEN NoDiff ELSE diff
    /\ merged' = IF merged.open THEN NoMerged
                 ELSE IF Browsable THEN MergedNow([merged EXCEPT !.open = TRUE, !.focus = TRUE])
                 ELSE merged
    /\ focus' = IF merged.open \/ diff.open \/ Browsable
                THEN (IF merged'.open THEN "merged" ELSE "layers") ELSE focus
    /\ UNCHANGED <<KeyVars, page, node, due, preview, shown, lapsed>>

\* I: the merged browser closes; the diff one closes, or opens on the layer
\* selected if its directory can be read.
PressDiff ==
    /\ Key /\ page.tab = "layers"
    /\ merged' = IF merged.open THEN NoMerged ELSE merged
    /\ LET opens == node >= 0 /\ LayerAt(page.of, node) # NoImage
       IN  /\ diff' = IF diff.open THEN NoDiff
                      ELSE IF opens THEN [open |-> TRUE, focus |-> TRUE, of |-> LayerAt(page.of, node)]
                      ELSE diff
           /\ focus' = IF merged.open \/ diff.open \/ opens
                       THEN (IF diff'.open THEN "diff" ELSE "layers") ELSE focus
    /\ UNCHANGED <<KeyVars, page, node, due, preview, shown, lapsed>>

\* d rebuilds the merged tree with or without the deleted names.
PressDeleted ==
    /\ Key /\ page.tab = "layers" /\ merged.open
    /\ merged' = MergedNow(merged)
    /\ UNCHANGED <<KeyVars, page, node, due, preview, diff, focus, shown, lapsed>>

\* e, Enter on a directory: its children are merged when it is first opened.
ExpandMerged ==
    /\ Key /\ focus = "merged"
    /\ merged' = [merged EXCEPT !.of = @ \cup ({data.layers} \ {NoImage})]
    /\ UNCHANGED <<KeyVars, page, node, due, preview, diff, focus, shown, lapsed>>

Keys ==
    \/ Back \/ (\E r \in Refresher : PressRefresh(r)) \/ (\E t \in Tab : SwitchTab(t))
    \/ SwitchPane \/ TogglePreview \/ MoveLayers
    \/ PressMerged \/ PressDiff \/ PressDeleted \/ ExpandMerged

Next ==
    \/ (\E i \in Image : OpenImage(i)) \/ SetHandle \/ ClearField
    \/ (\E r \in Refresher : FinishOpen(r) \/ Refresh(r) \/ RunRefreshed(r) \/ RunFailed(r))
    \/ RunRedraw \/ Draw \/ Keys

Spec == Init /\ [][Next]_vars

-----------------------------------------------------------------------------
(***************************************************************************)
(* Properties.                                                             *)
(***************************************************************************)

Quiet == ui = Idle /\ ~DrawDue /\ redraws = 0 /\ \A r \in Refresher : job[r].pc \in {"idle", "ended"}

\* Whatever loads, closures and keys overlapped: when all is quiet the tab on
\* screen is drawn from what the view holds.
QuietTabIsOfStored == Quiet => page.of = Shown(page.tab, data)

\* One browser at a time, and the keys go to a pane that is open, also when
\* the page is left and opened again with its panes as they were.
FocusOnOpenPane ==
    /\ ~(merged.open /\ diff.open)
    /\ shown => focus = GetFocusPrimitive(page.tab, preview, merged, diff)

\* "re-binds the open single-layer diff browser to whatever layer is now
\* selected": it never shows another layer, or another image's, also after a
\* refresh or an opening has replaced the layers.
DiffFollowsSelection ==
    page.tab = "layers" /\ diff.open /\ shown /\ ~DrawDue /\ node >= 0
        => diff.of = LayerAt(page.of, node)

\* What the view holds is of the image on the page, field by field, and the
\* merged tree mixes no other image in, unless a load met an opening in one of
\* its gaps or an opening found the merged browser open.
HeldIsOfImage ==
    ~lapsed /\ ui = Idle
        => /\ \A f \in DOMAIN data : data[f] \in {image, NoImage}
           /\ merged.open => merged.of \subseteq {image}
=============================================================================
