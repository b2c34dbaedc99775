-------------------------- MODULE ContainerDetail --------------------------
(***************************************************************************)
(* Loading the header of the container detail page                         *)
(* (pkg/ui/views/container_detail.go).  SetContainer runs on the UI        *)
(* goroutine and writes the view's fields one after another; every Refresh *)
(* is a goroutine that reads them, asks the runtime, and compares the      *)
(* generation counter before it stores its answer.  Only the counter is    *)
(* atomic.  What a Refresh has to show travels to the UI goroutine as a    *)
(* closure; queueUpdateDraw hands each to a goroutine of its own, so the   *)
(* closures run in any order.                                              *)
(***************************************************************************)
EXTENDS PageParams

CONSTANT Refresher      \* bound: the Refresh goroutines that may be alive at once

VARIABLES
    refreshGen,         \* ContainerDetailView.refreshGen
    container,          \* ContainerDetailView.container
    info,               \* whose info and ...
    state,              \* ... whose state the view holds
    layersPID,          \* whose PID ImageLayersView.containerPID is
    header,             \* what headerBar and contextBar show
    ui,                 \* how far SetContainer has come
    uiClosures,         \* closures SetContainer queued and that did not run yet
    pc,                 \* where each Refresh is
    gen,                \* Refresh: the generation it loaded
    got,                \* Refresh: whose info and state it received
    closure,            \* the closure each Refresh queued
    opened              \* history: the container each generation was opened for

fields    == <<refreshGen, container, info, state, layersPID>>
uiVars    == <<header, ui, uiClosures, opened>>
loadVars  == <<pc, gen, got, closure>>
vars      == <<fields, uiVars, loadVars>>

Gen     == 0..MaxOpens
Handle  == Container \cup {NoContainer}
Loading == [kind |-> "loading", of |-> NoContainer]

TypeOK ==
    /\ refreshGen \in Gen
    /\ container \in Handle /\ info \in Handle /\ state \in Handle
    /\ layersPID \in Handle
    /\ header \in [kind : {"loading", "info", "error"}, of : Handle]
    /\ ui \in {"idle", "bumped", "switched", "cleared"}
    /\ uiClosures \in Gen
    /\ pc \in [Refresher -> {"idle", "begin", "info", "failed", "state",
                             "check", "store", "pid"}]
    /\ gen \in [Refresher -> Gen]
    /\ got \in [Refresher -> [info : Handle, state : Handle]]
    /\ closure \in [Refresher -> {"none", "render", "error"}]
    /\ opened \in [Gen -> Handle]

Init ==
    /\ refreshGen = 0 /\ container = NoContainer
    /\ info = NoContainer /\ state = NoContainer /\ layersPID = NoContainer
    /\ header = Loading
    /\ ui = "idle" /\ uiClosures = 0
    /\ pc = [r \in Refresher |-> "idle"]
    /\ gen = [r \in Refresher |-> 0]
    /\ got = [r \in Refresher |-> [info |-> NoContainer, state |-> NoContainer]]
    /\ closure = [r \in Refresher |-> "none"]
    /\ opened = [g \in Gen |-> NoContainer]

-----------------------------------------------------------------------------
(***************************************************************************)
(* The UI goroutine: SetContainer, the r key, and the queued closures.  It *)
(* does one of these at a time.                                            *)
(***************************************************************************)

Free(r) == pc[r] = "idle" /\ closure[r] = "none"

Goto(r, where) == pc' = [pc EXCEPT ![r] = where]

\* SetContainer(c) begins: the generation moves first ...
OpenContainer(c) ==
    /\ ui = "idle" /\ refreshGen < MaxOpens
    /\ \E r \in Refresher : Free(r)
    /\ refreshGen' = refreshGen + 1
    /\ opened' = [opened EXCEPT ![refreshGen + 1] = c]
    /\ ui' = "bumped"
    /\ UNCHANGED <<container, info, state, layersPID, header, uiClosures, loadVars>>

\* ... then the handle ...
SwitchContainer ==
    /\ ui = "bumped"
    /\ container' = opened[refreshGen]
    /\ ui' = "switched"
    /\ UNCHANGED <<refreshGen, info, state, layersPID, header, uiClosures, opened,
                   loadVars>>

\* ... the old results are dropped ...
ClearResults ==
    /\ ui = "switched"
    /\ info' = NoContainer /\ state' = NoContainer
    /\ ui' = "cleared"
    /\ UNCHANGED <<refreshGen, container, layersPID, header, uiClosures, opened,
                   loadVars>>

\* A mistake: leaving the first load to the user.
FinishOpenUnloaded ==
    /\ ui = "cleared"
    /\ layersPID' = NoContainer
    /\ uiClosures' = uiClosures + 1
    /\ ui' = "idle"
    /\ UNCHANGED <<refreshGen, container, info, state, header, opened, loadVars>>

\* ... and after the subviews, a redraw is queued and a Refresh spawned.
FinishOpen ==
    /\ ui = "cleared"
    /\ layersPID' = NoContainer
    /\ uiClosures' = uiClosures + 1
    /\ \E r \in Refresher : Free(r) /\ Goto(r, "begin")
    /\ ui' = "idle"
    /\ UNCHANGED <<refreshGen, container, info, state, header, opened, gen, got,
                   closure>>

\* The r key on the detail page.
PressRefresh(r) ==
    /\ ui = "idle" /\ container # NoContainer
    /\ Free(r) /\ Goto(r, "begin")
    /\ UNCHANGED <<fields, uiVars, gen, got, closure>>

\* renderHeader.
HeaderOf(i) == IF i = NoContainer THEN Loading ELSE [kind |-> "info", of |-> i]

renderHeader == header' = HeaderOf(info)

\* A mistake: a redraw that runs once more than it was queued.
RunUIClosureAgain ==
    /\ ui = "idle"
    /\ renderHeader
    /\ uiClosures' = uiClosures - 1
    /\ UNCHANGED <<fields, ui, opened, loadVars>>

RunUIClosure ==
    /\ ui = "idle" /\ uiClosures > 0
    /\ renderHeader
    /\ uiClosures' = uiClosures - 1
    /\ UNCHANGED <<fields, ui, opened, loadVars>>

RunClosure(r) ==
    /\ ui = "idle" /\ closure[r] # "none"
    /\ IF closure[r] = "render"
       THEN renderHeader
       ELSE header' = [kind |-> "error", of |-> got[r].info]
    /\ closure' = [closure EXCEPT ![r] = "none"]
    /\ UNCHANGED <<fields, ui, uiClosures, opened, pc, gen, got>>

-----------------------------------------------------------------------------
(***************************************************************************)
(* Refresh.                                                                *)
(***************************************************************************)

LoadGen(r) ==
    /\ pc[r] = "begin"
    /\ IF container = NoContainer
       THEN Goto(r, "idle") /\ UNCHANGED gen
       ELSE Goto(r, "info") /\ gen' = [gen EXCEPT ![r] = refreshGen]
    /\ UNCHANGED <<fields, uiVars, got, closure>>

\* v.container.Info: the handle is read now, whatever generation was loaded.
CallInfo(r) ==
    /\ pc[r] = "info"
    /\ got' = [got EXCEPT ![r] = [info |-> container, state |-> NoContainer]]
    /\ Goto(r, "state") \/ Goto(r, "failed")
    /\ UNCHANGED <<fields, uiVars, gen, closure>>

FailCheck(r) ==
    /\ pc[r] = "failed"
    /\ closure' = IF refreshGen = gen[r] THEN [closure EXCEPT ![r] = "error"]
                                         ELSE closure
    /\ Goto(r, "idle")
    /\ UNCHANGED <<fields, uiVars, gen, got>>

\* v.container.State: the handle is read again; an error leaves nil.
CallState(r) ==
    /\ pc[r] = "state"
    /\ \E s \in {container, NoContainer} : got' = [got EXCEPT ![r].state = s]
    /\ Goto(r, "check")
    /\ UNCHANGED <<fields, uiVars, gen, closure>>

\* A mistake: storing whatever arrives.
CheckNothing(r) ==
    /\ pc[r] = "check"
    /\ Goto(r, "store")
    /\ UNCHANGED <<fields, uiVars, gen, got, closure>>

\* "Discard stale result if container was switched while we were loading."
CheckGen(r) ==
    /\ pc[r] = "check"
    /\ IF refreshGen = gen[r] THEN Goto(r, "store") ELSE Goto(r, "idle")
    /\ UNCHANGED <<fields, uiVars, gen, got, closure>>

Store(r) ==
    /\ pc[r] = "store"
    /\ info' = got[r].info /\ state' = got[r].state
    /\ Goto(r, "pid")
    /\ UNCHANGED <<refreshGen, container, layersPID, uiVars, gen, got, closure>>

\* A mistake: storing without a redraw.
StorePIDUndrawn(r) ==
    /\ pc[r] = "pid"
    /\ layersPID' = got[r].info
    /\ Goto(r, "idle")
    /\ UNCHANGED <<refreshGen, container, info, state, uiVars, gen, got, closure>>

StorePID(r) ==
    /\ pc[r] = "pid"
    /\ layersPID' = got[r].info
    /\ closure' = [closure EXCEPT ![r] = "render"]
    /\ Goto(r, "idle")
    /\ UNCHANGED <<refreshGen, container, info, state, uiVars, gen, got>>

Refresh(r) ==
    \/ LoadGen(r) \/ CallInfo(r) \/ FailCheck(r) \/ CallState(r)
    \/ CheckGen(r) \/ Store(r) \/ StorePID(r)

-----------------------------------------------------------------------------
OpenStep == SwitchContainer \/ ClearResults \/ FinishOpen

Next ==
    \/ \E c \in Container : OpenContainer(c)
    \/ OpenStep
    \/ RunUIClosure
    \/ \E r \in Refresher : PressRefresh(r) \/ RunClosure(r) \/ Refresh(r)

\* A handler, a goroutine and a queued closure proceed; the runtime answers or
\* fails.  The user owes nothing.
Fairness ==
    /\ WF_vars(OpenStep)
    /\ WF_vars(RunUIClosure)
    /\ \A r \in Refresher : WF_vars(Refresh(r)) /\ WF_vars(RunClosure(r))

Spec     == Init /\ [][Next]_vars
FairSpec == Spec /\ Fairness

-----------------------------------------------------------------------------
(***************************************************************************)
(* Properties.                                                             *)
(***************************************************************************)

\* Nothing is under way: what the page shows now is what it goes on showing.
Quiet ==
    /\ ui = "idle" /\ uiClosures = 0
    /\ \A r \in Refresher : Free(r)

\* An answer that passes the check is of the container its generation was
\* opened for, or of the one just before it: never of an older one, however
\* long the runtime took.
AcceptedAtMostOneBehind ==
    \A r \in Refresher :
        pc[r] \in {"store", "pid"} =>
            \E g \in Gen : g \in {gen[r], gen[r] - 1} /\ got[r].info = opened[g]

\* Whatever order the closures ran in, a quiet page that shows no error shows
\* the info the view holds: no store is left undrawn.
HeaderReflectsInfo ==
    Quiet /\ header.kind # "error" => header = HeaderOf(info)

\* As long as the runtime answers, the page of the container opened last ends
\* up with an info for good.
InfoArrives ==
    [](\A r \in Refresher : pc[r] # "failed") /\ <>[](ui = "idle" /\ refreshGen > 0)
        => <>[](header.kind = "info")

\* "SetContainer sets the container handle to display and loads initial data.":
\* the page of the container opened last does not stay at "Loading container
\* detail...", also when the load fails.
HeaderSettles ==
    <>[](ui = "idle" /\ refreshGen > 0) => <>[](header.kind # "loading")

\* "Discard stale result if container was switched while we were loading.": a
\* quiet page shows the container that was opened.
HeaderShowsContainer ==
    Quiet /\ header.kind = "info" => header.of = container
=============================================================================
