------------------------------ MODULE TopView ------------------------------
(***************************************************************************)
(* The auto-refresh loop of the process top page                           *)
(* (pkg/ui/views/top_view.go) together with everything that starts and     *)
(* stops it: the tab switches of the processes workspace                   *)
(* (processes_view.go) and of the container detail page                    *)
(* (container_detail.go), leaving that page, and the shutdown of the       *)
(* application (pkg/ui/app.go).                                            *)
(*                                                                         *)
(* StartAutoRefresh spawns a goroutine, here a "loop", and makes a channel *)
(* for it; loop n is the n-th one spawned and channel n the one made with  *)
(* it.  The loop evaluates the FIELD refreshStop, without the mutex, each  *)
(* time it comes to its select statement, so it may wait on another        *)
(* channel than its own, or on nil.                                        *)
(***************************************************************************)
EXTENDS Naturals

CONSTANT MaxLoops       \* bound: how many loops are spawned in a behaviour

ASSUME MaxLoopsAssumption == MaxLoops \in Nat \ {0}

VARIABLES
    page,               \* the page on screen
    detailTab,          \* ContainerDetailView.activeTab
    procTab,            \* ProcessesView.activeTab
    switching,          \* target of a ProcessesView.switchTab under way
    refreshRunning,     \* TopView.refreshRunning
    refreshStop,        \* TopView.refreshStop
    closed,             \* the channels that were closed
    spawned,            \* the number of loops spawned so far
    pc,                 \* where each loop is
    sel,                \* the stop channel each loop's select waits on
    app                 \* how far App.Stop has come

uiVars   == <<page, detailTab, procTab, switching>>
stopVars == <<refreshRunning, refreshStop, closed>>
loopVars == <<spawned, pc, sel>>
vars     == <<uiVars, stopVars, loopVars, app>>

Loop   == 1..MaxLoops
NoChan == 0             \* the nil channel: a receive from it never proceeds
NoTab  == "none"

Page      == {"main", "detail"}
DetailTab == {"processes", "other"}    \* info, filesystem, runtime, network
ProcTab   == {"top", "other"}          \* summary, tree
LoopState == {"unborn", "top", "select", "refresh", "exiting", "done"}
AppState  == {"running", "left", "cancelled", "exited"}

TypeOK ==
    /\ page \in Page
    /\ detailTab \in DetailTab
    /\ procTab \in ProcTab
    /\ switching \in ProcTab \cup {NoTab}
    /\ refreshRunning \in BOOLEAN
    /\ refreshStop \in Loop \cup {NoChan}
    /\ closed \in SUBSET Loop
    /\ spawned \in 0..MaxLoops
    /\ pc \in [Loop -> LoopState]
    /\ sel \in [Loop -> Loop \cup {NoChan}]
    /\ app \in AppState

Init ==
    /\ page = "main" /\ detailTab = "other" /\ procTab = "other"
    /\ switching = NoTab
    /\ refreshRunning = FALSE /\ refreshStop = NoChan /\ closed = {}
    /\ spawned = 0
    /\ pc = [l \in Loop |-> "unborn"]
    /\ sel = [l \in Loop |-> NoChan]
    /\ app = "running"

CtxDone == app \in {"cancelled", "exited"}      \* v.ctx.Done() is closed

-----------------------------------------------------------------------------
(***************************************************************************)
(* The two methods every caller below uses.  Each is one critical section  *)
(* of TopView.mu.                                                          *)
(***************************************************************************)

StartAutoRefresh ==
    IF refreshRunning
    THEN UNCHANGED <<stopVars, loopVars>>
    ELSE /\ refreshRunning' = TRUE
         /\ spawned' = spawned + 1
         /\ refreshStop' = spawned + 1
         /\ pc' = [pc EXCEPT ![spawned + 1] = "top"]
         /\ UNCHANGED <<closed, sel>>

\* Mistakes a change of StopAutoRefresh could make: forgetting to reset the
\* fields, forgetting only the flag, and closing without asking the flag.
StopKeepsFields ==
    /\ IF refreshRunning /\ refreshStop # NoChan
       THEN closed' = closed \cup {refreshStop}
       ELSE UNCHANGED closed
    /\ UNCHANGED <<refreshRunning, refreshStop, loopVars>>

StopKeepsRunning ==
    /\ IF refreshRunning /\ refreshStop # NoChan
       THEN closed' = closed \cup {refreshStop} /\ refreshStop' = NoChan
       ELSE UNCHANGED <<closed, refreshStop>>
    /\ UNCHANGED <<refreshRunning, loopVars>>

StopUnguarded ==
    /\ closed' = closed \cup {refreshStop}
    /\ refreshRunning' = FALSE
    /\ refreshStop' = NoChan
    /\ UNCHANGED loopVars

StopAutoRefresh ==
    /\ IF refreshRunning /\ refreshStop # NoChan
       THEN /\ closed' = closed \cup {refreshStop}
            /\ refreshRunning' = FALSE
            /\ refreshStop' = NoChan
       ELSE UNCHANGED stopVars
    /\ UNCHANGED loopVars

\* The bound on spawning, asked of a handler before it begins.
MayStart == spawned < MaxLoops

-----------------------------------------------------------------------------
(***************************************************************************)
(* Handlers of the UI goroutine.  The event loop runs one at a time, until *)
(* tview has stopped.                                                      *)
(***************************************************************************)

UIReady == switching = NoTab /\ app # "exited"

\* Enter on a container row: SetContainer and NavigateToAndFocus.  The tabs
\* keep the values they had when the page was left.
OpenContainer ==
    /\ UIReady /\ page = "main"
    /\ page' = "detail"
    /\ UNCHANGED <<detailTab, procTab, switching, stopVars, loopVars, app>>

\* Esc or q on the detail page: Leave, then the navigator's Back.
Back ==
    /\ UIReady /\ page = "detail"
    /\ StopAutoRefresh
    /\ page' = "main"
    /\ UNCHANGED <<detailTab, procTab, switching, app>>

\* ContainerDetailView.switchTab.
ToProcesses ==
    /\ UIReady /\ page = "detail" /\ MayStart
    /\ detailTab' = "processes"
    /\ IF procTab = "top" THEN StartAutoRefresh
                          ELSE UNCHANGED <<stopVars, loopVars>>
    /\ UNCHANGED <<page, procTab, switching, app>>

ToOtherDetailTab ==
    /\ UIReady /\ page = "detail"
    /\ detailTab' = "other"
    /\ IF detailTab = "processes" THEN StopAutoRefresh
                                  ELSE UNCHANGED <<stopVars, loopVars>>
    /\ UNCHANGED <<page, procTab, switching, app>>

\* ProcessesView.switchTab releases TopView.mu between stopping and starting,
\* so that a loop or the shutdown may take it in between.
BeginSwitch(tab) ==
    /\ UIReady /\ page = "detail" /\ detailTab = "processes" /\ MayStart
    /\ StopAutoRefresh
    /\ switching' = tab
    /\ UNCHANGED <<page, detailTab, procTab, app>>

EndSwitch ==
    /\ switching # NoTab
    /\ procTab' = switching
    /\ switching' = NoTab
    /\ IF switching = "top" THEN StartAutoRefresh
                            ELSE UNCHANGED <<stopVars, loopVars>>
    /\ UNCHANGED <<page, detailTab, app>>

UIStep ==
    \/ OpenContainer \/ Back
    \/ ToProcesses \/ ToOtherDetailTab
    \/ \E tab \in ProcTab : BeginSwitch(tab)
    \/ EndSwitch

-----------------------------------------------------------------------------
(***************************************************************************)
(* App.Stop, from the signal goroutine or from a key: the once body calls  *)
(* detailView.Leave and then cancel, and tview stops after it.             *)
(***************************************************************************)

AppLeave ==
    /\ app = "running"
    /\ app' = "left"
    /\ StopAutoRefresh
    /\ UNCHANGED uiVars

AppCancel ==
    /\ app = "left"
    /\ app' = "cancelled"
    /\ UNCHANGED <<uiVars, stopVars, loopVars>>

AppExit ==
    /\ app = "cancelled" /\ switching = NoTab
    /\ app' = "exited"
    /\ UNCHANGED <<uiVars, stopVars, loopVars>>

AppStep == AppLeave \/ AppCancel \/ AppExit

-----------------------------------------------------------------------------
(***************************************************************************)
(* The goroutine of StartAutoRefresh.                                      *)
(***************************************************************************)

\* The select statement evaluates its channel operands on entry.
EnterSelect(l) ==
    /\ pc[l] = "top"
    /\ pc' = [pc EXCEPT ![l] = "select"]
    /\ sel' = [sel EXCEPT ![l] = refreshStop]
    /\ UNCHANGED <<uiVars, stopVars, spawned, app>>

\* The ticker fires, be another case ready or not, and v.Refresh begins ...
Tick(l) ==
    /\ pc[l] = "select"
    /\ pc' = [pc EXCEPT ![l] = "refresh"]
    /\ UNCHANGED <<uiVars, stopVars, spawned, sel, app>>

\* ... and returns.
RefreshReturns(l) ==
    /\ pc[l] = "refresh"
    /\ pc' = [pc EXCEPT ![l] = "top"]
    /\ UNCHANGED <<uiVars, stopVars, spawned, sel, app>>

ObserveStop(l) ==
    /\ pc[l] = "select" /\ sel[l] \in closed
    /\ pc' = [pc EXCEPT ![l] = "exiting"]
    /\ UNCHANGED <<uiVars, stopVars, spawned, sel, app>>

\* A mistake: a loop that does not watch the context.
NeverObserveDone(l) ==
    /\ pc[l] = "select" /\ CtxDone /\ FALSE
    /\ UNCHANGED vars

ObserveDone(l) ==
    /\ pc[l] = "select" /\ CtxDone
    /\ pc' = [pc EXCEPT ![l] = "exiting"]
    /\ UNCHANGED <<uiVars, stopVars, spawned, sel, app>>

\* A mistake: a deferred function that closes the channel it finds.
LoopExitStops(l) ==
    /\ pc[l] = "exiting"
    /\ pc' = [pc EXCEPT ![l] = "done"]
    /\ closed' = closed \cup ({refreshStop} \ {NoChan})
    /\ refreshRunning' = FALSE /\ refreshStop' = NoChan
    /\ UNCHANGED <<uiVars, spawned, sel, app>>

\* The deferred function, whichever loop the flag now stands for.
LoopExit(l) ==
    /\ pc[l] = "exiting"
    /\ pc' = [pc EXCEPT ![l] = "done"]
    /\ refreshRunning' = FALSE
    /\ UNCHANGED <<uiVars, refreshStop, closed, spawned, sel, app>>

LoopStep(l) ==
    \/ EnterSelect(l) \/ Tick(l) \/ RefreshReturns(l)
    \/ ObserveStop(l) \/ ObserveDone(l) \/ LoopExit(l)

-----------------------------------------------------------------------------
Next ==
    \/ UIStep
    \/ AppStep
    \/ \E l \in Loop : LoopStep(l)

\* A started handler, a started shutdown and a loop go on.  The user and the
\* operating system owe nothing.  A select picks at random among its ready
\* cases, so one that stays ready whenever the loop comes round is taken in
\* the end, however often the ticker wins.
Fairness ==
    /\ WF_vars(EndSwitch)
    /\ WF_vars(AppCancel) /\ WF_vars(AppExit)
    /\ \A l \in Loop : /\ WF_vars(LoopStep(l))
                       /\ SF_vars(ObserveStop(l))
                       /\ SF_vars(ObserveDone(l))

Spec     == Init /\ [][Next]_vars
FairSpec == Spec /\ Fairness

-----------------------------------------------------------------------------
(***************************************************************************)
(* Properties.                                                             *)
(***************************************************************************)

Live(l)   == pc[l] \in {"top", "select", "refresh"}
LiveLoops == {l \in Loop : Live(l)}

\* A loop no close has reached: it is not going to leave by its stop case.
Persists(l) == Live(l) /\ (pc[l] = "select" => sel[l] \notin closed)
Polled      == \E l \in Loop : Persists(l)

TopShown ==
    /\ page = "detail" /\ detailTab = "processes" /\ procTab = "top"
    /\ switching = NoTab

\* The close in StopAutoRefresh never meets a closed channel, which would
\* panic, although the flag it tests is also written by old loops.
NoCloseOfClosed ==
    refreshRunning => refreshStop \notin closed

\* While the flag is set and the application runs, the newest loop is alive
\* and no close has reached it: the early return of StartAutoRefresh never
\* leaves the page without a loop.
RunningIsLive ==
    (refreshRunning /\ ~CtxDone) =>
        \E l \in Loop : l = spawned /\ Persists(l)

\* A handler that brings the top page on screen by a tab switch (switchTab of
\* either view) ends with a loop that goes on polling.
SwitchStartsPolling ==
    [][(ToProcesses \/ EndSwitch) /\ TopShown' /\ ~CtxDone => Polled']_vars

\* Until the application stops, no step of a loop or of the user takes the
\* last polling loop away from a top page that stays on screen.  In
\* particular an old loop that finally exits does not.
PollingSurvivesWhileShown ==
    [][TopShown /\ TopShown' /\ Polled /\ app' = "running" => Polled']_vars

\* Once the application has exited every loop ends, also the ones that
\* StopAutoRefresh missed, and even those spawned after the cancellation.
ShutdownStopsAllLoops ==
    app = "exited" ~> LiveLoops = {}

\* "StopAutoRefresh stops the auto-refresh loop.": when the user has gone
\* back to the list for good, all loops have ended.
StopAutoRefreshStops ==
    <>[](page = "main") => <>[](LiveLoops = {})

\* The top page is a real-time monitor: while the application runs and the
\* page is on screen, a loop polls.
TopShownIsPolled ==
    TopShown /\ app = "running" => Polled
=============================================================================
