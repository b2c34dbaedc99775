---------------------------- MODULE AppLifecycle ----------------------------
(***************************************************************************)
(* Starting and stopping the terminal application (pkg/ui/app.go) and the  *)
(* routing of view updates that hangs on it (pkg/ui/views/helpers.go).     *)
(* The main goroutine connects, checks for a stop, opens the screen, draws *)
(* and runs tview's event loop.  App.Stop is called by the signal          *)
(* goroutine, by a key handler inside the loop, and deferred by Run; it    *)
(* may come before there is a screen to stop.  Refresh goroutines hand     *)
(* their updates to the loop, or run them themselves while the application *)
(* is not known as started.                                                *)
(*                                                                         *)
(* Of tview the screen, its event loop and Stop are modelled: Stop does    *)
(* nothing while there is no screen, and otherwise ends the loop.          *)
(***************************************************************************)
EXTENDS Naturals

CONSTANT Updater        \* bound: the refresh goroutines that update at once

VARIABLES
    main,               \* where the main goroutine is
    screen,             \* tview's screen
    stopping,           \* App.stopping
    once,               \* App.stopOnce
    cancelled,          \* App.ctx is cancelled
    released,           \* the runtime is closed
    tracked,            \* trackedApplications has the state made by NewApp
    started,            \* ... whose started flag is this
    signal,             \* how many signals wait in sigCh
    stop,               \* where each call of Stop is
    update              \* where each refresh goroutine is

runVars  == <<main, screen>>
stopVars == <<stopping, once, cancelled, released, stop>>
vars     == <<runVars, stopVars, tracked, started, signal, update>>

\* Who calls Stop; "drawn" is the goroutine of stopAfterFirstDraw, which
\* calls tview's Stop only.
Stopper == {"signal", "key", "deferred", "drawn"}

TypeOK ==
    /\ main \in {"connect", "failed", "check", "start", "screen", "draw", "loop",
                 "key", "return", "deferred", "done"}
    /\ screen \in {"none", "open", "gone"}
    /\ stopping \in BOOLEAN /\ cancelled \in BOOLEAN /\ released \in BOOLEAN
    /\ once \in {"free", "busy", "done"}
    /\ tracked \in BOOLEAN /\ started \in BOOLEAN /\ signal \in 0..1
    /\ stop \in [Stopper -> {"idle", "store", "once", "cancel", "close", "untrack",
                             "tview", "done"}]
    /\ update \in [Updater -> {"idle", "loaded", "queued", "inline"}]

Init ==
    /\ main = "connect" /\ screen = "none"
    /\ stopping = FALSE /\ once = "free" /\ cancelled = FALSE /\ released = FALSE
    /\ tracked = TRUE /\ started = FALSE /\ signal = 0
    /\ stop = [s \in Stopper |-> "idle"]
    /\ update = [u \in Updater |-> "idle"]

Goto(place) == main' = place
GotoStop(s, place) == stop' = [stop EXCEPT ![s] = place]

-----------------------------------------------------------------------------
(***************************************************************************)
(* App.Run, on the main goroutine.                                         *)
(***************************************************************************)

Connect ==
    /\ main = "connect"
    /\ Goto("check") \/ Goto("failed")
    /\ UNCHANGED <<screen, stopVars, tracked, started, signal, update>>

CheckStopping ==
    /\ main = "check"
    /\ IF stopping THEN Goto("return") ELSE Goto("start")
    /\ UNCHANGED <<screen, stopVars, tracked, started, signal, update>>

StartRefreshing ==
    /\ main = "start"
    /\ Goto("screen")
    /\ UNCHANGED <<screen, stopVars, tracked, started, signal, update>>

\* tview's Run opens the screen, or fails to.
OpenScreen ==
    /\ main = "screen"
    /\ \/ screen' = "open" /\ Goto("draw")
       \/ Goto("return") /\ UNCHANGED screen
    /\ UNCHANGED <<stopVars, tracked, started, signal, update>>

\* Mistakes of the two after-draw functions: forgetting the stop that came
\* before the screen, and dropping the function set before.
AfterDrawNoStop ==
    /\ started' = (started \/ screen = "open")
    /\ UNCHANGED stop

AfterDrawAlone ==
    /\ IF screen = "open" /\ stopping /\ stop["drawn"] = "idle"
       THEN GotoStop("drawn", "tview") ELSE UNCHANGED stop
    /\ UNCHANGED started

\* Every draw ends with the after-draw functions, if there is a screen: the
\* one of TrackApplicationLifecycle, then the one of stopAfterFirstDraw.
AfterDraw ==
    /\ started' = (started \/ screen = "open")
    /\ IF screen = "open" /\ stopping /\ stop["drawn"] = "idle"
       THEN GotoStop("drawn", "tview") ELSE UNCHANGED stop

FirstDraw ==
    /\ main = "draw"
    /\ AfterDraw
    /\ Goto("loop")
    /\ UNCHANGED <<screen, stopping, once, cancelled, released, tracked, signal,
                   update>>

\* The event loop runs a queued update and draws ...
RunUpdate(u) ==
    /\ main = "loop" /\ update[u] = "queued"
    /\ update' = [update EXCEPT ![u] = "idle"]
    /\ AfterDraw
    /\ UNCHANGED <<runVars, stopping, once, cancelled, released, tracked, signal>>

\* ... or a key handler that calls Stop, and draws ...
PressQuit ==
    /\ main = "loop" /\ stop["key"] = "idle"
    /\ Goto("key") /\ GotoStop("key", "store")
    /\ UNCHANGED <<screen, stopping, once, cancelled, released, tracked, started,
                   signal, update>>

QuitHandled ==
    /\ main = "key" /\ stop["key"] = "done"
    /\ AfterDraw
    /\ Goto("loop")
    /\ UNCHANGED <<screen, stopping, once, cancelled, released, tracked, signal,
                   update>>

\* ... until the screen is gone.
LeaveLoop ==
    /\ main = "loop" /\ screen = "gone"
    /\ Goto("return")
    /\ UNCHANGED <<screen, stopVars, tracked, started, signal, update>>

\* Run returns: the signal channel is closed, and Stop called.
CallDeferred ==
    /\ main = "return"
    /\ Goto("deferred") /\ GotoStop("deferred", "store")
    /\ UNCHANGED <<screen, stopping, once, cancelled, released, tracked, started,
                   signal, update>>

Finish ==
    /\ main = "deferred" /\ stop["deferred"] = "done"
    /\ Goto("done")
    /\ UNCHANGED <<screen, stopVars, tracked, started, signal, update>>

Run ==
    \/ Connect \/ CheckStopping \/ StartRefreshing \/ OpenScreen \/ FirstDraw
    \/ QuitHandled \/ LeaveLoop \/ CallDeferred \/ Finish

-----------------------------------------------------------------------------
(***************************************************************************)
(* App.Stop.                                                               *)
(***************************************************************************)

\* While the process runs.
Alive == main \notin {"failed", "done"}

\* Between Notify and signal.Stop.
Notified == main \notin {"connect", "failed", "return", "deferred", "done"}

\* A mistake: signals that pile up.
SignalPiles ==
    /\ Notified
    /\ signal' = signal + 1
    /\ UNCHANGED <<runVars, stopVars, tracked, started, update>>

\* A signal comes; sigCh keeps one and drops what comes on top of it.
Signal ==
    /\ Notified
    /\ signal' = 1
    /\ UNCHANGED <<runVars, stopVars, tracked, started, update>>

\* The goroutine that ranges over sigCh serves one signal.
HandleSignal ==
    /\ Alive /\ signal = 1 /\ stop["signal"] = "idle"
    /\ signal' = 0
    /\ GotoStop("signal", "store")
    /\ UNCHANGED <<runVars, stopping, once, cancelled, released, tracked, started,
                   update>>

StoreStopping(s) ==
    /\ Alive /\ stop[s] = "store"
    /\ stopping' = TRUE
    /\ GotoStop(s, "once")
    /\ UNCHANGED <<runVars, once, cancelled, released, tracked, started, signal,
                   update>>

\* A mistake: a flag in place of the Once, which lets later callers pass
\* while the first is still at it.
EnterFlag(s) ==
    /\ Alive /\ stop[s] = "once"
    /\ IF once = "free" THEN once' = "busy" /\ GotoStop(s, "cancel")
                        ELSE UNCHANGED once /\ GotoStop(s, "tview")
    /\ UNCHANGED <<runVars, stopping, cancelled, released, tracked, started, signal,
                   update>>

\* sync.Once: the first caller enters, the others wait until it is through.
EnterOnce(s) ==
    /\ Alive /\ stop[s] = "once" /\ once # "busy"
    /\ IF once = "free" THEN once' = "busy" /\ GotoStop(s, "cancel")
                        ELSE UNCHANGED once /\ GotoStop(s, "tview")
    /\ UNCHANGED <<runVars, stopping, cancelled, released, tracked, started, signal,
                   update>>

\* The pollers are told to stop, and the context is cancelled ...
Cancel(s) ==
    /\ Alive /\ stop[s] = "cancel"
    /\ cancelled' = TRUE
    /\ GotoStop(s, "close")
    /\ UNCHANGED <<runVars, stopping, once, released, tracked, started, signal,
                   update>>

\* ... the runtime is closed ...
Close(s) ==
    /\ Alive /\ stop[s] = "close"
    /\ released' = TRUE
    /\ GotoStop(s, "untrack")
    /\ UNCHANGED <<runVars, stopping, once, cancelled, tracked, started, signal,
                   update>>

\* ... and the update state is forgotten.
Untrack(s) ==
    /\ Alive /\ stop[s] = "untrack"
    /\ tracked' = FALSE
    /\ once' = "done"
    /\ GotoStop(s, "tview")
    /\ UNCHANGED <<runVars, stopping, cancelled, released, started, signal, update>>

StopScreen(s) ==
    /\ Alive /\ stop[s] = "tview"
    /\ screen' = IF screen = "open" THEN "gone" ELSE screen
    /\ GotoStop(s, "done")
    /\ UNCHANGED <<main, stopping, once, cancelled, released, tracked, started,
                   signal, update>>

Stop(s) ==
    \/ StoreStopping(s) \/ EnterOnce(s)
    \/ Cancel(s) \/ Close(s) \/ Untrack(s) \/ StopScreen(s)

-----------------------------------------------------------------------------
(***************************************************************************)
(* A refresh goroutine: it loads, and calls queueUpdateDraw.               *)
(***************************************************************************)

Load(u) ==
    /\ main \in {"screen", "draw", "loop", "key", "return", "deferred"}
    /\ update[u] = "idle"
    /\ update' = [update EXCEPT ![u] = "loaded"]
    /\ UNCHANGED <<runVars, stopVars, tracked, started, signal>>

\* Once the state is forgotten, appUpdateStateFor makes a new one, which no
\* draw marks as started.
QueueUpdateDraw(u) ==
    /\ Alive /\ update[u] = "loaded"
    /\ update' = [update EXCEPT ![u] = IF tracked /\ started THEN "queued"
                                                             ELSE "inline"]
    /\ UNCHANGED <<runVars, stopVars, tracked, started, signal>>

InlineReturns(u) ==
    /\ Alive /\ update[u] = "inline"
    /\ update' = [update EXCEPT ![u] = "idle"]
    /\ UNCHANGED <<runVars, stopVars, tracked, started, signal>>

-----------------------------------------------------------------------------
Next ==
    \/ Run \/ PressQuit
    \/ Signal \/ HandleSignal
    \/ \E s \in Stopper : Stop(s)
    \/ \E u \in Updater : RunUpdate(u) \/ Load(u) \/ QueueUpdateDraw(u) \/ InlineReturns(u)

\* Goroutines proceed, and Connect and Close return.  The loop takes the end
\* of the screen from the queue its events come from, so other events do not
\* keep it from leaving for ever.
Fairness ==
    /\ WF_vars(Run) /\ SF_vars(LeaveLoop)
    /\ WF_vars(HandleSignal)
    /\ \A s \in Stopper : WF_vars(Stop(s))

Spec     == Init /\ [][Next]_vars
FairSpec == Spec /\ Fairness

-----------------------------------------------------------------------------
(***************************************************************************)
(* Properties.                                                             *)
(***************************************************************************)

phase ==
    CASE main = "failed" -> "failed"
      [] main = "done"   -> "exited"
      [] main \notin {"failed", "done"} ->
            IF cancelled /\ released /\ ~tracked THEN "released"
            ELSE IF stopping THEN "asked" ELSE "up"

Abstract == INSTANCE Shutdown WITH phase <- phase

\* However many callers Stop has, the context is cancelled, the runtime closed
\* and the update state forgotten before the process ends: a deferred Stop
\* that finds another one at work waits for it.
ReleasesBeforeExit == Abstract!Spec

\* A stop ends the program whenever it is first asked for: also by a signal
\* that comes after the check in Run and before there is a screen to stop.
StopEndsTheProgram == stopping ~> main = "done"

\* While the event loop runs and until a stop, no goroutine decides to run its
\* update itself: the widgets are left to the loop.
InlineOnlyAtTheEdges ==
    [][\A u \in Updater :
          update[u] = "loaded" /\ update'[u] = "inline" /\ main \in {"loop", "key"}
              => stopping]_vars
=============================================================================
