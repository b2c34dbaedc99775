------------------------ MODULE AppLifecycleProofs ------------------------
(***************************************************************************)
(* Proofs about AppLifecycle: its types, that it implements Shutdown, and  *)
(* that updates go through the event loop.                                 *)
(***************************************************************************)
EXTENDS AppLifecycle, TLAPS

\* Nothing is under way before the runtime is connected.
Fresh ==
    main = "connect" =>
        /\ ~stopping /\ signal = 0
        /\ \A s \in Stopper : stop[s] = "idle"

\* Whoever is past the first step of Stop has stored the flag.
Flagged ==
    /\ cancelled => stopping
    /\ \A s \in Stopper :
          stop[s] \in {"once", "cancel", "close", "untrack"} => stopping

\* The body of the Once does its steps in order, and is through once the
\* Once is done, which is when the deferred Stop may go on.
InOrder ==
    /\ \A s \in Stopper : stop[s] \in {"close", "untrack"} => cancelled
    /\ \A s \in Stopper : stop[s] = "untrack" => released
    /\ once = "done" => cancelled /\ released /\ ~tracked
    /\ stop["deferred"] \in {"tview", "done"} => once = "done"

IInv == TypeOK /\ Fresh /\ Flagged /\ InOrder

\* The after-draw functions set the started flag and may spawn the goroutine
\* that stops the screen; they never move another call of Stop.
LEMMA AfterDrawEffect ==
    ASSUME TypeOK, AfterDraw
    PROVE  /\ started' \in BOOLEAN
           /\ stop' \in [Stopper -> {"idle", "store", "once", "cancel", "close",
                                     "untrack", "tview", "done"}]
           /\ \A s \in Stopper : stop'[s] = stop[s] \/ (s = "drawn" /\ stop'[s] = "tview")
  BY DEF TypeOK, AfterDraw, GotoStop, Stopper

\* The steps of App.Run keep the invariant.
LEMMA RunKeeps ==
    ASSUME IInv, Run
    PROVE  IInv'
  <1> USE DEF IInv, Fresh, Flagged, InOrder, Stopper
  <1>1. CASE Connect
    BY <1>1 DEF Connect, TypeOK, Goto, stopVars
  <1>2. CASE CheckStopping \/ StartRefreshing
    BY <1>2 DEF CheckStopping, StartRefreshing, TypeOK, Goto, stopVars
  <1>3. CASE OpenScreen \/ LeaveLoop \/ Finish
    BY <1>3 DEF OpenScreen, LeaveLoop, Finish, TypeOK, Goto, stopVars
  <1>4. CASE FirstDraw \/ QuitHandled
    <2>1. AfterDraw /\ main' = "loop"
      BY <1>4 DEF FirstDraw, QuitHandled, Goto
    <2>2. UNCHANGED <<screen, stopping, once, cancelled, released, tracked, signal,
                      update>>
      BY <1>4 DEF FirstDraw, QuitHandled
    <2> QED
      BY <2>1, <2>2, AfterDrawEffect DEF TypeOK
  <1>5. CASE CallDeferred
    BY <1>5 DEF CallDeferred, TypeOK, Goto, GotoStop
  <1> QED
    BY <1>1, <1>2, <1>3, <1>4, <1>5 DEF Run

\* The steps of App.Stop keep the invariant.
LEMMA StopKeeps ==
    ASSUME IInv, NEW s \in Stopper, Stop(s)
    PROVE  IInv'
  <1> USE DEF IInv, Fresh, Flagged, InOrder, Stopper, Alive, GotoStop, runVars
  <1>1. CASE StoreStopping(s)
    BY <1>1 DEF StoreStopping, TypeOK
  <1>2. CASE EnterOnce(s)
    BY <1>2 DEF EnterOnce, TypeOK
  <1>3. CASE Cancel(s)
    BY <1>3 DEF Cancel, TypeOK
  <1>4. CASE Close(s)
    BY <1>4 DEF Close, TypeOK
  <1>5. CASE Untrack(s)
    BY <1>5 DEF Untrack, TypeOK
  <1>6. CASE StopScreen(s)
    BY <1>6 DEF StopScreen, TypeOK
  <1> QED
    BY <1>1, <1>2, <1>3, <1>4, <1>5, <1>6 DEF Stop

\* So do all the others.
LEMMA OthersKeep ==
    ASSUME IInv,
           \/ PressQuit \/ Signal \/ HandleSignal
           \/ \E u \in Updater :
                 RunUpdate(u) \/ Load(u) \/ QueueUpdateDraw(u) \/ InlineReturns(u)
    PROVE  IInv'
  <1> USE DEF IInv, Fresh, Flagged, InOrder, Stopper, runVars, stopVars
  <1>1. CASE PressQuit
    BY <1>1 DEF PressQuit, TypeOK, Goto, GotoStop
  <1>2. CASE Signal \/ HandleSignal
    BY <1>2 DEF Signal, HandleSignal, Notified, TypeOK, GotoStop
  <1>3. ASSUME NEW u \in Updater, RunUpdate(u)
        PROVE  IInv'
    <2>1. AfterDraw /\ main = "loop"
      BY <1>3 DEF RunUpdate
    <2>2. /\ UNCHANGED <<runVars, stopping, once, cancelled, released, tracked, signal>>
          /\ update' = [update EXCEPT ![u] = "idle"]
      BY <1>3 DEF RunUpdate
    <2> QED
      BY <2>1, <2>2, AfterDrawEffect DEF TypeOK
  <1>4. ASSUME NEW u \in Updater, Load(u) \/ QueueUpdateDraw(u) \/ InlineReturns(u)
        PROVE  IInv'
    BY <1>4 DEF Load, QueueUpdateDraw, InlineReturns, TypeOK
  <1> QED
    BY <1>1, <1>2, <1>3, <1>4

\* The inductive invariant behind the two results below.
THEOREM Inductive == Spec => []IInv
  <1>1. Init => IInv
    <2> SUFFICES ASSUME Init PROVE IInv
      OBVIOUS
    <2>1. \A s \in Stopper : stop[s] = "idle"
      BY DEF Init
    <2>2. TypeOK
      <3>1. signal \in 0..1
        BY DEF Init
      <3>2. stop \in [Stopper -> {"idle", "store", "once", "cancel", "close", "untrack",
                                  "tview", "done"}]
        BY DEF Init
      <3>3. update \in [Updater -> {"idle", "loaded", "queued", "inline"}]
        BY DEF Init
      <3> QED
        BY <3>1, <3>2, <3>3 DEF Init, TypeOK
    <2>3. Fresh /\ Flagged /\ InOrder
      BY <2>1 DEF Init, Fresh, Flagged, InOrder, Stopper
    <2> QED
      BY <2>2, <2>3 DEF IInv
  <1>2. IInv /\ [Next]_vars => IInv'
    <2> SUFFICES ASSUME IInv, [Next]_vars PROVE IInv'
      OBVIOUS
    <2>1. CASE UNCHANGED vars
      BY <2>1 DEF IInv, TypeOK, Fresh, Flagged, InOrder, vars, runVars, stopVars
    <2>2. CASE Next
      BY <2>2, RunKeeps, StopKeeps, OthersKeep DEF Next
    <2> QED
      BY <2>1, <2>2
  <1> QED
    BY <1>1, <1>2, PTL DEF Spec

\* Every variable of the lifecycle stays in its type.
THEOREM TypeCorrect == Spec => []TypeOK
  BY Inductive, PTL DEF IInv

\* Every step of the application is a step of Shutdown, or none.
LEMMA StepRefines ==
    ASSUME IInv, [Next]_vars
    PROVE  [Abstract!Next]_phase
  <1> USE DEF phase
  <1> DEFINE Released == cancelled /\ released /\ ~tracked
  <1>1. CASE UNCHANGED vars
    BY <1>1 DEF vars, runVars, stopVars
  <1>2. CASE Connect
    <2>1. phase = "up"
      BY <1>2 DEF IInv, Fresh, Flagged, Connect
    <2>2. phase' \in {"up", "failed"}
      BY <1>2 DEF IInv, Fresh, Flagged, Connect, Goto, stopVars
    <2> QED
      BY <2>1, <2>2 DEF Abstract!Next, Abstract!Fail
  <1>3. CASE Finish
    <2>1. phase = "released" /\ phase' = "exited"
      BY <1>3 DEF IInv, InOrder, Finish, Goto
    <2> QED
      BY <2>1 DEF Abstract!Next, Abstract!Exit
  <1>4. ASSUME NEW s \in Stopper, Stop(s)
        PROVE  [Abstract!Next]_phase
    <2>1. main' = main /\ main \notin {"failed", "done"}
      BY <1>4 DEF Stop, StoreStopping, EnterOnce, Cancel, Close, Untrack, StopScreen,
                  Alive, runVars
    <2>2. /\ stopping => stopping'
          /\ Released => Released'
          /\ Released' => stopping /\ stopping'
      BY <1>4 DEF Stop, StoreStopping, EnterOnce, Cancel, Close, Untrack, StopScreen,
                  IInv, TypeOK, Flagged
    <2> QED
      BY <2>1, <2>2 DEF Abstract!Next, Abstract!Ask, Abstract!Release
  <1>5. CASE UNCHANGED <<stopping, cancelled, released, tracked>>
             /\ (main \in {"failed", "done"} <=> main' \in {"failed", "done"})
             /\ (main \in {"failed", "done"} => main' = main)
    BY <1>5
  <1> QED
    BY <1>1, <1>2, <1>3, <1>4, <1>5
    DEF Next, Run, CheckStopping, StartRefreshing, OpenScreen, FirstDraw, QuitHandled,
        LeaveLoop, CallDeferred, PressQuit, Signal, HandleSignal, RunUpdate, Load,
        QueueUpdateDraw, InlineReturns, Goto, runVars, stopVars, Notified, Alive

\* Whatever the number of refresh goroutines, the program ends only after a
\* stop has cancelled the context, closed the runtime and forgotten the state.
THEOREM ImplementsShutdown == Spec => ReleasesBeforeExit
  <1>1. Init => Abstract!Init
    BY DEF Init, Abstract!Init, phase
  <1>2. IInv /\ [Next]_vars => [Abstract!Next]_phase
    BY StepRefines
  <1> QED
    BY <1>1, <1>2, Inductive, PTL DEF Spec, ReleasesBeforeExit, Abstract!Spec

-----------------------------------------------------------------------------
\* What makes the loop the one that runs the updates: the state is forgotten
\* and the screen closed after a stop only, and no draw of the loop, the first
\* one included, finds the screen missing without a stop.
Edges ==
    /\ ~tracked => stopping
    /\ screen = "gone" => stopping
    /\ \A s \in Stopper : stop[s] = "tview" => stopping
    /\ main \in {"draw", "loop", "key"} => screen # "none"
    /\ main \in {"loop", "key"} => started \/ stopping

\* A step leaves the state so that the next one runs nothing inline but at the edges.
LEMMA EdgesKept ==
    ASSUME IInv, Edges, [Next]_vars
    PROVE  Edges'
  <1>1. TypeOK /\ Flagged /\ Fresh
    BY DEF IInv
  <1>2. CASE UNCHANGED vars
    BY <1>2 DEF Edges, vars, runVars, stopVars
  <1>3. CASE Connect \/ CheckStopping \/ StartRefreshing \/ OpenScreen \/ LeaveLoop \/ CallDeferred
             \/ Finish \/ PressQuit
    BY <1>1, <1>3 DEF Edges, Connect, CheckStopping, StartRefreshing, OpenScreen, LeaveLoop,
                      CallDeferred, Finish, PressQuit, Goto, GotoStop, stopVars, Stopper, TypeOK
  <1>4. CASE AfterDraw /\ UNCHANGED <<screen, stopping, tracked>> /\ main \in {"draw", "loop", "key"}
             /\ main' = "loop"
    <2>1. started' = (started \/ screen = "open")
          /\ (stop' = stop \/ (stop' = [stop EXCEPT !["drawn"] = "tview"] /\ stopping))
      BY <1>4 DEF AfterDraw, GotoStop
    <2>2. screen = "open" \/ stopping
      BY <1>1, <1>4 DEF Edges, TypeOK
    <2>3. \A s \in Stopper : stop'[s] = "tview" => stopping
      BY <1>1, <2>1 DEF Edges, TypeOK
    <2> QED
      BY <1>4, <2>1, <2>2, <2>3 DEF Edges
  <1>5. ASSUME NEW s \in Stopper, Stop(s)
        PROVE  Edges'
    <2>1. stop[s] \in {"once", "cancel", "close", "untrack", "tview"} => stopping
      BY <1>1 DEF Edges, Flagged
    <2>2. CASE StoreStopping(s)
      BY <1>1, <2>2 DEF Edges, StoreStopping, GotoStop, runVars
    <2>3. CASE EnterOnce(s) \/ Cancel(s) \/ Close(s) \/ Untrack(s)
      BY <1>1, <2>1, <2>3 DEF Edges, EnterOnce, Cancel, Close, Untrack, GotoStop, runVars
    <2>4. CASE StopScreen(s)
      BY <1>1, <2>1, <2>4 DEF Edges, StopScreen, GotoStop, TypeOK
    <2> QED
      BY <1>5, <2>2, <2>3, <2>4 DEF Stop
  <1>6. CASE Signal \/ HandleSignal \/ \E u \in Updater : Load(u) \/ QueueUpdateDraw(u) \/ InlineReturns(u)
    BY <1>1, <1>6 DEF Edges, Signal, HandleSignal, Load, QueueUpdateDraw, InlineReturns, GotoStop,
                      runVars, stopVars, TypeOK
  <1>7. CASE FirstDraw \/ QuitHandled \/ \E u \in Updater : RunUpdate(u)
    BY <1>4, <1>7 DEF FirstDraw, QuitHandled, RunUpdate, Goto, runVars
  <1> QED
    BY <1>2, <1>3, <1>5, <1>6, <1>7 DEF Next, Run

\* While the event loop runs and until a stop, no refresh goroutine runs its
\* update itself, however many of them there are.
THEOREM UpdatesGoThroughTheLoop == Spec => InlineOnlyAtTheEdges
  <1> DEFINE Decides == \A u \in Updater :
                 update[u] = "loaded" /\ update'[u] = "inline" /\ main \in {"loop", "key"}
                     => stopping
  <1>1. Init => Edges
    BY DEF Init, Edges, Stopper
  <1>2. IInv /\ Edges /\ [Next]_vars => Edges'
    BY EdgesKept
  <1>3. IInv /\ Edges /\ [Next]_vars => [Decides]_vars
    <2> SUFFICES ASSUME IInv, Edges, Next, NEW u \in Updater,
                        update[u] = "loaded", update'[u] = "inline", main \in {"loop", "key"}
                 PROVE  stopping
      OBVIOUS
    <2>1. update \in [Updater -> {"idle", "loaded", "queued", "inline"}]
      BY DEF IInv, TypeOK
    <2>2. update' # update
      OBVIOUS
    <2>3. PICK w \in Updater : RunUpdate(w) \/ Load(w) \/ QueueUpdateDraw(w) \/ InlineReturns(w)
      BY <2>2 DEF Next, Run, Connect, CheckStopping, StartRefreshing, OpenScreen, FirstDraw,
                  QuitHandled, LeaveLoop, CallDeferred, Finish, PressQuit, Signal, HandleSignal,
                  Stop, StoreStopping, EnterOnce, Cancel, Close, Untrack, StopScreen
    <2>4. QueueUpdateDraw(w) /\ w = u
      BY <2>1, <2>3 DEF RunUpdate, Load, QueueUpdateDraw, InlineReturns
    <2>5. ~(tracked /\ started)
      BY <2>1, <2>4 DEF QueueUpdateDraw
    <2> QED
      BY <2>5 DEF Edges
  <1>4. InlineOnlyAtTheEdges <=> [][Decides]_vars
    BY DEF InlineOnlyAtTheEdges
  <1> HIDE DEF Decides
  <1> QED
    BY <1>1, <1>2, <1>3, <1>4, Inductive, PTL DEF Spec
=============================================================================
