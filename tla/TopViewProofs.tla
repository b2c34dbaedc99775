--------------------------- MODULE TopViewProofs ---------------------------
(***************************************************************************)
(* Proofs about TopView for every number of loops.  The strengthening      *)
(* relates each loop to the channel its select waits on: a loop never      *)
(* waits on a channel older than its own, so that only a close of the      *)
(* current channel can end the newest loop.                                *)
(***************************************************************************)
EXTENDS StartsAndStops, TLAPS

\* Channels are made in order; the current one is the newest and open.
ChannelInv ==
    /\ \A c \in closed : c <= spawned
    /\ refreshRunning => refreshStop # NoChan
    /\ refreshStop # NoChan => refreshStop = spawned /\ refreshStop \notin closed

\* What the loops are, and the channels they wait on.
LoopInv ==
    \A l \in Loop :
        /\ pc[l] = "unborn" <=> spawned < l
        /\ sel[l] = NoChan \/ l <= sel[l]
        /\ pc[l] \in {"exiting", "done"} => sel[l] \in closed \/ CtxDone

\* A tab switch under way still has a loop to spend.
SwitchInv == switching # NoTab => MayStart

IInv == TypeOK /\ ChannelInv /\ LoopInv /\ SwitchInv

-----------------------------------------------------------------------------
\* No loop runs at the start.
LEMMA InitIInv == Init => IInv
  <1> SUFFICES ASSUME Init PROVE IInv
    OBVIOUS
  <1> USE DEF Init
  <1>1. TypeOK
    <2>1. spawned \in 0..MaxLoops
      BY MaxLoopsAssumption
    <2>2. refreshRunning \in BOOLEAN /\ closed \in SUBSET Loop
      OBVIOUS
    <2> QED
      BY <2>1, <2>2 DEF TypeOK, Page, DetailTab, ProcTab, LoopState, AppState
  <1>2. ChannelInv
    BY DEF ChannelInv, NoChan
  <1>3. LoopInv
    BY MaxLoopsAssumption DEF LoopInv, Loop, NoChan
  <1>4. SwitchInv
    BY DEF SwitchInv
  <1> QED BY <1>1, <1>2, <1>3, <1>4 DEF IInv

\* The newest loop is out of the reach of every close while the flag is set.
LEMMA FlagMeansLoop == IInv => RunningIsLive
  <1> SUFFICES ASSUME IInv, refreshRunning, ~CtxDone
               PROVE  \E l \in Loop : l = spawned /\ Persists(l)
    BY DEF RunningIsLive
  <1>1. refreshStop = spawned /\ spawned \notin closed /\ spawned \in Loop
    BY DEF IInv, TypeOK, ChannelInv
  <1>2. sel[spawned] \notin closed
    BY <1>1, MaxLoopsAssumption DEF IInv, TypeOK, ChannelInv, LoopInv, Loop, NoChan
  <1>3. pc[spawned] # "unborn" /\ pc[spawned] \notin {"exiting", "done"}
    BY <1>1, <1>2, MaxLoopsAssumption DEF IInv, TypeOK, LoopInv, Loop
  <1>4. Persists(spawned)
    BY <1>1, <1>2, <1>3 DEF IInv, TypeOK, LoopState, Persists, Live
  <1> QED BY <1>1, <1>4

-----------------------------------------------------------------------------
(***************************************************************************)
(* The two methods, as their callers see them.                             *)
(***************************************************************************)

\* What StopAutoRefresh changes: at most one channel more is closed.
LEMMA StopPreserves ==
    ASSUME IInv, StopAutoRefresh
    PROVE  /\ refreshRunning' \in BOOLEAN
           /\ refreshStop' \in Loop \cup {NoChan}
           /\ closed' \in SUBSET Loop /\ closed \subseteq closed'
           /\ UNCHANGED loopVars
           /\ ChannelInv'
  <1>1. CASE refreshRunning /\ refreshStop # NoChan
    <2>1. /\ closed' = closed \cup {refreshStop} /\ refreshStop \in Loop
          /\ refreshStop' = NoChan /\ refreshStop = spawned
          /\ UNCHANGED loopVars
      BY <1>1 DEF IInv, TypeOK, ChannelInv, StopAutoRefresh
    <2>2. refreshRunning' = FALSE
      BY <1>1 DEF StopAutoRefresh
    <2>3. ChannelInv'
      BY <2>1, <2>2, MaxLoopsAssumption DEF IInv, TypeOK, ChannelInv, loopVars, Loop
    <2> QED BY <2>1, <2>2, <2>3 DEF IInv, TypeOK
  <1>2. CASE ~(refreshRunning /\ refreshStop # NoChan)
    BY <1>2 DEF IInv, TypeOK, ChannelInv, StopAutoRefresh, stopVars, loopVars
  <1> QED BY <1>1, <1>2

\* What StartAutoRefresh changes: at most one loop more runs.
LEMMA StartPreserves ==
    ASSUME IInv, MayStart, StartAutoRefresh
    PROVE  /\ refreshRunning' \in BOOLEAN
           /\ refreshStop' \in Loop \cup {NoChan}
           /\ UNCHANGED <<closed, sel>>
           /\ spawned' \in 0..MaxLoops /\ pc' \in [Loop -> LoopState]
           /\ ChannelInv'
           /\ \A l \in Loop : /\ pc'[l] = "unborn" <=> spawned' < l
                              /\ pc[l] # "unborn" => pc'[l] = pc[l]
                              /\ pc'[l] \in {"exiting", "done"} => pc'[l] = pc[l]
  <1>1. CASE refreshRunning
    BY <1>1 DEF IInv, TypeOK, ChannelInv, LoopInv, StartAutoRefresh, stopVars,
                loopVars
  <1>2. CASE ~refreshRunning
    <2>1. /\ refreshRunning' = TRUE
          /\ spawned' = spawned + 1 /\ refreshStop' = spawned + 1
          /\ pc' = [pc EXCEPT ![spawned + 1] = "top"]
          /\ UNCHANGED <<closed, sel>>
      BY <1>2 DEF StartAutoRefresh
    <2>2. spawned + 1 \in Loop /\ spawned' \in 0..MaxLoops
      BY <2>1, MaxLoopsAssumption DEF IInv, TypeOK, MayStart, Loop
    <2>3. ChannelInv'
      BY <2>1, <2>2, MaxLoopsAssumption
      DEF IInv, TypeOK, ChannelInv, NoChan, Loop
    <2>4. pc' \in [Loop -> LoopState]
      BY <2>1 DEF IInv, TypeOK, LoopState
    <2>5. ASSUME NEW l \in Loop
          PROVE  /\ pc'[l] = "unborn" <=> spawned' < l
                 /\ pc[l] # "unborn" => pc'[l] = pc[l]
                 /\ pc'[l] \in {"exiting", "done"} => pc'[l] = pc[l]
      BY <2>1, <2>2, MaxLoopsAssumption DEF IInv, TypeOK, LoopInv, Loop
    <2> QED BY <2>1, <2>2, <2>3, <2>4, <2>5
  <1> QED BY <1>1, <1>2

-----------------------------------------------------------------------------
(***************************************************************************)
(* LoopInv under the steps of the UI and of the shutdown: those that spawn *)
(* no loop, and those that may.                                            *)
(***************************************************************************)

\* Closing channels harms no loop.
LEMMA LoopInvKept ==
    ASSUME IInv, UNCHANGED loopVars, closed \subseteq closed', CtxDone => CtxDone'
    PROVE  LoopInv'
  BY DEF IInv, LoopInv, loopVars

\* A loop that starts has its channel open.
LEMMA LoopInvStart ==
    ASSUME IInv, MayStart, StartAutoRefresh, UNCHANGED app
    PROVE  LoopInv'
  <1> SUFFICES ASSUME NEW l \in Loop
               PROVE  /\ pc'[l] = "unborn" <=> spawned' < l
                      /\ sel'[l] = NoChan \/ l <= sel'[l]
                      /\ pc'[l] \in {"exiting", "done"} =>
                            sel'[l] \in closed' \/ CtxDone'
    BY DEF LoopInv
  <1>1. CtxDone' <=> CtxDone
    BY DEF CtxDone
  <1>2. UNCHANGED <<closed, sel>>
    BY StartPreserves
  <1>3. /\ pc'[l] = "unborn" <=> spawned' < l
        /\ pc'[l] \in {"exiting", "done"} => pc'[l] = pc[l]
    BY StartPreserves
  <1> QED BY <1>1, <1>2, <1>3 DEF IInv, LoopInv

-----------------------------------------------------------------------------
(***************************************************************************)
(* Every step preserves the inductive invariant.                           *)
(***************************************************************************)

\* The steps of the user and of the event loop.
LEMMA UIStepIInv == IInv /\ UIStep => IInv'
  <1> SUFFICES ASSUME IInv, UIStep PROVE IInv'
    OBVIOUS
  <1> USE DEF IInv, TypeOK, Page, DetailTab, ProcTab, NoTab
  <1>1. CASE OpenContainer
    BY <1>1 DEF OpenContainer, ChannelInv, LoopInv, SwitchInv, MayStart,
                CtxDone, stopVars, loopVars
  <1>2. CASE Back
    <2>1. LoopInv'
      BY <1>2, StopPreserves, LoopInvKept DEF Back, CtxDone
    <2>2. TypeOK'
      BY <1>2, StopPreserves DEF Back, loopVars
    <2> QED BY <1>2, <2>1, <2>2, StopPreserves
            DEF Back, SwitchInv, MayStart, loopVars
  <1>3. CASE ToProcesses
    <2>1. CASE procTab = "top"
      <3>1. StartAutoRefresh /\ MayStart /\ switching' = NoTab
        BY <1>3, <2>1 DEF ToProcesses, UIReady
      <3>2. LoopInv'
        BY <1>3, <3>1, LoopInvStart DEF ToProcesses
      <3>3. TypeOK'
        BY <1>3, <3>1, StartPreserves DEF ToProcesses
      <3> QED BY <3>1, <3>2, <3>3, StartPreserves DEF SwitchInv
    <2>2. CASE procTab # "top"
      BY <1>3, <2>2 DEF ToProcesses, ChannelInv, LoopInv, SwitchInv, MayStart,
                        CtxDone, stopVars, loopVars
    <2> QED BY <2>1, <2>2
  <1>4. CASE ToOtherDetailTab
    <2>1. CASE detailTab = "processes"
      <3>1. LoopInv'
        BY <1>4, <2>1, StopPreserves, LoopInvKept DEF ToOtherDetailTab, CtxDone
      <3>2. TypeOK'
        BY <1>4, <2>1, StopPreserves DEF ToOtherDetailTab, loopVars
      <3> QED BY <1>4, <2>1, <3>1, <3>2, StopPreserves
              DEF ToOtherDetailTab, SwitchInv, MayStart, loopVars
    <2>2. CASE detailTab # "processes"
      BY <1>4, <2>2 DEF ToOtherDetailTab, ChannelInv, LoopInv, SwitchInv,
                        MayStart, CtxDone, stopVars, loopVars
    <2> QED BY <2>1, <2>2
  <1>5. ASSUME NEW tab \in ProcTab, BeginSwitch(tab) PROVE IInv'
    <2>1. LoopInv'
      BY <1>5, StopPreserves, LoopInvKept DEF BeginSwitch, CtxDone
    <2>2. TypeOK'
      BY <1>5, StopPreserves DEF BeginSwitch, loopVars
    <2> QED BY <1>5, <2>1, <2>2, StopPreserves
            DEF BeginSwitch, SwitchInv, MayStart, loopVars
  <1>6. CASE EndSwitch
    <2>1. CASE switching = "top"
      <3>1. StartAutoRefresh /\ MayStart /\ switching' = NoTab
        BY <1>6, <2>1 DEF EndSwitch, SwitchInv
      <3>2. LoopInv'
        BY <1>6, <3>1, LoopInvStart DEF EndSwitch
      <3>3. TypeOK'
        BY <1>6, <3>1, StartPreserves DEF EndSwitch
      <3> QED BY <3>1, <3>2, <3>3, StartPreserves DEF SwitchInv
    <2>2. CASE switching # "top"
      BY <1>6, <2>2 DEF EndSwitch, ChannelInv, LoopInv, SwitchInv, MayStart,
                        CtxDone, stopVars, loopVars
    <2> QED BY <2>1, <2>2
  <1> QED BY <1>1, <1>2, <1>3, <1>4, <1>5, <1>6 DEF UIStep

\* The steps of the application as it ends.
LEMMA AppStepIInv == IInv /\ AppStep => IInv'
  <1> SUFFICES ASSUME IInv, AppStep PROVE IInv'
    OBVIOUS
  <1> USE DEF IInv, TypeOK, AppState, uiVars
  <1>1. CASE AppLeave
    <2>1. LoopInv'
      BY <1>1, StopPreserves, LoopInvKept DEF AppLeave, CtxDone
    <2>2. TypeOK'
      BY <1>1, StopPreserves DEF AppLeave, loopVars
    <2> QED BY <1>1, <2>1, <2>2, StopPreserves
            DEF AppLeave, SwitchInv, MayStart, loopVars
  <1>2. CASE AppCancel \/ AppExit
    BY <1>2 DEF AppCancel, AppExit, ChannelInv, LoopInv, SwitchInv, MayStart,
                CtxDone, stopVars, loopVars
  <1> QED BY <1>1, <1>2 DEF AppStep

\* A loop's own steps leave the channels alone and move no other loop.
LEMMA LoopStepIInv == ASSUME NEW l \in Loop, IInv, LoopStep(l) PROVE IInv'
  <1> USE DEF IInv, TypeOK
  <1>1. /\ UNCHANGED <<uiVars, refreshStop, closed, spawned, app>>
        /\ refreshRunning' = refreshRunning \/ refreshRunning' = FALSE
    <2>1. CASE LoopExit(l)
      BY <2>1 DEF LoopExit
    <2>2. CASE ~LoopExit(l)
      BY <2>2 DEF LoopStep, EnterSelect, Tick, RefreshReturns, ObserveStop,
                  ObserveDone, stopVars
    <2> QED BY <2>1, <2>2
  <1>2. /\ pc' \in [Loop -> LoopState] /\ sel' \in [Loop -> Loop \cup {NoChan}]
        /\ \A m \in Loop \ {l} : pc'[m] = pc[m] /\ sel'[m] = sel[m]
        /\ pc'[l] # "unborn" /\ pc[l] # "unborn"
    BY DEF LoopStep, EnterSelect, Tick, RefreshReturns, ObserveStop, ObserveDone,
           LoopExit, LoopState
  <1>3. /\ sel'[l] = NoChan \/ l <= sel'[l]
        /\ pc'[l] \in {"exiting", "done"} => sel'[l] \in closed' \/ CtxDone'
    <2>1. CASE EnterSelect(l)
      <3>1. l <= spawned /\ refreshStop \in {NoChan, spawned}
        BY <2>1, MaxLoopsAssumption DEF EnterSelect, ChannelInv, LoopInv, Loop
      <3> QED BY <2>1, <3>1 DEF EnterSelect
    <2>2. CASE ObserveStop(l) \/ ObserveDone(l)
      BY <1>1, <2>2 DEF ObserveStop, ObserveDone, LoopInv, CtxDone
    <2>3. CASE Tick(l) \/ RefreshReturns(l) \/ LoopExit(l)
      BY <1>1, <2>3 DEF Tick, RefreshReturns, LoopExit, LoopInv, CtxDone
    <2> QED BY <2>1, <2>2, <2>3 DEF LoopStep
  <1>4. TypeOK'
    <2>1. refreshRunning' \in BOOLEAN
      BY <1>1
    <2> QED BY <1>1, <1>2, <2>1 DEF uiVars
  <1>5. ChannelInv'
    BY <1>1 DEF ChannelInv
  <1>6. LoopInv'
    BY <1>1, <1>2, <1>3, MaxLoopsAssumption DEF LoopInv, CtxDone, Loop
  <1>7. SwitchInv'
    BY <1>1 DEF SwitchInv, MayStart, uiVars
  <1> QED BY <1>4, <1>5, <1>6, <1>7

\* Every step keeps the invariant.
LEMMA NextIInv == IInv /\ [Next]_vars => IInv'
  <1> SUFFICES ASSUME IInv, [Next]_vars PROVE IInv'
    OBVIOUS
  <1>1. CASE UNCHANGED vars
    BY <1>1 DEF IInv, TypeOK, ChannelInv, LoopInv, SwitchInv, MayStart, CtxDone,
                vars, uiVars, stopVars, loopVars
  <1> QED BY <1>1, UIStepIInv, AppStepIInv, LoopStepIInv DEF Next

\* The flag, the channel and the loops agree in every behaviour of the view
\* (StartAutoRefresh and StopAutoRefresh of top_view.go).
THEOREM Inductive == Spec => []IInv
  BY InitIInv, NextIInv, PTL DEF Spec

-----------------------------------------------------------------------------
(***************************************************************************)
(* The invariants the runs check, for every number of loops.               *)
(***************************************************************************)

\* Every variable keeps its type: the counters of loops and channels stay
\* within the bound because a handler asks for it before it begins.
THEOREM TypeCorrect == Spec => []TypeOK
  BY Inductive, PTL DEF IInv

\* StopAutoRefresh never closes a closed channel, however late the deferred
\* functions of old loops write the flag it tests.
THEOREM NeverClosesTwice == Spec => []NoCloseOfClosed
  <1>1. IInv => NoCloseOfClosed
    BY DEF IInv, ChannelInv, NoCloseOfClosed
  <1> QED BY <1>1, Inductive, PTL

\* The early return of StartAutoRefresh always finds a loop that polls.
THEOREM FlagIsHonest == Spec => []RunningIsLive
  BY FlagMeansLoop, Inductive, PTL

\* Whatever old loops do meanwhile, a tab switch that brings the top page on
\* screen ends with a loop that goes on polling.
THEOREM SwitchPolls == Spec => SwitchStartsPolling
  <1>1. ASSUME IInv, ToProcesses \/ EndSwitch, TopShown', ~CtxDone
        PROVE  Polled'
    <2>1. StartAutoRefresh /\ MayStart
      BY <1>1 DEF ToProcesses, EndSwitch, TopShown, IInv, SwitchInv
    <2>2. CASE refreshRunning
      <3>1. Polled
        BY <1>1, <2>2, FlagMeansLoop DEF RunningIsLive, Polled
      <3> QED BY <2>1, <2>2, <3>1
              DEF StartAutoRefresh, Polled, Persists, Live, stopVars, loopVars
    <2>3. CASE ~refreshRunning
      <3>1. spawned + 1 \in Loop
        BY <1>1, <2>1, MaxLoopsAssumption DEF IInv, TypeOK, MayStart, Loop
      <3>2. pc'[spawned + 1] = "top"
        BY <1>1, <2>1, <2>3, <3>1 DEF StartAutoRefresh, IInv, TypeOK
      <3> QED BY <3>1, <3>2 DEF Polled, Persists, Live
    <2> QED BY <2>2, <2>3
  <1>2. IInv /\ [Next]_vars =>
          [(ToProcesses \/ EndSwitch) /\ TopShown' /\ ~CtxDone => Polled']_vars
    BY <1>1
  <1> QED BY <1>2, Inductive, PTL DEF Spec, SwitchStartsPolling

\* No step takes the last polling loop from a top page that stays on screen:
\* the handlers that stop loops leave the page, and a loop that ends was
\* already out of the count.
THEOREM PollingSurvives == Spec => PollingSurvivesWhileShown
  <1>1. ASSUME IInv, Next, TopShown, TopShown', Polled, app' = "running"
        PROVE  Polled'
    <2>1. PICK p \in Loop : Persists(p)
      BY <1>1 DEF Polled
    <2>2. CASE UIStep
      <3>1. \/ ToProcesses
            \/ ToOtherDetailTab /\ detailTab' = "other"
            \/ OpenContainer /\ page = "main"
            \/ Back /\ page' = "main"
            \/ EndSwitch /\ switching # NoTab
            \/ \E tab \in ProcTab : switching' = tab
        BY <2>2 DEF UIStep, ToOtherDetailTab, OpenContainer, Back, EndSwitch,
                    BeginSwitch
      <3>2. ToProcesses
        BY <1>1, <3>1 DEF TopShown, ProcTab, NoTab
      <3>3. StartAutoRefresh /\ MayStart
        BY <1>1, <3>2 DEF ToProcesses, TopShown
      <3>4. pc'[p] = pc[p] /\ UNCHANGED <<closed, sel>>
        BY <1>1, <2>1, <3>3, StartPreserves DEF Persists, Live
      <3> QED BY <2>1, <3>4 DEF Polled, Persists, Live
    <2>3. CASE AppStep
      BY <1>1, <2>3 DEF AppStep, AppLeave, AppCancel, AppExit
    <2>4. ASSUME NEW l \in Loop, LoopStep(l) PROVE Polled'
      <3>1. closed' = closed /\ ~CtxDone
        BY <1>1, <2>4 DEF LoopStep, EnterSelect, Tick, RefreshReturns,
             ObserveStop, ObserveDone, LoopExit, stopVars, CtxDone
      <3>2. CASE p # l
        BY <1>1, <2>1, <2>4, <3>1, <3>2
        DEF IInv, TypeOK, LoopStep, EnterSelect, Tick, RefreshReturns,
            ObserveStop, ObserveDone, LoopExit, Polled, Persists, Live
      <3>3. CASE p = l
        <4>1. ~(ObserveStop(l) \/ ObserveDone(l) \/ LoopExit(l))
          BY <2>1, <3>1, <3>3 DEF ObserveStop, ObserveDone, LoopExit, Persists,
                                  Live
        <4>2. CASE EnterSelect(l)
          <5>1. refreshStop \notin closed
            BY <1>1, MaxLoopsAssumption DEF IInv, TypeOK, ChannelInv, Loop, NoChan
          <5> QED BY <1>1, <3>1, <4>2, <5>1
                  DEF IInv, TypeOK, EnterSelect, Polled, Persists, Live
        <4>3. CASE Tick(l) \/ RefreshReturns(l)
          BY <1>1, <4>3 DEF IInv, TypeOK, Tick, RefreshReturns, Polled, Persists,
                            Live
        <4> QED BY <2>4, <4>1, <4>2, <4>3 DEF LoopStep
      <3> QED BY <3>2, <3>3
    <2> QED BY <1>1, <2>2, <2>3, <2>4 DEF Next
  <1>2. IInv /\ [Next]_vars =>
          [TopShown /\ TopShown' /\ Polled /\ app' = "running" => Polled']_vars
    BY <1>1
  <1> QED BY <1>2, Inductive, PTL DEF Spec, PollingSurvivesWhileShown

-----------------------------------------------------------------------------
(***************************************************************************)
(* The loops and the application together.                                 *)
(***************************************************************************)

\* A behaviour of the two side by side is one of each, so what is proved of the
\* loops here, and of the application in AppLifecycleProofs, holds of AllSpec,
\* which the run checks.
THEOREM StartsOfAll == AllSpec => Spec /\ A!Spec
  <1>1. AllInit => Init /\ A!Init
    BY DEF AllInit
  <1>2. [AllNext]_allVars => [Next]_vars
    BY DEF AllNext, allVars
  <1>3. [AllNext]_allVars => [A!Next]_(A!vars)
    BY DEF AllNext, allVars, appVars, A!vars, A!runVars, A!stopVars
  <1> QED BY <1>1, <1>2, <1>3, PTL DEF AllSpec, Spec, A!Spec

\* So the application beside the loops implements Shutdown: the program ends only
\* after everything was released.
THEOREM AllReleasedBeforeExit == AllSpec => ReleasesBeforeExit
  BY StartsOfAll, A!ImplementsShutdown, PTL DEF ReleasesBeforeExit

\* And none of its goroutines updates widgets beside the event loop.
THEOREM AllUpdatesGoThroughTheLoop == AllSpec => InlineOnlyAtTheEdges
  BY StartsOfAll, A!UpdatesGoThroughTheLoop, PTL DEF InlineOnlyAtTheEdges
=============================================================================
