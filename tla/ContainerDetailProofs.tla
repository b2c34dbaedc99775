----------------------- MODULE ContainerDetailProofs -----------------------
(***************************************************************************)
(* Proofs about ContainerDetail for every set of containers, any number of *)
(* Refresh goroutines and any number of openings.                          *)
(***************************************************************************)
EXTENDS ContainerDetail, TLAPS

\* Between the two writes of SetContainer the handle lags the generation by
\* one; otherwise they agree.
HandleInv ==
    /\ ui = "bumped" => refreshGen > 0 /\ container = opened[refreshGen - 1]
    /\ ui # "bumped" => container = opened[refreshGen]

\* A redraw is queued once per opening.
ClosuresInv ==
    /\ uiClosures <= refreshGen
    /\ ui # "idle" => uiClosures < refreshGen

\* What a Refresh has in hand is of a generation no older than the one before
\* the generation it loaded, and, once checked, of one of these two.
LoadInv ==
    \A r \in Refresher :
        /\ gen[r] <= refreshGen
        /\ pc[r] \in {"state", "failed", "check", "store", "pid"} =>
              \E g \in Gen : /\ g <= refreshGen /\ gen[r] <= g + 1
                             /\ got[r].info = opened[g]
        /\ pc[r] \in {"store", "pid"} =>
              \E g \in Gen : /\ g <= gen[r] /\ gen[r] <= g + 1
                             /\ got[r].info = opened[g]

IInv == TypeOK /\ HandleInv /\ ClosuresInv /\ LoadInv

-----------------------------------------------------------------------------
\* The page starts with nothing opened and nothing queued.
LEMMA InitIInv == Init => IInv
  <1> SUFFICES ASSUME Init PROVE IInv
    OBVIOUS
  <1> USE OpensAssumption DEF Init, Gen
  <1>1. TypeOK
    BY DEF TypeOK, Handle, Loading
  <1>2. HandleInv /\ ClosuresInv /\ LoadInv
    BY DEF HandleInv, ClosuresInv, LoadInv
  <1> QED BY <1>1, <1>2 DEF IInv

\* SetContainer's steps, and the ones that only draw.
LEMMA UIStepIInv ==
    ASSUME IInv,
           \/ \E c \in Container : OpenContainer(c)
           \/ OpenStep \/ RunUIClosure
           \/ \E r \in Refresher : PressRefresh(r) \/ RunClosure(r)
    PROVE  IInv'
  <1> USE OpensAssumption DEF IInv, TypeOK, Gen, Handle
  <1>1. ASSUME NEW c \in Container, OpenContainer(c) PROVE IInv'
    <2>1. /\ refreshGen' = refreshGen + 1 /\ refreshGen + 1 \in Gen
          /\ opened' = [opened EXCEPT ![refreshGen + 1] = c]
          /\ ui = "idle" /\ ui' = "bumped"
          /\ UNCHANGED <<container, info, state, layersPID, header, uiClosures, loadVars>>
      BY <1>1 DEF OpenContainer
    <2>2. \A g \in Gen : g <= refreshGen => opened'[g] = opened[g]
      BY <2>1
    <2>3. TypeOK'
      BY <2>1 DEF loadVars
    <2>4. HandleInv' /\ ClosuresInv'
      BY <2>1, <2>2 DEF HandleInv, ClosuresInv
    <2>5. LoadInv'
      <3> SUFFICES ASSUME NEW r \in Refresher
                   PROVE  /\ gen'[r] <= refreshGen'
                          /\ pc'[r] \in {"state", "failed", "check", "store", "pid"} =>
                                \E g \in Gen : /\ g <= refreshGen' /\ gen'[r] <= g + 1
                                               /\ got'[r].info = opened'[g]
                          /\ pc'[r] \in {"store", "pid"} =>
                                \E g \in Gen : /\ g <= gen'[r] /\ gen'[r] <= g + 1
                                               /\ got'[r].info = opened'[g]
        BY DEF LoadInv
      <3>1. UNCHANGED <<pc, gen, got>> /\ gen[r] <= refreshGen
        BY <2>1 DEF loadVars, LoadInv
      <3>2. \A g \in Gen : g <= gen[r] => g <= refreshGen
        BY <3>1
      <3> QED BY <2>1, <2>2, <3>1, <3>2 DEF LoadInv
    <2> QED BY <2>3, <2>4, <2>5
  <1>2. CASE SwitchContainer
    BY <1>2 DEF SwitchContainer, HandleInv, ClosuresInv, LoadInv, loadVars
  <1>3. CASE ClearResults
    BY <1>3 DEF ClearResults, HandleInv, ClosuresInv, LoadInv, loadVars
  <1>4. CASE FinishOpen
    <2>1. PICK r \in Refresher : Free(r) /\ Goto(r, "begin")
      BY <1>4 DEF FinishOpen
    <2>2. TypeOK' /\ HandleInv' /\ ClosuresInv'
      BY <1>4, <2>1 DEF FinishOpen, Goto, HandleInv, ClosuresInv
    <2>3. LoadInv'
      BY <1>4, <2>1 DEF FinishOpen, Goto, LoadInv
    <2> QED BY <2>2, <2>3
  <1>5. CASE RunUIClosure
    <2>1. header' \in [kind : {"loading", "info", "error"}, of : Handle]
      BY <1>5 DEF RunUIClosure, renderHeader, HeaderOf, Loading
    <2> QED BY <1>5, <2>1 DEF RunUIClosure, fields, loadVars, HandleInv,
                              ClosuresInv, LoadInv
  <1>6. ASSUME NEW r \in Refresher, PressRefresh(r) PROVE IInv'
    <2>1. TypeOK' /\ HandleInv' /\ ClosuresInv'
      BY <1>6 DEF PressRefresh, Goto, fields, uiVars, HandleInv, ClosuresInv
    <2>2. LoadInv'
      BY <1>6 DEF PressRefresh, Goto, fields, uiVars, LoadInv
    <2> QED BY <2>1, <2>2
  <1>7. ASSUME NEW r \in Refresher, RunClosure(r) PROVE IInv'
    <2>1. header' \in [kind : {"loading", "info", "error"}, of : Handle]
      BY <1>7 DEF RunClosure, renderHeader, HeaderOf, Loading
    <2> QED BY <1>7, <2>1 DEF RunClosure, fields, HandleInv, ClosuresInv, LoadInv
  <1> QED BY <1>1, <1>2, <1>3, <1>4, <1>5, <1>6, <1>7 DEF OpenStep

\* The steps of a Refresh.
LEMMA RefreshIInv ==
    ASSUME IInv, NEW r \in Refresher, Refresh(r)
    PROVE  IInv'
  <1> USE OpensAssumption DEF IInv, TypeOK, Gen, Handle
  <1>1. /\ UNCHANGED <<refreshGen, container, ui, uiClosures, opened, header>>
        /\ \A q \in Refresher \ {r} :
              pc'[q] = pc[q] /\ gen'[q] = gen[q] /\ got'[q] = got[q]
    BY DEF Refresh, LoadGen, CallInfo, FailCheck, CallState, CheckGen, Store,
           StorePID, Goto, fields, uiVars
  <1>2. HandleInv' /\ ClosuresInv'
    BY <1>1 DEF HandleInv, ClosuresInv
  <1>3. TypeOK'
    <2>1. CASE CallInfo(r)
      BY <1>1, <2>1 DEF CallInfo, Goto, fields
    <2>2. CASE CallState(r)
      <3>1. PICK s \in {container, NoContainer} : got' = [got EXCEPT ![r].state = s]
        BY <2>2 DEF CallState
      <3>2. [got[r] EXCEPT !.state = s] \in [info : Handle, state : Handle]
        <4>1. got[r] \in [info : Handle, state : Handle] /\ s \in Handle
          OBVIOUS
        <4> HIDE DEF IInv, TypeOK, Handle
        <4> QED BY <4>1
      <3> QED BY <1>1, <2>2, <3>1, <3>2 DEF CallState, Goto, fields
    <2>3. CASE LoadGen(r) \/ CheckGen(r)
      <3>1. CASE LoadGen(r)
        BY <1>1, <3>1, ZenonT(60) DEF LoadGen, Goto, fields
      <3>2. CASE CheckGen(r)
        BY <1>1, <3>2 DEF CheckGen, Goto, fields
      <3> QED BY <2>3, <3>1, <3>2
    <2>4. CASE FailCheck(r)
      BY <1>1, <2>4 DEF FailCheck, Goto, fields
    <2>5. CASE Store(r) \/ StorePID(r)
      <3>1. got[r] \in [info : Handle, state : Handle]
        OBVIOUS
      <3>2. got[r].info \in Handle /\ got[r].state \in Handle
        BY <3>1
      <3> HIDE DEF Handle
      <3>3. CASE Store(r)
        BY <1>1, <3>2, <3>3 DEF Store, Goto
      <3>4. CASE StorePID(r)
        BY <1>1, <3>2, <3>4 DEF StorePID, Goto
      <3> QED BY <2>5, <3>3, <3>4
    <2> QED BY <2>1, <2>2, <2>3, <2>4, <2>5 DEF Refresh
  <1>4. LoadInv'
    <2>1. /\ gen'[r] <= refreshGen
          /\ pc'[r] \in {"state", "failed", "check", "store", "pid"} =>
                \E g \in Gen : /\ g <= refreshGen /\ gen'[r] <= g + 1
                               /\ got'[r].info = opened[g]
          /\ pc'[r] \in {"store", "pid"} =>
                \E g \in Gen : /\ g <= gen'[r] /\ gen'[r] <= g + 1
                               /\ got'[r].info = opened[g]
      <3>1. CASE LoadGen(r)
        BY <3>1 DEF LoadGen, Goto, LoadInv
      <3>2. CASE CallInfo(r)
        <4>1. PICK g \in Gen : /\ g <= refreshGen /\ refreshGen <= g + 1
                               /\ container = opened[g]
          <5>1. CASE ui = "bumped"
            BY <5>1 DEF HandleInv
          <5>2. CASE ui # "bumped"
            BY <5>2 DEF HandleInv
          <5> QED BY <5>1, <5>2
        <4>2. /\ gen' = gen /\ got'[r].info = container
              /\ pc'[r] \in {"state", "failed"} /\ gen[r] <= refreshGen
          BY <3>2 DEF CallInfo, Goto, LoadInv
        <4>3. gen[r] <= g + 1
          BY <4>1, <4>2
        <4> QED BY <4>1, <4>2, <4>3
      <3>3. CASE CallState(r)
        <4>1. got'[r].info = got[r].info /\ gen' = gen /\ pc[r] = "state" /\ pc'[r] = "check"
          BY <3>3 DEF CallState, Goto
        <4> QED BY <4>1 DEF LoadInv
      <3>4. CASE CheckGen(r)
        <4>1. /\ UNCHANGED <<gen, got>> /\ pc[r] = "check"
              /\ pc'[r] \in {"store", "idle"}
              /\ pc'[r] = "store" => gen[r] = refreshGen
          BY <3>4 DEF CheckGen, Goto
        <4> QED BY <4>1 DEF LoadInv
      <3>5. CASE FailCheck(r) \/ Store(r) \/ StorePID(r)
        <4>1. /\ UNCHANGED <<gen, got>> /\ pc'[r] \in {"idle", "pid"}
              /\ pc'[r] = "pid" => pc[r] = "store"
          BY <3>5 DEF FailCheck, Store, StorePID, Goto
        <4> QED BY <4>1 DEF LoadInv
      <3> QED BY <3>1, <3>2, <3>3, <3>4, <3>5 DEF Refresh
    <2>2. ASSUME NEW q \in Refresher \ {r}
          PROVE  /\ gen'[q] <= refreshGen
                 /\ pc'[q] \in {"state", "failed", "check", "store", "pid"} =>
                       \E g \in Gen : /\ g <= refreshGen /\ gen'[q] <= g + 1
                                      /\ got'[q].info = opened[g]
                 /\ pc'[q] \in {"store", "pid"} =>
                       \E g \in Gen : /\ g <= gen'[q] /\ gen'[q] <= g + 1
                                      /\ got'[q].info = opened[g]
      <3>1. pc'[q] = pc[q] /\ gen'[q] = gen[q] /\ got'[q] = got[q]
        BY <1>1
      <3>2. LoadInv
        OBVIOUS
      <3> HIDE DEF IInv, TypeOK, Handle
      <3> QED BY <3>1, <3>2 DEF LoadInv
    <2>3. UNCHANGED <<refreshGen, opened>>
      BY <1>1
    <2> HIDE DEF IInv, TypeOK, Gen, Handle
    <2> QED BY <2>1, <2>2, <2>3 DEF LoadInv
  <1> QED BY <1>2, <1>3, <1>4

\* A step of SetContainer, of a key, of a Refresh or of a redraw keeps the invariant.
LEMMA NextIInv == IInv /\ [Next]_vars => IInv'
  <1> SUFFICES ASSUME IInv, [Next]_vars PROVE IInv'
    OBVIOUS
  <1>1. CASE UNCHANGED vars
    BY <1>1 DEF vars, fields, uiVars, loadVars, IInv, TypeOK, HandleInv,
                ClosuresInv, LoadInv
  <1> QED BY <1>1, UIStepIInv, RefreshIInv DEF Next

\* Handles, queued redraws and running loads keep to IInv in every behaviour of
\* the page (SetContainer and Refresh of container_detail.go).
THEOREM Inductive == Spec => []IInv
  BY InitIInv, NextIInv, PTL DEF Spec

\* Every field keeps its type; no redraw runs that was not queued.
THEOREM TypeCorrect == Spec => []TypeOK
  BY Inductive, PTL DEF IInv

\* However many loads overlap and however late they answer, one that passes
\* the generation check is at most one container behind.
THEOREM AcceptedBound == Spec => []AcceptedAtMostOneBehind
  <1>1. IInv => AcceptedAtMostOneBehind
    BY OpensAssumption DEF IInv, TypeOK, LoadInv, AcceptedAtMostOneBehind, Gen
  <1> QED BY <1>1, Inductive, PTL

-----------------------------------------------------------------------------
(***************************************************************************)
(* The header.  Whoever changes the info has a redraw to queue or queued.  *)
(***************************************************************************)

DrawInv ==
    \/ header = HeaderOf(info) \/ header.kind = "error"
    \/ uiClosures > 0 \/ ui = "cleared"
    \/ \E r \in Refresher : pc[r] = "pid" \/ closure[r] = "render"

\* A running Refresh has queued nothing yet.
BusyInv == \A r \in Refresher : pc[r] # "idle" => closure[r] = "none"

HeaderInv == BusyInv /\ DrawInv

\* No step changes the info and leaves no redraw behind.
LEMMA NextHeaderInv == IInv /\ HeaderInv /\ [Next]_vars => HeaderInv'
  <1> SUFFICES ASSUME IInv, HeaderInv, [Next]_vars PROVE HeaderInv'
    OBVIOUS
  <1> USE DEF IInv, TypeOK, HeaderInv, BusyInv, DrawInv, Gen
  <1>1. CASE UNCHANGED vars
    BY <1>1 DEF vars, fields, uiVars, loadVars
  <1>2. ASSUME NEW c \in Container, OpenContainer(c) PROVE HeaderInv'
    BY <1>2 DEF OpenContainer, loadVars
  <1>3. CASE OpenStep
    <2>1. CASE SwitchContainer \/ ClearResults
      BY <2>1 DEF SwitchContainer, ClearResults, loadVars
    <2>2. CASE FinishOpen
      BY <2>2, OpensAssumption DEF FinishOpen, Free, Goto
    <2> QED BY <1>3, <2>1, <2>2 DEF OpenStep
  <1>4. CASE RunUIClosure
    BY <1>4 DEF RunUIClosure, renderHeader, fields, loadVars
  <1>5. ASSUME NEW r \in Refresher, PressRefresh(r) PROVE HeaderInv'
    BY <1>5 DEF PressRefresh, Free, Goto, fields, uiVars
  <1>6. ASSUME NEW r \in Refresher, RunClosure(r) PROVE HeaderInv'
    <2>1. BusyInv'
      BY <1>6 DEF RunClosure
    <2>2. CASE closure[r] = "render"
      BY <1>6, <2>1, <2>2 DEF RunClosure, renderHeader, fields
    <2>3. CASE closure[r] # "render"
      BY <1>6, <2>1, <2>3 DEF RunClosure
    <2> QED BY <2>2, <2>3
  <1>7. ASSUME NEW r \in Refresher, Refresh(r) PROVE HeaderInv'
    <2>1. CASE Store(r)
      BY <2>1 DEF Store, Goto
    <2>2. CASE StorePID(r)
      BY <2>2 DEF StorePID, Goto
    <2>3. CASE LoadGen(r) \/ CallInfo(r) \/ CallState(r) \/ CheckGen(r)
      BY <2>3 DEF LoadGen, CallInfo, CallState, CheckGen, Goto, fields, uiVars
    <2>4. CASE FailCheck(r)
      <3>1. /\ pc[r] = "failed" /\ UNCHANGED <<fields, uiVars>>
            /\ pc'[r] = "idle" /\ \A q \in Refresher \ {r} : pc'[q] = pc[q]
            /\ \A q \in Refresher \ {r} : closure'[q] = closure[q]
        BY <2>4 DEF FailCheck, Goto
      <3>2. closure[r] = "none"
        BY <3>1
      <3>3. BusyInv'
        BY <3>1, <3>2
      <3>4. DrawInv'
        <4>1. UNCHANGED <<info, ui, uiClosures, header>>
          BY <3>1 DEF fields, uiVars
        <4>2. \A q \in Refresher : pc[q] = "pid" => pc'[q] = "pid"
          BY <3>1
        <4>3. \A q \in Refresher : closure[q] = "render" => closure'[q] = "render"
          BY <3>1, <3>2
        <4>4. DrawInv
          OBVIOUS
        <4> HIDE DEF IInv, TypeOK, HeaderInv, BusyInv, Gen
        <4> QED BY <4>1, <4>2, <4>3, <4>4, Zenon DEF DrawInv, HeaderOf
      <3> QED BY <3>3, <3>4
    <2> QED BY <1>7, <2>1, <2>2, <2>3, <2>4 DEF Refresh
  <1> QED BY <1>1, <1>2, <1>3, <1>4, <1>5, <1>6, <1>7 DEF Next

\* Whatever order the redraws run in, once all is quiet the header is the one
\* of the info the view holds, or a failure's.
THEOREM HeaderDrawn == Spec => []HeaderReflectsInfo
  <1>1. Init => HeaderInv
    BY DEF Init, HeaderInv, BusyInv, DrawInv, HeaderOf
  <1>2. IInv /\ HeaderInv => HeaderReflectsInfo
    BY OpensAssumption
    DEF IInv, TypeOK, HeaderInv, DrawInv, HeaderReflectsInfo, Quiet, Free, Gen
  <1> QED BY <1>1, <1>2, NextHeaderInv, Inductive, PTL DEF Spec
=============================================================================
