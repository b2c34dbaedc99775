-------------------------- MODULE ImageDetailProofs --------------------------
(***************************************************************************)
(* Proofs about the image page, for any images, layers, openings and       *)
(* refreshes.  The inductive invariant IInv has a part about the tab       *)
(* drawn, one about the layer selected, one about the panes and one about  *)
(* what the view and the loads hold.                                       *)
(***************************************************************************)
EXTENDS ImageDetail, TLAPS

\* The types, and that every redraw queued is of an opening.
Typed ==
    /\ TypeOK
    /\ redraws + (IF ui.at = "idle" THEN 0 ELSE 1) <= gen
    /\ ui.at = "idle" => ui = Idle
    /\ ui.at = "handle" => ui.field = 1
    /\ ui.at = "clear" => ui.field \in 1..4

\* A tab that is out of date has a drawing before it.
TabFollows ==
    \/ page.of = Shown(page.tab, data)
    \/ ui.at \in {"clear", "finish"} \/ redraws > 0
    \/ \E r \in Refresher : job[r].pc \in {"store", "redraw"}

\* A layer is selected, or about to be, where layers are drawn.
LayersDrawn ==
    page.tab = "layers" /\ (due \/ node >= 0) => page.of.layers # NoImage

DiffFollows ==
    page.tab = "layers" /\ diff.open /\ node >= 0 => diff.of = LayerAt(page.of, node)

\* A closed preview has no focus.
Panes == FocusOnOpenPane /\ (~preview.open => ~preview.focus)

Job == [pc : {"idle", "ended", "gen", "info", "config", "layers", "failed", "check",
              "store", "redraw", "error"},
        gen : 0..MaxOpen, new : Data, field : 1..4]

Fields == {"info", "config", "layers", "usedBy"}

\* A load that has begun and may yet be accepted.
Underway(j) == j.pc \in {"info", "config", "layers", "failed", "check", "store"}

\* What a load of this generation brings is of the image; one that stores is
\* of this generation.
Fits(j) ==
    /\ j.gen <= gen
    /\ j.pc \in {"idle", "gen"} => j.new = NoData
    /\ ~lapsed =>
         /\ Underway(j) /\ j.gen = gen => \A f \in Fields : j.new[f] \in {image, NoImage}
         /\ j.pc = "store" => j.gen = gen

\* What is held is of the image; while SetImage clears the fields, this holds
\* of those it has cleared.
Held ==
    ~lapsed =>
        /\ \A k \in 1..4 : ui.at # "clear" \/ k < ui.field => data[Field[k]] \in {image, NoImage}
        /\ merged.open => ui = Idle /\ merged.of \subseteq {image}

IInv ==
    /\ Typed /\ TabFollows /\ LayersDrawn /\ DiffFollows /\ Panes
    /\ \A r \in Refresher : Fits(job[r])
    /\ Held

-----------------------------------------------------------------------------
(***************************************************************************)
(* The operators.                                                          *)
(***************************************************************************)

\* Every field has its number.
LEMMA FieldNumbers ==
    /\ \A k \in 1..4 : Field[k] \in Fields
    /\ \A f \in Fields : \E k \in 1..4 : Field[k] = f
    /\ \A k, l \in 1..4 : Field[k] = Field[l] => k = l
    /\ DOMAIN NoData = Fields
BY DEF Field, Fields, NoData

\* What a tab is drawn from is data again, and of the layers tab the layers
\* themselves.
LEMMA ShownTyped ==
    ASSUME NEW d \in Data
    PROVE  /\ \A t \in Tab : Shown(t, d) \in Data
           /\ Shown("layers", d).layers = d.layers
<1>1. NoData \in Data  BY DEF NoData, Data, Maybe
<1>2. \A f \in Fields : d[f] \in Maybe  BY DEF Data, Fields
<1>3. InfoShown(d) \in Data /\ PlatformsShown(d) \in Data /\ UsedByShown(d) \in Data
  BY <1>1, <1>2 DEF InfoShown, PlatformsShown, UsedByShown, Data, Fields
<1>4. LayersShown(d) \in Data /\ LayersShown(d).layers = d.layers
  BY <1>1, <1>2 DEF LayersShown, Data, Fields, NoData
<1> QED  BY <1>3, <1>4 DEF Shown, Tab

\* GetFocusPrimitive is one of the panes.
LEMMA FocusTyped ==
    ASSUME NEW t \in Tab, NEW p, NEW m, NEW d
    PROVE  GetFocusPrimitive(t, p, m, d)
             \in {"manifest", "platforms", "preview", "layers", "diff", "merged", "used-by"}
BY DEF GetFocusPrimitive, Tab

\* One load moves, everything else of the loads stays.
OneLoad(r) ==
    /\ job' \in [Refresher -> Job]
    /\ Fits(job'[r])
    /\ \A o \in Refresher : o # r => job'[o] = job[o]

\* A load that moves on fitting leaves all loads fitting.
LEMMA OneLoadFits ==
    ASSUME IInv, NEW r \in Refresher, OneLoad(r), UNCHANGED <<image, gen, lapsed>>
    PROVE  \A o \in Refresher : Fits(job[o])'
BY DEF IInv, Fits, Underway, OneLoad

\* TypeOK, as the loads need it.
LEMMA JobTyped ==
    ASSUME Typed
    PROVE  job \in [Refresher -> Job] /\ NoJob \in Job /\ gen \in 0..MaxOpen /\ image \in Maybe
<1>1. job \in [Refresher -> Job] /\ gen \in 0..MaxOpen /\ image \in Maybe  BY DEF Typed, TypeOK, Job
<1>2. NoData \in Data  BY DEF NoData, Data, Maybe
<1>3. MaxOpen \in Nat  BY OpenAssumption
<1>4. NoJob \in Job  BY <1>2, <1>3 DEF NoJob, Job
<1> QED  BY <1>1, <1>4

-----------------------------------------------------------------------------
(***************************************************************************)
(* The loads, in their goroutines: they move one job, and data when they   *)
(* store.                                                                  *)
(***************************************************************************)

\* A load that stores nothing leaves the rest of the invariant as it was,
\* unless a drawing was its own.
LEMMA LoadKeeps ==
    ASSUME IInv, NEW r \in Refresher, OneLoad(r), job[r].pc \notin {"store", "redraw"},
           UNCHANGED <<image, gen, data, viewVars, ui, redraws, lapsed>>
    PROVE  IInv'
<1>1. \A o \in Refresher : Fits(job[o])'
  BY OneLoadFits
<1>2. Typed'  BY DEF IInv, Typed, TypeOK, viewVars, Job, OneLoad
<1>3. TabFollows'
  <2>1. \A o \in Refresher : job[o].pc \in {"store", "redraw"} => job'[o].pc \in {"store", "redraw"}
    BY DEF OneLoad
  <2> QED  BY <2>1 DEF IInv, TabFollows, viewVars
<1>4. LayersDrawn' /\ DiffFollows' /\ Panes'
  BY DEF IInv, LayersDrawn, DiffFollows, Panes, FocusOnOpenPane, LayerAt, GetFocusPrimitive, viewVars
<1>5. Held'  BY DEF IInv, Held, viewVars
<1> QED  BY <1>1, <1>2, <1>3, <1>4, <1>5 DEF IInv

\* Refresh reads the generation, or ends as there is no image.
LEMMA LoadStarts ==
    ASSUME IInv, NEW r \in Refresher, LoadGen(r)
    PROVE  IInv'
<1> DEFINE j == IF image = NoImage THEN Ended ELSE [job[r] EXCEPT !.pc = "info", !.gen = gen]
<1>1. job \in [Refresher -> Job] /\ NoJob \in Job /\ gen \in 0..MaxOpen  BY JobTyped DEF IInv
<1>2. Fits(job[r]) /\ job[r].pc = "gen"  BY DEF IInv, LoadGen
<1>3. j \in Job  BY <1>1 DEF Job, Ended
<1>4. Fits(j)
  <2>1. CASE image = NoImage  BY <1>1, <2>1 DEF Fits, Underway, Ended, NoJob
  <2>2. CASE image # NoImage
    <3>1. j.pc = "info" /\ j.gen = gen /\ j.new = NoData  BY <1>1, <1>2, <2>2 DEF Job, Fits
    <3> HIDE DEF j
    <3> QED  BY <1>1, <2>2, <3>1 DEF Fits, Underway, NoData, Fields
  <2> QED  BY <2>1, <2>2
<1>5. job' = [job EXCEPT ![r] = j]  BY DEF LoadGen
<1> HIDE DEF j
<1>6. OneLoad(r)  BY <1>1, <1>3, <1>4, <1>5 DEF OneLoad
<1> QED  BY <1>2, <1>6, LoadKeeps DEF LoadGen, LoadVars

\* The three calls: each takes v.image as it is now.
LEMMA LoadCalls ==
    ASSUME IInv, NEW r \in Refresher, CallInfo(r) \/ CallConfig(r) \/ CallLayers(r)
    PROVE  IInv'
<1>1. job \in [Refresher -> Job] /\ image \in Maybe /\ Fits(job[r])  BY JobTyped DEF IInv
<1>2. UNCHANGED <<image, gen, data, viewVars, ui, redraws, lapsed>>
  BY DEF CallInfo, CallConfig, CallLayers, LoadVars
<1>3. ASSUME job' \in [Refresher -> Job], \A o \in Refresher : o # r => job'[o] = job[o],
             job[r].pc \in {"info", "config", "layers"},
             job'[r].pc \in {"config", "layers", "check", "failed"}, job'[r].gen = job[r].gen,
             \A f \in Fields : job'[r].new[f] \in {image, job[r].new[f], job[r].new.info}
      PROVE  IInv'
  <2>1. Fits(job'[r])  BY <1>1, <1>3 DEF Fits, Underway, Fields
  <2> QED  BY <1>2, <1>3, <2>1, LoadKeeps DEF OneLoad
<1>4. CASE CallInfo(r)
  <2>1. CASE job' = [job EXCEPT ![r].pc = "config", ![r].new.info = image]
    <3>1. job' \in [Refresher -> Job] /\ \A o \in Refresher : o # r => job'[o] = job[o]
      <4>1. job[r] \in Job /\ job[r].new \in Data  BY <1>1 DEF Job
      <4> DEFINE new == [job[r].new EXCEPT !.info = image]
      <4>2. new \in Data  BY <1>1, <4>1 DEF Data
      <4>3. job' = [job EXCEPT ![r].pc = "config", ![r].new = new]  BY <1>1, <2>1 DEF Job
      <4> HIDE DEF new
      <4> QED  BY <1>1, <4>1, <4>2, <4>3 DEF Job
    <3>2. job'[r].pc = "config" /\ job'[r].gen = job[r].gen
          /\ \A f \in Fields : job'[r].new[f] \in {image, job[r].new[f]}
      BY <1>1, <2>1 DEF Job, Data, Fields
    <3>3. job[r].pc \in {"info", "config", "layers"}  BY <1>4 DEF CallInfo
    <3> QED  BY <1>3, <3>1, <3>2, <3>3
  <2>2. CASE Goto(r, "failed")
    <3>1. job' \in [Refresher -> Job] /\ \A o \in Refresher : o # r => job'[o] = job[o]
      BY <1>1, <2>2 DEF Job, Goto
    <3>2. job'[r].pc = "failed" /\ job'[r].gen = job[r].gen /\ job'[r].new = job[r].new
      BY <1>1, <2>2 DEF Job, Goto
    <3>3. job[r].pc \in {"info", "config", "layers"}  BY <1>4 DEF CallInfo
    <3> QED  BY <1>3, <3>1, <3>2, <3>3
  <2> QED  BY <1>4, <2>1, <2>2 DEF CallInfo
<1>5. CASE CallConfig(r)
  <2>1. job' \in [Refresher -> Job] /\ \A o \in Refresher : o # r => job'[o] = job[o]
    <3>1. job[r] \in Job /\ job[r].new \in Data  BY <1>1 DEF Job
    <3> DEFINE new == [job[r].new EXCEPT !.config = image]
    <3>2. new \in Data  BY <1>1, <3>1 DEF Data
    <3>3. job' = [job EXCEPT ![r].pc = "layers", ![r].new = new]  BY <1>1, <1>5 DEF Job, CallConfig
    <3> HIDE DEF new
    <3> QED  BY <1>1, <3>1, <3>2, <3>3 DEF Job
  <2>2. job'[r].pc = "layers" /\ job'[r].gen = job[r].gen
        /\ \A f \in Fields : job'[r].new[f] \in {image, job[r].new[f]}
    BY <1>1, <1>5 DEF Job, Data, Fields, CallConfig
  <2>3. job[r].pc \in {"info", "config", "layers"}  BY <1>5 DEF CallConfig
  <2> QED  BY <1>3, <2>1, <2>2, <2>3
<1>6. CASE CallLayers(r)
  <2>1. job' \in [Refresher -> Job] /\ \A o \in Refresher : o # r => job'[o] = job[o]
    <3>1. job[r] \in Job /\ job[r].new \in Data /\ job[r].new.info \in Maybe
      BY <1>1 DEF Job, Data
    <3> DEFINE new == [job[r].new EXCEPT !.layers = image, !.usedBy = job[r].new.info]
    <3>2. new \in Data  BY <1>1, <3>1 DEF Data
    <3>3. job' = [job EXCEPT ![r].pc = "check", ![r].new = new]  BY <1>1, <1>6 DEF CallLayers, Job
    <3> HIDE DEF new
    <3> QED  BY <1>1, <3>1, <3>2, <3>3 DEF Job
  <2>2. job'[r].pc = "check" /\ job'[r].gen = job[r].gen
        /\ \A f \in Fields : job'[r].new[f] \in {image, job[r].new[f], job[r].new.info}
    BY <1>1, <1>6 DEF Job, Data, Fields, CallLayers
  <2> QED  BY <1>3, <1>6, <2>1, <2>2 DEF CallLayers
<1> QED  BY <1>4, <1>5, <1>6

\* Refresh compares generations: it stores, reports or ends.
LEMMA LoadChecks ==
    ASSUME IInv, NEW r \in Refresher, CheckGen(r)
    PROVE  IInv'
<1> DEFINE j == IF gen # job[r].gen THEN Ended
                ELSE IF job[r].pc = "check" THEN [job[r] EXCEPT !.pc = "store"]
                ELSE [NoJob EXCEPT !.pc = "error"]
<1>1. job \in [Refresher -> Job] /\ NoJob \in Job /\ gen \in 0..MaxOpen  BY JobTyped DEF IInv
<1>2. Fits(job[r]) /\ job[r].pc \in {"check", "failed"}  BY DEF IInv, CheckGen
<1>3. j \in Job  BY <1>1 DEF Job, Ended
<1>4. Fits(j)
  <2>1. CASE gen # job[r].gen  BY <1>1, <2>1 DEF Fits, Underway, Ended, NoJob
  <2>2. CASE gen = job[r].gen /\ job[r].pc = "check"
    <3>1. j.pc = "store" /\ j.gen = gen /\ j.new = job[r].new  BY <1>1, <2>2 DEF Job
    <3> HIDE DEF j
    <3> QED  BY <1>1, <1>2, <2>2, <3>1 DEF Fits, Underway
  <2>3. CASE gen = job[r].gen /\ job[r].pc # "check"
    <3>1. j.pc = "error" /\ j.gen = 0  BY <2>3 DEF NoJob
    <3> HIDE DEF j
    <3> QED  BY <1>1, <3>1 DEF Fits, Underway
  <2> QED  BY <2>1, <2>2, <2>3
<1>5. job' = [job EXCEPT ![r] = j]  BY DEF CheckGen
<1> HIDE DEF j
<1>6. OneLoad(r)  BY <1>1, <1>3, <1>4, <1>5 DEF OneLoad
<1> QED  BY <1>2, <1>6, LoadKeeps DEF CheckGen, LoadVars

\* What is stored is of the image if what the load brings is.
LEMMA LoadStores ==
    ASSUME IInv, NEW r \in Refresher, StoreField(r)
    PROVE  IInv'
<1> DEFINE f == Field[job[r].field]
<1>1. job \in [Refresher -> Job] /\ NoJob \in Job /\ gen \in 0..MaxOpen  BY JobTyped DEF IInv
<1>2. Fits(job[r]) /\ job[r].pc = "store" /\ job[r].field \in 1..4 /\ job[r].new \in Data
  BY <1>1 DEF IInv, StoreField, Job
<1>3. UNCHANGED <<image, gen, viewVars, ui, redraws, lapsed>>  BY DEF StoreField, LoadVars
<1>4. \A o \in Refresher : o # r => job'[o] = job[o]  BY <1>1 DEF StoreField
<1>5. OneLoad(r) /\ job'[r].pc \in {"store", "redraw"}
  <2>1. CASE job[r].field = 4
    <3> DEFINE j == [NoJob EXCEPT !.pc = "redraw"]
    <3>1. job' = [job EXCEPT ![r] = j]  BY <2>1 DEF StoreField
    <3>2. j \in Job  BY <1>1 DEF Job
    <3>3. j.pc = "redraw" /\ j.gen = 0  BY DEF NoJob
    <3> HIDE DEF j
    <3>4. Fits(j)  BY <1>1, <3>3 DEF Fits, Underway
    <3> QED  BY <1>1, <1>4, <3>1, <3>2, <3>3, <3>4 DEF OneLoad
  <2>2. CASE job[r].field # 4
    <3> DEFINE j == [job[r] EXCEPT !.field = job[r].field + 1]
    <3>1. job'[r] = j  BY <1>1, <1>2, <2>2 DEF StoreField, Job
    <3>2. j \in Job /\ j.pc = "store" /\ j.gen = job[r].gen /\ j.new = job[r].new
      BY <1>1, <1>2, <2>2 DEF Job
    <3> HIDE DEF j
    <3>3. Fits(j)  BY <1>1, <1>2, <3>2 DEF Fits, Underway
    <3>4. job' \in [Refresher -> Job]  BY <1>1, <1>4, <3>1, <3>2 DEF StoreField
    <3> QED  BY <1>4, <3>1, <3>2, <3>3, <3>4 DEF OneLoad
  <2> QED  BY <2>1, <2>2
<1>6. f \in Fields /\ data \in Data  BY <1>2, FieldNumbers DEF IInv, Typed, TypeOK
<1>7. data' = [data EXCEPT ![f] = job[r].new[f]]  BY DEF StoreField
<1>8. data' \in Data  BY <1>2, <1>6, <1>7 DEF Data, Fields
<1>9. Typed'  BY <1>3, <1>5, <1>8 DEF IInv, Typed, TypeOK, viewVars, Job, OneLoad
<1>10. TabFollows'  BY <1>3, <1>5 DEF TabFollows, viewVars
<1>11. LayersDrawn' /\ DiffFollows' /\ Panes'
  BY <1>3 DEF IInv, LayersDrawn, DiffFollows, Panes, FocusOnOpenPane, LayerAt, GetFocusPrimitive, viewVars
<1>12. Held'
  <2>1. ASSUME ~lapsed PROVE data'[f] \in {image, NoImage}
    BY <1>2, <1>6, <1>7, <2>1 DEF Fits, Underway, Data, Fields
  <2>2. \A k \in 1..4 : Field[k] # f => data'[Field[k]] = data[Field[k]]
    BY <1>6, <1>7, FieldNumbers DEF Data, Fields
  <2> QED  BY <1>3, <2>1, <2>2 DEF IInv, Held, viewVars
<1>13. \A o \in Refresher : Fits(job[o])'  BY <1>3, <1>5, OneLoadFits
<1> QED  BY <1>9, <1>10, <1>11, <1>12, <1>13 DEF IInv

\* Whatever Refresh does, from the key to the failure it reports.
LEMMA Loads ==
    ASSUME IInv, NEW r \in Refresher, Refresh(r) \/ RunFailed(r) \/ PressRefresh(r)
    PROVE  IInv'
<1>1. job \in [Refresher -> Job] /\ NoJob \in Job /\ gen \in 0..MaxOpen /\ Fits(job[r])  BY JobTyped DEF IInv
<1>2. CASE RunFailed(r)
  <2>1. Ended \in Job /\ Fits(Ended)  BY <1>1 DEF Ended, Job, NoJob, Fits, Underway
  <2>2. OneLoad(r)  BY <1>1, <1>2, <2>1 DEF RunFailed, OneLoad
  <2> QED  BY <1>2, <2>2, LoadKeeps DEF RunFailed
<1>3. CASE PressRefresh(r)
  <2> DEFINE j == [job[r] EXCEPT !.pc = "gen"]
  <2>1. job' = [job EXCEPT ![r] = j]  BY <1>3 DEF PressRefresh, Goto
  <2>2. j \in Job /\ j.pc = "gen" /\ j.gen = job[r].gen /\ j.new = job[r].new  BY <1>1 DEF Job
  <2> HIDE DEF j
  <2>3. Fits(j)  BY <1>1, <1>3, <2>2 DEF Fits, Underway, PressRefresh
  <2>4. OneLoad(r)  BY <1>1, <2>1, <2>2, <2>3 DEF OneLoad
  <2> QED  BY <1>3, <2>4, LoadKeeps DEF PressRefresh
<1> QED  BY <1>2, <1>3, LoadStarts, LoadCalls, LoadChecks, LoadStores DEF Refresh

-----------------------------------------------------------------------------
(***************************************************************************)
(* SetImage.                                                               *)
(***************************************************************************)

\* The panes stay as they are.
LEMMA PanelsKeep ==
    ASSUME IInv, UNCHANGED viewVars
    PROVE  LayersDrawn' /\ DiffFollows' /\ Panes'
BY DEF IInv, LayersDrawn, DiffFollows, Panes, FocusOnOpenPane, LayerAt, GetFocusPrimitive, viewVars

\* SetImage begins a new generation.
LEMMA Opens ==
    ASSUME IInv, NEW i \in Image, OpenImage(i)
    PROVE  IInv'
<1>1. Typed'
  BY OpenAssumption DEF IInv, Typed, TypeOK, OpenImage, UIFree, Idle, viewVars, Maybe
<1>2. TabFollows'  BY DEF IInv, TabFollows, OpenImage, UIFree, Idle, viewVars
<1>3. \A o \in Refresher : Fits(job[o])'
  <2>1. job \in [Refresher -> Job] /\ gen \in 0..MaxOpen  BY JobTyped DEF IInv
  <2>2. gen' = gen + 1 /\ image' = image /\ job' = job /\ (lapsed => lapsed')
        /\ (~lapsed' => \A o \in Refresher : job[o].pc # "store")
    BY DEF OpenImage, IInv, Typed, TypeOK
  <2>3. ASSUME NEW o \in Refresher PROVE Fits(job[o])'
    <3>1. job[o].gen \in 0..MaxOpen /\ job[o].gen <= gen /\ (job[o].pc \in {"idle", "gen"} => job[o].new = NoData)
      BY <2>1 DEF Job, IInv, Fits
    <3> QED  BY <2>1, <2>2, <3>1 DEF Fits, Underway
  <2> QED  BY <2>3
<1>4. Held'
  BY DEF IInv, Held, OpenImage, UIFree, Idle, viewVars
<1> QED  BY <1>1, <1>2, <1>3, <1>4, PanelsKeep DEF IInv, OpenImage

\* SetImage puts the new image in the place of the old one.
LEMMA Sets ==
    ASSUME IInv, SetHandle
    PROVE  IInv'
<1>1. ui \in [at : {"idle", "handle", "clear", "finish"}, image : Maybe, field : 1..5]
      /\ ui.at = "handle" /\ ui.field = 1
  BY DEF IInv, Typed, TypeOK, SetHandle
<1>2. ui' = [at |-> "clear", image |-> ui.image, field |-> 1] /\ image' \in Maybe  BY <1>1 DEF SetHandle
<1>3. Typed'
  BY <1>1, <1>2 DEF IInv, Typed, TypeOK, SetHandle, viewVars
<1>4. TabFollows'  BY <1>2 DEF TabFollows
<1>5. \A o \in Refresher : Fits(job[o])'
  BY JobTyped DEF IInv, Fits, Underway, SetHandle, Job
<1>6. Held'
  <2>1. ui'.at = "clear" /\ ui'.field = 1  BY <1>2
  <2>2. ~lapsed => ~merged.open  BY <1>1 DEF IInv, Held, Idle
  <2>3. merged' = merged /\ (lapsed => lapsed')  BY DEF SetHandle, viewVars, IInv, Typed, TypeOK
  <2> QED  BY <2>1, <2>2, <2>3 DEF Held
<1> QED  BY <1>3, <1>4, <1>5, <1>6, PanelsKeep DEF IInv, SetHandle

\* SetImage clears a field of the old image.
LEMMA Clears ==
    ASSUME IInv, ClearField
    PROVE  IInv'
<1> DEFINE f == Field[ui.field]
<1>1. ui \in [at : {"idle", "handle", "clear", "finish"}, image : Maybe, field : 1..5]
      /\ ui.at = "clear" /\ ui.field \in 1..4 /\ data \in Data
  BY DEF IInv, Typed, TypeOK, ClearField
<1>2. ui' = [at |-> IF ui.field = 4 THEN "finish" ELSE "clear", image |-> ui.image,
             field |-> ui.field + 1]
  BY <1>1 DEF ClearField
<1>3. f \in Fields /\ data' = [data EXCEPT ![f] = NoImage]  BY <1>1, FieldNumbers DEF ClearField
<1>4. data' \in Data  BY <1>1, <1>3 DEF Data, Fields, Maybe
<1>5. Typed'
  <2>1. ui' \in [at : {"idle", "handle", "clear", "finish"}, image : Maybe, field : 1..5]
        /\ ui'.at \in {"clear", "finish"} /\ (ui'.at = "clear" => ui'.field \in 1..4)
    BY <1>1, <1>2
  <2> QED  BY <1>1, <1>4, <2>1 DEF IInv, Typed, TypeOK, ClearField, viewVars
<1>6. TabFollows'  BY <1>2 DEF TabFollows
<1>7. \A o \in Refresher : Fits(job[o])'
  BY DEF IInv, Fits, Underway, ClearField
<1>8. Held'
  <2>1. \A k \in 1..4 : data'[Field[k]] = IF k = ui.field THEN NoImage ELSE data[Field[k]]
    BY <1>1, <1>3, FieldNumbers DEF Data, Fields
  <2>2. ~lapsed => \A k \in 1..4 : k < ui.field => data[Field[k]] \in {image, NoImage}
    BY <1>1 DEF IInv, Held
  <2> QED  BY <1>1, <1>2, <2>1, <2>2 DEF IInv, Held, ClearField, Idle, viewVars
<1> QED  BY <1>5, <1>6, <1>7, <1>8, PanelsKeep DEF IInv, ClearField

\* SetImage queues its redraw and starts a Refresh.
LEMMA Finishes ==
    ASSUME IInv, NEW r \in Refresher, FinishOpen(r)
    PROVE  IInv'
<1>1. job \in [Refresher -> Job] /\ Fits(job[r])  BY JobTyped DEF IInv
<1>2. OneLoad(r)
  <2> DEFINE j == [job[r] EXCEPT !.pc = "gen"]
  <2>1. job' = [job EXCEPT ![r] = j]  BY DEF FinishOpen
  <2>2. j \in Job /\ j.pc = "gen" /\ j.gen = job[r].gen /\ j.new = job[r].new  BY <1>1 DEF Job
  <2> HIDE DEF j
  <2>3. Fits(j)  BY <1>1, <2>2 DEF Fits, Underway, FinishOpen
  <2> QED  BY <1>1, <2>1, <2>2, <2>3 DEF OneLoad
<1>3. focus' \in {"manifest", "platforms", "preview", "layers", "diff", "merged", "used-by"}
  BY FocusTyped DEF IInv, Typed, TypeOK, FinishOpen
<1>4. Typed'
  BY <1>2, <1>3, OpenAssumption DEF IInv, Typed, TypeOK, FinishOpen, Idle, Maybe, OneLoad, Job
<1>5. TabFollows'  BY DEF IInv, Typed, TypeOK, TabFollows, FinishOpen
<1>6. \A o \in Refresher : Fits(job[o])'  BY <1>2, OneLoadFits DEF FinishOpen
<1>7. LayersDrawn' /\ DiffFollows' /\ Panes'
  BY DEF IInv, LayersDrawn, DiffFollows, Panes, FocusOnOpenPane, LayerAt, GetFocusPrimitive, FinishOpen
<1>8. Held'
  BY DEF IInv, Held, FinishOpen, Idle
<1> QED  BY <1>4, <1>5, <1>6, <1>7, <1>8 DEF IInv

-----------------------------------------------------------------------------
(***************************************************************************)
(* The closures and the draw.                                              *)
(***************************************************************************)

\* A tab drawn shows what is held; a layers tree drawn has no layer selected.
LEMMA Renders ==
    ASSUME IInv, NEW t \in Tab, RenderTab(t, data)
    PROVE  /\ page' \in [tab : Tab, of : Data] /\ page'.tab = t /\ page'.of = Shown(t, data)
           /\ node' \in Int /\ due' \in BOOLEAN
           /\ t = "layers" => node' = -1 /\ (due' => page'.of.layers # NoImage)
<1>1. data \in Data /\ node \in Int /\ due \in BOOLEAN  BY DEF IInv, Typed, TypeOK
<1>2. Shown(t, data) \in Data /\ Shown("layers", data).layers = data.layers  BY <1>1, ShownTyped
<1>3. page' = [tab |-> t, of |-> Shown(t, data)]  BY DEF RenderTab
<1>4. CASE t = "layers"
  <2>1. node' = -1 /\ due' = (data.layers # NoImage /\ LayerCount[data.layers] > 0)  BY <1>4 DEF RenderTab
  <2>2. due' \in BOOLEAN /\ (due' => data.layers # NoImage)  BY <2>1, Zenon
  <2>3. page'.of.layers = data.layers  BY <1>2, <1>3, <1>4
  <2> QED  BY <1>2, <1>3, <2>1, <2>2, <2>3
<1>5. CASE t # "layers"  BY <1>1, <1>2, <1>3, <1>5 DEF RenderTab
<1> QED  BY <1>4, <1>5

\* The closures of SetImage and of Refresh draw from what is stored.
LEMMA Redraws ==
    ASSUME IInv, RunRedraw \/ \E r \in Refresher : RunRefreshed(r)
    PROVE  IInv'
<1>1. page \in [tab : Tab, of : Data] /\ RenderTab(page.tab, data)
      /\ UNCHANGED <<image, gen, data, preview, diff, merged, focus, shown, ui, lapsed>>
  BY DEF RunRedraw, RunRefreshed, IInv, Typed, TypeOK
<1>2. /\ page' \in [tab : Tab, of : Data] /\ page'.tab = page.tab
      /\ page'.of = Shown(page.tab, data)
      /\ node' \in Int /\ due' \in BOOLEAN
      /\ page.tab = "layers" => node' = -1 /\ (due' => page'.of.layers # NoImage)
  BY <1>1, Renders
<1>3. job \in [Refresher -> Job] /\ NoJob \in Job /\ gen \in 0..MaxOpen
  BY JobTyped DEF IInv
<1>4. job' \in [Refresher -> Job] /\ \A o \in Refresher : Fits(job[o])'
  <2>1. CASE RunRedraw  BY <1>3, <2>1 DEF RunRedraw, IInv, Fits, Underway
  <2>2. ASSUME NEW r \in Refresher, RunRefreshed(r) PROVE job' \in [Refresher -> Job] /\ \A o \in Refresher : Fits(job[o])'
    <3>1. Ended \in Job /\ Fits(Ended)  BY <1>3 DEF Ended, Job, NoJob, Fits, Underway
    <3>2. OneLoad(r)  BY <1>3, <2>2, <3>1 DEF RunRefreshed, OneLoad
    <3> QED  BY <2>2, <3>2, OneLoadFits DEF RunRefreshed, OneLoad
  <2> QED  BY <2>1, <2>2
<1>5. redraws' \in 0..MaxOpen /\ redraws' <= redraws
  BY OpenAssumption DEF RunRedraw, RunRefreshed, IInv, Typed, TypeOK
<1>6. Typed'
  <2> DEFINE b == IF ui.at = "idle" THEN 0 ELSE 1
  <2>1. redraws + b <= gen /\ redraws \in Int /\ redraws' \in Int /\ gen \in Int /\ b \in Int
    BY <1>5, OpenAssumption DEF IInv, Typed, TypeOK
  <2>2. gen' = gen /\ ui' = ui  BY <1>1
  <2> HIDE DEF b
  <2>3. redraws' + b <= gen'
    <3>1. ASSUME NEW x \in Int, NEW y \in Int, NEW g \in Int, NEW c \in Int, y <= x, x + c <= g
          PROVE  y + c <= g
      BY <3>1
    <3>2. redraws' <= redraws  BY <1>5
    <3> QED  BY <2>1, <2>2, <3>1, <3>2
  <2>4. TypeOK'  BY <1>1, <1>2, <1>4, <1>5 DEF IInv, Typed, TypeOK, Job
  <2> USE DEF b
  <2> QED  BY <2>2, <2>3, <2>4 DEF IInv, Typed
<1>7. TabFollows'  BY <1>1, <1>2 DEF TabFollows
<1>8. LayersDrawn' /\ DiffFollows'  BY <1>2 DEF LayersDrawn, DiffFollows
<1>9. Panes'  BY <1>1, <1>2 DEF IInv, Panes, FocusOnOpenPane, GetFocusPrimitive
<1>10. Held'  BY <1>1 DEF IInv, Held
<1> QED  BY <1>4, <1>6, <1>7, <1>8, <1>9, <1>10 DEF IInv

\* The browsers follow the cursor to a layer of the tree.
LEMMA Follows ==
    ASSUME IInv, NEW n \in Int, Changed(n), page.of.layers # NoImage, page' = page
    PROVE  /\ diff' \in [open : BOOLEAN, focus : BOOLEAN, of : Layer]
           /\ diff'.open = diff.open /\ diff'.focus = diff.focus
           /\ diff.open /\ n >= 0 => diff'.of = LayerAt(page'.of, n)
           /\ merged' \in [open : BOOLEAN, focus : BOOLEAN, of : SUBSET Image, sel : Int]
           /\ merged'.open = merged.open /\ merged'.focus = merged.focus /\ merged'.of = merged.of
<1>1. page.of.layers \in Image  BY DEF IInv, Typed, TypeOK, Data, Maybe
<1>2. n >= 0 => LayerAt(page.of, n) \in Layer  BY <1>1 DEF LayerAt, Layer
<1>3. diff \in [open : BOOLEAN, focus : BOOLEAN, of : Layer]
      /\ merged \in [open : BOOLEAN, focus : BOOLEAN, of : SUBSET Image, sel : Int]
  BY DEF IInv, Typed, TypeOK
<1> QED  BY <1>2, <1>3 DEF Changed, FollowLayers, LayerAt

\* A draw, or a key in the tree of layers, moves its node; the diff follows.
LEMMA Moves ==
    ASSUME IInv, Draw \/ MoveLayers
    PROVE  IInv'
<1>1. PICK n \in Int : node' = n /\ Changed(n)
  BY DEF Draw, MoveLayers, LayerAssumption
<1>2. page.of.layers # NoImage /\ page.tab = "layers"
  BY DEF IInv, LayersDrawn, Draw, DrawDue, MoveLayers, Panes, FocusOnOpenPane, GetFocusPrimitive,
         Key, Typed, TypeOK, Tab
<1>3. /\ UNCHANGED <<image, gen, data, page, preview, focus, shown, ui, job, redraws, lapsed>>
      /\ due' \in BOOLEAN
  BY DEF IInv, Typed, TypeOK, Draw, MoveLayers, KeyVars
<1>4. /\ diff' \in [open : BOOLEAN, focus : BOOLEAN, of : Layer]
      /\ diff'.open = diff.open /\ diff'.focus = diff.focus
      /\ diff.open /\ n >= 0 => diff'.of = LayerAt(page'.of, n)
      /\ merged' \in [open : BOOLEAN, focus : BOOLEAN, of : SUBSET Image, sel : Int]
      /\ merged'.open = merged.open /\ merged'.focus = merged.focus /\ merged'.of = merged.of
  BY <1>1, <1>2, <1>3, Follows
<1>5. Typed'  BY <1>1, <1>3, <1>4 DEF IInv, Typed, TypeOK
<1>6. TabFollows'  BY <1>3 DEF IInv, TabFollows
<1>7. LayersDrawn' /\ DiffFollows'  BY <1>1, <1>2, <1>3, <1>4 DEF LayersDrawn, DiffFollows
<1>8. Panes'  BY <1>3, <1>4 DEF IInv, Panes, FocusOnOpenPane, GetFocusPrimitive
<1>9. Held'  BY <1>3, <1>4 DEF IInv, Held
<1>10. \A o \in Refresher : Fits(job[o])'  BY <1>3 DEF IInv, Fits, Underway
<1> QED  BY <1>5, <1>6, <1>7, <1>8, <1>9, <1>10 DEF IInv

-----------------------------------------------------------------------------
(***************************************************************************)
(* The keys.                                                               *)
(***************************************************************************)

PanesTyped ==
    /\ page \in [tab : Tab, of : Data] /\ node \in Int /\ due \in BOOLEAN
    /\ preview \in [open : BOOLEAN, focus : BOOLEAN]
    /\ diff \in [open : BOOLEAN, focus : BOOLEAN, of : Layer]
    /\ merged \in [open : BOOLEAN, focus : BOOLEAN, of : SUBSET Image, sel : Int]
    /\ focus \in {"manifest", "platforms", "preview", "layers", "diff", "merged", "used-by"}
    /\ shown \in BOOLEAN

\* A key changes the panes and nothing of what is held or loaded.
LEMMA KeyKeeps ==
    ASSUME IInv, UIFree, UNCHANGED <<KeyVars, lapsed>>,
           PanesTyped', LayersDrawn', DiffFollows', Panes',
           page' = page \/ page'.of = Shown(page'.tab, data),
           ~lapsed /\ merged'.open => merged'.of \subseteq {image}
    PROVE  IInv'
<1>1. Typed'  BY DEF IInv, Typed, TypeOK, PanesTyped, KeyVars
<1>2. TabFollows'  BY DEF IInv, TabFollows, KeyVars
<1>3. \A o \in Refresher : Fits(job[o])'  BY DEF IInv, Fits, Underway, KeyVars
<1>4. Held'  BY DEF IInv, Held, KeyVars, UIFree
<1> QED  BY <1>1, <1>2, <1>3, <1>4 DEF IInv

\* TypeOK, as the panes need it.
LEMMA PanesAreTyped == ASSUME IInv PROVE PanesTyped
BY DEF IInv, Typed, TypeOK, PanesTyped

\* The merged tree of a quiet view is of the image.
LEMMA MergedHeld ==
    ASSUME IInv, UIFree, ~lapsed
    PROVE  /\ merged.open => merged.of \subseteq {image}
           /\ {data.layers} \ {NoImage} \subseteq {image}
<1>1. Field[3] = "layers"  BY DEF Field
<1>2. data.layers \in {image, NoImage}  BY <1>1 DEF IInv, Held, UIFree, Idle
<1> QED  BY <1>2 DEF IInv, Held

\* Back leaves the panes as they are; only the page is no longer shown.
LEMMA Backs == ASSUME IInv, Back PROVE IInv'
<1>1. PanesTyped'  BY PanesAreTyped DEF PanesTyped, Back
<1>2. LayersDrawn' /\ DiffFollows' /\ Panes'
  BY DEF IInv, LayersDrawn, DiffFollows, Panes, FocusOnOpenPane, LayerAt, Back
<1> QED  BY <1>1, <1>2, KeyKeeps, MergedHeld DEF Back, Key

\* Another tab is drawn before it is shown.
LEMMA Switches == ASSUME IInv, NEW t \in Tab, SwitchTab(t) PROVE IInv'
<1>1. /\ page' \in [tab : Tab, of : Data] /\ page'.tab = t /\ page'.of = Shown(t, data)
      /\ node' \in Int /\ due' \in BOOLEAN
      /\ t = "layers" => node' = -1 /\ (due' => page'.of.layers # NoImage)
  BY Renders DEF SwitchTab
<1>2. focus' = GetFocusPrimitive(t, preview', merged', diff')  BY <1>1 DEF SwitchTab, Refocus
<1>3. PanesTyped'
  <2>1. focus' \in {"manifest", "platforms", "preview", "layers", "diff", "merged", "used-by"}
    BY <1>2, FocusTyped
  <2>2. NoPreview \in [open : BOOLEAN, focus : BOOLEAN]
        /\ NoDiff \in [open : BOOLEAN, focus : BOOLEAN, of : Layer]
        /\ NoMerged \in [open : BOOLEAN, focus : BOOLEAN, of : SUBSET Image, sel : Int]
    BY DEF NoPreview, NoDiff, NoMerged, Layer
  <2> QED  BY <1>1, <2>1, <2>2, PanesAreTyped DEF PanesTyped, SwitchTab
<1>4. LayersDrawn' /\ DiffFollows'  BY <1>1 DEF LayersDrawn, DiffFollows
<1>5. Panes'
  BY <1>1, <1>2 DEF IInv, Panes, FocusOnOpenPane, SwitchTab, NoPreview, NoDiff, NoMerged
<1>6. ~lapsed /\ merged'.open => merged'.of \subseteq {image}
  BY MergedHeld DEF SwitchTab, Key, NoMerged
<1> QED  BY <1>1, <1>3, <1>4, <1>5, <1>6, KeyKeeps DEF SwitchTab, Key

\* The focus goes to the other pane that is open.
LEMMA SwitchesPane == ASSUME IInv, SwitchPane PROVE IInv'
<1>1. /\ preview' \in [open : BOOLEAN, focus : BOOLEAN] /\ preview'.open = preview.open
      /\ ~preview.open => preview'.focus = preview.focus
      /\ diff' \in [open : BOOLEAN, focus : BOOLEAN, of : Layer]
      /\ diff'.open = diff.open /\ diff'.of = diff.of
      /\ merged' \in [open : BOOLEAN, focus : BOOLEAN, of : SUBSET Image, sel : Int]
      /\ merged'.open = merged.open /\ merged'.of = merged.of
  BY PanesAreTyped DEF PanesTyped, SwitchPane
<1>2. page' = page /\ node' = node /\ due' = due /\ shown' = shown
      /\ focus' = GetFocusPrimitive(page.tab, preview', merged', diff')
  BY DEF SwitchPane, Refocus
<1>3. PanesTyped'  BY <1>1, <1>2, PanesAreTyped, FocusTyped DEF PanesTyped
<1>4. LayersDrawn' /\ DiffFollows' /\ Panes'
  BY <1>1, <1>2 DEF IInv, LayersDrawn, DiffFollows, Panes, FocusOnOpenPane, LayerAt
<1>5. ~lapsed /\ merged'.open => merged'.of \subseteq {image}
  BY <1>1, MergedHeld DEF SwitchPane, Key
<1> QED  BY <1>2, <1>3, <1>4, <1>5, KeyKeeps DEF SwitchPane, Key

\* The preview of the platforms tab is opened or closed.
LEMMA Previews == ASSUME IInv, TogglePreview PROVE IInv'
<1>1. /\ preview' \in [open : BOOLEAN, focus : BOOLEAN] /\ ~preview'.focus
      /\ focus' = "platforms" /\ page.tab = "platforms"
  <2>1. CASE preview.open  BY <2>1 DEF TogglePreview, NoPreview
  <2>2. CASE ~preview.open
    <3>1. preview' \in [open : BOOLEAN, focus : BOOLEAN] /\ preview'.focus = preview.focus
      BY <2>2, PanesAreTyped DEF PanesTyped, TogglePreview
    <3>2. ~preview.focus /\ focus = "platforms"
      BY <2>2 DEF IInv, Panes, FocusOnOpenPane, GetFocusPrimitive, TogglePreview, Key
    <3> QED  BY <2>2, <3>1, <3>2 DEF TogglePreview
  <2> QED  BY <2>1, <2>2
<1>2. PanesTyped'  BY <1>1, PanesAreTyped DEF PanesTyped, TogglePreview
<1>3. LayersDrawn' /\ DiffFollows'
  BY DEF IInv, LayersDrawn, DiffFollows, LayerAt, TogglePreview
<1>4. Panes'
  BY <1>1 DEF IInv, Panes, FocusOnOpenPane, GetFocusPrimitive, TogglePreview
<1>5. ~lapsed /\ merged'.open => merged'.of \subseteq {image}
  BY MergedHeld DEF TogglePreview, Key
<1> QED  BY <1>2, <1>3, <1>4, <1>5, KeyKeeps DEF TogglePreview, Key

\* A tree of the layers held now.
LEMMA MergedNowTyped ==
    ASSUME IInv, UIFree,
           NEW m \in [open : BOOLEAN, focus : BOOLEAN, of : SUBSET Image, sel : Int]
    PROVE  /\ MergedNow(m) \in [open : BOOLEAN, focus : BOOLEAN, of : SUBSET Image, sel : Int]
           /\ MergedNow(m).open = m.open /\ MergedNow(m).focus = m.focus
           /\ ~lapsed => MergedNow(m).of \subseteq {image}
<1>1. data.layers \in Maybe /\ node \in Int  BY DEF IInv, Typed, TypeOK, Data
<1>2. {data.layers} \ {NoImage} \subseteq Image  BY <1>1 DEF Maybe
<1> QED  BY <1>1, <1>2, MergedHeld DEF MergedNow

\* The merged browser is opened or closed, and the diff browser closes.
LEMMA PressesMerged == ASSUME IInv, PressMerged PROVE IInv'
<1> DEFINE M == [open : BOOLEAN, focus : BOOLEAN, of : SUBSET Image, sel : Int]
           n == MergedNow([merged EXCEPT !.open = TRUE, !.focus = TRUE])
<1>1. [merged EXCEPT !.open = TRUE, !.focus = TRUE] \in M
      /\ [merged EXCEPT !.open = TRUE, !.focus = TRUE].open
      /\ [merged EXCEPT !.open = TRUE, !.focus = TRUE].focus
  BY PanesAreTyped DEF PanesTyped
<1>2. n \in M /\ n.open /\ n.focus /\ (~lapsed => n.of \subseteq {image})
  BY <1>1, MergedNowTyped DEF PressMerged, Key
<1>3. merged' = IF merged.open THEN NoMerged ELSE IF Browsable THEN n ELSE merged
  BY DEF PressMerged
<1> HIDE DEF n
<1>4. NoMerged \in M /\ ~NoMerged.open  BY DEF NoMerged
<1>5. NoDiff \in [open : BOOLEAN, focus : BOOLEAN, of : Layer] /\ ~NoDiff.open /\ ~NoDiff.focus
  BY DEF NoDiff, Layer
<1>6. merged' \in M /\ diff' \in [open : BOOLEAN, focus : BOOLEAN, of : Layer] /\ ~diff'.open
  BY <1>2, <1>3, <1>4, <1>5, PanesAreTyped DEF PanesTyped, PressMerged
<1>7. merged'.open => merged'.focus /\ (~lapsed => merged'.of \subseteq {image})
  BY <1>2, <1>3, <1>4
<1>8. PanesTyped'  BY <1>6, PanesAreTyped DEF PanesTyped, PressMerged
<1>9. LayersDrawn' /\ DiffFollows'
  BY <1>6 DEF IInv, LayersDrawn, DiffFollows, PressMerged
<1>10. focus' = IF merged'.open THEN "merged" ELSE "layers"
  <2>1. CASE merged.open \/ diff.open \/ Browsable  BY <2>1 DEF PressMerged
  <2>2. CASE ~merged.open /\ ~diff.open /\ ~Browsable
    BY <1>3, <2>2 DEF PressMerged, IInv, Panes, FocusOnOpenPane, GetFocusPrimitive, Key
  <2> QED  BY <2>1, <2>2
<1>11. Panes'
  BY <1>6, <1>7, <1>10 DEF IInv, Panes, FocusOnOpenPane, GetFocusPrimitive, PressMerged
<1> QED  BY <1>7, <1>8, <1>9, <1>11, KeyKeeps DEF PressMerged, Key

\* The diff browser is opened on the selected layer or closed, and the merged one closes.
LEMMA PressesDiff == ASSUME IInv, PressDiff PROVE IInv'
<1> DEFINE opens == node >= 0 /\ LayerAt(page.of, node) # NoImage
           D == [open : BOOLEAN, focus : BOOLEAN, of : Layer]
           d == [open |-> TRUE, focus |-> TRUE, of |-> LayerAt(page.of, node)]
<1>1. /\ diff' = IF diff.open THEN NoDiff ELSE IF opens THEN d ELSE diff
      /\ focus' = IF merged.open \/ diff.open \/ opens
                  THEN (IF diff'.open THEN "diff" ELSE "layers") ELSE focus
      /\ merged' = IF merged.open THEN NoMerged ELSE merged
      /\ page.tab = "layers" /\ page' = page /\ node' = node
  BY DEF PressDiff
<1>2. opens => d \in D
  <2>1. ASSUME opens PROVE page.of.layers \in Image /\ node \in Nat
    BY <1>1, <2>1 DEF IInv, Typed, TypeOK, Data, Maybe, LayersDrawn
  <2> QED  BY <2>1 DEF LayerAt, Layer
<1>3. d.open /\ d.focus /\ d.of = LayerAt(page.of, node)  OBVIOUS
<1> HIDE DEF d, opens
<1>4. NoDiff \in D /\ ~NoDiff.open
      /\ NoMerged \in [open : BOOLEAN, focus : BOOLEAN, of : SUBSET Image, sel : Int] /\ ~NoMerged.open
  BY DEF NoDiff, NoMerged, Layer
<1>5. diff' \in D /\ ~merged'.open /\ (diff'.open => diff'.focus /\ diff'.of = LayerAt(page.of, node))
      /\ merged' \in [open : BOOLEAN, focus : BOOLEAN, of : SUBSET Image, sel : Int]
  BY <1>1, <1>2, <1>3, <1>4, PanesAreTyped DEF PanesTyped
<1>6. PanesTyped'  BY <1>1, <1>5, PanesAreTyped DEF PanesTyped, PressDiff
<1>7. LayersDrawn' /\ DiffFollows'
  BY <1>1, <1>5 DEF IInv, LayersDrawn, DiffFollows, PressDiff
<1>8. focus' = IF diff'.open THEN "diff" ELSE "layers"
  <2>1. CASE merged.open \/ diff.open \/ opens  BY <1>1, <2>1
  <2>2. CASE ~merged.open /\ ~diff.open /\ ~opens
    BY <1>1, <2>2 DEF PressDiff, IInv, Panes, FocusOnOpenPane, GetFocusPrimitive, Key
  <2> QED  BY <2>1, <2>2
<1>9. Panes'
  BY <1>1, <1>5, <1>8 DEF IInv, Panes, FocusOnOpenPane, GetFocusPrimitive, PressDiff
<1> QED  BY <1>5, <1>6, <1>7, <1>9, KeyKeeps DEF PressDiff, Key

\* Within the merged tree, nothing but it changes.
LEMMA ChangesMerged == ASSUME IInv, PressDeleted \/ ExpandMerged PROVE IInv'
<1>1. UIFree /\ UNCHANGED <<KeyVars, page, node, due, preview, diff, focus, shown, lapsed>>
  BY DEF PressDeleted, ExpandMerged, Key
<1>2. merged \in [open : BOOLEAN, focus : BOOLEAN, of : SUBSET Image, sel : Int]
  BY PanesAreTyped DEF PanesTyped
<1>3. /\ merged' \in [open : BOOLEAN, focus : BOOLEAN, of : SUBSET Image, sel : Int]
      /\ merged'.open = merged.open /\ merged'.focus = merged.focus
      /\ ~lapsed /\ merged'.open => merged'.of \subseteq {image}
  <2>1. CASE PressDeleted  BY <1>1, <1>2, <2>1, MergedNowTyped DEF PressDeleted
  <2>2. CASE ExpandMerged
    <3>1. data.layers \in Maybe  BY DEF IInv, Typed, TypeOK, Data
    <3>2. {data.layers} \ {NoImage} \subseteq Image  BY <3>1 DEF Maybe
    <3> QED  BY <1>1, <1>2, <2>2, <3>2, MergedHeld DEF ExpandMerged
  <2> QED  BY <2>1, <2>2
<1>4. PanesTyped'  BY <1>1, <1>3, PanesAreTyped DEF PanesTyped
<1>5. LayersDrawn' /\ DiffFollows' /\ Panes'
  BY <1>1, <1>3 DEF IInv, LayersDrawn, DiffFollows, Panes, FocusOnOpenPane, LayerAt, GetFocusPrimitive
<1> QED  BY <1>1, <1>3, <1>4, <1>5, KeyKeeps

-----------------------------------------------------------------------------
(***************************************************************************)
(* The theorems.                                                           *)
(***************************************************************************)

\* The page starts empty, with no load.
LEMMA Begins == Init => IInv
<1> SUFFICES ASSUME Init PROVE IInv  OBVIOUS
<1>1. NoData \in Data /\ NoJob \in Job
  BY OpenAssumption DEF NoData, Data, Maybe, NoJob, Job
<1>2. Typed
  <2>1. TypeOK
    <3>1. image \in Maybe /\ gen \in 0..MaxOpen /\ data \in Data /\ redraws \in 0..MaxOpen
      BY <1>1, OpenAssumption DEF Init, Maybe
    <3>2. page \in [tab : Tab, of : Data]  BY <1>1 DEF Init, Tab
    <3>3. preview \in [open : BOOLEAN, focus : BOOLEAN]
          /\ diff \in [open : BOOLEAN, focus : BOOLEAN, of : Layer]
          /\ merged \in [open : BOOLEAN, focus : BOOLEAN, of : SUBSET Image, sel : Int]
      BY DEF Init, NoPreview, NoDiff, NoMerged, Layer
    <3>4. ui \in [at : {"idle", "handle", "clear", "finish"}, image : Maybe, field : 1..5]
      BY DEF Init, Idle, Maybe
    <3>5. job \in [Refresher -> Job]  BY <1>1 DEF Init
    <3>6. node \in Int /\ focus = "manifest"  BY DEF Init
    <3>7. due \in BOOLEAN /\ shown \in BOOLEAN /\ lapsed \in BOOLEAN  BY DEF Init
    <3> QED  BY <3>1, <3>2, <3>3, <3>4, <3>5, <3>6, <3>7 DEF TypeOK, Job
  <2> QED  BY <2>1 DEF Init, Typed, Idle
<1>3. TabFollows
  BY DEF Init, TabFollows, Shown, InfoShown, NoData
<1>4. LayersDrawn /\ DiffFollows /\ Panes
  BY DEF Init, LayersDrawn, DiffFollows, Panes, FocusOnOpenPane, NoPreview, NoDiff, NoMerged
<1>5. \A r \in Refresher : Fits(job[r])
  BY DEF Init, Fits, NoJob, Underway
<1>6. Held
  BY FieldNumbers DEF Init, Held, NoData, Fields, NoMerged
<1> QED  BY <1>2, <1>3, <1>4, <1>5, <1>6 DEF IInv

\* Nothing changes, nothing breaks.
LEMMA Stutters == ASSUME IInv, UNCHANGED vars PROVE IInv'
<1>1. Typed' /\ TabFollows' /\ Held'
  BY DEF IInv, Typed, TypeOK, TabFollows, Held, vars, viewVars
<1>2. \A o \in Refresher : Fits(job[o])'  BY DEF IInv, Fits, Underway, vars
<1> QED  BY <1>1, <1>2, PanelsKeep DEF IInv, vars

\* Every step of the page keeps the invariant.
LEMMA Steps == ASSUME IInv, [Next]_vars PROVE IInv'
<1>1. CASE (\E i \in Image : OpenImage(i)) \/ SetHandle \/ ClearField
  BY <1>1, Opens, Sets, Clears
<1>2. CASE \E r \in Refresher : FinishOpen(r) \/ Refresh(r) \/ RunRefreshed(r) \/ RunFailed(r)
  BY <1>2, Finishes, Loads, Redraws
<1>3. CASE RunRedraw  BY <1>3, Redraws
<1>4. CASE Draw  BY <1>4, Moves
<1>5. CASE Keys
  BY <1>5, Backs, Loads, Switches, SwitchesPane, Previews, Moves, PressesMerged, PressesDiff,
     ChangesMerged DEF Keys
<1> QED  BY <1>1, <1>2, <1>3, <1>4, <1>5, Stutters DEF Next

\* The tab on screen, the layer selected, the panes and what is held and
\* loaded keep together through every step of the page.
THEOREM Inductive == Spec => []IInv
<1>1. IInv /\ [Next]_vars => IInv'  BY Steps
<1> QED  BY Begins, <1>1, PTL DEF Spec

\* The page's variables keep their types.
THEOREM TypeCorrect == Spec => []TypeOK
<1>1. IInv => TypeOK  BY DEF IInv, Typed
<1> QED  BY <1>1, Inductive, PTL

\* Once loads, closures and keys have come to rest, the tab on screen is drawn
\* from what the view holds: for any number of refreshes and openings.
THEOREM QuietTab == Spec => []QuietTabIsOfStored
<1>1. IInv => QuietTabIsOfStored
  BY DEF IInv, Typed, TypeOK, TabFollows, QuietTabIsOfStored, Quiet, Idle
<1> QED  BY <1>1, Inductive, PTL

\* Never two browsers, and the keys go to a pane that is open.
THEOREM KeysGoToAnOpenPane == Spec => []FocusOnOpenPane
<1>1. IInv => FocusOnOpenPane  BY DEF IInv, Panes
<1> QED  BY <1>1, Inductive, PTL

\* The diff browser shows the layer selected and no other, image by image.
THEOREM DiffFollowsTheCursor == Spec => []DiffFollowsSelection
<1>1. IInv => DiffFollowsSelection  BY DEF IInv, DiffFollows, DiffFollowsSelection
<1> QED  BY <1>1, Inductive, PTL

\* But for the two races the history names, nothing of another image is held.
THEOREM NoOtherImageHeld == Spec => []HeldIsOfImage
<1>1. ASSUME IInv, ~lapsed, ui = Idle PROVE HeldIsOfImage
  <2>1. \A k \in 1..4 : data[Field[k]] \in {image, NoImage}  BY <1>1 DEF IInv, Held, Idle
  <2>2. DOMAIN data = Fields  BY <1>1 DEF IInv, Typed, TypeOK, Data, Fields
  <2> QED  BY <1>1, <2>1, <2>2, FieldNumbers DEF IInv, Held, HeldIsOfImage
<1>2. IInv => HeldIsOfImage  BY <1>1 DEF HeldIsOfImage
<1> QED  BY <1>2, Inductive, PTL
=============================================================================
