# c-ray in TLA+

c-ray is a terminal viewer for containers: a tview application that asks
containerd, CRI-O or Docker, and `/proc`, what runs on the host and keeps the
answer on the screen up to date.  It changes nothing on the host, so what can
go wrong in it is concurrency: refresh goroutines that outlive their reason,
answers that arrive after the question has changed, shared baselines, and
widgets redrawn by closures that overtake each other.  The modules here are
about that.

## The system

| part | state it keeps | operations | what makes it correct |
|---|---|---|---|
| application `pkg/ui/app.go`, `views/helpers.go` | context, `stopping`, `stopOnce`, tracked update states | `Run`, `Stop`, signal goroutine, after-draw functions, `queueUpdateDraw` | a stop always ends the program, after everything is released; updates go to the event loop |
| navigator `pkg/ui/navigation.go` | page history | `NavigateTo`, `Back` | Back leads to where one came from |
| main view `main_view.go` | active tab, poller | `switchTab`, poller, `StopAutoRefresh` | one poller, which ends |
| container, pod and image lists | entries, row maps, selection, collapsed pods | `Refresh` (goroutines), closures, keys | a row leads to what it shows; selection and collapse state survive a refresh |
| container detail page `container_detail.go` | handle, info, state, generation, tab | `SetContainer`, `Refresh`, `switchTab`, `Leave` | shows the container that was opened; does not stay at Loading |
| processes workspace `processes_view.go`, `top_view.go` | sub-tab, refresh loop (`refreshRunning`, `refreshStop`) | `switchTab`, `StartAutoRefresh`, `StopAutoRefresh`, the loop | polled while shown, stopped when left, no double close |
| views inside the detail page (`detail_grid_view.go` and eight more) | handle, answers kept | `SetContainer`, `Refresh`, closures, keys | the answers shown are of one container, the one of the page |
| image page `image_detail.go` | handle, generation, info, config, layers, users, panes, browsers | `SetImage`, `Refresh`, keys | what is held and drawn is of the image; keys go to an open pane |
| rate sampler `pkg/sysinfo/sampler.go`, `process.go` | previous snapshots, the container they are of | `CollectProcessTop`: read, `CalculateProcessRates`, read, `CalculateNetworkRates` | rates are differences of one process, of one container, in order |
| procfs, cgroup and mount readers `pkg/sysinfo` | none | parsers | pure |
| runtimes `pkg/runtime/{containerd,crio,docker,cri}` | connections, handles with `sync.Once` caches | `Connect`, `Close`, lists, handle methods | caches only what cannot change; no use after Close |
| command line, detection, launcher `cmd/` | none | one call each | a socket found and the same one named give the same runtime |

Interaction.  The UI goroutine runs key handlers, queued closures and draws,
one at a time.  Every `Refresh` runs in a goroutine of its own (a poller's
tick, the `r` key, a tab switch, `SetContainer`), reads view fields, calls the
runtime, writes view fields, and queues a closure that redraws from the fields
as they are when the closure runs.  `queueUpdateDraw` gives every closure to a
goroutine of its own, so closures are not ordered.  Most view fields are
written without a lock.  One sampler is shared by all refreshes of a runtime.
The signal goroutine calls `App.Stop` beside the UI goroutine.

What is hard to test, with the line where it bites and the property that
watches it, is listed under "hazards" in `PROJECT.json`.

## The modules

| module | models | how it is checked |
|---|---|---|
| `TopView` | the refresh loop of the top page, both `switchTab`s, opening and leaving the page, shutdown | extended by `StartsAndStops`; runs `starts_and_stops`, `top_stops` |
| `Sampler` | `Sampler` and `CollectProcessTop`, with the kernel's processes as environment | `MCSampler` gives the containers and processes; run `sampler` |
| `ContainerDetail` | `SetContainer`, `Refresh`, the header closures | composed in `RuntimesAndPage`, over `PageParams`; runs `runtimes`, `detail_stale` |
| `AppLifecycle` | `App.Run`, `App.Stop`, signals, after-draw functions, `queueUpdateDraw` | composed in `StartsAndStops`; run `starts_and_stops`; implements `Shutdown` |
| `Browse` | the navigator, key bindings, focus, help dialog, main view and its poller | extended by `Views`; run `views` |
| `ContainerTree`, `PodList` | the two lists of the main page, over `SharedSlice` | composed in `Views`; run `views` |
| `SubView` | the nine views inside the container page | composed in `Views`; run `views` |
| `ImageDetail` | the image page | `MCImageDetail` gives the images; run `image_detail` |
| `ImageList` | `ImageListView`: refresh, row maps, selection, Enter | extended by `ListParts`; run `lists` |
| `HostPids` | the processes of a container, their host PIDs and the tree drawn of them | composed in `ListParts`; run `lists` |
| `LayerMerge`, `MountMerge`, `Detection` | computations without state: the merged directory, the two mount merges, the choice of a runtime | through `Algorithms` |
| `Algorithms` | a behaviour that chooses one input of them, whatever the inputs are | composed in `ListsAndAlgorithms`; runs `lists`, `merged_sub`, on every input of a small domain |
| `Handle` with `ContainerdHandle`, `CrioHandle`, `DockerHandle` over `Questions` | a container handle; the three tables say what each method asks, in order | composed in `Runtimes`; runs `runtimes`, `docker_pid`; implements `CurrentHandle`, Docker's excepted |
| `Supplement` | how a CRI-O handle comes by its CRI metadata | composed in `Runtimes`; runs `runtimes`, `crio_stdio`, `crio_spoofed` |
| `Connection` | `Connect`, `Close` and calls of the three clients | extended by `Runtimes`; run `runtimes` |
| `TempView` | containerd's temporary view of an image, with processes that die | composed in `Runtimes`; run `runtimes` |
| `Shutdown`, `CurrentHandle` | what `Run` and `Stop`, and what a container handle, promise | abstract specifications |
| `Views`, `ListParts` in `ListsAndAlgorithms`, `Runtimes` in `RuntimesAndPage`, `StartsAndStops` | the parts of the pages, of two lists and the algorithms, of the runtimes and the header loaded from them, and of the loops and the application that starts and ends them, side by side, for any constants | `Views` and `ListsAndAlgorithms` have their small instances in `MCViews` and `MCLists`; all the others need are the sizes in their .cfg files |
| `...Proofs` | theorems and proofs | extend the module they are named after; `TopViewProofs`, `RuntimesProofs` and `ListsProofs` extend `StartsAndStops`, `RuntimesAndPage` and `ListsAndAlgorithms` |

`Views`, `ListsAndAlgorithms`, `RuntimesAndPage` and `StartsAndStops` each put
several modules side by side that share no variable (but `backend` in
`Runtimes`, which never changes).
Their next-state relations let one part move while the others stay in an
initial state, so a run is the sum of the parts' state spaces and not their product; nothing is
lost, as no property relates what two parts do: where one names two parts, it
is the conjunction of a property of each.  Fairness is a part's own; that of the
application, which would owe its start in the behaviours of the loops, is asked
for only while the loops rest (`AppFairness`).  That a behaviour of the whole is
one of each part is proved (`ViewsPartsOfAll`, `ListPartsOfAll`, `PartsOfAll`,
`PartsWithPage`, `StartsOfAll`), so the theorems about the parts are about what
the runs check.  What is proved of the header and of the application comes with
their instances, and is said again of the whole (`PageAcceptedBound`,
`PageHeaderDrawn`, `AllReleasedBeforeExit`, `AllUpdatesGoThroughTheLoop`).

A slice that is stored without a lock is an array and a length, stored one
after the other (`SharedSlice`): a read in between sees a new array with an old
length, which is a crash if the array is shorter, and otherwise a mixture.

### TopView

`refreshRunning` and `refreshStop` are the fields; loop *n* is the *n*-th
goroutine of `StartAutoRefresh` and channel *n* the one made with it.  Start
and stop are one critical section each, hence operators used by the handlers.
`ProcessesView.switchTab` lets the mutex go between the two, hence
`BeginSwitch` and `EndSwitch`.  The loop evaluates the field when it enters its
select (`EnterSelect` copies it to `sel`), and a tick may win although the
channel is closed.  The read is not locked; it is one aligned word, so it is
taken to return some value the field had, the latest one.

The tabs survive leaving the page, because the code leaves them.

- `starts_and_stops`: three loops, all safety properties, and, under the fairness below,
  that every loop ends when the application has exited.  Three let an outlived
  loop exit while a second one is replaced by a third; old loops differ only in
  the channel they wait on.
- `top_stops` (violated): a loop inside `Refresh` misses its stop and polls on
  for ever, invisibly, until the program ends.

A property of the module that no run checks, since it does not hold:
`TopShownIsPolled`.  Open, Processes, Top, Back, open: the page is shown and
nothing refreshes it, as `Leave` stops the loop and opening does not start one.

Fairness: the code in a goroutine proceeds; a select chooses at random between
ready cases, so a case that is ready again and again is taken in the end
(strong fairness of `ObserveStop` and `ObserveDone`).  The user owes nothing.

### Sampler

A worker is a goroutine in `CollectProcessTop`: it reads the processes, takes
the mutex and computes, reads the interfaces, takes the mutex and computes.
What it reads first is one of three: the processes of the container's `/proc`
(`ListProcesses`), one process by its PID inside (`ReadTarget`), or, when that
`/proc` cannot be listed, the init process alone under its *host* PID
(`FallBack`); all three go into the one map `prevProcess`, so a host PID and a
PID inside that are the same number share a baseline.  An error before the
first sampling changes nothing and is no step.  A collection reads its
processes at once, where the code reads one after the other: what is lost is
that of two collections that overlap each may have the newer reading of some
process.

The kernel starts processes, lets them use CPU time, ends them, and gives a PID
again; a container's processes end with its init process.  `who`, in readings
and snapshots, is history: which process a reading is of.  `newer` and
`overtaken` are history, too: a collection is overtaken when one that read after
it is sampled before it.  So is `crossed`: a collection is crossed when one of
another container is sampled between its two samplings.

The byte counters are left out.  Their differences are guarded, so that they
never wrap, by the guard alone; and the network rates computed here do
not reach the screen (the network bar of the top page shows the statistics of
the handle's `Network()`, which come from `ReadNetDev` without the sampler, so
their rates are always zero).  Of the network baselines only whose they are is
kept.

- `sampler`: process baselines are of the sampler's container whatever
  overlaps.  A collection meets network baselines of another container only if
  it was crossed, or the collection that left them was
  (`ForeignNetworkNeedsCrossing`).  The CPU difference, modulo the word and
  without a guard, wraps for two
  reasons only (`WrapNeedsCause`): the collection was
  overtaken, or its reading meets the baseline of another process of the same
  container under one key, because a PID was given again or because of the
  host PID of the fallback.  Nothing else makes it wrap; in particular no
  baseline of another container, and no old baseline of an overtaken
  collection.

Two stronger definitions of the module do not hold, and no run checks them:

- `CPUWithinLife`: for those reasons the difference does wrap, and the view
  shows the capped maximum (lines 104-106 of `sampler.go`);
- `NetworkBaselineOwned` (the comment at `sampler.go:30-32`):
  `CalculateNetworkRates` takes the mutex again and does not ask for the
  container, so where collections cross the interfaces of one are rated against
  the other's `eth0`, and left as its baseline for the next collection.

Two workers, and two containers with host PIDs 2 and 3; in the first a process
has the PID 2 inside, and that PID is given twice, so that both ways for two
processes to share a key occur, alone and together.  Counters run to 1: a
difference is then zero, positive or wrapped, which is all the properties
distinguish.  The second container is there to be switched to, so it has one
process, which uses no CPU time.  `MCSampler` adds symmetry over the workers,
used with invariants only.

### ContainerDetail

`SetContainer` is four steps (generation; handle; results; sub-views, redraw and
refresh), because a `Refresh` may read in between; `Refresh` is one step per
field it touches.  `opened` is history.  The mount and layer sub-view appears
by its PID only.

- `runtimes`: two openings, two refreshes beside them: an accepted answer is of
  its generation's container or of the one just before; no store stays undrawn;
  and if `Info` does not fail, the page settles on an info.  Two openings are
  enough for an answer to the first to arrive during or after the second; that
  more do not make it older is proved.
- `detail_stale` (violated): the page of B may settle on A's header.

`HeaderSettles` does not hold: when the first load fails, its message may be
overdrawn by "Loading container detail..." for good.

Fairness: handlers, goroutines and closures proceed and runtime calls return.

### Browse

`history` is the navigator's, `front` the page tview has in front, which a
dialog does not change; every key first passes the application's capture
function, which goes by the history.  A mouse click may move the focus.  The
poller of `MainView` takes a tick, refreshes, offers or misses the stop.

`RoutedToShownPage` and `FocusOnScreen` hold for any keys; `PollerEnds` under
weak fairness of the poller and of `App.Stop`, which is a goroutine's own
progress and the cancelled context.  `HelpKeepsPage` does not hold: on a detail
page Esc and q are taken by the page before the dialog sees them, so they go
back and leave the dialog on screen, although it says "Press Esc or Enter to
close".

### ContainerTree and PodList

`entries` and `pods` are torn slices; a drawing reads them several times. The
tree keeps which nodes are open and the map `collapsedPods` what the next
drawing shuts: Enter changes the nodes only, `a` the root, and a successful
refresh reads the nodes back into the map.  `user` is history: what the user
left shut, and what a failed refresh has swept away since.  tview's cursor is
modelled where it moves by itself.

One pod with a container, a container without a pod, two listings and two
refreshes in the tree; three pods in two lists.  Two listings are enough for a
pod to go and come back, for headings and children of two lists, and for a row
to mean another pod.

Not claimed, because the code does otherwise: a failed refresh forgets a change
made with Enter and the cursor of the pod list; an error notice may overdraw a
newer list; a torn read may panic; `ExpandAllNodes` leaves the root open, so
`a` only ever collapses (`tree_helpers.go`).

### SubView

The nine views share a shape, so `view` says which one it is and the panels are
functions of the answers kept.  `kept` has, for each question, the container
the answer is of.  The closures draw from what is kept when they run, except
where the code hands them a copy.  `overtaken` is history: an opening met a
load under way, which no view guards against: then the panels may show the
container before, all of them together (`PanelsShowOneContainer` holds always,
`DrawnIsOfThePage` without overtaking).

Two exceptions are in the code and in the properties: the process detail of the
grid goes by `containerHostPID`, which an `Info` that fails does not reset, and
the label of the process tree may be of another container than its processes.
The network line of the top page stays that of the container before when a load
fails.  `TitleWarnsIfNeeded` does not hold: the title of the cgroup panel, once
it names missing answers, is never reset (`detail_grid_view.go:231`).

Two openings, two refreshes, one answer missing per load: a third opening adds
no value a panel could show, and each question can be the one that fails.

### ImageDetail

Nothing on the page is locked.  `data` is the four fields, each with the image
it is of; `page.of` is what the tab was drawn from; `preview`, `diff` and
`merged` are the three panes with the focus flag each keeps.  tview reports the
first selectable node of a new tree at the next draw (`DrawDue`), which is when
the diff browser follows.  `lapsed` is history: a load met `SetImage` in one of
its gaps (the generation is raised before the handle is replaced, and
`Refresh` reads the handle three times), or an image was opened over an open
merged browser, which keeps its tree.

Two images, two layers and one, one of them without a directory; two openings
and two refreshes: so the layers under an open browser become more, fewer, or
lose their directory.

### ImageList

A row of the table is one of the rows of its entry; which one is a matter of
how many rows the entries before it have (`RowsBefore`), so the row maps are
sets and counts and not a loop.

A closure of the UI goroutine is several steps (`BeginRender`, `Fill`,
`UpdateStatusBar`, `RestoreSelection`, `UpdateStatusBar`), and an index out of
range, or a read past the array of a torn slice, sets `crashed`.  That a torn
slice is a crash is a choice: the read is undefined, and may also return
garbage.

`QuietRowsLeadToTheirEntries` holds: two images, one under two names, every
list of them, and failures; when nothing is under way, rows lead to their
images.  Two properties of the module do not hold and have no run:
`EnterOpensShownImage` (Enter between a store and its redraw opens another
image) and `MapsCoverEntries` (a list that grows during a redraw is indexed
past its row table).

### HostPids

The processes of host and container are the environment: they fork, exit, are
adopted by the container's init, and PIDs are given again (`reused` is
history).  `CollectContainerProcesses` lists the container's `/proc`, reads
each process, then scans the host's for the same PID namespace, and fills gaps
from the container's `/proc`.  Reads are steps.

A process has an `id` that no other has, and a row remembers the `id` of the
process it was read from and of that one's parent: history, by which the
properties tell processes that had the same PID apart.  What the tree draws is
the smallest set that has its roots and, with a process, its children
(`Drawn`).

Without reuse every host PID found is the process's (`HostPidsAreTheirs`), and
every process read is drawn in the tree (`EveryProcessDrawn`): the children of
one that exits between two reads become orphans, and orphans are roots.  With
reuse neither is sure; PIDs that form a cycle of parents are dropped from the
tree.
Four processes over a behaviour allow a chain of three below init to lose its
middle.

### LayerMerge, MountMerge, Detection

Each is compared with a definition of what it should compute.  A loop of the
code is a recursive function of the number of rounds done, beside an operator
for its body: `AfterLayers` over `ApplyLayer`, `AfterEntries` over `Apply`,
`Configured` over `AddConfig`, and so on.

- `MergedIsOverlay`: for three layers and every listing of two entries, the
  root of the merged tree is what OCI whiteouts and opaque markers mean, for
  both sets the code keeps: a name is visible from the highest layer that
  provides it and that none above takes away; it is listed as deleted by the
  highest whiteout that was not overruled by a file or by a marker; never both.
  A directory does not list a name together with its own whiteout (`Listing`),
  as a layer either has a name or removes it; the order of markers and files in
  a listing is any.
- `SubMergedIsOverlay` (violated, run `merged_sub`): not below it, because
  `mergeLayerDir` looks at the markers inside the directory it lists and not at
  those of the directories above.
- `MountsAreMergedOnce`: in every merge of two mounts per source, each entry is
  used for one row and no row is lost; a destination has one row where no
  source repeats itself; and the view groups every row once.
  Three things are as in the code and not contradicted: a mount that only the
  CRI status has does not claim its spec entry, so the destination has two rows;
  `criMountOrigin` compares destinations as spelt, although `/run` and
  `/var/run` are one elsewhere; of mounts on top of each other the first is
  taken.
- `DetectionAgrees`: a socket found by itself and the same one named give the
  same runtime, whatever daemon listens where, CRI-O at its own paths only.

### Handle and CurrentHandle

A method is a list of questions: `Keep` and `Need` go through a `sync.Once`,
`Recall` takes the process from what was kept, `Ask` asks the daemon for it
now, `Read` reads its `/proc`.  The first call in fetches, others wait; an
error is kept like an answer.  The container exits and is started again under
its handle.

An answer of the daemon (`AskPid`) is no process or the last one the container
had, alive or not: containerd's `Task` succeeds for a task that has exited and
was not deleted, and `task.Pid` is then the PID it had; CRI-O's status and state
file may outlive the process likewise.  It is never that of an earlier start,
because the daemons have one task for a container, replaced at its start.

- `runtimes`: `FetchedOnce` and `CallsReturn` hold of all three runtimes, and
  the handles of containerd and CRI-O implement `CurrentHandle`: a call goes by
  the process of the container's latest start, as of some moment of the call.
  That the process lives is not promised, and not so.
- `docker_pid` (violated): Docker's handles do not, as `liveContainerPID` is
  taken from the inspection kept since the first call.  After a restart a call
  goes by the process of the start before, and reads the `/proc` of whoever
  has that PID (`ReadsLatestProcess`).

Fairness: a goroutine that can go on does, and the daemon answers, if with an
error.  Two calls at once of any two methods, and one restart.

What the tables do not show: containerd's `State` calls itself live, but the
CRI part of it is of the first call; an error that `Task` returns, whichever it
is, is reported as Stopped (`container.go:133`); `resolveImageWithAliases` is
two calls that may see two states of the image store.

### Supplement

`cri` is nil, from the list, from the spec of a container CRI cannot see
("spoofed"), or from its one status.  A method either begins with
`ensureCRISupplement` (`Settling`: `Info`, `Stdio` and what they stand for), or
takes the handle as it finds it: `Processes` and what it stands for go to
`pid()`, `Mounts` to `ensureCRIMounts` before.  `asked` is history: every method
that has asked CRI about a spoofed container, by whichever of these functions.

- `runtimes`: the methods that begin with `ensureCRISupplement` never ask,
  however they overlap in the two Onces with each other and with the rest
  (`SettledNotAsked`); a nil `cri` is met only for the reasons `crio_stdio`
  shows (`CrashNeedsFailure`).
- `crio_spoofed` (violated): the others do ask, on a handle on which none of
  the former was called: `pid()` skips the call only when `spoofed` is set
  already, and `ensureCRIMounts` never looks at it (`SpoofedNotAsked`).
- `crio_stdio` (violated): for a container that CRI did not list and whose one
  status failed, `Stdio` reads a field of a nil supplement.

### Connection and TempView

The application calls `Close` without waiting for refreshes.  A field that is
checked, then used, may be nil by then: Docker's delegate, CRI-O's storage,
whose `Once` does not open it again.  `CrashNeedsClose`: nothing but `Close`
makes it so, whatever part of `Connect` failed.  `AllReleased`, which has no run, says
that what was opened is closed once `Close` returned; when CRI-O's `Connect`
fails after the storage was opened, `Close` is not called, and nobody frees it.

`TempView` has a fault model: a process may die, or its context end, between
any two steps, and leave the view.  Calls for one image share its key and
remove each other's views.  Three calls, as the third may find the view of the
second after the first removed its own.

### AppLifecycle and Shutdown

`main` is where the main goroutine is, from `Connect` to the end of the
deferred `Stop`; `stop[s]` is where each caller of `Stop` is.  Of tview the
screen, the loop and `Stop` (nothing without a screen) are modelled.
`AfterDraw` is both after-draw functions, the one of
`TrackApplicationLifecycle` called by the one of `stopAfterFirstDraw`.

- `starts_and_stops`: checks that every behaviour implements `Shutdown` through
  the mapping `phase`; that a stop, whenever first asked for, ends the program;
  and that while the loop runs and until a stop no goroutine decides to update
  widgets itself.  Two updaters suffice, as they do not interact.

Fairness: goroutines proceed; `Connect` and the runtime's `Close` return; the
end of the screen is an entry of the queue the loop's events come from, so it
is not overtaken for ever (strong fairness of `LeaveLoop`).  If `Close` hangs,
so does the program: the signal goroutine serves one signal only.

## What is proved

TLAPS checks, for every value of the constants:

- `TopViewProofs`: `Inductive` is `Spec => []IInv`.  `IInv` adds to the types
  that closed channels belong to spawned loops, that the field holds the newest
  channel or none, which of the loops may still clear the flag, and what the
  select of each loop waits on.  From it: `TypeCorrect`, `NeverClosesTwice`,
  `FlagIsHonest`, `SwitchPolls`, `PollingSurvives`.  The flag alone is not
  inductive, because an old loop's deferred function writes it as well.
- `SamplerProofs`: `TypeCorrect`; `ProcessBaselinesOwned` (inductive with the
  types, because the check and the store are one critical section).
  `WrapsHaveCause`, for any number of workers, any PIDs and any numbers of
  lives, from `CauseInv`: no baseline and no waiting reading is ahead of the
  process it is of (`BaseBelow`, `ReadBelow`), waiting readings of one process
  are in the order `newer` tells (`InOrder`), and a baseline is not ahead of a
  waiting reading of the same process that is not overtaken (`BaseBehind`).
  `ForeignNetworkHasCause`, from `CrossInv`: a collection that was not crossed
  finds the sampler set to its container at its second sampling (`Settled`),
  and a baseline left by such a one is of the container the sampler is set to
  (`LeftOwned`).
- `ContainerDetailProofs`: `TypeCorrect`; `AcceptedBound`, which follows the
  answer from the read of the handle to the store; `HeaderDrawn`, from an
  invariant that a header out of date always has a closure or an unfinished
  store behind it.
- `AppLifecycleProofs`: `TypeCorrect`; `ImplementsShutdown`, the refinement of
  `Shutdown`, from `Fresh`, `Flagged` and `InOrder`: the body of the Once is
  through before the deferred `Stop` goes on.  `UpdatesGoThroughTheLoop`, an
  action property, needs `Edges`: the state is forgotten and the screen closed
  after a stop only, so that no draw of the loop misses the started flag.
- `RuntimesProofs`, one inductive invariant per part.
  Connection: `NilNeedsClose`, where `SecondIsThere` says which backend has the
  second connection and when it is there, and `FoundIsOfBackend` what a call
  that checked may rely on.
  Supplement: `NeverAsksForSpoofed`, of the methods that settle the supplement
  first, and `NilNeedsFailure`, from `Sources`
  (which source may have set the field) and `Passed` (what is known behind each
  of the two Onces).
  Temporary view: `NoViewStays`, inductive as it is; `AloneSucceeds`, from
  `Solitary`: a call that has been alone is the only one under way.
  Handle, for any table of methods: `KeepsOneFetch`, from `InOrder`: what a call
  has left to ask is the rest of a method's list, and what the part asked
  wanted kept is; `ReadsAnew`, the refinement of `CurrentHandle` for a runtime
  whose handles keep no process.
- `ViewsProofs`, likewise.
  Pages: `KeysGoToShownPage` and `FocusStaysOnScreen`, from `Stacked` (the
  history is the main page with at most one detail page above) and what the
  front page is of it.
  Tree: `PodsAreAsLeft` from `PodsAsLeft` (shut in the nodes while drawn, in the
  map while not); `QuietLists` from `DrawnOfEntries` (a drawing that no store
  overtook is of the entries stored, pod by pod); `CursorStays` from the shape
  of the tree.
  Pod table: `TableDrawn`, and `UnderFollowed` for the cursor.  The loop that
  looks for the pod takes the first row, so its lemma goes by the least number
  of a set of numbers, from the library's well-founded induction.
  Views of a container: `OneContainerShown` and `ShownIsOfThePage` from
  `SubInv`: what is kept, held by a load, carried by a closure or drawn is of
  one container, and where nothing overtook, of the page's.
- `ImageDetailProofs`: `TypeCorrect`; `QuietTab` from `TabFollows` (a tab out of
  date has a drawing before it); `DiffFollowsTheCursor`; `KeysGoToAnOpenPane`;
  `NoOtherImageHeld` from `Fits`, which follows a load from its first read to
  the store, and `Held`, which says what `SetImage` has cleared so far.
- `ListsProofs`.  Image list: `QuietRows`, from `RowsLead` (each row leads to
  the entry it was drawn for) or else something under way that will redraw
  (`Late`); the lemmas say that the row map has one block of rows per entry.
  Host PIDs: `PidsInductive` is about what a PID stands for.  `ProcInv`: PIDs
  inside are unique, and every process inside but the init has a parent that is
  inside and older.  `RowInv`: as long as no PID is given twice, a row's PID is
  of its process or of none (`Known`, `Stands`), its parent is older, and two
  rows agree on who the parent is.  `Later` is what a fork or an exit may change
  of this, and is all the proofs of the reading steps rely on.
  `HostPidsCorrect` follows; `AllDrawn` by taking, of the rows not drawn, the
  one of the oldest process, whose parent is then drawn.
- `ListsProofs`, the algorithms, for inputs of any length.  What holds before
  the first round of a loop and is kept by every round holds after the last:
  of the rounds after which it does not hold, one would be the first
  (`Rounds`, by the library's well-founded induction; `Loop` says that the
  recursive function has the value of its body).
  Layers: the invariant of the loop is the property itself, of the layers so
  far (`Overlay`); within a layer it is what its first entries say, and only at
  the end of the listing, when all names and markers were met, the next layer's
  `Overlay` (`LayerKeeps`).  `BrowserMergesLayers` follows, and
  `SubDirectoryMerges`, which bounds the violation of `merged_sub`: below the
  root nothing an overlay mount shows is missing, and nothing more is shown if
  no layer takes the directory away from those below it.
  Mounts: `Kept` says that the rows name entries that are taken, each entry
  once; `Single` that two rows of one destination are one, and that what a row
  could still take at its destination is taken.  Each phase keeps both and
  finishes its source (`Upto`); what phase 2 leaves in the spec is what the
  premise of `CRIMergedOnce` excludes.  `MountListMerges` follows.
  Detection: the sockets of the daemons are compared round by round
  (`HitsByRound`, `Agreement`), for `NamedAsFound`.

Assumptions on constants, evaluated by TLC in the runs:

- bounds are natural numbers: `MaxLoops` (at least 1), `MaxCount` (and a
  `MaxUsed` below it for each process), `MaxOpens`,
  `MaxOpen`, `MaxPid` and `MaxBorn` (at least 1, since a container is running at
  first).  Each bounds how often the user or the system acts, and is arbitrary;
- a container's init process is one of the processes there may be
  (`ProcessAssumption`);
- the value for none (`NoContainer`, `NoImage`, `NoPod`, ...) is not one of its
  kind, and lists are sequences of their kind;
- the order of pods and containers is given by numbers, several of which may be
  equal (`TreeAssumption`); a notice is no row of the pod table
  (`PodsAssumption`); an image has at least one row (`RowsAssumption`), as the
  code draws "-" for one without a name;
- PIDs are positive, 1 is the init's inside, and the shim that is the init's
  parent is not among the host PIDs that are given again (`PidAssumption`);
- the layers of an image are sequences of listings of their kind
  (`LayersAssumption`), and a source of mounts names destinations
  (`MountsAssumption`);
- a method's list has questions only, and takes the process only from what it
  kept before, in a runtime that keeps it (`HandleAssumption`); the tables of
  the three runtimes are so.

Every safety invariant and every action property of the passing runs is proved.
Model-checked only:

- liveness (`ShutdownStopsAllLoops`, `InfoArrives`, `StopEndsTheProgram`,
  `PollerEnds`, `CallsReturn`), which is out of the prover's reach;
- the six runs that find a property violated.

## Type invariants

Every module that models code with variables of its own has a `TypeOK`, proved
for any constants, alone or as a part of an inductive invariant; in the runs
they are not repeated.  That of `CurrentHandle`, an abstract specification, only
documents its variables: what is proved of it is that the handles implement its
`Spec`.  Four come late, from what the other invariants leave: `ViewsTyped`
has those of the pages, the pod table and the views of a container (its part
for the pod table says that the cursor, when the UI goroutine rests, is at most
the last row drawn; that of the views, that a drawing names panes of its view
only), and `ImageListTyped` that of the image list, where the row maps stay
sequences of positions whatever list is torn.

## Not modelled

- The text of things: sizes, times, columns, colours, the preview of a file,
  names of images that repeat their digest.
- `cgroup.go` and the parsers of `/proc`: independent reads of files, of which
  nothing is kept.
- The calls of gRPC, HTTP and the snapshotter, and the conversion of their
  answers (`cri/raw_client.go`, `crio/introspection.go`, `convert.go`).
- The file browser of `image_layers_view.go`, the directory browser of
  `runtime_info_view.go`, the tabs of `storage_view.go`: they are browsers like
  those of the image page, with less state.
- `DetailSummaryView` is modelled in `SubView`, but the application never makes
  one.
- Widgets, launcher, terminal test.
- cri-dockerd at a path of CRI-O's would be taken for CRI-O; CRI is probed
  twice, and a timeout may let the two probes differ: both are outside
  `Detection`.
