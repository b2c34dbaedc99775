------------------------------ MODULE Sampler ------------------------------
(***************************************************************************)
(* The rate sampler of pkg/sysinfo (sampler.go) and the collection that    *)
(* drives it (ProcessCollector.CollectProcessTop, process.go).  One        *)
(* sampler serves every container of a runtime client.  A refresh of the   *)
(* top page is a collection: it reads /proc, takes the sampler's mutex for *)
(* the processes, reads /proc/net/dev and takes the mutex again for the    *)
(* network.  Refreshes run in goroutines of their own (the ticker's loop,  *)
(* a key, a tab switch), here the workers, so collections overlap.         *)
(*                                                                         *)
(* The counter of a process stands for UTime+STime; its byte counters are  *)
(* left out: their differences are guarded, so that they are within the    *)
(* counter whatever happens.  So are those of the network, of which there  *)
(* is only whose they are.  Percentages and units are left out, and the    *)
(* time since the last sampling: it is 0.1 s or more, which the code asks  *)
(* of it, or it is not.  The readings of a collection are taken at once,   *)
(* those of the code one after the other.                                  *)
(***************************************************************************)
EXTENDS Integers

CONSTANTS
    Worker,             \* goroutines that refresh
    Container,          \* containers, by the host PID of their init process
    Pid,                \* container-internal PIDs; some may be host PIDs, too
    InitPid,            \* that of the init process of each container
    Process,            \* bound: the processes there may be, <<container, PID>>
    Iface,              \* interface names: every container has its own eth0
    MaxCount,           \* bound: how far the counters run
    MaxUsed,            \* bound: how far that of each process runs
    MaxLives,           \* bound: how many processes get each of those PIDs
    NoContainer         \* the containerID of a new Sampler, ""

ASSUME CountAssumption == MaxCount \in Nat
ASSUME UsedAssumption == \A x \in Process : MaxUsed[x] \in 0..MaxCount
ASSUME NoContainerAssumption == NoContainer \notin Container
ASSUME ProcessAssumption ==
    Process \subseteq Container \X Pid /\ \A c \in Container : <<c, InitPid>> \in Process

VARIABLES
    proc,               \* /proc: the processes
    containerID,        \* Sampler.containerID
    prevProcess,        \* Sampler.prevProcess
    prevNetwork,        \* Sampler.prevNetwork
    pc,                 \* how far each worker's collection has come
    job,                \* a worker's container, readings and result
    newer,              \* history: who has read since a worker did
    overtaken,          \* history: the workers whose reading was sampled
                        \* after a newer one, or will be
    crossed             \* history: the workers between whose samplings another
                        \* container was sampled

sampler == <<containerID, prevProcess, prevNetwork>>
history == <<newer, overtaken, crossed>>
vars    == <<proc, sampler, pc, job, history>>

Count == 0..MaxCount
Wrap  == 2 * (MaxCount + 1)     \* the uint64 range, in proportion

\* What prevProcess is keyed by: Process.PID, which is a container-internal
\* PID or, for a process read from the host's /proc, a host PID.
Key == Pid \cup Container

Maps(S, T) == UNION {[D -> T] : D \in SUBSET S}        \* Go maps from S to T
EmptyMap   == [x \in {} |-> x]

\* Not in the code: the process a counter was read from, the how manieth of
\* its PID.  The key does not say.
Who == [of : Container, pid : Pid, life : Nat]

Reading == [count : Count, who : Who]       \* a process read, or a snapshot of it
Delta   == [by : 0..Wrap, against : Who]

\* A snapshot of an interface: not its counters but whose it is, and whether
\* the collection it is from was crossed.
Snapshot == [of : Container, crossed : BOOLEAN]

Job == [of   : Container \cup {NoContainer},    \* containerPID
        now  : Maps(Key, Reading),      \* the processes read
        cpu  : Maps(Key, Delta)]        \* deltas behind CPUPercent

TypeOK ==
    /\ proc \in [Process -> [life : Nat, alive : BOOLEAN, used : Count]]
    /\ containerID \in Container \cup {NoContainer}
    /\ prevProcess \in Maps(Key, Reading)
    /\ prevNetwork \in Maps(Iface, Snapshot)
    /\ pc \in [Worker -> {"idle", "read", "sampled"}]
    /\ job \in [Worker -> Job]
    /\ \A w \in Worker : pc[w] # "idle" => job[w].of \in Container
    /\ newer \in [Worker -> SUBSET Worker]
    /\ overtaken \subseteq Worker /\ crossed \subseteq Worker

NewJob(c, now) == [of |-> c, now |-> now, cpu |-> EmptyMap]

Init ==
    /\ proc = [x \in Process |-> [life |-> 0, alive |-> FALSE, used |-> 0]]
    /\ containerID = NoContainer
    /\ prevProcess = EmptyMap /\ prevNetwork = EmptyMap
    /\ pc = [w \in Worker |-> "idle"]
    /\ job = [w \in Worker |-> NewJob(NoContainer, EmptyMap)]
    /\ newer = [w \in Worker |-> {}] /\ overtaken = {} /\ crossed = {}

-----------------------------------------------------------------------------
(***************************************************************************)
(* The kernel: processes come, use CPU time, and go; PIDs return.  A       *)
(* container's processes end with its init process.                        *)
(***************************************************************************)

Runs(c) == proc[<<c, InitPid>>].alive

Spawn(x) ==
    /\ ~proc[x].alive /\ proc[x].life < MaxLives[x]
    /\ x[2] # InitPid => Runs(x[1])
    /\ proc' = [proc EXCEPT ![x] = [life |-> @.life + 1, alive |-> TRUE, used |-> 0]]
    /\ UNCHANGED <<sampler, pc, job, history>>

Use(x) ==
    /\ proc[x].alive /\ proc[x].used < MaxUsed[x]
    /\ proc' = [proc EXCEPT ![x].used = @ + 1]
    /\ UNCHANGED <<sampler, pc, job, history>>

Exit(x) ==
    /\ proc[x].alive
    /\ LET ended == {x} \cup {y \in Process : x[2] = InitPid /\ y[1] = x[1]}
       IN  proc' = [y \in Process |-> IF y \in ended
                                     THEN [proc[y] EXCEPT !.alive = FALSE, !.used = 0]
                                     ELSE proc[y]]
    /\ UNCHANGED <<sampler, pc, job, history>>

-----------------------------------------------------------------------------
(***************************************************************************)
(* CollectProcessTop.  An error before the first sampling ends it with     *)
(* nothing changed, which is no step here.                                 *)
(***************************************************************************)

Read(x) == [count |-> proc[x].used,
            who   |-> [of |-> x[1], pid |-> x[2], life |-> proc[x].life]]

\* Worker w has these readings of container c.
Got(w, c, now) ==
    /\ pc[w] = "idle" /\ pc' = [pc EXCEPT ![w] = "read"]
    /\ job' = [job EXCEPT ![w] = NewJob(c, now)]
    /\ newer' = [v \in Worker |-> IF pc[v] = "read" THEN newer[v] \cup {w} ELSE {}]
    /\ overtaken' = overtaken \ {w}
    /\ UNCHANGED <<proc, sampler, crossed>>

\* Those of these PIDs that can be read in the container's own /proc.
Listed(c, pids) == {p \in pids : <<c, p>> \in Process /\ proc[<<c, p>>].alive}

\* CollectContainerProcesses.  Nobody is read if the container ends between
\* the listing and the reading.
ListProcesses(w, c) ==
    /\ proc[<<c, InitPid>>].life > 0
    /\ Got(w, c, [p \in Listed(c, Pid) |-> Read(<<c, p>>)])

\* The listing fails: the init process alone, from the host's /proc and under
\* its host PID.
FallBack(w, c) ==
    /\ Runs(c)
    /\ Got(w, c, [k \in {c} |-> Read(<<c, InitPid>>)])

\* One process by its container-internal PID.
ReadTarget(w, c, pid) ==
    /\ pid \in Listed(c, {pid})
    /\ Got(w, c, [p \in {pid} |-> Read(<<c, p>>)])

\* CPU ticks: an unsigned difference, and no guard, for every process that
\* was there before; for none within 0.1 s of the last sampling.
Deltas(now, base) ==
    [k \in DOMAIN now \cap DOMAIN base |-> [by      |-> (now[k].count - base[k].count) % Wrap,
                                           against |-> base[k].who]]

\* Those who have read before w did, and wait for the mutex w takes.
Overtakes(w) == {v \in Worker : pc[v] = "read" /\ w \in newer[v]}

\* Those w finds between their two samplings, for another container.
Crosses(w) == {v \in Worker : pc[v] = "sampled" /\ job[v].of # job[w].of}

Note(w) ==
    /\ overtaken' = overtaken \cup Overtakes(w) /\ newer' = [newer EXCEPT ![w] = {}]
    /\ crossed' = crossed \cup Crosses(w)

\* Mutants: no ensureContainer, and one that forgets to note the container.
CalculateUnchecked(w) ==
    /\ pc[w] = "read" /\ pc' = [pc EXCEPT ![w] = "sampled"]
    /\ job' = [job EXCEPT ![w].cpu = Deltas(job[w].now, prevProcess)]
    /\ prevProcess' = job[w].now /\ containerID' = job[w].of
    /\ Note(w) /\ UNCHANGED <<proc, prevNetwork>>

CalculateUnnoted(w) ==
    /\ pc[w] = "read" /\ pc' = [pc EXCEPT ![w] = "sampled"]
    /\ prevProcess' = job[w].now
    /\ Note(w) /\ UNCHANGED <<proc, containerID, prevNetwork, job>>

\* ensureContainer, then a snapshot for every process read; the others are
\* pruned.
CalculateProcessRates(w) ==
    /\ pc[w] = "read" /\ pc' = [pc EXCEPT ![w] = "sampled"]
    /\ LET same == containerID = job[w].of
           base == IF same THEN prevProcess ELSE EmptyMap
       IN  /\ \/ job' = [job EXCEPT ![w].cpu = Deltas(job[w].now, base)]
              \/ UNCHANGED job
           /\ prevNetwork' = IF same THEN prevNetwork ELSE EmptyMap
    /\ prevProcess' = job[w].now /\ containerID' = job[w].of
    /\ Note(w) /\ UNCHANGED proc

\* The end of a collection: the result goes to the view.
Return(w) ==
    /\ pc[w] = "sampled" /\ pc' = [pc EXCEPT ![w] = "idle"]
    /\ job' = [job EXCEPT ![w] = NewJob(NoContainer, EmptyMap)]
    /\ overtaken' = overtaken \ {w} /\ crossed' = crossed \ {w}
    /\ UNCHANGED <<proc, containerID, prevProcess, newer>>

\* No containerID here: the baseline is taken as it stands, and left to the
\* next one.
CalculateNetworkRates(w) ==
    /\ Return(w)
    /\ prevNetwork' = [i \in Iface |-> [of |-> job[w].of, crossed |-> w \in crossed]]

ReadNetDevFails(w) == Return(w) /\ UNCHANGED prevNetwork

Collect(w) ==
    \/ \E c \in Container :
          ListProcesses(w, c) \/ FallBack(w, c) \/ \E p \in Pid : ReadTarget(w, c, p)
    \/ CalculateProcessRates(w)
    \/ CalculateNetworkRates(w) \/ ReadNetDevFails(w)

Kernel == \E x \in Process : Spawn(x) \/ Use(x) \/ Exit(x)

Next == Kernel \/ \E w \in Worker : Collect(w)

Spec == Init /\ [][Next]_vars

-----------------------------------------------------------------------------
(***************************************************************************)
(* Properties.                                                             *)
(***************************************************************************)

\* "switching containers automatically invalidates stale snapshots": whatever
\* collections overlap, every process baseline is of the sampler's container.
ProcessBaselineOwned ==
    \A k \in DOMAIN prevProcess : prevProcess[k].who.of = containerID

\* "(container-internal PIDs and interface names like eth0 are not globally
\* unique)": CalculateNetworkRates does not ask whose the baselines are, and
\* relies on CalculateProcessRates having asked in the same collection.  It
\* meets those of another container only if that, or the collection that left
\* them, was crossed by one of another container between its two samplings.
ForeignNetworkNeedsCrossing ==
    \A w \in Worker : pc[w] = "sampled" /\ w \notin crossed =>
        \A i \in DOMAIN prevNetwork :
            prevNetwork[i].of = job[w].of \/ prevNetwork[i].crossed

\* The CPU time a process is said to have used since the last sample is no
\* more than in all its life.
Plausible(w, k) == job[w].cpu[k].by <= job[w].now[k].count

\* The unguarded difference of two readings is off only if the readings were
\* sampled in the wrong order, or are of two processes of the container that
\* came under one key: the second got the PID of the first, or one was read
\* under its host PID.  Nothing else makes it wrap, whichever collections of
\* whichever containers overlap; also not an overtaken one that was sampled
\* before, whose old reading stays behind as the baseline.
WrapNeedsCause ==
    \A w \in Worker : \A k \in DOMAIN job[w].cpu :
        \/ Plausible(w, k)
        \/ w \in overtaken
        \/ /\ job[w].cpu[k].against # job[w].now[k].who
           /\ job[w].cpu[k].against.of = job[w].of

\* "delta ticks / (dt * clkTck) gives fraction of one core": so it is never
\* more than the process used in all its life.  It does not hold, for those
\* causes.
CPUWithinLife == \A w \in Worker : \A k \in DOMAIN job[w].cpu : Plausible(w, k)

\* No network baseline is of another container than the sampler is set to.  It
\* does not hold when collections cross.
NetworkBaselineOwned == \A i \in DOMAIN prevNetwork : prevNetwork[i].of = containerID
=============================================================================
