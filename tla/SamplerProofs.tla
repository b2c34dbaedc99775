--------------------------- MODULE SamplerProofs ---------------------------
(***************************************************************************)
(* Proofs about Sampler for every set of workers, containers, PIDs,        *)
(* processes and interfaces, and every range of the counters.              *)
(***************************************************************************)
EXTENDS Sampler, TLAPS

-----------------------------------------------------------------------------
(***************************************************************************)
(* Maps, and the operators that build them.                                *)
(***************************************************************************)

\* A function on a subset is a map.
LEMMA MapsIntro ==
    ASSUME NEW S, NEW T, NEW D \in SUBSET S, NEW f \in [D -> T]
    PROVE  f \in Maps(S, T)
  BY DEF Maps

\* A map is a function on a subset.
LEMMA MapsElim ==
    ASSUME NEW S, NEW T, NEW f \in Maps(S, T)
    PROVE  /\ DOMAIN f \subseteq S
           /\ \A k \in DOMAIN f : f[k] \in T
  BY DEF Maps

\* The empty map is a map of any type.
LEMMA EmptyMapType ==
    /\ DOMAIN EmptyMap = {}
    /\ \A S, T : EmptyMap \in Maps(S, T)
  <1>1. EmptyMap \in [{} -> {}] /\ DOMAIN EmptyMap = {}
    BY DEF EmptyMap
  <1>2. \A S, T : EmptyMap \in [{} -> T] /\ {} \in SUBSET S
    BY DEF EmptyMap
  <1> QED BY <1>1, <1>2, MapsIntro

\* The unsigned differences keep the width of the counter, and name the
\* process of the baseline.
LEMMA DeltasType ==
    ASSUME NEW now \in Maps(Key, Reading), NEW base \in Maps(Key, Reading)
    PROVE  Deltas(now, base) \in Maps(Key, Delta)
  <1> DEFINE D == DOMAIN now \cap DOMAIN base
             delta(k) == [by      |-> (now[k].count - base[k].count) % Wrap,
                          against |-> base[k].who]
  <1>1. D \in SUBSET Key
    BY MapsElim
  <1>2. ASSUME NEW k \in D PROVE delta(k) \in Delta
    <2>1. now[k] \in Reading /\ base[k] \in Reading
      BY MapsElim
    <2>2. now[k].count - base[k].count \in Int /\ base[k].who \in Who
      BY <2>1, CountAssumption DEF Reading, Count
    <2>3. (now[k].count - base[k].count) % Wrap \in 0..Wrap
      BY <2>2, CountAssumption DEF Wrap
    <2> QED BY <2>2, <2>3 DEF Delta
  <1>3. Deltas(now, base) = [k \in D |-> delta(k)]
    BY DEF Deltas
  <1> HIDE DEF D, delta
  <1>4. Deltas(now, base) \in [D -> Delta]
    BY <1>2, <1>3
  <1> QED BY <1>1, <1>4, MapsIntro

\* An unsigned difference from a baseline that is not ahead does not wrap.
LEMMA NoWrap ==
    ASSUME NEW a \in Count, NEW b \in Count, b <= a
    PROVE  (a - b) % Wrap <= a
  <1>1. a - b \in 0..(Wrap - 1) /\ Wrap \in Nat
    BY CountAssumption DEF Count, Wrap
  <1>2. (a - b) % Wrap = a - b
    BY <1>1
  <1> QED BY <1>2, CountAssumption DEF Count

-----------------------------------------------------------------------------
(***************************************************************************)
(* What the steps change.                                                  *)
(***************************************************************************)

\* A job starts with what was read and no result.
LEMMA NewJobType ==
    ASSUME NEW c \in Container \cup {NoContainer}, NEW now \in Maps(Key, Reading)
    PROVE  NewJob(c, now) \in Job
  BY EmptyMapType DEF NewJob, Job

\* The kernel leaves the sampler alone.  No life comes back, and the counter
\* of a process that lives on does not fall.
LEMMA KernelStep ==
    ASSUME TypeOK, Kernel
    PROVE  /\ TypeOK'
           /\ UNCHANGED <<sampler, pc, job, history>>
           /\ \A y \in Process :
                 /\ proc[y].life <= proc'[y].life
                 /\ proc'[y].alive /\ proc'[y].life = proc[y].life =>
                        proc[y].alive /\ proc[y].used <= proc'[y].used
  <1> DEFINE P == [life : Nat, alive : BOOLEAN, used : Count]
             Later(y) == /\ proc'[y] \in P
                         /\ proc[y].life <= proc'[y].life
                         /\ proc'[y].alive /\ proc'[y].life = proc[y].life =>
                                proc[y].alive /\ proc[y].used <= proc'[y].used
  <1>1. PICK x \in Process : Spawn(x) \/ Use(x) \/ Exit(x)
    BY DEF Kernel
  <1>2. \A y \in Process : proc[y] \in P
    BY DEF TypeOK
  <1>3. UNCHANGED <<sampler, pc, job, history>>
    BY <1>1 DEF Spawn, Use, Exit
  <1>4. \A y \in Process : proc'[y] = proc[y] => Later(y)
    BY <1>2, CountAssumption DEF Count
  <1>5. proc' = [y \in Process |-> proc'[y]] /\ \A y \in Process : Later(y)
    <2>1. CASE Spawn(x)
      <3>1. Later(x)
        BY <1>2, <2>1, CountAssumption DEF Spawn, TypeOK, Count
      <3>2. \A y \in Process \ {x} : proc'[y] = proc[y]
        BY <2>1 DEF Spawn, TypeOK
      <3> QED BY <1>4, <2>1, <3>1, <3>2 DEF Spawn, TypeOK
    <2>2. CASE Use(x)
      <3>1. Later(x)
        BY <1>2, <2>2, CountAssumption, UsedAssumption DEF Use, TypeOK, Count
      <3>2. \A y \in Process \ {x} : proc'[y] = proc[y]
        BY <2>2 DEF Use, TypeOK
      <3> QED BY <1>4, <2>2, <3>1, <3>2 DEF Use, TypeOK
    <2>3. CASE Exit(x)
      <3> DEFINE ended == {x} \cup {y \in Process : x[2] = InitPid /\ y[1] = x[1]}
      <3>1. proc' = [y \in Process |-> IF y \in ended
                                     THEN [proc[y] EXCEPT !.alive = FALSE, !.used = 0]
                                     ELSE proc[y]]
        BY <2>3 DEF Exit
      <3> HIDE DEF ended
      <3>2. ASSUME NEW y \in Process, y \in ended PROVE Later(y)
        <4>1. proc'[y] = [proc[y] EXCEPT !.alive = FALSE, !.used = 0]
          BY <3>1, <3>2
        <4>2. proc[y] \in P /\ 0 \in Count
          BY <1>2, CountAssumption DEF Count
        <4>3. /\ proc'[y] \in P
              /\ proc'[y].life = proc[y].life /\ ~proc'[y].alive /\ proc[y].life \in Nat
          BY <4>1, <4>2
        <4> HIDE DEF P
        <4> QED BY <4>3
      <3> QED BY <1>4, <3>1, <3>2
    <2> QED BY <1>1, <2>1, <2>2, <2>3
  <1>6. proc' \in [Process -> P]
    BY <1>5
  <1> QED BY <1>3, <1>5, <1>6 DEF TypeOK, sampler, history

\* A reading of a process as it is now.
Fresh(r, c) ==
    LET x == <<c, r.who.pid>>
    IN  /\ x \in Process /\ proc[x].alive
        /\ r.who.of = c /\ r.who.life = proc[x].life /\ r.count = proc[x].used

\* Reading a process that is there gives a fresh reading.
LEMMA ReadType ==
    ASSUME TypeOK, NEW c \in Container, NEW p \in Pid, <<c, p>> \in Process, proc[<<c, p>>].alive
    PROVE  Read(<<c, p>>) \in Reading /\ Fresh(Read(<<c, p>>), c)
  <1>1. proc[<<c, p>>] \in [life : Nat, alive : BOOLEAN, used : Count]
    BY DEF TypeOK
  <1> QED BY <1>1 DEF Read, Fresh, Reading, Who

\* However a collection reads, it gets fresh readings of one container.
LEMMA ReadStep ==
    ASSUME TypeOK, NEW w \in Worker, NEW c \in Container,
           ListProcesses(w, c) \/ FallBack(w, c) \/ \E p \in Pid : ReadTarget(w, c, p)
    PROVE  \E now \in Maps(Key, Reading) :
               Got(w, c, now) /\ \A k \in DOMAIN now : Fresh(now[k], c)
  <1>1. CASE ListProcesses(w, c)
    <2> DEFINE now == [p \in Listed(c, Pid) |-> Read(<<c, p>>)]
    <2>1. Listed(c, Pid) \in SUBSET Key
      BY DEF Listed, Key
    <2>2. \A p \in Listed(c, Pid) : Read(<<c, p>>) \in Reading /\ Fresh(Read(<<c, p>>), c)
      BY ReadType DEF Listed
    <2>3. now \in Maps(Key, Reading)
      BY <2>1, <2>2, MapsIntro
    <2>4. Got(w, c, now)
      BY <1>1 DEF ListProcesses
    <2> QED BY <2>2, <2>3, <2>4
  <1>2. CASE FallBack(w, c)
    <2> DEFINE now == [k \in {c} |-> Read(<<c, InitPid>>)]
    <2>1. <<c, InitPid>> \in Process /\ InitPid \in Pid
      BY ProcessAssumption
    <2>2. Read(<<c, InitPid>>) \in Reading /\ Fresh(Read(<<c, InitPid>>), c)
      BY <1>2, <2>1, ReadType DEF FallBack, Runs
    <2>3. {c} \in SUBSET Key /\ now \in [{c} -> Reading]
      BY <2>2 DEF Key
    <2>4. now \in Maps(Key, Reading)
      BY <2>3, MapsIntro
    <2>5. Got(w, c, now)
      BY <1>2 DEF FallBack
    <2> QED BY <2>2, <2>4, <2>5
  <1>3. ASSUME NEW p \in Pid, ReadTarget(w, c, p)
        PROVE  \E now \in Maps(Key, Reading) :
                   Got(w, c, now) /\ \A k \in DOMAIN now : Fresh(now[k], c)
    <2> DEFINE now == [k \in {p} |-> Read(<<c, k>>)]
    <2>1. Read(<<c, p>>) \in Reading /\ Fresh(Read(<<c, p>>), c)
      BY <1>3, ReadType DEF ReadTarget, Listed
    <2>2. {p} \in SUBSET Key /\ now \in [{p} -> Reading]
      BY <2>1 DEF Key
    <2>3. now \in Maps(Key, Reading)
      BY <2>2, MapsIntro
    <2>4. Got(w, c, now)
      BY <1>3 DEF ReadTarget
    <2> QED BY <2>1, <2>3, <2>4
  <1> QED BY <1>1, <1>2, <1>3

\* What CalculateProcessRates rates the readings against.
Base(w) == IF containerID = job[w].of THEN prevProcess ELSE EmptyMap

\* What CalculateProcessRates leaves.
LEMMA SampleStep ==
    ASSUME TypeOK, NEW w \in Worker, CalculateProcessRates(w)
    PROVE  /\ TypeOK'
           /\ Base(w) \in Maps(Key, Reading) /\ job[w].now \in Maps(Key, Reading)
           /\ \A v \in Worker \ {w} : job'[v] = job[v]
           /\ job'[w].of = job[w].of /\ job'[w].now = job[w].now
           /\ job'[w].cpu \in {job[w].cpu, Deltas(job[w].now, Base(w))}
  <1> DEFINE deltas == Deltas(job[w].now, Base(w))
             done == [job EXCEPT ![w].cpu = deltas]
  <1>1. job[w] \in Job /\ job[w].of \in Container /\ job[w].now \in Maps(Key, Reading)
    BY DEF TypeOK, Job, CalculateProcessRates
  <1>2. Base(w) \in Maps(Key, Reading)
    BY EmptyMapType DEF Base, TypeOK
  <1>3. deltas \in Maps(Key, Delta)
    BY <1>1, <1>2, DeltasType
  <1>4. job' = done \/ job' = job
    BY DEF CalculateProcessRates, Base
  <1> HIDE DEF deltas
  <1>5. [job[w] EXCEPT !.cpu = deltas] \in Job
    BY <1>1, <1>3 DEF Job
  <1>6. /\ job' \in [Worker -> Job]
        /\ \A v \in Worker \ {w} : job'[v] = job[v]
        /\ job'[w].of = job[w].of /\ job'[w].now = job[w].now
        /\ job'[w].cpu \in {job[w].cpu, deltas}
    <2>1. job \in [Worker -> Job]
      BY DEF TypeOK
    <2>2. CASE job' = job
      BY <2>1, <2>2
    <2>3. CASE job' = done
      <3>1. done \in [Worker -> Job] /\ \A v \in Worker \ {w} : done[v] = job[v]
        BY <1>5, <2>1
      <3>2. done[w] = [job[w] EXCEPT !.cpu = deltas]
        BY <2>1
      <3>3. done[w].of = job[w].of /\ done[w].now = job[w].now /\ done[w].cpu = deltas
        BY <1>1, <3>2 DEF Job
      <3> HIDE DEF done
      <3> QED BY <2>3, <3>1, <3>3
    <2> QED BY <1>4, <2>2, <2>3
  <1>7. prevNetwork' \in Maps(Iface, Snapshot)
    BY EmptyMapType DEF CalculateProcessRates, TypeOK
  <1>8. prevProcess' \in Maps(Key, Reading) /\ containerID' \in Container
    BY <1>1 DEF CalculateProcessRates
  <1>9. /\ newer' \in [Worker -> SUBSET Worker]
        /\ overtaken' \subseteq Worker /\ crossed' \subseteq Worker
    BY DEF CalculateProcessRates, Note, Overtakes, Crosses, TypeOK
  <1>10. /\ UNCHANGED proc /\ pc' \in [Worker -> {"idle", "read", "sampled"}]
         /\ \A v \in Worker : pc'[v] # "idle" => pc[v] # "idle"
    BY DEF CalculateProcessRates, TypeOK
  <1>11. \A v \in Worker : pc'[v] # "idle" => job'[v].of \in Container
    BY <1>6, <1>10 DEF TypeOK
  <1>12. TypeOK'
    BY <1>6, <1>7, <1>8, <1>9, <1>10, <1>11 DEF TypeOK
  <1> QED BY <1>1, <1>2, <1>6, <1>12 DEF deltas

\* The network baselines a collection leaves.
Left(w) == [i \in Iface |-> [of |-> job[w].of, crossed |-> w \in crossed]]

\* What the end of a collection changes.
LEMMA ReturnStep ==
    ASSUME TypeOK, NEW w \in Worker, CalculateNetworkRates(w) \/ ReadNetDevFails(w)
    PROVE  /\ TypeOK'
           /\ pc[w] = "sampled" /\ pc' = [pc EXCEPT ![w] = "idle"]
           /\ job' = [job EXCEPT ![w] = NewJob(NoContainer, EmptyMap)]
           /\ overtaken' = overtaken \ {w} /\ crossed' = crossed \ {w}
           /\ UNCHANGED <<proc, containerID, prevProcess, newer>>
           /\ prevNetwork' = prevNetwork \/ prevNetwork' = Left(w)
  <1>1. Return(w) /\ (prevNetwork' = prevNetwork \/ prevNetwork' = Left(w))
    BY DEF CalculateNetworkRates, ReadNetDevFails, Left
  <1>2. NewJob(NoContainer, EmptyMap) \in Job
    BY EmptyMapType, NewJobType
  <1>3. job[w].of \in Container
    BY <1>1 DEF Return, TypeOK
  <1>4. Left(w) \in Maps(Iface, Snapshot)
    <2>1. Left(w) \in [Iface -> Snapshot] /\ Iface \in SUBSET Iface
      BY <1>3 DEF Left, Snapshot
    <2> QED BY <2>1, MapsIntro
  <1> QED BY <1>1, <1>2, <1>4 DEF Return, TypeOK

-----------------------------------------------------------------------------
(***************************************************************************)
(* Type correctness.                                                       *)
(***************************************************************************)

\* The sampler starts with no baseline.
LEMMA InitType == Init => TypeOK
  <1> SUFFICES ASSUME Init PROVE TypeOK
    OBVIOUS
  <1>1. proc \in [Process -> [life : Nat, alive : BOOLEAN, used : Count]]
    BY CountAssumption DEF Init, Count
  <1>2. prevProcess \in Maps(Key, Reading) /\ prevNetwork \in Maps(Iface, Snapshot)
    BY EmptyMapType DEF Init
  <1>3. NewJob(NoContainer, EmptyMap) \in Job
    BY EmptyMapType, NewJobType
  <1> QED BY <1>1, <1>2, <1>3 DEF Init, TypeOK

\* Reading changes the worker's own job.
LEMMA GotType ==
    ASSUME TypeOK, NEW w \in Worker, NEW c \in Container, NEW now \in Maps(Key, Reading),
           Got(w, c, now)
    PROVE  TypeOK'
  <1>1. NewJob(c, now) \in Job /\ NewJob(c, now).of = c
    BY NewJobType DEF NewJob
  <1>2. job' \in [Worker -> Job] /\ pc' \in [Worker -> {"idle", "read", "sampled"}]
    BY <1>1 DEF Got, TypeOK
  <1>3. \A v \in Worker : pc'[v] # "idle" => job'[v].of \in Container
    BY <1>1 DEF Got, TypeOK
  <1>4. newer' \in [Worker -> SUBSET Worker] /\ overtaken' \subseteq Worker
    BY DEF Got, TypeOK
  <1> QED BY <1>2, <1>3, <1>4 DEF Got, TypeOK, sampler

\* Every step keeps the types.
LEMMA NextType == TypeOK /\ [Next]_vars => TypeOK'
  <1> SUFFICES ASSUME TypeOK, [Next]_vars PROVE TypeOK'
    OBVIOUS
  <1>1. CASE UNCHANGED vars
    BY <1>1 DEF vars, sampler, history, TypeOK
  <1>2. ASSUME NEW w \in Worker, NEW c \in Container,
               ListProcesses(w, c) \/ FallBack(w, c) \/ \E p \in Pid : ReadTarget(w, c, p)
        PROVE  TypeOK'
    BY <1>2, ReadStep, GotType
  <1> QED BY <1>1, <1>2, KernelStep, SampleStep, ReturnStep DEF Next, Collect

\* The maps, the collections and their results keep their types.
THEOREM TypeCorrect == Spec => []TypeOK
  BY InitType, NextType, PTL DEF Spec

-----------------------------------------------------------------------------
(***************************************************************************)
(* What overlapping collections cannot break.                              *)
(***************************************************************************)

\* A reading of a process of the container, which may have gone on since.
Below(r) ==
    LET x == <<r.who.of, r.who.pid>>
    IN  /\ x \in Process
        /\ r.who.life <= proc[x].life
        /\ proc[x].alive /\ r.who.life = proc[x].life => r.count <= proc[x].used

BaseBelow == \A k \in DOMAIN prevProcess : Below(prevProcess[k])

ReadBelow ==
    \A w \in Worker : pc[w] = "read" => \A k \in DOMAIN job[w].now :
        Below(job[w].now[k]) /\ job[w].now[k].who.of = job[w].of

\* Readings of the same process under the same key, the first not ahead.
NotAhead(first, second) ==
    \A k \in DOMAIN first \cap DOMAIN second :
        first[k].who = second[k].who => first[k].count <= second[k].count

\* Who read first has the smaller counters.
InOrder ==
    \A v, w \in Worker : pc[v] = "read" /\ pc[w] = "read" /\ v # w /\ v \notin newer[w] =>
        NotAhead(job[v].now, job[w].now)

\* The baseline is behind the readings of whoever was not overtaken.
BaseBehind ==
    \A w \in Worker : pc[w] = "read" /\ w \notin overtaken => NotAhead(prevProcess, job[w].now)

CauseInv ==
    /\ ProcessBaselineOwned /\ BaseBelow /\ ReadBelow
    /\ InOrder /\ BaseBehind /\ WrapNeedsCause

\* A fresh reading is not behind an earlier one of the same process.
LEMMA FreshNotBehind ==
    ASSUME TypeOK, NEW c \in Container, NEW old \in Maps(Key, Reading),
           NEW now \in Maps(Key, Reading),
           \A k \in DOMAIN old : Below(old[k]), \A k \in DOMAIN now : Fresh(now[k], c)
    PROVE  NotAhead(old, now)
  <1> SUFFICES ASSUME NEW k \in DOMAIN old \cap DOMAIN now, old[k].who = now[k].who
               PROVE  old[k].count <= now[k].count
    BY DEF NotAhead
  <1> QED BY DEF Below, Fresh

\* What is fresh is below, as the counters only grow.
LEMMA FreshBelow ==
    ASSUME TypeOK, NEW c \in Container, NEW r \in Reading, Fresh(r, c)
    PROVE  Below(r) /\ r.who.of = c
  <1>1. r.count \in Int
    BY CountAssumption DEF Reading, Count
  <1>2. r.who.life \in Nat
    BY DEF Reading, Who
  <1> QED BY <1>1, <1>2 DEF Fresh, Below

\* A reading stays below while the kernel goes on.
LEMMA KernelBelow ==
    ASSUME TypeOK, Kernel, NEW r \in Reading, Below(r)
    PROVE  Below(r)'
  <1> DEFINE x == <<r.who.of, r.who.pid>>
  <1>1. x \in Process /\ r.who.life \in Nat /\ r.count \in Int
    BY CountAssumption DEF Below, Reading, Who, Count
  <1>2. TypeOK'
    BY KernelStep
  <1>3. /\ proc[x].life \in Nat /\ proc'[x].life \in Nat
        /\ proc[x].used \in Int /\ proc'[x].used \in Int
    BY <1>1, <1>2, CountAssumption DEF TypeOK, Count
  <1>4. /\ proc[x].life <= proc'[x].life
        /\ proc'[x].alive /\ proc'[x].life = proc[x].life =>
               proc[x].alive /\ proc[x].used <= proc'[x].used
    BY <1>1, KernelStep
  <1>5. /\ r.who.life <= proc[x].life
        /\ proc[x].alive /\ r.who.life = proc[x].life => r.count <= proc[x].used
    BY DEF Below
  <1> QED BY <1>1, <1>3, <1>4, <1>5 DEF Below

\* A step of the kernel disturbs none of it.
LEMMA KernelCause == TypeOK /\ CauseInv /\ Kernel => CauseInv'
  <1> SUFFICES ASSUME TypeOK, CauseInv, Kernel PROVE CauseInv'
    OBVIOUS
  <1>1. UNCHANGED <<sampler, pc, job, history>>
    BY KernelStep
  <1>2. BaseBelow'
    <2>1. \A k \in DOMAIN prevProcess : prevProcess[k] \in Reading
      BY MapsElim DEF TypeOK
    <2> QED BY <1>1, <2>1, KernelBelow DEF CauseInv, BaseBelow, sampler, Below
  <1>3. ReadBelow'
    <2>1. \A w \in Worker : \A k \in DOMAIN job[w].now : job[w].now[k] \in Reading
      <3>1. \A w \in Worker : job[w].now \in Maps(Key, Reading)
        BY DEF TypeOK, Job
      <3> QED BY <3>1, MapsElim
    <2> QED BY <1>1, <2>1, KernelBelow DEF CauseInv, ReadBelow, Below
  <1> QED BY <1>1, <1>2, <1>3 DEF CauseInv, ProcessBaselineOwned, InOrder, BaseBehind, NotAhead,
                                  WrapNeedsCause, Plausible, sampler, history

\* A collection that reads is newer than all that have read.
LEMMA ReadCause ==
    ASSUME TypeOK, CauseInv, NEW w \in Worker, NEW c \in Container,
           NEW now \in Maps(Key, Reading), Got(w, c, now),
           \A k \in DOMAIN now : Fresh(now[k], c)
    PROVE  CauseInv'
  <1>1. /\ pc[w] = "idle" /\ pc' = [pc EXCEPT ![w] = "read"]
        /\ newer' = [v \in Worker |-> IF pc[v] = "read" THEN newer[v] \cup {w} ELSE {}]
        /\ overtaken' = overtaken \ {w}
        /\ UNCHANGED <<proc, containerID, prevProcess>>
    BY DEF Got, sampler
  <1>2. /\ \A v \in Worker \ {w} : job'[v] = job[v]
        /\ job'[w].of = c /\ job'[w].now = now /\ job'[w].cpu = EmptyMap
    BY DEF Got, TypeOK, NewJob
  <1>3. \A v \in Worker : pc'[v] = IF v = w THEN "read" ELSE pc[v]
    BY <1>1 DEF TypeOK
  <1>4. \A v \in Worker : job[v].now \in Maps(Key, Reading)
    BY DEF TypeOK, Job
  <1>5. \A k \in DOMAIN now : now[k] \in Reading
    BY MapsElim
  <1>6. ProcessBaselineOwned' /\ BaseBelow'
    BY <1>1 DEF CauseInv, ProcessBaselineOwned, BaseBelow, Below
  <1>7. ReadBelow'
    <2>1. \A k \in DOMAIN now : Below(now[k]) /\ now[k].who.of = c
      BY <1>5, FreshBelow
    <2> QED BY <1>1, <1>2, <1>3, <2>1 DEF CauseInv, ReadBelow, Below
  <1>8. InOrder'
    <2>1. ASSUME NEW v \in Worker, pc[v] = "read" PROVE NotAhead(job[v].now, now)
      <3>1. \A k \in DOMAIN job[v].now : Below(job[v].now[k])
        BY <2>1 DEF CauseInv, ReadBelow
      <3> QED BY <1>4, <3>1, FreshNotBehind
    <2>2. SUFFICES ASSUME NEW v \in Worker, NEW u \in Worker, pc'[v] = "read", pc'[u] = "read",
                          v # u, v \notin newer'[u]
                   PROVE  NotAhead(job'[v].now, job'[u].now)
      BY DEF InOrder, NotAhead
    <2>3. CASE u = w
      BY <1>2, <1>3, <2>1, <2>2, <2>3
    <2>4. CASE u # w
      <3>1. pc[u] = "read" /\ v # w /\ v \notin newer[u]
        BY <1>1, <1>3, <2>2, <2>4
      <3> QED BY <1>2, <1>3, <2>2, <2>4, <3>1 DEF CauseInv, InOrder
    <2> QED BY <2>3, <2>4
  <1>9. BaseBehind'
    <2>1. NotAhead(prevProcess, now)
      BY FreshNotBehind DEF TypeOK, CauseInv, BaseBelow
    <2> QED BY <1>1, <1>2, <1>3, <2>1 DEF CauseInv, BaseBehind, NotAhead
  <1>10. WrapNeedsCause'
    <2>1. DOMAIN EmptyMap = {}
      BY EmptyMapType
    <2> QED BY <1>1, <1>2, <2>1 DEF CauseInv, WrapNeedsCause, Plausible
  <1> QED BY <1>6, <1>7, <1>8, <1>9, <1>10 DEF CauseInv

\* Sampling rates the readings against a baseline of their container that is
\* behind them, unless they were overtaken; and overtakes who read before.
LEMMA SampleCause ==
    ASSUME TypeOK, CauseInv, NEW w \in Worker, CalculateProcessRates(w)
    PROVE  CauseInv'
  <1>1. /\ pc[w] = "read" /\ pc' = [pc EXCEPT ![w] = "sampled"]
        /\ prevProcess' = job[w].now /\ containerID' = job[w].of
        /\ overtaken' = overtaken \cup Overtakes(w) /\ newer' = [newer EXCEPT ![w] = {}]
        /\ UNCHANGED proc
    BY DEF CalculateProcessRates, Note
  <1>2. /\ Base(w) \in Maps(Key, Reading) /\ job[w].now \in Maps(Key, Reading)
        /\ \A v \in Worker \ {w} : job'[v] = job[v]
        /\ job'[w].of = job[w].of /\ job'[w].now = job[w].now
        /\ job'[w].cpu \in {job[w].cpu, Deltas(job[w].now, Base(w))}
    BY SampleStep
  <1>3. \A v \in Worker : /\ pc'[v] = IF v = w THEN "sampled" ELSE pc[v]
                          /\ newer'[v] = IF v = w THEN {} ELSE newer[v]
    BY <1>1 DEF TypeOK
  <1>4. ProcessBaselineOwned' /\ BaseBelow'
    BY <1>1 DEF CauseInv, ReadBelow, ProcessBaselineOwned, BaseBelow, Below
  <1>5. ReadBelow'
    <2>1. \A v \in Worker : pc'[v] = "read" => pc[v] = "read" /\ job'[v] = job[v]
      BY <1>2, <1>3
    <2>2. \A v \in Worker : pc[v] = "read" => \A k \in DOMAIN job[v].now :
              Below(job[v].now[k]) /\ job[v].now[k].who.of = job[v].of
      BY DEF CauseInv, ReadBelow
    <2> QED BY <1>1, <2>1, <2>2 DEF ReadBelow, Below
  <1>6. InOrder'
    BY <1>2, <1>3 DEF CauseInv, InOrder, NotAhead
  <1>7. BaseBehind'
    <2> SUFFICES ASSUME NEW v \in Worker, pc'[v] = "read", v \notin overtaken'
                 PROVE  NotAhead(prevProcess', job'[v].now)
      BY DEF BaseBehind, NotAhead
    <2>1. v # w /\ pc[v] = "read" /\ w \notin newer[v]
      BY <1>1, <1>3 DEF Overtakes
    <2> QED BY <1>1, <1>2, <2>1 DEF CauseInv, InOrder
  <1>8. WrapNeedsCause'
    <2> SUFFICES ASSUME NEW v \in Worker, NEW k \in DOMAIN job'[v].cpu
                 PROVE  \/ job'[v].cpu[k].by <= job'[v].now[k].count
                        \/ v \in overtaken'
                        \/ /\ job'[v].cpu[k].against # job'[v].now[k].who
                           /\ job'[v].cpu[k].against.of = job'[v].of
      BY DEF WrapNeedsCause, Plausible
    <2>1. CASE job'[v].cpu = job[v].cpu
      BY <1>1, <1>2, <2>1 DEF CauseInv, WrapNeedsCause, Plausible
    <2>2. CASE v = w /\ job'[w].cpu = Deltas(job[w].now, Base(w)) /\ w \notin overtaken
      <3>1. k \in DOMAIN job[w].now \cap DOMAIN Base(w)
        BY <2>2 DEF Deltas
      <3>2. containerID = job[w].of /\ Base(w) = prevProcess
        BY <3>1, EmptyMapType DEF Base
      <3>3. job'[w].cpu[k] = [by      |-> (job[w].now[k].count - prevProcess[k].count) % Wrap,
                              against |-> prevProcess[k].who]
        BY <2>2, <3>1, <3>2 DEF Deltas
      <3>4. prevProcess[k].who.of = job[w].of
        BY <3>1, <3>2 DEF CauseInv, ProcessBaselineOwned
      <3>5. job[w].now[k].count \in Count /\ prevProcess[k].count \in Count
        <4>1. job[w].now[k] \in Reading /\ Base(w)[k] \in Reading
          BY <1>2, <3>1, MapsElim
        <4> QED BY <3>2, <4>1 DEF Reading
      <3>6. prevProcess[k].who = job[w].now[k].who =>
                prevProcess[k].count <= job[w].now[k].count
        BY <1>1, <2>2, <3>1, <3>2 DEF CauseInv, BaseBehind, NotAhead
      <3> QED BY <1>2, <2>2, <3>3, <3>4, <3>5, <3>6, NoWrap
    <2> QED BY <1>1, <1>2, <2>1, <2>2
  <1> QED BY <1>4, <1>5, <1>6, <1>7, <1>8 DEF CauseInv

\* The end of a collection leaves the readings of the others.
LEMMA ReturnCause ==
    ASSUME TypeOK, CauseInv, NEW w \in Worker, CalculateNetworkRates(w) \/ ReadNetDevFails(w)
    PROVE  CauseInv'
  <1>1. /\ pc' = [pc EXCEPT ![w] = "idle"]
        /\ job' = [job EXCEPT ![w] = NewJob(NoContainer, EmptyMap)]
        /\ overtaken' = overtaken \ {w}
        /\ UNCHANGED <<proc, containerID, prevProcess, newer>>
    BY ReturnStep
  <1>2. /\ \A v \in Worker : pc'[v] = "read" => pc[v] = "read" /\ v # w
        /\ \A v \in Worker \ {w} : job'[v] = job[v]
        /\ job'[w].cpu = EmptyMap
    BY <1>1 DEF TypeOK, NewJob
  <1>3. DOMAIN EmptyMap = {}
    BY EmptyMapType
  <1>4. ProcessBaselineOwned' /\ BaseBelow' /\ ReadBelow'
    <2>1. proc' = proc /\ prevProcess' = prevProcess /\ containerID' = containerID
      BY <1>1
    <2>2. ASSUME NEW v \in Worker, pc'[v] = "read"
          PROVE  pc[v] = "read" /\ job'[v] = job[v]
      BY <1>2, <2>2
    <2>3. ProcessBaselineOwned' /\ BaseBelow'
      BY <2>1 DEF CauseInv, ProcessBaselineOwned, BaseBelow, Below
    <2>4. ReadBelow'
      BY <2>1, <2>2 DEF CauseInv, ReadBelow, Below
    <2> QED BY <2>3, <2>4
  <1>5. InOrder' /\ BaseBehind'
    BY <1>1, <1>2 DEF CauseInv, InOrder, BaseBehind, NotAhead
  <1>6. WrapNeedsCause'
    BY <1>1, <1>2, <1>3 DEF CauseInv, WrapNeedsCause, Plausible
  <1> QED BY <1>4, <1>5, <1>6 DEF CauseInv

\* Every step keeps all of it.
LEMMA NextCause == TypeOK /\ CauseInv /\ [Next]_vars => CauseInv'
  <1> SUFFICES ASSUME TypeOK, CauseInv, [Next]_vars PROVE CauseInv'
    OBVIOUS
  <1>1. CASE UNCHANGED vars
    BY <1>1 DEF vars, sampler, history, CauseInv, ProcessBaselineOwned, BaseBelow, ReadBelow,
                Below, InOrder, BaseBehind, NotAhead, WrapNeedsCause, Plausible
  <1>2. ASSUME NEW w \in Worker, NEW c \in Container,
               ListProcesses(w, c) \/ FallBack(w, c) \/ \E p \in Pid : ReadTarget(w, c, p)
        PROVE  CauseInv'
    BY <1>2, ReadStep, ReadCause
  <1> QED BY <1>1, <1>2, KernelCause, SampleCause, ReturnCause DEF Next, Collect

\* A new sampler has no baseline to be wrong about.
LEMMA InitCause == Init => CauseInv
  <1> SUFFICES ASSUME Init PROVE CauseInv
    OBVIOUS
  <1>1. DOMAIN EmptyMap = {} /\ \A w \in Worker : job[w].cpu = EmptyMap /\ pc[w] = "idle"
    BY EmptyMapType DEF Init, NewJob
  <1> QED BY <1>1 DEF Init, CauseInv, ProcessBaselineOwned, BaseBelow, ReadBelow, InOrder,
                      BaseBehind, WrapNeedsCause

\* The invariant of overlapping collections.
LEMMA Causes == Spec => []CauseInv
  BY InitCause, NextCause, TypeCorrect, PTL DEF Spec

\* Every process baseline is of the container the sampler is set to, whatever
\* collections of whichever containers overlap.
THEOREM ProcessBaselinesOwned == Spec => []ProcessBaselineOwned
  <1>1. CauseInv => ProcessBaselineOwned
    BY DEF CauseInv
  <1> QED BY <1>1, Causes, PTL

\* The unguarded CPU difference wraps for two causes only, whatever overlaps:
\* the readings were sampled in the wrong order, or are of two processes of
\* the container that came under one key.
THEOREM WrapsHaveCause == Spec => []WrapNeedsCause
  <1>1. CauseInv => WrapNeedsCause
    BY DEF CauseInv
  <1> QED BY <1>1, Causes, PTL

-----------------------------------------------------------------------------
(***************************************************************************)
(* What the second half of a collection relies on.                         *)
(***************************************************************************)

\* Whoever is not crossed finds the sampler set to its container.
Settled == \A w \in Worker : pc[w] = "sampled" /\ w \notin crossed => containerID = job[w].of

\* So do the baselines of whoever was not crossed.
LeftOwned ==
    \A i \in DOMAIN prevNetwork : prevNetwork[i].of = containerID \/ prevNetwork[i].crossed

CrossInv == Settled /\ LeftOwned

\* Who changes the container crosses those of the other one, and drops their
\* baselines.
LEMMA NextCross == TypeOK /\ CrossInv /\ [Next]_vars => CrossInv'
  <1> SUFFICES ASSUME TypeOK, CrossInv, [Next]_vars PROVE CrossInv'
    OBVIOUS
  <1> USE DEF CrossInv, Settled, LeftOwned
  <1>1. CASE UNCHANGED vars
    BY <1>1 DEF vars, sampler, history
  <1>2. CASE Kernel
    BY <1>2, KernelStep DEF sampler, history
  <1>3. ASSUME NEW w \in Worker, NEW c \in Container, NEW now \in Maps(Key, Reading), Got(w, c, now)
        PROVE  CrossInv'
    <2>1. /\ \A v \in Worker : pc'[v] = "sampled" => pc[v] = "sampled" /\ v # w
          /\ \A v \in Worker \ {w} : job'[v] = job[v]
          /\ UNCHANGED <<containerID, prevNetwork, crossed>>
      BY <1>3 DEF Got, TypeOK, sampler
    <2> QED BY <2>1
  <1>4. ASSUME NEW w \in Worker, CalculateProcessRates(w) PROVE CrossInv'
    <2>1. /\ \A v \in Worker : pc'[v] = "sampled" => v = w \/ pc[v] = "sampled"
          /\ containerID' = job[w].of /\ crossed' = crossed \cup Crosses(w)
          /\ prevNetwork' = IF containerID = job[w].of THEN prevNetwork ELSE EmptyMap
      BY <1>4 DEF CalculateProcessRates, Note, TypeOK
    <2>2. \A v \in Worker : job'[v].of = job[v].of
      BY <1>4, SampleStep
    <2>3. Settled'
      BY <2>1, <2>2 DEF Crosses
    <2>4. LeftOwned'
      BY <2>1, EmptyMapType
    <2> QED BY <2>3, <2>4
  <1>5. ASSUME NEW w \in Worker, CalculateNetworkRates(w) \/ ReadNetDevFails(w) PROVE CrossInv'
    <2>1. /\ pc[w] = "sampled" /\ UNCHANGED containerID /\ crossed' = crossed \ {w}
          /\ prevNetwork' = prevNetwork \/ prevNetwork' = Left(w)
          /\ \A v \in Worker : pc'[v] = "sampled" => pc[v] = "sampled" /\ v # w
          /\ \A v \in Worker \ {w} : job'[v] = job[v]
      BY <1>5, ReturnStep DEF TypeOK
    <2>2. LeftOwned'
      <3>1. CASE prevNetwork' = prevNetwork
        BY <2>1, <3>1
      <3>2. CASE prevNetwork' = Left(w)
        <4>1. \A i \in DOMAIN Left(w) : Left(w)[i] = [of |-> job[w].of, crossed |-> w \in crossed]
          BY DEF Left
        <4>2. w \notin crossed => containerID = job[w].of
          BY <2>1
        <4>3. ASSUME NEW i \in DOMAIN Left(w)
              PROVE  Left(w)[i].of = containerID \/ Left(w)[i].crossed
          <5>1. Left(w)[i].of = job[w].of /\ Left(w)[i].crossed = (w \in crossed)
            BY <4>1
          <5> QED BY <4>2, <5>1
        <4> QED BY <2>1, <3>2, <4>3
      <3> QED BY <2>1, <3>1, <3>2
    <2> QED BY <2>1, <2>2
  <1>6. ASSUME NEW w \in Worker, Collect(w) PROVE CrossInv'
    BY <1>3, <1>4, <1>5, <1>6, ReadStep DEF Collect
  <1> QED BY <1>1, <1>2, <1>6 DEF Next

\* The invariant of the second halves.
LEMMA Crossings == Spec => []CrossInv
  <1>1. Init => CrossInv
    BY EmptyMapType DEF Init, CrossInv, Settled, LeftOwned
  <1> QED BY <1>1, NextCross, TypeCorrect, PTL DEF Spec

\* CalculateNetworkRates meets the baselines of another container only after
\* collections have crossed, although it does not ask whose they are.
THEOREM ForeignNetworkHasCause == Spec => []ForeignNetworkNeedsCrossing
  <1>1. CrossInv => ForeignNetworkNeedsCrossing
    BY DEF CrossInv, Settled, LeftOwned, ForeignNetworkNeedsCrossing
  <1> QED BY <1>1, Crossings, PTL
=============================================================================
