--------------------------- MODULE RuntimesProofs ---------------------------
(***************************************************************************)
(* Proofs about the parts of the runtimes, for any number of calls under   *)
(* way and of restarts of a container.                                     *)
(***************************************************************************)
EXTENDS RuntimesAndPage, Sequences, TLAPS

-----------------------------------------------------------------------------
(***************************************************************************)
(* Connection.                                                             *)
(***************************************************************************)

\* The pages call from the end of Connect on.
Usable == phase \in {"up", "closing", "closed"}

\* What the mode and the Once say of the second connection: Docker alone has
\* a delegate, and one while the mode says so; CRI-O alone has a storage, and
\* one while the Once has kept no error; both until Close.
SecondIsThere ==
    /\ mode = "containerd" => backend = "docker" /\ phase \in {"delegating", "up", "closing", "closed"}
    /\ store # "never" => backend = "crio"
    /\ phase = "delegating" => backend = "docker"
    /\ mode = "containerd" /\ phase = "up" => second # "nil"
    /\ store = "ok" /\ phase \in {"opening", "up"} => second # "nil"
    /\ store = "ok" => phase \in {"opening", "up", "closing", "closed", "failed"}

\* What a call has found before is of the backend that has it, and a storage
\* that is nil was found after Close began only.
FoundIsOfBackend ==
    \A c \in Caller :
        /\ call[c] = "delegate" => mode = "containerd" /\ Usable
        /\ call[c] = "nothing"  => store = "ok" /\ phase \in {"closing", "closed"}

ConnectionInv == TypeOK /\ SecondIsThere /\ FoundIsOfBackend /\ CrashNeedsClose

\* The steps of Connect, before which no call is under way that found a delegate.
LEMMA ConnectKeeps ==
    ASSUME ConnectionInv, Connect
    PROVE  ConnectionInv'
  <1> USE DEF ConnectionInv, TypeOK, SecondIsThere, FoundIsOfBackend, CrashNeedsClose, Usable
  <1>1. CASE ConnectContainerd
    BY <1>1 DEF ConnectContainerd
  <1>2. CASE OpenStore \/ ConnectCRI
    BY <1>2 DEF OpenStore, ConnectCRI
  <1>3. CASE ProbeDocker
    BY <1>3 DEF ProbeDocker
  <1>4. CASE InitDelegate
    BY <1>4 DEF InitDelegate
  <1> QED
    BY <1>1, <1>2, <1>3, <1>4 DEF Connect

\* Close forgets the second connection after it is past "up".
LEMMA CloseKeeps ==
    ASSUME ConnectionInv, Close
    PROVE  ConnectionInv'
  BY DEF ConnectionInv, TypeOK, SecondIsThere, FoundIsOfBackend, CrashNeedsClose, Usable,
         Close, CloseSecond, ForgetSecond, CloseClient, Conn

\* A call finds a nil storage, or uses a nil delegate, only once Close began.
LEMMA CallKeeps ==
    ASSUME ConnectionInv, NEW c \in Caller, Begin(c) \/ Use(c)
    PROVE  ConnectionInv'
  <1> USE DEF ConnectionInv, TypeOK, SecondIsThere, FoundIsOfBackend, CrashNeedsClose, Usable, Rest
  <1>1. CASE Begin(c)
    <2>1. PICK f \in Found : call' = [call EXCEPT ![c] = f]
      BY <1>1 DEF Begin
    <2>2. f \in {"client", "delegate", "store", "nothing"}
      BY DEF Found
    <2>3. f = "delegate" => mode = "containerd"
      BY DEF Found
    <2>4. f = "nothing" => store = "ok" /\ second = "nil"
      BY DEF Found
    <2>5. Usable /\ UNCHANGED <<Rest, crashed>>
      BY <1>1 DEF Begin
    <2> QED
      BY <2>1, <2>2, <2>3, <2>4, <2>5
  <1>2. CASE Use(c)
    BY <1>2 DEF Use
  <1> QED
    BY <1>1, <1>2

\* The inductive invariant: while the fields are checked at all, what they
\* stand for is there until Close takes it away.
THEOREM ConnectionInductive == Spec => []ConnectionInv
  <1>1. Init => ConnectionInv
    BY DEF Init, ConnectionInv, TypeOK, SecondIsThere, FoundIsOfBackend, CrashNeedsClose, Usable
  <1>2. ConnectionInv /\ [Next]_vars => ConnectionInv'
    <2> SUFFICES ASSUME ConnectionInv, [Next]_vars PROVE ConnectionInv'
      OBVIOUS
    <2>1. CASE UNCHANGED vars
      BY <2>1 DEF ConnectionInv, TypeOK, SecondIsThere, FoundIsOfBackend, CrashNeedsClose, Usable, vars
    <2> QED
      BY <2>1, ConnectKeeps, CloseKeeps, CallKeeps DEF Next
  <1> QED
    BY <1>1, <1>2, PTL DEF Spec

\* Whatever part of Connect fails, and however many calls are under way, only
\* a call that Close overtook meets a nil field of a client
\* (pkg/runtime/{crio,docker}/client.go), and containerd's never.
THEOREM NilNeedsClose == Spec => []CrashNeedsClose
  BY ConnectionInductive, PTL DEF ConnectionInv

-----------------------------------------------------------------------------
(***************************************************************************)
(* Supplement.                                                             *)
(***************************************************************************)

\* The three sources of the supplement: only a spoofed container gets one from
\* its spec, only another one from the list or a status.
Sources ==
    /\ spoofed => spec = "spoofed"
    /\ spec = "spoofed" => cri \in {"nil", "spec"}
    /\ cri = "spec" => spoofed
    /\ spec = "spoofed" /\ spoofedOnce = "done" => cri = "spec"
    /\ statusOnce = "done" => cri # "nil" \/ failed

\* A spoofed container has its supplement before any call is past the first
\* Once; for another one, h.cri is nil behind the second only if it failed.
Passed ==
    \A c \in Caller :
        /\ scall[c].at = "naming" => spoofed
        /\ scall[c].at = "status" /\ spec = "spoofed" => cri = "spec"
        /\ scall[c].at = "asking" => spec # "spoofed"
        /\ scall[c].at \in {"ensure", "spoofing", "naming", "status", "asking"} =>
               scall[c].method \in SU!Settling
        /\ scall[c].at \in {"mounts", "listing"} => scall[c].method \notin SU!Settling
        /\ scall[c].at \in {"pid", "use"} /\ scall[c].method \in SU!Settling =>
             \/ cri # "nil"
             \/ failed /\ spec # "spoofed" /\ statusOnce = "done"

SupplementInv == SU!TypeOK /\ Sources /\ Passed /\ SU!SettledNotAsked /\ SU!CrashNeedsFailure

\* The steps up to the end of the first Once.
LEMMA SpoofedKeeps ==
    ASSUME SupplementInv, NEW c \in Caller,
           SU!Begin(c) \/ SU!EnsureSpoofed(c) \/ SU!MarkSpoofed(c) \/ SU!NameSpoofed(c) \/ SU!NotSpoofed(c)
    PROVE  SupplementInv'
  <1> USE DEF SupplementInv, SU!TypeOK, Sources, Passed, SU!SettledNotAsked, SU!CrashNeedsFailure,
              SU!At, SU!Go, SU!Ask, SU!Method, SU!Settling, SU!Places, SU!Once
  <1>1. CASE SU!Begin(c)
    BY <1>1 DEF SU!Begin, SU!Entry
  <1>2. CASE SU!EnsureSpoofed(c)
    BY <1>2 DEF SU!EnsureSpoofed
  <1>3. CASE SU!MarkSpoofed(c)
    BY <1>3 DEF SU!MarkSpoofed
  <1>4. CASE SU!NameSpoofed(c)
    BY <1>4 DEF SU!NameSpoofed
  <1>5. CASE SU!NotSpoofed(c)
    BY <1>5 DEF SU!NotSpoofed
  <1> QED
    BY <1>1, <1>2, <1>3, <1>4, <1>5

\* The steps from there on.
LEMMA StatusKeeps ==
    ASSUME SupplementInv, NEW c \in Caller,
           \/ SU!EnsureStatus(c) \/ SU!StatusComes(c) \/ SU!EnsureCRIMounts(c) \/ SU!MountsCome(c)
           \/ SU!Pid(c) \/ SU!Use(c)
    PROVE  SupplementInv'
  <1> USE DEF SupplementInv, SU!TypeOK, Sources, Passed, SU!SettledNotAsked, SU!CrashNeedsFailure,
              SU!At, SU!Go, SU!Ask, SU!Method, SU!Settling, SU!Places, SU!Once
  <1>1. CASE SU!EnsureStatus(c)
    BY <1>1 DEF SU!EnsureStatus
  <1>2. CASE SU!StatusComes(c)
    BY <1>2 DEF SU!StatusComes
  <1>3. CASE SU!Pid(c)
    BY <1>3 DEF SU!Pid
  <1>4. CASE SU!Use(c)
    BY <1>4 DEF SU!Use
  <1>5. CASE SU!EnsureCRIMounts(c)
    BY <1>5 DEF SU!EnsureCRIMounts
  <1>6. CASE SU!MountsCome(c)
    BY <1>6 DEF SU!MountsCome
  <1> QED
    BY <1>1, <1>2, <1>3, <1>4, <1>5, <1>6

\* The inductive invariant behind the two results below.
THEOREM SupplementInductive == SU!Spec => []SupplementInv
  <1>1. SU!Init => SupplementInv
    <2> SUFFICES ASSUME SU!Init PROVE SupplementInv
      OBVIOUS
    <2>1. \A c \in Caller : scall[c].method = "Info" /\ scall[c].at = "idle"
      BY DEF SU!Init
    <2>2. scall \in [Caller -> [method : SU!Method, at : SU!Places]]
      BY DEF SU!Init, SU!Method, SU!Places
    <2>3. SU!TypeOK
      BY <2>2 DEF SU!Init, SU!TypeOK, SU!Once, SU!Method
    <2>4. Passed
      BY <2>1 DEF Passed
    <2> QED
      BY <2>3, <2>4 DEF SU!Init, SupplementInv, Sources, SU!SettledNotAsked, SU!CrashNeedsFailure
  <1>2. SupplementInv /\ [SU!Next]_(SU!vars) => SupplementInv'
    <2> SUFFICES ASSUME SupplementInv, [SU!Next]_(SU!vars) PROVE SupplementInv'
      OBVIOUS
    <2>1. CASE UNCHANGED SU!vars
      BY <2>1 DEF SupplementInv, SU!TypeOK, Sources, Passed, SU!SettledNotAsked,
                  SU!CrashNeedsFailure, SU!vars
    <2> QED
      BY <2>1, SpoofedKeeps, StatusKeeps DEF SU!Next
  <1> QED
    BY <1>1, <1>2, PTL DEF SU!Spec

\* However many first calls overlap in the Onces, a method that begins with
\* the supplement does not ask CRI about a container CRI does not have
\* (ensureCRISupplement, pkg/runtime/crio/container.go).
THEOREM NeverAsksForSpoofed == SU!Spec => []SettledNotAsked
  BY SupplementInductive, PTL DEF SupplementInv, SettledNotAsked

\* Stdio panics for a nil supplement only when the one status failed.
THEOREM NilNeedsFailure == SU!Spec => []CrashNeedsFailure
  BY SupplementInductive, PTL DEF SupplementInv, CrashNeedsFailure

-----------------------------------------------------------------------------
(***************************************************************************)
(* TempView.                                                               *)
(***************************************************************************)

\* A call that has been alone is the only one, until it returns; then there
\* is no view when it retries, and there are paths when it is done.
Solitary ==
    \A c \in Viewer :
        /\ alone[c] /\ c \in TV!Under => TV!Under = {c}
        /\ alone[c] /\ vcall[c] = "retry" => ~view

TempViewInv == TV!TypeOK /\ TV!ViewsAreRemoved /\ Solitary /\ TV!AloneGetsPaths

\* A call begins: it is alone if no other is under way, which are not from now on.
LEMMA ViewBegins ==
    ASSUME TempViewInv, NEW c \in Viewer, TV!Begin(c)
    PROVE  TempViewInv'
  <1> USE DEF TempViewInv, TV!TypeOK, TV!Begin, TV!Go
  <1>1. TV!TypeOK' /\ TV!ViewsAreRemoved'
    BY DEF TV!ViewsAreRemoved
  <1>2. TV!Under' = TV!Under \cup {c}
    BY DEF TV!Under
  <1>3. Solitary'
    BY <1>2 DEF Solitary, TV!Under
  <1>4. TV!AloneGetsPaths'
    BY DEF TV!AloneGetsPaths, TV!Under
  <1> QED
    BY <1>1, <1>3, <1>4

\* A call that ends, by itself or with its process.
LEMMA ViewEnds ==
    ASSUME TempViewInv, NEW c \in Viewer, TV!Return(c) \/ TV!Lost(c)
    PROVE  TempViewInv'
  <1> USE DEF TempViewInv, TV!TypeOK, TV!Return, TV!Lost, TV!Go
  <1>1. TV!TypeOK' /\ TV!ViewsAreRemoved' /\ TV!AloneGetsPaths'
    BY DEF TV!ViewsAreRemoved, TV!AloneGetsPaths
  <1>2. TV!Under' = TV!Under \ {c}
    BY DEF TV!Under
  <1>3. Solitary'
    BY <1>2 DEF Solitary, TV!Under
  <1> QED
    BY <1>1, <1>3

\* The steps in between, each of which makes or removes the view.
LEMMA ViewSteps ==
    ASSUME TempViewInv, NEW c \in Viewer, TV!View(c) \/ TV!Remove(c) \/ TV!Retry(c) \/ TV!ReadMounts(c)
    PROVE  TempViewInv'
  <1> USE DEF TempViewInv, TV!TypeOK, TV!View, TV!Remove, TV!Retry, TV!ReadMounts, TV!Go
  <1>1. TV!TypeOK'
    OBVIOUS
  <1>2. c \in TV!Under /\ \A d \in Viewer : alone[d] /\ d \in TV!Under => d = c
    BY DEF Solitary, TV!Under
  <1>3. TV!Under' \subseteq TV!Under
    BY DEF TV!Under
  <1>4. TV!ViewsAreRemoved'
    BY DEF TV!ViewsAreRemoved
  <1>5. Solitary'
    BY <1>2, <1>3 DEF Solitary, TV!Under
  <1>6. TV!AloneGetsPaths'
    BY DEF TV!AloneGetsPaths, Solitary, TV!Under
  <1> QED
    BY <1>1, <1>4, <1>5, <1>6

\* The inductive invariant behind the two results below.
THEOREM TempViewInductive == TV!Spec => []TempViewInv
  <1>1. TV!Init => TempViewInv
    BY DEF TV!Init, TempViewInv, TV!TypeOK, TV!ViewsAreRemoved, Solitary, TV!AloneGetsPaths, TV!Under
  <1>2. TempViewInv /\ [TV!Next]_(TV!vars) => TempViewInv'
    <2> SUFFICES ASSUME TempViewInv, [TV!Next]_(TV!vars) PROVE TempViewInv'
      OBVIOUS
    <2>1. CASE UNCHANGED TV!vars
      BY <2>1 DEF TempViewInv, TV!TypeOK, TV!ViewsAreRemoved, Solitary, TV!AloneGetsPaths, TV!Under, TV!vars
    <2> QED
      BY <2>1, ViewBegins, ViewEnds, ViewSteps DEF TV!Next
  <1> QED
    BY <1>1, <1>2, PTL DEF TV!Spec

\* However many calls contend for the key, and whichever of them die or remove
\* each other's view, one that ended by itself leaves none
\* (readOnlyLayerPathsViaView, pkg/runtime/containerd/container.go).
THEOREM NoViewStays == TV!Spec => []ViewsAreRemoved
  BY TempViewInductive, PTL DEF TempViewInv, ViewsAreRemoved

\* A call no other overlapped has its paths, whatever an earlier process left.
THEOREM AloneSucceeds == TV!Spec => []AloneGetsPaths
  BY TempViewInductive, PTL DEF TempViewInv, AloneGetsPaths

-----------------------------------------------------------------------------
(***************************************************************************)
(* Handle.                                                                 *)
(***************************************************************************)

\* What call c has asked of method m are its first n questions, and what they
\* wanted kept is.
Reached(c, m, n) ==
    /\ Len(hcall[c].left) = Len(H!Method[m]) - n
    /\ \A i \in 1..Len(hcall[c].left) : hcall[c].left[i] = H!Method[m][i + n]
    /\ \A j \in 1..n : H!Method[m][j].do \in {"keep", "need"} => kept[H!Method[m][j].what].at = "done"

Somewhere(c) == \E m \in DOMAIN H!Method : \E n \in 0..Len(H!Method[m]) : Reached(c, m, n)

InOrderAt(c) ==
    /\ hcall[c].at # "idle" => Somewhere(c)
    /\ hcall[c].at = "fetching" => hcall[c].left # <<>> /\ Head(hcall[c].left).do \in {"keep", "need"}

InOrder == \A c \in Caller : InOrderAt(c)

\* Nothing was fetched that was never tried, and nothing twice.
Counted == \A k \in H!Once : fetched[k] <= 1 /\ (kept[k].at = "never" => fetched[k] = 0)

HandleInv == H!TypeOK /\ InOrder /\ Counted

\* What is assumed of the tables, of that of the runtime at hand.
LEMMA Tables ==
    ASSUME H!TypeOK
    PROVE  /\ MaxPid \in Nat \ {0}
           /\ \A m \in DOMAIN H!Method : H!Method[m] \in Seq(H!Questions(H!Once))
           /\ \A m \in DOMAIN H!Method : \A i \in 1..Len(H!Method[m]) :
                H!Method[m][i].do = "recall" =>
                   /\ backend \in KeepsPid
                   /\ \E j \in 1..(i - 1) : /\ H!Method[m][j].do \in {"keep", "need"}
                                            /\ H!Method[m][j].what = H!Method[m][i].what
  <1>1. H!AsksOf(backend)
    BY HandleAssumption DEF H!AsksAssumption, H!TypeOK
  <1>2. MaxPid \in Nat \ {0}
    BY HandleAssumption DEF H!MaxPidAssumption
  <1> QED
    BY <1>1, <1>2 DEF H!AsksOf, H!Method, H!Once

\* A method is a list of questions.
LEMMA MethodAsks ==
    ASSUME HandleInv, NEW m \in DOMAIN H!Method
    PROVE  H!Method[m] \in Seq(H!Questions(H!Once))
  <1>1. H!TypeOK
    BY DEF HandleInv
  <1> QED
    BY <1>1, Tables

\* A method recalls only what it made sure of before: it keeps or needs it first.
LEMMA MethodKeeps ==
    ASSUME HandleInv, NEW m \in DOMAIN H!Method, NEW i \in 1..Len(H!Method[m]),
           H!Method[m][i].do = "recall"
    PROVE  \E j \in 1..(i - 1) : /\ H!Method[m][j].do \in {"keep", "need"}
                                 /\ H!Method[m][j].what = H!Method[m][i].what
  <1>1. H!TypeOK
    BY DEF HandleInv
  <1> QED
    BY <1>1, Tables

\* A handle's runtime, and with it the table, stays.
LEMMA TableStays ==
    ASSUME UNCHANGED backend
    PROVE  H!Once' = H!Once /\ H!Method' = H!Method
  BY DEF H!Once, H!Method

\* Of a method's questions.
LEMMA QuestionsOf ==
    ASSUME H!TypeOK, NEW m \in DOMAIN H!Method, NEW i \in 1..Len(H!Method[m])
    PROVE  /\ H!Method[m][i] \in H!Questions(H!Once)
           /\ H!Method[m][i].do \in {"keep", "need", "recall"} => H!Method[m][i].what \in H!Once
  BY Tables DEF H!Questions, H!Ask, H!Running, H!Read

\* The pieces of the state a step touches, by type.
Calls == [at : {"idle", "asking", "fetching"}, left : Seq(H!Questions(H!Once)), pid : 0..MaxPid]

\* TypeOK says so of them.
LEMMA Shapes ==
    ASSUME H!TypeOK
    PROVE  /\ pid \in 0..MaxPid /\ last \in 0..MaxPid /\ 0 \in 0..MaxPid
           /\ hcall \in [Caller -> Calls]
           /\ \A c \in Caller : hcall[c] = [at |-> hcall[c].at, left |-> hcall[c].left, pid |-> hcall[c].pid]
  <1>1. last \in 0..MaxPid /\ pid \in {0, last} /\ MaxPid \in Nat
    BY Tables DEF H!TypeOK
  <1>2. hcall \in [Caller -> Calls]
    BY DEF H!TypeOK, Calls
  <1>3. \A c \in Caller : hcall[c] = [at |-> hcall[c].at, left |-> hcall[c].left, pid |-> hcall[c].pid]
    BY <1>2 DEF Calls
  <1> QED
    BY <1>1, <1>2, <1>3

\* The next question of a call.
LEMMA NextQuestion ==
    ASSUME H!TypeOK, NEW c \in Caller, hcall[c].left # <<>>
    PROVE  /\ Head(hcall[c].left) = hcall[c].left[1]
           /\ Len(Tail(hcall[c].left)) = Len(hcall[c].left) - 1
           /\ \A i \in 1..(Len(hcall[c].left) - 1) : Tail(hcall[c].left)[i] = hcall[c].left[i + 1]
           /\ Tail(hcall[c].left) \in Seq(H!Questions(H!Once))
           /\ Head(hcall[c].left).do \in {"keep", "need", "recall"} => H!What(c) \in H!Once
  <1>1. hcall[c].left \in Seq(H!Questions(H!Once))
    BY DEF H!TypeOK
  <1>2. Head(hcall[c].left) \in H!Questions(H!Once)
    BY <1>1
  <1> QED
    BY <1>1, <1>2 DEF H!Questions, H!What, H!Ask, H!Running, H!Read

\* What is kept stays kept, so a call whose questions stay stays in order.
LEMMA ReachedStays ==
    ASSUME H!TypeOK, UNCHANGED backend,
           NEW d \in Caller, Somewhere(d), hcall'[d].left = hcall[d].left,
           \A k \in H!Once : kept[k].at = "done" => kept'[k].at = "done"
    PROVE  Somewhere(d)'
  <1>1. PICK m \in DOMAIN H!Method : \E n \in 0..Len(H!Method[m]) : Reached(d, m, n)
    BY DEF Somewhere
  <1>2. PICK n \in 0..Len(H!Method[m]) : Reached(d, m, n)
    BY <1>1
  <1>3. \A j \in 1..n : j \in 1..Len(H!Method[m])
    BY Tables
  <1>4. \A j \in 1..n : H!Method[m][j].do \in {"keep", "need"} => H!Method[m][j].what \in H!Once
    BY <1>3, QuestionsOf
  <1>5. Reached(d, m, n)'
    BY <1>2, <1>4, TableStays DEF Reached
  <1> QED
    BY <1>5, TableStays DEF Somewhere

\* The other calls, while one takes a step.
LEMMA OthersStay ==
    ASSUME H!TypeOK, UNCHANGED backend, InOrder, NEW c \in Caller,
           \A d \in Caller : d # c => hcall'[d] = hcall[d],
           \A k \in H!Once : kept[k].at = "done" => kept'[k].at = "done",
           InOrderAt(c)'
    PROVE  InOrder'
  <1> SUFFICES ASSUME NEW d \in Caller, d # c PROVE InOrderAt(d)'
    BY DEF InOrder
  <1>1. InOrderAt(d) /\ hcall'[d] = hcall[d]
    BY DEF InOrder
  <1>2. Somewhere(d) => Somewhere(d)'
    BY <1>1, ReachedStays
  <1> QED
    BY <1>1, <1>2 DEF InOrderAt

\* A record with another process in it.
LEMMA WithPid ==
    ASSUME NEW l, NEW p, NEW q
    PROVE  [[at |-> "asking", left |-> l, pid |-> q] EXCEPT !.pid = p]
             = [at |-> "asking", left |-> l, pid |-> p]
  OBVIOUS

\* A call that goes on to its next question, the last one's answer kept if
\* that was wanted, is in order.
LEMMA GoesOn ==
    ASSUME HandleInv, NEW c \in Caller, hcall[c].at = "asking", hcall[c].left # <<>>,
           NEW p \in 0..MaxPid, H!Go(c, [H!Asked(c) EXCEPT !.pid = p]), UNCHANGED <<H!World, kept, fetched>>,
           Head(hcall[c].left).do \in {"keep", "need"} => kept[H!What(c)].at = "done"
    PROVE  HandleInv'
  <1>0. UNCHANGED backend /\ H!Once' = H!Once /\ H!Method' = H!Method
    BY TableStays DEF H!World
  <1>1. hcall' = [hcall EXCEPT ![c] = [at |-> "asking", left |-> Tail(hcall[c].left), pid |-> p]]
    <2>1. H!Asked(c) = [at |-> "asking", left |-> Tail(hcall[c].left), pid |-> hcall[c].pid]
      BY Shapes DEF H!Asked, HandleInv
    <2>2. [H!Asked(c) EXCEPT !.pid = p] = [at |-> "asking", left |-> Tail(hcall[c].left), pid |-> p]
      BY <2>1, WithPid, SMTT(30)
    <2> QED
      BY <2>2 DEF H!Go
  <1>2. H!TypeOK'
    <2>1. [at |-> "asking", left |-> Tail(hcall[c].left), pid |-> p] \in Calls
      BY NextQuestion DEF Calls, HandleInv
    <2>2. hcall' \in [Caller -> Calls]
      BY <1>1, <2>1, Shapes DEF HandleInv
    <2> QED
      BY <1>0, <2>2 DEF H!Go, H!World, HandleInv, H!TypeOK, Calls
  <1>3. PICK m \in DOMAIN H!Method : \E n \in 0..Len(H!Method[m]) : Reached(c, m, n)
    BY DEF HandleInv, InOrder, InOrderAt, Somewhere
  <1>4. PICK n \in 0..Len(H!Method[m]) : Reached(c, m, n)
    BY <1>3
  <1>5. Len(hcall[c].left) \in Nat /\ Len(hcall[c].left) > 0
    <2>1. hcall[c].left \in Seq(H!Questions(H!Once))
      BY Shapes DEF Calls, HandleInv
    <2> QED
      BY <2>1
  <1>6. Len(H!Method[m]) \in Nat /\ n + 1 \in 0..Len(H!Method[m])
    BY <1>4, <1>5 DEF Reached
  <1>7. H!Method[m][n + 1] = Head(hcall[c].left)
    <2>1. hcall[c].left[1] = H!Method[m][1 + n]
      <3>1. 1 \in 1..Len(hcall[c].left)
        BY <1>5
      <3> QED
        BY <1>4, <3>1 DEF Reached
    <2>2. Head(hcall[c].left) = hcall[c].left[1]
      BY NextQuestion DEF HandleInv
    <2>3. 1 + n = n + 1
      OBVIOUS
    <2> QED
      BY <2>1, <2>2, <2>3
  <1>8. Reached(c, m, n + 1)'
    <2>1. hcall'[c].left = Tail(hcall[c].left)
      BY <1>1 DEF HandleInv, H!TypeOK
    <2>2. Len(hcall'[c].left) = Len(H!Method[m]) - (n + 1)
      BY <2>1, <1>4, <1>6, NextQuestion DEF Reached, HandleInv
    <2>3. \A i \in 1..Len(hcall'[c].left) : hcall'[c].left[i] = H!Method[m][i + (n + 1)]
      <3> SUFFICES ASSUME NEW i \in 1..Len(hcall'[c].left)
                   PROVE  hcall'[c].left[i] = H!Method[m][i + (n + 1)]
        OBVIOUS
      <3>1. i \in 1..(Len(hcall[c].left) - 1) /\ i + 1 \in 1..Len(hcall[c].left)
        BY <2>1, <1>5, NextQuestion DEF HandleInv
      <3>2. hcall'[c].left[i] = hcall[c].left[i + 1]
        BY <3>1, <2>1, NextQuestion DEF HandleInv
      <3>3. hcall[c].left[i + 1] = H!Method[m][(i + 1) + n]
        BY <3>1, <1>4 DEF Reached
      <3> QED
        BY <3>2, <3>3
    <2>4. \A j \in 1..(n + 1) : H!Method[m][j].do \in {"keep", "need"}
                                  => kept[H!Method[m][j].what].at = "done"
      <3> SUFFICES ASSUME NEW j \in 1..(n + 1), H!Method[m][j].do \in {"keep", "need"}
                   PROVE  kept[H!Method[m][j].what].at = "done"
        OBVIOUS
      <3>1. j \in 1..n \/ j = n + 1
        OBVIOUS
      <3>2. CASE j \in 1..n
        BY <3>2, <1>4 DEF Reached
      <3>3. CASE j = n + 1
        BY <3>3, <1>7 DEF H!What
      <3> QED
        BY <3>1, <3>2, <3>3
    <2> QED
      BY <1>0, <2>2, <2>3, <2>4 DEF Reached
  <1>9. InOrder'
    <2>1. \A d \in Caller : d # c => hcall'[d] = hcall[d]
      BY <1>1 DEF HandleInv, H!TypeOK
    <2>2. hcall'[c].at = "asking"
      BY <1>1 DEF HandleInv, H!TypeOK
    <2>3. InOrderAt(c)'
      BY <1>0, <2>2, <1>6, <1>8 DEF InOrderAt, Somewhere
    <2> QED
      BY <1>0, <2>1, <2>3, OthersStay DEF HandleInv
  <1> QED
    BY <1>0, <1>2, <1>9 DEF HandleInv, Counted

\* A call that begins, at the first question of its method.
LEMMA BeginKeeps ==
    ASSUME HandleInv, NEW c \in Caller, H!Begin(c)
    PROVE  HandleInv'
  <1>0. UNCHANGED backend /\ H!Once' = H!Once /\ H!Method' = H!Method
    BY TableStays DEF H!Begin, H!World
  <1>1. PICK m \in DOMAIN H!Method :
          hcall' = [hcall EXCEPT ![c] = [at |-> "asking", left |-> H!Method[m], pid |-> 0]]
    BY ZenonT(60) DEF H!Begin, H!Idle
  <1>2. H!Method[m] \in Seq(H!Questions(H!Once))
    BY MethodAsks
  <1>3. H!TypeOK'
    <2>1. [at |-> "asking", left |-> H!Method[m], pid |-> 0] \in Calls
      BY <1>2, Shapes DEF Calls, HandleInv
    <2>2. hcall' \in [Caller -> Calls]
      BY <1>1, <2>1, Shapes DEF HandleInv
    <2>3. {0, pid} \in SUBSET (0..MaxPid)
      BY Shapes DEF HandleInv
    <2> QED
      BY <1>0, <2>2, <2>3 DEF H!Begin, H!World, HandleInv, H!TypeOK, Calls
  <1>4. Reached(c, m, 0)'
    BY <1>0, <1>1, <1>2 DEF Reached, HandleInv, H!TypeOK
  <1>5. InOrder'
    <2>1. hcall'[c].at = "asking" /\ \A d \in Caller : d # c => hcall'[d] = hcall[d]
      BY <1>1 DEF HandleInv, H!TypeOK
    <2>2. 0 \in 0..Len(H!Method[m])
      BY <1>2
    <2>3. InOrderAt(c)'
      BY <1>0, <1>4, <2>1, <2>2 DEF InOrderAt, Somewhere
    <2> QED
      BY <1>0, <2>1, <2>3, OthersStay DEF HandleInv, H!Begin
  <1> QED
    BY <1>0, <1>3, <1>5 DEF HandleInv, Counted, H!Begin

\* A call that ends.
LEMMA EndKeeps ==
    ASSUME HandleInv, NEW c \in Caller, H!End(c), UNCHANGED <<H!World, kept, fetched>>
    PROVE  HandleInv'
  <1>0. UNCHANGED backend /\ H!Once' = H!Once /\ H!Method' = H!Method
    BY TableStays DEF H!World
  <1>1. H!TypeOK'
    <2>1. H!Idle \in Calls
      BY Shapes DEF Calls, H!Idle, HandleInv
    <2>2. hcall' \in [Caller -> Calls]
      BY <2>1, Shapes DEF H!End, HandleInv
    <2> QED
      BY <1>0, <2>2 DEF H!End, H!World, HandleInv, H!TypeOK, Calls
  <1>2. InOrder'
    <2>1. hcall'[c].at = "idle" /\ \A d \in Caller : d # c => hcall'[d] = hcall[d]
      BY DEF H!End, H!Idle, HandleInv, H!TypeOK
    <2>2. InOrderAt(c)'
      BY <2>1 DEF InOrderAt
    <2> QED
      BY <1>0, <2>1, <2>2, OthersStay DEF HandleInv
  <1> QED
    BY <1>0, <1>1, <1>2 DEF HandleInv, Counted

\* The first to come fetches, and what came is kept.
LEMMA FetchKeeps ==
    ASSUME HandleInv, NEW c \in Caller, H!Fetch(c) \/ H!Fetched(c)
    PROVE  HandleInv'
  <1>0. UNCHANGED backend /\ H!Once' = H!Once /\ H!Method' = H!Method
    BY TableStays DEF H!Fetch, H!Fetched, H!World
  <1>1. /\ hcall[c].left # <<>> /\ Head(hcall[c].left).do \in {"keep", "need"}
        /\ H!What(c) \in H!Once
    BY NextQuestion DEF H!Fetch, H!Fetched, H!Asking, HandleInv, InOrder, InOrderAt
  <1>2. pid \in 0..MaxPid
    BY Shapes DEF HandleInv
  <1>3. /\ hcall[c].at # "idle"
        /\ \/ hcall' = [hcall EXCEPT ![c].at = "fetching"]
           \/ hcall' = [hcall EXCEPT ![c].at = "asking"]
    BY DEF H!Fetch, H!Fetched, H!Asking
  <1>4. /\ hcall'[c].at \in {"fetching", "asking"} /\ hcall'[c].left = hcall[c].left
        /\ \A d \in Caller : d # c => hcall'[d] = hcall[d]
    BY <1>3, Shapes DEF Calls, HandleInv
  <1>5. InOrder'
    <2>1. \A k \in H!Once : kept[k].at = "done" => kept'[k].at = "done"
      <3>1. kept \in [H!Once -> [at : {"never", "fetching", "done"}, ok : BOOLEAN, pid : 0..MaxPid]]
        BY DEF HandleInv, H!TypeOK
      <3>2. CASE H!Fetch(c)
        BY <1>1, <3>1, <3>2 DEF H!Fetch
      <3>3. CASE H!Fetched(c)
        BY <1>1, <3>1, <3>3 DEF H!Fetched
      <3> QED
        BY <3>2, <3>3
    <2>2. Somewhere(c)
      BY <1>3 DEF InOrder, InOrderAt, HandleInv
    <2>3. InOrderAt(c)'
      BY <1>0, <1>1, <1>4, <2>1, <2>2, ReachedStays DEF InOrderAt, HandleInv
    <2> QED
      BY <1>0, <1>4, <2>1, <2>3, OthersStay DEF HandleInv
  <1>6. hcall' \in [Caller -> Calls]
    BY <1>3, Shapes DEF Calls, HandleInv
  <1>7. CASE H!Fetch(c)
    <2>1. H!TypeOK'
      <3>1. kept' \in [H!Once -> [at : {"never", "fetching", "done"}, ok : BOOLEAN, pid : 0..MaxPid]]
        BY <1>1, <1>7 DEF H!Fetch, HandleInv, H!TypeOK
      <3>2. fetched' \in [H!Once -> Nat]
        BY <1>1, <1>7 DEF H!Fetch, HandleInv, H!TypeOK
      <3> QED
        BY <1>0, <1>7, <1>6, <3>1, <3>2 DEF H!Fetch, HandleInv, H!TypeOK, H!World, Calls
    <2>2. Counted'
      BY <1>0, <1>1, <1>7 DEF H!Fetch, Counted, HandleInv, H!TypeOK
    <2> QED
      BY <1>5, <2>1, <2>2 DEF HandleInv
  <1>8. CASE H!Fetched(c)
    <2>1. H!TypeOK'
      <3>1. kept' \in [H!Once -> [at : {"never", "fetching", "done"}, ok : BOOLEAN, pid : 0..MaxPid]]
        <4>1. PICK ok \in BOOLEAN :
                kept' = [kept EXCEPT ![H!What(c)] = [at |-> "done", ok |-> ok,
                                 pid |-> IF ok /\ H!What(c) \in H!Recalled THEN pid ELSE 0]]
          BY <1>8 DEF H!Fetched
        <4>2. (IF ok /\ H!What(c) \in H!Recalled THEN pid ELSE 0) \in 0..MaxPid
          BY <1>2, Shapes DEF HandleInv
        <4> QED
          BY <1>1, <4>1, <4>2 DEF HandleInv, H!TypeOK
      <3> QED
        BY <1>0, <1>8, <1>6, <3>1 DEF H!Fetched, HandleInv, H!TypeOK, H!World, Calls
    <2>2. Counted'
      BY <1>0, <1>1, <1>8 DEF H!Fetched, Counted, HandleInv, H!TypeOK
    <2> QED
      BY <1>5, <2>1, <2>2 DEF HandleInv
  <1> QED
    BY <1>7, <1>8

\* The questions a call goes on from, or ends with.
LEMMA AskKeeps ==
    ASSUME HandleInv, NEW c \in Caller,
           H!Ensure(c) \/ H!RecallPid(c) \/ H!AskPid(c) \/ H!RequireRunning(c) \/ H!ReadProc(c) \/ H!Return(c)
    PROVE  HandleInv'
  <1>1. /\ last \in 0..MaxPid /\ hcall[c].pid \in 0..MaxPid /\ 0 \in 0..MaxPid
        /\ [H!Asked(c) EXCEPT !.pid = hcall[c].pid] = H!Asked(c)
    <2>1. hcall[c] \in Calls
      BY Shapes DEF HandleInv
    <2>3. [H!Asked(c) EXCEPT !.pid = hcall[c].pid] = H!Asked(c)
      BY <2>1 DEF H!Asked, Calls
    <2> QED
      BY <2>3, Shapes DEF Calls, HandleInv
  <1>2. CASE H!Ensure(c)
    BY <1>1, <1>2, GoesOn, EndKeeps DEF H!Ensure, H!Asking
  <1>3. CASE H!RecallPid(c)
    <2>1. kept[H!What(c)].pid \in 0..MaxPid
      BY <1>3, NextQuestion DEF H!RecallPid, H!Asking, HandleInv, H!TypeOK
    <2> QED
      BY <2>1, <1>3, GoesOn DEF H!RecallPid, H!Asking
  <1>4. CASE H!AskPid(c)
    BY <1>1, <1>4, GoesOn DEF H!AskPid, H!Asking
  <1>5. CASE H!RequireRunning(c) \/ H!ReadProc(c)
    BY <1>1, <1>5, GoesOn, EndKeeps DEF H!RequireRunning, H!ReadProc, H!Asking
  <1>6. CASE H!Return(c)
    BY <1>6, EndKeeps DEF H!Return
  <1> QED
    BY <1>2, <1>3, <1>4, <1>5, <1>6

\* The inductive invariant behind the results below.
THEOREM HandleInductive == H!Spec => []HandleInv
  <1>1. H!Init => HandleInv
    <2> SUFFICES ASSUME H!Init PROVE HandleInv
      OBVIOUS
    <2> MaxPid \in Nat \ {0}
      BY HandleAssumption DEF H!MaxPidAssumption
    <2>1. hcall \in [Caller -> [at : {"idle"}, left : Seq(H!Questions(H!Once)), pid : 0..MaxPid]]
      BY DEF H!Init, H!Idle
    <2>2. kept \in [H!Once -> {H!Known, H!Never}]
      BY DEF H!Init
    <2>3. H!TypeOK
      BY <2>1, <2>2 DEF H!Init, H!TypeOK, H!Known, H!Never
    <2>4. InOrder
      BY <2>1 DEF InOrder, InOrderAt
    <2>5. Counted
      BY DEF H!Init, Counted
    <2> QED
      BY <2>3, <2>4, <2>5 DEF HandleInv
  <1>2. HandleInv /\ [H!Next]_(H!vars) => HandleInv'
    <2> SUFFICES ASSUME HandleInv, [H!Next]_(H!vars) PROVE HandleInv'
      OBVIOUS
    <2>1. CASE UNCHANGED H!vars
      <3>0. H!Once' = H!Once /\ H!Method' = H!Method
        BY <2>1, TableStays DEF H!vars
      <3>1. H!TypeOK' /\ Counted'
        BY <2>1, <3>0 DEF HandleInv, H!TypeOK, Counted, H!vars
      <3>2. InOrder'
        BY <2>1, <3>0 DEF HandleInv, InOrder, InOrderAt, Somewhere, Reached, H!vars
      <3> QED
        BY <3>1, <3>2 DEF HandleInv
    <2>2. ASSUME H!Exit \/ H!Start, last' \in 0..MaxPid,
                 seen' \in [Caller -> SUBSET (0..MaxPid)]
          PROVE  HandleInv'
      <3>1. UNCHANGED <<backend, kept, hcall, fetched>> /\ pid' \in {0, last'}
        BY <2>2 DEF H!Exit, H!Start
      <3>2. H!Once' = H!Once /\ H!Method' = H!Method
        BY <3>1, TableStays
      <3>3. H!TypeOK' /\ Counted'
        BY <2>2, <3>1, <3>2 DEF HandleInv, H!TypeOK, Counted
      <3>4. InOrder'
        BY <3>1, <3>2 DEF HandleInv, InOrder, InOrderAt, Somewhere, Reached
      <3> QED
        BY <3>3, <3>4 DEF HandleInv
    <2>3. CASE H!Exit
      BY <2>2, <2>3, Shapes DEF H!Exit, HandleInv, H!TypeOK
    <2>4. CASE H!Start
      <3>1. last + 1 \in 0..MaxPid /\ seen \in [Caller -> SUBSET (0..MaxPid)]
        BY <2>4, Shapes, Tables DEF H!Start, HandleInv, H!TypeOK
      <3>2. seen' \in [Caller -> SUBSET (0..MaxPid)]
        BY <2>4, <3>1 DEF H!Start
      <3> QED
        BY <2>2, <2>4, <3>1, <3>2 DEF H!Start
    <2> QED
      BY <2>1, <2>3, <2>4, BeginKeeps, FetchKeeps, AskKeeps DEF H!Next, H!Step
  <1> QED
    BY <1>1, <1>2, PTL DEF H!Spec

\* However many calls overlap, what is kept is fetched once, and no call goes
\* by the process in it before it has come (the sync.Once of the handles in
\* pkg/runtime/{containerd,crio,docker}/container.go).
THEOREM KeepsOneFetch == H!Spec => []FetchedOnce
  <1>1. HandleInv => H!FetchedOnce
    <2> SUFFICES ASSUME HandleInv, NEW c \in Caller, H!Asking(c, {"recall"})
                 PROVE  kept[H!What(c)].at = "done"
      BY DEF H!FetchedOnce, HandleInv, Counted
    <2>1. PICK m \in DOMAIN H!Method : \E n \in 0..Len(H!Method[m]) : Reached(c, m, n)
      BY DEF H!Asking, HandleInv, InOrder, InOrderAt, Somewhere
    <2>2. PICK n \in 0..Len(H!Method[m]) : Reached(c, m, n)
      BY <2>1
    <2>3. hcall[c].left \in Seq(H!Questions(H!Once)) /\ hcall[c].left # <<>>
      BY Shapes DEF H!Asking, Calls, HandleInv
    <2>4. 1 \in 1..Len(hcall[c].left) /\ Head(hcall[c].left) = hcall[c].left[1]
      BY <2>3
    <2>5. Head(hcall[c].left) = H!Method[m][n + 1] /\ n + 1 \in 1..Len(H!Method[m])
      <3>1. hcall[c].left[1] = H!Method[m][1 + n]
        BY <2>2, <2>4 DEF Reached
      <3>2. Len(H!Method[m]) \in Nat
        BY Tables
      <3>3. n + 1 \in 1..Len(H!Method[m])
        BY <2>2, <2>3, <3>2 DEF Reached
      <3>4. 1 + n = n + 1
        OBVIOUS
      <3> QED
        BY <2>4, <3>1, <3>3, <3>4
    <2>6. PICK j \in 1..((n + 1) - 1) : /\ H!Method[m][j].do \in {"keep", "need"}
                                       /\ H!Method[m][j].what = H!Method[m][n + 1].what
      <3>1. H!Method[m][n + 1].do = "recall"
        BY <2>5 DEF H!Asking
      <3> QED
        BY <2>5, <3>1, MethodKeeps
    <2>7. j \in 1..n
      BY <2>2, <2>5, <2>6
    <2>8. kept[H!Method[m][j].what].at = "done"
      BY <2>2, <2>6, <2>7 DEF Reached
    <2> QED
      BY <2>5, <2>6, <2>8 DEF H!What
  <1> QED
    BY <1>1, HandleInductive, PTL DEF FetchedOnce

-----------------------------------------------------------------------------
(***************************************************************************)
(* Handles that do not keep the process.                                   *)
(***************************************************************************)

\* A call has seen the latest process, and goes by one it has seen, or none.
LatestInv ==
    \A c \in Caller :
        /\ hcall[c].at = "idle" => seen[c] = {} /\ hcall[c].pid = 0
        /\ hcall[c].at # "idle" => {0, last} \subseteq seen[c]
        /\ hcall[c].at # "idle" /\ backend \notin KeepsPid => hcall[c].pid \in seen[c]

\* What CurrentHandle is shown of the calls.
Answers == [c \in Caller |-> IF backend \in KeepsPid THEN 0 ELSE hcall[c].pid]

\* Only a handle that keeps the process recalls it.
LEMMA KeeperRecalls ==
    ASSUME HandleInv, NEW c \in Caller, H!Asking(c, {"recall"})
    PROVE  backend \in KeepsPid
  <1>1. PICK m \in DOMAIN H!Method : \E n \in 0..Len(H!Method[m]) : Reached(c, m, n)
    BY DEF H!Asking, HandleInv, InOrder, InOrderAt, Somewhere
  <1>2. PICK n \in 0..Len(H!Method[m]) : Reached(c, m, n)
    BY <1>1
  <1>3. hcall[c].left \in Seq(H!Questions(H!Once)) /\ hcall[c].left # <<>>
    BY Shapes DEF H!Asking, Calls, HandleInv
  <1>4. 1 \in 1..Len(hcall[c].left) /\ Head(hcall[c].left) = hcall[c].left[1]
    BY <1>3
  <1>5. hcall[c].left[1] = H!Method[m][1 + n] /\ Len(H!Method[m]) \in Nat
    BY <1>2, <1>4, Tables DEF Reached, HandleInv
  <1>6. 1 + n \in 1..Len(H!Method[m])
    BY <1>2, <1>4, <1>5 DEF Reached
  <1> QED
    BY <1>4, <1>5, <1>6, Tables DEF HandleInv, H!Asking

\* A step that ends call c returns.
LEMMA EndReturns ==
    ASSUME HandleInv, LatestInv, NEW c \in Caller, H!End(c), UNCHANGED H!World
    PROVE  LatestInv' /\ H!Abstract!Return(c)
  <1>1. /\ hcall'[c].at = "idle" /\ hcall'[c].pid = 0
        /\ seen' = [seen EXCEPT ![c] = {}] /\ seen \in [Caller -> SUBSET (0..MaxPid)]
        /\ \A d \in Caller : d # c => hcall'[d] = hcall[d]
    BY Shapes DEF H!End, H!Idle, HandleInv, H!TypeOK
  <1>2. LatestInv'
    BY <1>1 DEF LatestInv, H!World
  <1>3. Answers' = [Answers EXCEPT ![c] = 0]
    BY <1>1 DEF Answers, H!World
  <1> QED
    BY <1>1, <1>2, <1>3 DEF H!Abstract!Return, H!World, Answers

\* One that goes on answers, if with what it had.
LEMMA GoAnswers ==
    ASSUME HandleInv, LatestInv, NEW c \in Caller, NEW p,
           backend \notin KeepsPid => p \in {0, last, hcall[c].pid},
           hcall[c].at # "idle", hcall'[c].at # "idle", hcall'[c].pid = p,
           \A d \in Caller : d # c => hcall'[d] = hcall[d], UNCHANGED <<H!World, seen>>
    PROVE  LatestInv' /\ H!Abstract!Answer(c)
  <1> DEFINE a == IF backend \in KeepsPid THEN 0 ELSE p
  <1>1. a \in seen[c] /\ UNCHANGED backend
    BY DEF LatestInv, H!World
  <1>2. LatestInv'
    BY <1>1 DEF LatestInv, H!World
  <1>3. Answers' = [Answers EXCEPT ![c] = a]
    BY <1>1 DEF Answers
  <1> QED
    BY <1>1, <1>2, <1>3 DEF H!Abstract!Answer, H!World, Answers

\* The steps of a call.
LEMMA StepAnswers ==
    ASSUME HandleInv, LatestInv, NEW c \in Caller, H!Step(c)
    PROVE  LatestInv' /\ (H!Abstract!Answer(c) \/ H!Abstract!Return(c))
  <1>1. hcall[c] \in Calls /\ hcall \in [Caller -> Calls]
    BY Shapes DEF HandleInv
  <1>2. H!Asked(c).at = hcall[c].at /\ H!Asked(c).pid = hcall[c].pid
    BY <1>1 DEF H!Asked, Calls
  <1>3. CASE H!Fetch(c) \/ H!Fetched(c)
    <2>1. /\ hcall[c].at # "idle" /\ UNCHANGED <<H!World, seen>>
          /\ \/ hcall' = [hcall EXCEPT ![c].at = "fetching"]
             \/ hcall' = [hcall EXCEPT ![c].at = "asking"]
      BY <1>3 DEF H!Fetch, H!Fetched, H!Asking
    <2>2. /\ hcall'[c].at # "idle" /\ hcall'[c].pid = hcall[c].pid
          /\ \A d \in Caller : d # c => hcall'[d] = hcall[d]
      BY <1>1, <2>1 DEF Calls
    <2> QED
      BY <2>1, <2>2, GoAnswers
  <1>4. CASE H!Go(c, H!Asked(c)) /\ hcall[c].at = "asking" /\ UNCHANGED H!World
    <2>1. /\ hcall'[c] = H!Asked(c) /\ UNCHANGED <<H!World, seen>>
          /\ \A d \in Caller : d # c => hcall'[d] = hcall[d]
      BY <1>1, <1>4 DEF H!Go
    <2> QED
      BY <1>2, <1>4, <2>1, GoAnswers
  <1>5. CASE H!End(c) /\ UNCHANGED H!World
    BY <1>5, EndReturns
  <1>6. CASE H!AskPid(c)
    <2>1. PICK p \in {0, last} : H!Go(c, [H!Asked(c) EXCEPT !.pid = p])
      BY <1>6 DEF H!AskPid
    <2>2. /\ [H!Asked(c) EXCEPT !.pid = p].at = hcall[c].at
          /\ [H!Asked(c) EXCEPT !.pid = p].pid = p
      BY <1>1 DEF H!Asked, Calls
    <2>3. /\ hcall'[c].at = hcall[c].at /\ hcall'[c].pid = p /\ UNCHANGED seen
          /\ \A d \in Caller : d # c => hcall'[d] = hcall[d]
      BY <1>1, <2>1, <2>2 DEF H!Go
    <2>4. hcall[c].at = "asking" /\ UNCHANGED H!World
      BY <1>6 DEF H!AskPid, H!Asking
    <2> QED
      BY <2>3, <2>4, GoAnswers
  <1>7. CASE H!RecallPid(c)
    <2>1. backend \in KeepsPid /\ UNCHANGED <<H!World, seen>>
      BY <1>7, KeeperRecalls DEF H!RecallPid, H!Go
    <2>2. hcall' = [hcall EXCEPT ![c] = [H!Asked(c) EXCEPT !.pid = kept[H!What(c)].pid]]
      BY <1>7 DEF H!RecallPid, H!Go
    <2>3. /\ hcall[c].at = "asking" /\ hcall'[c].at = "asking"
          /\ hcall'[c].pid = kept[H!What(c)].pid
          /\ \A d \in Caller : d # c => hcall'[d] = hcall[d]
      BY <1>1, <1>7, <2>2 DEF H!RecallPid, H!Asking, H!Asked, Calls
    <2> QED
      BY <2>1, <2>3, GoAnswers
  <1>8. CASE H!Ensure(c) \/ H!RequireRunning(c) \/ H!ReadProc(c) \/ H!Return(c)
    BY <1>4, <1>5, <1>8 DEF H!Ensure, H!RequireRunning, H!ReadProc, H!Return, H!Asking
  <1> QED
    BY <1>3, <1>6, <1>7, <1>8 DEF H!Step

\* A call that begins.
LEMMA BeginAsks ==
    ASSUME HandleInv, LatestInv, NEW c \in Caller, H!Begin(c)
    PROVE  LatestInv' /\ H!Abstract!Ask(c)
  <1>1. /\ hcall[c].at = "idle" /\ hcall'[c].at = "asking" /\ hcall'[c].pid = 0
        /\ \A d \in Caller : d # c => hcall'[d] = hcall[d]
    BY Shapes DEF H!Begin, H!Idle, HandleInv
  <1>2. /\ seen' = [seen EXCEPT ![c] = {0, last}] /\ UNCHANGED H!World
        /\ seen \in [Caller -> SUBSET (0..MaxPid)]
    BY DEF H!Begin, HandleInv, H!TypeOK
  <1>3. LatestInv'
    BY <1>1, <1>2 DEF LatestInv, H!World
  <1>4. Answers' = Answers /\ seen[c] = {}
    BY <1>1, <1>2 DEF Answers, LatestInv, H!World
  <1> QED
    BY <1>2, <1>3, <1>4 DEF H!Abstract!Ask, H!World, Answers

\* What becomes of the container: that it exits is nothing to a call.
LEMMA ContainerStarts ==
    ASSUME HandleInv, LatestInv, H!Exit \/ H!Start
    PROVE  LatestInv' /\ (H!Abstract!Start \/ UNCHANGED H!Abstract!vars)
  <1>1. UNCHANGED <<backend, hcall>> /\ Answers' = Answers
    BY DEF H!Exit, H!Start, Answers
  <1>2. CASE H!Exit
    BY <1>1, <1>2 DEF H!Exit, LatestInv, H!Abstract!vars, Answers
  <1>3. CASE H!Start
    <2>1. \A c \in Caller : seen'[c] = IF seen[c] = {} THEN {} ELSE seen[c] \cup {last'}
      BY <1>3 DEF H!Start
    <2>2. LatestInv'
      BY <1>1, <2>1 DEF LatestInv
    <2> QED
      BY <1>1, <1>3, <2>2 DEF H!Start, H!Abstract!Start, Answers
  <1> QED
    BY <1>2, <1>3

\* A handle whose methods ask for the process anew, as those of containerd and
\* CRI-O do, implements CurrentHandle: the process a call goes by is of the
\* latest start of the container as of some moment of the call, never of an
\* earlier one, although the daemons name processes that have exited, too.
THEOREM ReadsAnew == H!Spec => ImplementsCurrentHandle
  <1>1. H!Init => LatestInv /\ H!Abstract!Init
    <2> SUFFICES ASSUME H!Init PROVE LatestInv /\ H!Abstract!Init
      OBVIOUS
    <2>1. \A c \in Caller : hcall[c].at = "idle" /\ hcall[c].pid = 0
      BY DEF H!Init, H!Idle
    <2>2. LatestInv
      BY <2>1 DEF H!Init, LatestInv
    <2>3. Answers = [c \in Caller |-> 0]
      BY <2>1 DEF Answers
    <2> QED
      BY <2>2, <2>3 DEF H!Init, H!Abstract!Init, Answers
  <1>2. HandleInv /\ LatestInv /\ [H!Next]_(H!vars) => LatestInv' /\ [H!Abstract!Next]_(H!Abstract!vars)
    <2> SUFFICES ASSUME HandleInv, LatestInv, [H!Next]_(H!vars)
                 PROVE  LatestInv' /\ [H!Abstract!Next]_(H!Abstract!vars)
      OBVIOUS
    <2>1. CASE UNCHANGED H!vars
      BY <2>1 DEF LatestInv, H!vars, H!Abstract!vars
    <2> QED
      BY <2>1, ContainerStarts, BeginAsks, StepAnswers DEF H!Next, H!Abstract!Next
  <1> QED
    BY <1>1, <1>2, HandleInductive, PTL DEF H!Spec, ImplementsCurrentHandle,
                                            H!ImplementsCurrentHandle, H!Abstract!Spec

-----------------------------------------------------------------------------
(***************************************************************************)
(* The parts together.                                                     *)
(***************************************************************************)

\* A behaviour of the runtimes' parts side by side is one of each part, so what
\* is proved of a part holds of AllSpec, which the run checks.
THEOREM PartsOfAll == AllSpec => Spec /\ H!Spec /\ SU!Spec /\ TV!Spec
  <1>1. AllInit => Init /\ H!Init /\ SU!Init /\ TV!Init
    BY DEF AllInit
  <1>2. [AllNext]_allVars => [Next]_vars
    BY DEF AllNext, allVars, vars
  <1>3. Next => UNCHANGED backend
    BY DEF Next, Connect, Close, ConnectContainerd, OpenStore, ConnectCRI, ProbeDocker, InitDelegate,
           CloseSecond, ForgetSecond, CloseClient, Conn, Begin, Use, Rest
  <1>4. [AllNext]_allVars => [H!Next]_(H!vars)
    BY <1>3 DEF AllNext, allVars, vars, hVars, H!vars
  <1>5. [AllNext]_allVars => [SU!Next]_(SU!vars)
    BY DEF AllNext, allVars, sVars, SU!vars
  <1>6. [AllNext]_allVars => [TV!Next]_(TV!vars)
    BY DEF AllNext, allVars, vVars, TV!vars
  <1> QED
    BY <1>1, <1>2, <1>4, <1>5, <1>6, PTL DEF AllSpec, Spec, H!Spec, SU!Spec, TV!Spec

\* A behaviour of the runtimes beside the header of the container page is one of
\* each, so what is proved of the runtimes here, and of the header in
\* ContainerDetailProofs, holds of PageSpec, which the run checks.
THEOREM PartsWithPage == PageSpec => AllSpec /\ CD!Spec
  <1>1. PageInit => AllInit /\ CD!Init
    BY DEF PageInit
  <1>2. [PageNext]_<<allVars, headerVars>> => [AllNext]_allVars
    BY DEF PageNext
  <1>3. [PageNext]_<<allVars, headerVars>> => [CD!Next]_(CD!vars)
    BY DEF PageNext, headerVars, CD!vars, CD!fields, CD!uiVars, CD!loadVars
  <1> QED BY <1>1, <1>2, <1>3, PTL DEF PageSpec, AllSpec, CD!Spec

\* On the page loaded from a handle, too, an answer that passes the generation
\* check is at most one container behind.
THEOREM PageAcceptedBound == PageSpec => []AcceptedAtMostOneBehind
  BY PartsWithPage, CD!AcceptedBound, ContainerAssumption, OpensAssumption, PTL
  DEF AcceptedAtMostOneBehind

\* And when all is quiet its header is of the info held, or an error.
THEOREM PageHeaderDrawn == PageSpec => []HeaderReflectsInfo
  BY PartsWithPage, CD!HeaderDrawn, ContainerAssumption, OpensAssumption, PTL
  DEF HeaderReflectsInfo
=============================================================================
