------------------------------- MODULE Handle -------------------------------
(***************************************************************************)
(* A handle to one container, as the three runtimes implement it           *)
(* (pkg/runtime/{containerd,crio,docker}/container.go).  Refreshes call    *)
(* its methods from several goroutines.  A method asks the daemon and      *)
(* /proc a few things in a fixed order; some of them are fetched by the    *)
(* first call that needs them and kept behind a sync.Once, an error too.   *)
(*                                                                         *)
(* What the methods ask is the table Asks of this module's parameters (see *)
(* DockerHandle, ContainerdHandle, CrioHandle); what becomes of the        *)
(* answers is abstracted to the process the call goes by.                  *)
(***************************************************************************)
EXTENDS Questions, Naturals, Sequences

CONSTANTS
    Caller,             \* bound: calls under way at once
    Kept,               \* runtime -> what its handles keep behind a Once
    Given,              \* runtime -> what of it a handle may have been looked up by
    Asks,               \* runtime -> method -> what it asks, in order
    KeepsPid,           \* the runtimes whose handles keep the process, too
    MaxPid              \* bound: the container is started this often

VARIABLES
    backend,            \* the runtime; a handle stays with it
    pid, last,          \* the container's process, or 0; the last it had
    kept,               \* each Once, and the process it saw
    call,               \* each call: what is left to ask, the process it goes by
    fetched,            \* history: how often each thing was fetched
    seen                \* history: the latest process as of each moment of a
                        \* call, and 0

vars == <<backend, pid, last, kept, call, fetched, seen>>

\* What the parameters are assumed to be: every method's list has questions
\* only, and takes the process from what the method has kept before, if at all.
AsksOf(b) ==
    /\ \A m \in DOMAIN Asks[b] : Asks[b][m] \in Seq(Questions(Kept[b]))
    /\ \A m \in DOMAIN Asks[b] : \A i \in 1..Len(Asks[b][m]) :
         Asks[b][m][i].do = "recall" =>
            /\ b \in KeepsPid
            /\ \E j \in 1..(i - 1) : /\ Asks[b][m][j].do \in {"keep", "need"}
                                     /\ Asks[b][m][j].what = Asks[b][m][i].what
AsksAssumption   == \A b \in DOMAIN Asks : AsksOf(b)
GivenAssumption  == \A b \in DOMAIN Asks : Given[b] \subseteq Kept[b]
MaxPidAssumption == MaxPid \in Nat \ {0}

\* Those of the runtime at hand.
Once   == Kept[backend]
Method == Asks[backend]

Idle  == [at |-> "idle", left |-> <<>>, pid |-> 0]
Never == [at |-> "never", ok |-> FALSE, pid |-> 0]

Known == [at |-> "done", ok |-> TRUE, pid |-> 1]

TypeOK ==
    /\ backend \in DOMAIN Asks
    /\ last \in 0..MaxPid /\ pid \in {0, last}
    /\ kept \in [Once -> [at : {"never", "fetching", "done"}, ok : BOOLEAN, pid : 0..MaxPid]]
    /\ call \in [Caller -> [at : {"idle", "asking", "fetching"}, left : Seq(Questions(Once)),
                            pid : 0..MaxPid]]
    /\ fetched \in [Once -> Nat]
    /\ seen \in [Caller -> SUBSET (0..MaxPid)]

Init ==
    /\ backend \in DOMAIN Asks
    /\ pid = 1 /\ last = 1
    /\ \E given \in SUBSET Given[backend] :
          kept = [k \in Once |-> IF k \in given THEN Known ELSE Never]
    /\ call = [c \in Caller |-> Idle]
    /\ fetched = [k \in Once |-> 0] /\ seen = [c \in Caller |-> {}]

-----------------------------------------------------------------------------
(***************************************************************************)
(* The container: it may exit, and be started again under its ID.          *)
(***************************************************************************)

Exit == pid # 0 /\ pid' = 0 /\ UNCHANGED <<backend, last, kept, call, fetched, seen>>

Start ==
    /\ pid = 0 /\ last < MaxPid /\ last' = last + 1 /\ pid' = last + 1
    /\ seen' = [c \in Caller |-> IF seen[c] = {} THEN {} ELSE seen[c] \cup {last + 1}]
    /\ UNCHANGED <<backend, kept, call, fetched>>

-----------------------------------------------------------------------------
(***************************************************************************)
(* The calls.                                                              *)
(***************************************************************************)

World == <<backend, pid, last>>

Begin(c) ==
    /\ call[c].at = "idle"
    /\ \E m \in DOMAIN Method :
          call' = [call EXCEPT ![c] = [Idle EXCEPT !.at = "asking", !.left = Method[m]]]
    /\ seen' = [seen EXCEPT ![c] = {0, last}]
    /\ UNCHANGED <<World, kept, fetched>>

\* The next question of call c is of these kinds.
Asking(c, kinds) ==
    call[c].at = "asking" /\ call[c].left # <<>> /\ Head(call[c].left).do \in kinds

What(c) == Head(call[c].left).what
Asked(c) == [call[c] EXCEPT !.left = Tail(@)]

Go(c, r) == call' = [call EXCEPT ![c] = r] /\ UNCHANGED seen
End(c) == call' = [call EXCEPT ![c] = Idle] /\ seen' = [seen EXCEPT ![c] = {}]

\* A mutant: a field that is still nil is fetched again.
FetchUnlessSet(c) ==
    /\ Asking(c, {"keep", "need"}) /\ kept[What(c)].at # "done"
    /\ kept' = [kept EXCEPT ![What(c)].at = "fetching"]
    /\ fetched' = [fetched EXCEPT ![What(c)] = @ + 1]
    /\ call' = [call EXCEPT ![c].at = "fetching"]
    /\ UNCHANGED <<World, seen>>

\* The function passed to Once.Do is entered by the first to come.
Fetch(c) ==
    /\ Asking(c, {"keep", "need"}) /\ kept[What(c)].at = "never"
    /\ kept' = [kept EXCEPT ![What(c)].at = "fetching"]
    /\ fetched' = [fetched EXCEPT ![What(c)] = @ + 1]
    /\ call' = [call EXCEPT ![c].at = "fetching"]
    /\ UNCHANGED <<World, seen>>

\* A mutant: an error leaves the others waiting.
FetchedOrStuck(c) ==
    /\ call[c].at = "fetching"
    /\ \/ kept' = [kept EXCEPT ![What(c)] = [at |-> "done", ok |-> TRUE, pid |-> 0]]
       \/ UNCHANGED kept
    /\ call' = [call EXCEPT ![c].at = "asking"]
    /\ UNCHANGED <<World, fetched, seen>>

\* What is kept with the process in it.
Recalled == {k \in Once : \E m \in DOMAIN Method : \E i \in DOMAIN Method[m] : Method[m][i] = Recall(k)}

\* What the daemon says, an error too, is kept.
Fetched(c) ==
    /\ call[c].at = "fetching"
    /\ \E ok \in BOOLEAN :
          kept' = [kept EXCEPT ![What(c)] = [at |-> "done", ok |-> ok,
                                             pid |-> IF ok /\ What(c) \in Recalled THEN pid ELSE 0]]
    /\ call' = [call EXCEPT ![c].at = "asking"]
    /\ UNCHANGED <<World, fetched, seen>>

\* Whoever comes while it is fetched waits; then the method goes on or returns.
Ensure(c) ==
    /\ Asking(c, {"keep", "need"}) /\ kept[What(c)].at = "done"
    /\ IF Head(call[c].left).do = "need" /\ ~kept[What(c)].ok THEN End(c) ELSE Go(c, Asked(c))
    /\ UNCHANGED <<World, kept, fetched>>

RecallPid(c) ==
    /\ Asking(c, {"recall"})
    /\ Go(c, [Asked(c) EXCEPT !.pid = kept[What(c)].pid])
    /\ UNCHANGED <<World, kept, fetched>>

\* A mutant of AskPid: the process there was when the handle was made.
AskGivenPid(c) ==
    /\ Asking(c, {"ask"})
    /\ \E p \in {0, 1} : Go(c, [Asked(c) EXCEPT !.pid = p])
    /\ UNCHANGED <<World, kept, fetched>>

\* The daemon's answer, or none.  A container that has exited still has a task,
\* and a status, until it is deleted: they name the last process it had.
AskPid(c) ==
    /\ Asking(c, {"ask"})
    /\ \E p \in {0, last} : Go(c, [Asked(c) EXCEPT !.pid = p])
    /\ UNCHANGED <<World, kept, fetched>>

RequireRunning(c) ==
    /\ Asking(c, {"running"})
    /\ IF call[c].pid = 0 THEN End(c) ELSE Go(c, Asked(c))
    /\ UNCHANGED <<World, kept, fetched>>

\* By now the process may be gone, and its number another's.
ReadProc(c) ==
    /\ Asking(c, {"read"}) /\ Go(c, Asked(c))
    /\ UNCHANGED <<World, kept, fetched>>

Return(c) ==
    /\ call[c].at = "asking" /\ call[c].left = <<>> /\ End(c)
    /\ UNCHANGED <<World, kept, fetched>>

Step(c) ==
    \/ Fetch(c) \/ Fetched(c) \/ Ensure(c) \/ RecallPid(c) \/ AskPid(c)
    \/ RequireRunning(c) \/ ReadProc(c) \/ Return(c)

Next == Exit \/ Start \/ \E c \in Caller : Begin(c) \/ Step(c)

\* A goroutine that can run does, and the daemon answers, if with an error.
Fairness == \A c \in Caller : WF_vars(Step(c))

Spec == Init /\ [][Next]_vars /\ Fairness

-----------------------------------------------------------------------------
(***************************************************************************)
(* Properties.                                                             *)
(***************************************************************************)

\* "repeated calls [...] never re-fetch data that cannot change for the
\* lifetime of a container": however calls overlap, everything kept is
\* fetched once, and no call goes by it before it has come.
FetchedOnce ==
    /\ \A k \in Once : fetched[k] <= 1
    /\ \A c \in Caller : Asking(c, {"recall"}) => kept[What(c)].at = "done"

\* Calls that wait for another one's fetch return all the same.
CallsReturn == \A c \in Caller : call[c].at # "idle" ~> call[c].at = "idle"

\* "keeping live process- and runtime-state retrieval explicit": the process a
\* call goes by, and whose /proc it reads, is of the container's latest start
\* as of some moment of the call, alive or not.  Docker's handle keeps it with
\* the rest of the inspection: after another start it goes by the old one.
ReadsLatestProcess == \A c \in Caller : call[c].at # "idle" => call[c].pid \in seen[c]

\* The same of the handles that keep no process, as an implementation of
\* CurrentHandle.
Abstract == INSTANCE CurrentHandle WITH
              answer <- [c \in Caller |-> IF backend \in KeepsPid THEN 0 ELSE call[c].pid]
ImplementsCurrentHandle == Abstract!Spec
=============================================================================
