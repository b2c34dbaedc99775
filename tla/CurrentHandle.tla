--------------------------- MODULE CurrentHandle ---------------------------
(***************************************************************************)
(* What pkg/runtime/interface.go promises of a container handle: "cache    *)
(* immutable or rarely-changing metadata while keeping live process- and   *)
(* runtime-state retrieval explicit".  A call that needs the container's   *)
(* process gets the one of its latest start, as of some moment of the      *)
(* call, or none; never one of an earlier start.  It need not be alive:    *)
(* the daemons name the last process of a container that has exited, too.  *)
(***************************************************************************)
EXTENDS Naturals

CONSTANTS
    Caller,
    MaxPid              \* bound: the container is started this often

\* What the parameter is assumed to be.
MaxPidAssumption == MaxPid \in Nat

VARIABLES
    last,               \* the container's latest init process: 1, 2, ...
    seen,               \* which it was since each call began, with 0; {} without a call
    answer              \* the process a call goes by

vars == <<last, seen, answer>>

TypeOK ==
    /\ last \in 0..MaxPid
    /\ seen \in [Caller -> SUBSET (0..MaxPid)]
    /\ answer \in [Caller -> 0..MaxPid]

Init == last = 1 /\ seen = [c \in Caller |-> {}] /\ answer = [c \in Caller |-> 0]

Start ==
    /\ last < MaxPid /\ last' = last + 1
    /\ seen' = [c \in Caller |-> IF seen[c] = {} THEN {} ELSE seen[c] \cup {last + 1}]
    /\ UNCHANGED answer

\* A call begins; it has no process yet.
Ask(c) ==
    /\ seen[c] = {} /\ seen' = [seen EXCEPT ![c] = {0, last}]
    /\ UNCHANGED <<last, answer>>

Answer(c) ==
    /\ \E p \in seen[c] : answer' = [answer EXCEPT ![c] = p]
    /\ UNCHANGED <<last, seen>>

Return(c) ==
    /\ seen' = [seen EXCEPT ![c] = {}] /\ answer' = [answer EXCEPT ![c] = 0]
    /\ UNCHANGED last

Next == Start \/ \E c \in Caller : Ask(c) \/ Answer(c) \/ Return(c)

Spec == Init /\ [][Next]_vars
=============================================================================
