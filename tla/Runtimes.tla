------------------------------ MODULE Runtimes ------------------------------
(***************************************************************************)
(* The parts of the three runtimes side by side: the connections, a        *)
(* container handle of one of them, CRI-O's supplement, and containerd's   *)
(* temporary view.  They share no variable but `backend`, which never      *)
(* changes, so a behaviour here is one of one part, the others resting.    *)
(***************************************************************************)
EXTENDS Connection

CONSTANTS
    Viewer,             \* the calls for one image
    MaxPid              \* bound: a container is started this often

VARIABLES pid, last, kept, hcall, fetched, seen
VARIABLES spec, cri, spoofed, spoofedOnce, statusOnce, mountsOnce, scall, asked, failed, scrashed
VARIABLES view, vcall, paths, alone, left

CTable == INSTANCE ContainerdHandle
OTable == INSTANCE CrioHandle
DTable == INSTANCE DockerHandle

Kept  == [containerd |-> CTable!Kept,  crio |-> OTable!Kept,  docker |-> DTable!Kept]
Given == [containerd |-> CTable!Given, crio |-> OTable!Given, docker |-> DTable!Given]
Asks  == [containerd |-> CTable!Asks,  crio |-> OTable!Asks,  docker |-> DTable!Asks]

\* Docker's handle keeps the process with the rest of the inspection.
KeepsPid == {"docker"}

H  == INSTANCE Handle WITH call <- hcall
SU == INSTANCE Supplement WITH call <- scall, crashed <- scrashed
TV == INSTANCE TempView WITH Caller <- Viewer, call <- vcall

ASSUME HandleAssumption == H!AsksAssumption /\ H!GivenAssumption /\ H!MaxPidAssumption

hVars == <<pid, last, kept, hcall, fetched, seen>>
sVars == <<spec, cri, spoofed, spoofedOnce, statusOnce, mountsOnce, scall, asked, failed, scrashed>>
vVars == <<view, vcall, paths, alone, left>>
allVars == <<vars, hVars, sVars, vVars>>

AllInit == Init /\ H!Init /\ SU!Init /\ TV!Init

\* The other parts rest in one of their initial states.
HRest == H!Init /\ \A k \in DOMAIN kept : kept[k].at = "never"
SRest == SU!Init /\ spec = "plain" /\ cri = "list"
VRest == TV!Init /\ ~view

AllNext ==
    \/ Next /\ HRest /\ SRest /\ VRest /\ UNCHANGED <<hVars, sVars, vVars>>
    \/ H!Next /\ phase = "new" /\ SRest /\ VRest /\ UNCHANGED <<vars, sVars, vVars>>
    \/ backend = "crio" /\ SU!Next /\ phase = "new" /\ HRest /\ VRest
       /\ UNCHANGED <<vars, hVars, vVars>>
    \/ backend = "containerd" /\ TV!Next /\ phase = "new" /\ HRest /\ SRest
       /\ UNCHANGED <<vars, hVars, sVars>>

AllSpec == AllInit /\ [][AllNext]_allVars /\ H!Fairness

-----------------------------------------------------------------------------
(***************************************************************************)
(* The properties of the parts under names of their own.                   *)
(***************************************************************************)

AllTypeOK == TypeOK /\ H!TypeOK /\ SU!TypeOK /\ TV!TypeOK

\* What a handle keeps is fetched once, and not used before (Handle).
FetchedOnce == H!FetchedOnce

\* Calls that wait for another one's fetch return (Handle).
CallsReturn == H!CallsReturn

\* A handle that keeps no process goes by the latest (Handle, CurrentHandle).
ImplementsCurrentHandle == H!ImplementsCurrentHandle

\* Any handle goes by the latest process (Handle).
ReadsLatestProcess == H!ReadsLatestProcess

\* Methods that settle the supplement first do not ask CRI about a container
\* it cannot see (Supplement).
SettledNotAsked == SU!SettledNotAsked

\* Stdio meets a nil supplement only after its one status failed (Supplement).
CrashNeedsFailure == SU!CrashNeedsFailure

\* No call that ended by itself leaves a view (TempView).
ViewsAreRemoved == TV!ViewsAreRemoved

\* A call alone with an image gets its paths (TempView).
AloneGetsPaths == TV!AloneGetsPaths
=============================================================================
