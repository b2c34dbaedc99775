------------------------------- MODULE ListParts -------------------------------
(***************************************************************************)
(* The image list, and the processes of a container with their host PIDs.  *)
(* They share no variable, so a behaviour here is one of one of the two.   *)
(***************************************************************************)
EXTENDS ImageList

CONSTANTS HostPid, NsPid, Shim, MaxBorn

VARIABLES proc, born, reused, used, at, todo, inner, here, rows, hostOf

HP == INSTANCE HostPids

ASSUME HostPidsAssumption == HP!PidAssumption

pidVars == <<proc, born, reused, used, at, todo, inner, here, rows, hostOf>>
allVars == <<vars, pidVars>>

AllInit == Init /\ HP!Init

AllNext ==
    \/ HP!Init /\ Next /\ UNCHANGED pidVars
    \/ Init /\ HP!Next /\ UNCHANGED vars

AllSpec == AllInit /\ [][AllNext]_allVars

\* The host PID shown for a process is that of this process (HostPids).
HostPidsAreTheirs == HP!HostPidsAreTheirs

\* Every process that was read stands in the tree (HostPids).
EveryProcessDrawn == HP!EveryProcessDrawn
=============================================================================
