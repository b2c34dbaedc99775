--------------------------- MODULE RuntimesAndPage --------------------------
(***************************************************************************)
(* The runtimes, and the header of the container page that is loaded from  *)
(* a handle of theirs (ContainerDetail).  They share no variable, so a     *)
(* behaviour here is one of the runtimes or of the header.                 *)
(***************************************************************************)
EXTENDS Runtimes, PageParams

CONSTANT Refresher      \* bound: the Refresh goroutines that may be alive at once

VARIABLES refreshGen, container, info, state, layersPID, header, ui, uiClosures, pc, gen, got,
          closure, opened

CD == INSTANCE ContainerDetailProofs    \* ContainerDetail, with what is proved of it

headerVars == <<refreshGen, container, info, state, layersPID, header, ui, uiClosures, pc, gen,
                got, closure, opened>>

PageInit == AllInit /\ CD!Init

PageNext ==
    \/ CD!Init /\ AllNext /\ UNCHANGED headerVars
    \/ /\ Init /\ backend = "crio" /\ HRest /\ SRest /\ VRest
       /\ CD!Next /\ UNCHANGED allVars

PageSpec == PageInit /\ [][PageNext]_<<allVars, headerVars>> /\ H!Fairness /\ CD!Fairness

-----------------------------------------------------------------------------
(***************************************************************************)
(* The properties of the header under names of their own.                  *)
(***************************************************************************)

\* An accepted answer is at most one opening behind (ContainerDetail).
AcceptedAtMostOneBehind == CD!AcceptedAtMostOneBehind

\* No store of the header is left undrawn (ContainerDetail).
HeaderReflectsInfo == CD!HeaderReflectsInfo

\* The page of the container opened last ends up with an info (ContainerDetail).
InfoArrives == CD!InfoArrives
=============================================================================
