-------------------------- MODULE ListsAndAlgorithms -------------------------
(***************************************************************************)
(* The image list, the processes of a container with their host PIDs, and  *)
(* the computations that have no state.  They share no variable, so a      *)
(* behaviour here is one of the image list or of the processes, or chooses *)
(* one input.                                                              *)
(***************************************************************************)
EXTENDS ListParts, Algorithms

ListsInit == AllInit /\ input = NoInput

ListsNext ==
    \/ input = NoInput /\ AllNext /\ UNCHANGED input
    \/ AllInit /\ Choose /\ UNCHANGED allVars

ListsSpec == ListsInit /\ [][ListsNext]_<<allVars, input>>
=============================================================================
