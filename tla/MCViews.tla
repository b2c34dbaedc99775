------------------------------- MODULE MCViews ------------------------------
(***************************************************************************)
(* Views on small instances: a container of a pod and one of none, in two  *)
(* lists; three pods in two lists; every view of the container page,       *)
(* opened twice, one answer missing per load; two refreshes at once.       *)
(***************************************************************************)
EXTENDS Views, TLC

CONSTANTS A, B, C, P

Entry(c, up) == [id |-> c, up |-> up]
Row(p, n)    == [uid |-> p, count |-> [running |-> n, total |-> 1]]

TwoContainers == {A, C}
OneOfPod      == A :> P @@ C :> NoPod
Ranks         == A :> 1 @@ C :> 2 @@ P :> 1
TwoListings   == {<<Entry(A, TRUE), Entry(C, TRUE)>>, <<Entry(C, FALSE)>>}

ThreePods   == {A, B, C}
OneOrNone   == [running : 0..1, total : {1}]
TwoPodLists == {<<Row(A, 1), Row(B, 0)>>, <<Row(B, 1), Row(C, 1), Row(A, 1)>>}
=============================================================================
