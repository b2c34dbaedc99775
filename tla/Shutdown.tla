------------------------------ MODULE Shutdown ------------------------------
(***************************************************************************)
(* What App.Run and App.Stop (pkg/ui/app.go) promise together: the         *)
(* program ends only after a stop, and after everything was released.      *)
(***************************************************************************)

VARIABLE phase      \* how far the program has come

Phase == {"up", "asked", "released", "exited", "failed"}

Init == phase = "up"

\* The runtime refused the connection: there was nothing to release.
Fail    == phase = "up"       /\ phase' = "failed"
Ask     == phase = "up"       /\ phase' = "asked"
Release == phase = "asked"    /\ phase' = "released"
Exit    == phase = "released" /\ phase' = "exited"

Next == Fail \/ Ask \/ Release \/ Exit

Spec == Init /\ [][Next]_phase
=============================================================================
