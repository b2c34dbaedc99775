--------------------------- MODULE StartsAndStops ---------------------------
(***************************************************************************)
(* The refresh loops of the top page (TopView), and the application that   *)
(* they run in (AppLifecycle), side by side.  They share no variable: what *)
(* the loops see of the application is TopView's own `app`.  So a          *)
(* behaviour here is one of one of the two, the other where it begins.     *)
(***************************************************************************)
EXTENDS TopView

CONSTANT Updater        \* bound: the refresh goroutines that update at once

VARIABLES main, screen, stopping, once, cancelled, released, tracked, started, signal, stop, update

A == INSTANCE AppLifecycleProofs        \* AppLifecycle, with what is proved of it

appVars == <<main, screen, stopping, once, cancelled, released, tracked, started, signal, stop, update>>
allVars == <<vars, appVars>>

AllInit == Init /\ A!Init

AllNext ==
    \/ Next /\ A!Init /\ UNCHANGED appVars
    \/ A!Next /\ Init /\ UNCHANGED vars

\* The application's fairness, as long as the loops rest: it owes nothing in
\* their behaviours.
AppFairness ==
    /\ WF_appVars(Init /\ A!Run) /\ SF_appVars(Init /\ A!LeaveLoop)
    /\ WF_appVars(Init /\ A!HandleSignal)
    /\ \A s \in A!Stopper : WF_appVars(Init /\ A!Stop(s))

AllSpec == AllInit /\ [][AllNext]_allVars /\ Fairness /\ AppFairness

-----------------------------------------------------------------------------
(***************************************************************************)
(* The properties of AppLifecycle under names of their own.                *)
(***************************************************************************)

\* Everything is released before the process ends (AppLifecycle, Shutdown).
ReleasesBeforeExit == A!ReleasesBeforeExit

\* A stop ends the program, whenever it is first asked for (AppLifecycle).
StopEndsTheProgram == A!StopEndsTheProgram

\* Updates go to the event loop while it runs (AppLifecycle).
InlineOnlyAtTheEdges == A!InlineOnlyAtTheEdges
=============================================================================
