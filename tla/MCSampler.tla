----------------------------- MODULE MCSampler -----------------------------
(* Sampler with two containers, 2 and 3 by the host PIDs of their init       *)
(* processes, and two internal PIDs, 1 and 2: a process of container 2 has   *)
(* the host PID of its init process as its own PID, and that PID returns.    *)
(* That of container 3 uses no CPU time.  The workers are interchangeable.   *)
EXTENDS Sampler, TLC

Containers == {2, 3}
Pids       == {1, 2}
Processes  == {<<2, 1>>, <<2, 2>>, <<3, 1>>}

Lives      == [x \in Processes |-> IF x = <<2, 2>> THEN 2 ELSE 1]
Uses       == [x \in Processes |-> IF x[1] = 2 THEN 1 ELSE 0]

Symmetry == Permutations(Worker)
=============================================================================
