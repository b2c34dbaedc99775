----------------------------- MODULE Questions ------------------------------
(***************************************************************************)
(* What a method of a container handle asks, as far as Handle tells it     *)
(* apart.                                                                  *)
(***************************************************************************)
Keep(k)   == [do |-> "keep", what |-> k]       \* fetch once, or wait; go on
Need(k)   == [do |-> "need", what |-> k]       \* the same; return on its error
Recall(k) == [do |-> "recall", what |-> k]     \* take the process from what is kept
Ask       == [do |-> "ask", what |-> "task"]   \* ask the daemon for the process
Running   == [do |-> "running", what |-> "task"]  \* return an error without one
Read      == [do |-> "read", what |-> "proc"]  \* read /proc/<pid> if there is one

Questions(kept) == [do : {"keep", "need", "recall"}, what : kept] \cup {Ask, Running, Read}
=============================================================================
