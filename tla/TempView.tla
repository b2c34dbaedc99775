------------------------------ MODULE TempView ------------------------------
(***************************************************************************)
(* Reading the layer paths of an image from a temporary view of the        *)
(* snapshotter (readOnlyLayerPathsViaView, pkg/runtime/containerd/         *)
(* container.go).  The view's key depends on the image alone, so the       *)
(* calls for one image contend for it; a process that dies leaves it.      *)
(***************************************************************************)
EXTENDS Naturals

CONSTANT Caller         \* the calls for one image

VARIABLES
    view,               \* the snapshotter has a view under the key
    call,               \* each call: where it is
    paths,              \* history: whether a call's last answer had paths
    alone,              \* history: whether a call has been the only one so far
    left                \* history: a view was left behind, by a death or a
                        \* cancelled context, since the last was removed

vars == <<view, call, paths, alone, left>>

TypeOK ==
    /\ view \in BOOLEAN /\ left \in BOOLEAN
    /\ call \in [Caller -> {"idle", "view", "remove", "retry", "mounted", "done"}]
    /\ paths \in [Caller -> BOOLEAN] /\ alone \in [Caller -> BOOLEAN]

\* An earlier run may have left its view.
Init ==
    /\ view \in BOOLEAN /\ left = view
    /\ call = [c \in Caller |-> "idle"]
    /\ paths = [c \in Caller |-> FALSE] /\ alone = [c \in Caller |-> FALSE]

Under == {c \in Caller : call[c] \notin {"idle", "done"}}
Go(c, to) == call' = [call EXCEPT ![c] = to]

Begin(c) ==
    /\ call[c] = "idle" /\ Go(c, "view")
    /\ alone' = [d \in Caller |-> IF d = c THEN Under = {} ELSE alone[d] /\ d \notin Under]
    /\ paths' = [paths EXCEPT ![c] = FALSE]
    /\ UNCHANGED <<view, left>>

\* View creates the key, or fails when there is one.
View(c) ==
    /\ call[c] = "view"
    /\ Go(c, IF view THEN "remove" ELSE "mounted") /\ view' = TRUE
    /\ UNCHANGED <<paths, alone, left>>

\* A mutant of Remove: the retry does without it.
RemoveNothing(c) ==
    /\ call[c] = "remove" /\ Go(c, "retry")
    /\ UNCHANGED <<view, paths, alone, left>>

\* Whoever's it is, it is removed.
Remove(c) ==
    /\ call[c] = "remove" /\ Go(c, "retry")
    /\ view' = FALSE /\ left' = FALSE
    /\ UNCHANGED <<paths, alone>>

Retry(c) ==
    /\ call[c] = "retry"
    /\ Go(c, IF view THEN "done" ELSE "mounted") /\ view' = TRUE
    /\ UNCHANGED <<paths, alone, left>>

\* A mutant of ReadMounts: paths found are returned at once.
ReadMountsOnly(c) ==
    /\ call[c] = "mounted" /\ Go(c, "done")
    /\ paths' = [paths EXCEPT ![c] = TRUE]
    /\ UNCHANGED <<view, alone, left>>

\* The mount options have the paths, whatever becomes of the view; the
\* deferred Remove takes away the view there is then.
ReadMounts(c) ==
    /\ call[c] = "mounted" /\ Go(c, "done")
    /\ paths' = [paths EXCEPT ![c] = TRUE]
    /\ view' = FALSE /\ left' = FALSE
    /\ UNCHANGED alone

Return(c) ==
    /\ call[c] = "done" /\ Go(c, "idle")
    /\ UNCHANGED <<view, paths, alone, left>>

\* The process dies, or the context is cancelled and with it the Remove.
Lost(c) ==
    /\ call[c] \in {"view", "remove", "retry", "mounted"} /\ Go(c, "idle")
    /\ left' = (left \/ (view /\ call[c] = "mounted"))
    /\ UNCHANGED <<view, paths, alone>>

Next == \E c \in Caller :
           \/ Begin(c) \/ View(c) \/ Remove(c) \/ Retry(c)
           \/ ReadMounts(c) \/ Return(c) \/ Lost(c)

Spec == Init /\ [][Next]_vars

-----------------------------------------------------------------------------
(***************************************************************************)
(* Properties.                                                             *)
(***************************************************************************)

\* "The temporary view is removed immediately after the mount options are
\* read": whatever removes whose, no call that ended by itself leaves one.
ViewsAreRemoved == view => left \/ \E c \in Caller : call[c] = "mounted"

\* A call no other overlapped gets the paths, a view left behind or not.
AloneGetsPaths == \A c \in Caller : call[c] = "done" /\ alone[c] => paths[c]
=============================================================================
