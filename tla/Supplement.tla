----------------------------- MODULE Supplement -----------------------------
(***************************************************************************)
(* How a container handle of CRI-O comes by what CRI knows of it           *)
(* (pkg/runtime/crio/container.go): from the list it was made from; else   *)
(* from the annotations of its spec, for one that CRI cannot see ("spoofed"); *)
(* else from the first status CRI answers with.  The field stays nil when  *)
(* none of them did.  What asks CRI about a container is told apart by the *)
(* method, as not every one looks for the annotations first.               *)
(***************************************************************************)
EXTENDS Naturals

CONSTANT Caller         \* bound: calls under way at once

VARIABLES
    spec,               \* what config.json is: "spoofed", "plain" or "unreadable"
    cri,                \* h.cri: "nil", "list", "spec" or "status"
    spoofed,            \* h.spoofed
    spoofedOnce, statusOnce, mountsOnce,    \* "new", "running" or "done"
    call,               \* each call: its method and where it is
    asked,              \* history: the methods that have asked CRI about a
                        \* spoofed container
    failed,             \* history: the one status for h.cri did not come
    crashed

vars == <<spec, cri, spoofed, spoofedOnce, statusOnce, mountsOnce, call, asked, failed, crashed>>

\* Info stands for Config, State, Network, Runtime, Image and Storage, too,
\* Processes for ProcessStats, GetProcessStats, CGroup and RWLayerStats.
Method == {"Info", "Stdio", "Processes", "Mounts"}
Places == {"idle", "ensure", "spoofing", "naming", "status", "asking", "mounts", "listing", "pid",
           "use"}

\* The methods that call ensureCRISupplement before anything else.
Settling == {"Info", "Stdio"}

Once == {"new", "running", "done"}

TypeOK ==
    /\ spec \in {"spoofed", "plain", "unreadable"}
    /\ cri \in {"nil", "list", "spec", "status"} /\ spoofed \in BOOLEAN
    /\ spoofedOnce \in Once /\ statusOnce \in Once /\ mountsOnce \in Once
    /\ call \in [Caller -> [method : Method, at : Places]]
    /\ asked \subseteq Method /\ failed \in BOOLEAN /\ crashed \in BOOLEAN

\* CRI lists no spoofed container, and none at all when it does not answer.
Init ==
    /\ spec \in {"spoofed", "plain", "unreadable"}
    /\ cri \in {"nil", "list"} /\ (spec = "spoofed" => cri = "nil")
    /\ spoofed = FALSE /\ spoofedOnce = "new" /\ statusOnce = "new" /\ mountsOnce = "new"
    /\ call = [c \in Caller |-> [method |-> "Info", at |-> "idle"]]
    /\ asked = {} /\ failed = FALSE /\ crashed = FALSE

At(c, place) == ~crashed /\ call[c].at = place
Go(c, place) == call' = [call EXCEPT ![c].at = place]

\* A status or the mounts of the container are asked of CRI.
Ask(c) == asked' = asked \cup {m \in {call[c].method} : spec = "spoofed"}

\* Mounts and Processes take the handle as they find it.
Entry(m) == CASE m \in Settling -> "ensure" [] m = "Mounts" -> "mounts" [] OTHER -> "pid"

Begin(c) ==
    /\ At(c, "idle")
    /\ \E m \in Method : call' = [call EXCEPT ![c] = [method |-> m, at |-> Entry(m)]]
    /\ UNCHANGED <<spec, cri, spoofed, spoofedOnce, statusOnce, mountsOnce, asked, failed, crashed>>

\* A mutant of EnsureSpoofed: a flag in place of the Once.
EnsureSpoofedByFlag(c) ==
    /\ At(c, "ensure")
    /\ \/ (cri # "nil" \/ spoofedOnce # "new") /\ Go(c, "status") /\ UNCHANGED spoofedOnce
       \/ cri = "nil" /\ spoofedOnce = "new" /\ Go(c, "spoofing") /\ spoofedOnce' = "running"
    /\ UNCHANGED <<spec, cri, spoofed, statusOnce, mountsOnce, asked, failed, crashed>>

\* ensureSpoofedSupplement: with h.cri set there is nothing to look for.
EnsureSpoofed(c) ==
    /\ At(c, "ensure")
    /\ \/ cri # "nil" /\ Go(c, "status") /\ UNCHANGED spoofedOnce
       \/ cri = "nil" /\ spoofedOnce = "new" /\ Go(c, "spoofing") /\ spoofedOnce' = "running"
       \/ cri = "nil" /\ spoofedOnce = "done" /\ Go(c, "status") /\ UNCHANGED spoofedOnce
    /\ UNCHANGED <<spec, cri, spoofed, statusOnce, mountsOnce, asked, failed, crashed>>

\* h.spoofed is set, then h.cri.
MarkSpoofed(c) ==
    /\ At(c, "spoofing") /\ spec = "spoofed"
    /\ spoofed' = TRUE /\ Go(c, "naming")
    /\ UNCHANGED <<spec, cri, spoofedOnce, statusOnce, mountsOnce, asked, failed, crashed>>

NameSpoofed(c) ==
    /\ At(c, "naming")
    /\ cri' = "spec" /\ spoofedOnce' = "done" /\ Go(c, "status")
    /\ UNCHANGED <<spec, spoofed, statusOnce, mountsOnce, asked, failed, crashed>>

NotSpoofed(c) ==
    /\ At(c, "spoofing") /\ spec # "spoofed"
    /\ spoofedOnce' = "done" /\ Go(c, "status")
    /\ UNCHANGED <<spec, cri, spoofed, statusOnce, mountsOnce, asked, failed, crashed>>

\* The rest of ensureCRISupplement: no status for a spoofed container.
EnsureStatus(c) ==
    /\ At(c, "status")
    /\ \/ (spoofed \/ statusOnce = "done") /\ Go(c, "pid") /\ UNCHANGED <<statusOnce, asked>>
       \/ ~spoofed /\ statusOnce = "new" /\ Go(c, "asking") /\ statusOnce' = "running" /\ Ask(c)
    /\ UNCHANGED <<spec, cri, spoofed, spoofedOnce, mountsOnce, failed, crashed>>

\* A mutant of StatusComes: h.cri is not made when the list had none.
StatusAmends(c) ==
    /\ At(c, "asking") /\ statusOnce' = "done" /\ Go(c, "pid")
    /\ failed' \in BOOLEAN
    /\ UNCHANGED <<spec, cri, spoofed, spoofedOnce, mountsOnce, asked, crashed>>

\* An error leaves h.cri as it is, for good.
StatusComes(c) ==
    /\ At(c, "asking") /\ statusOnce' = "done" /\ Go(c, "pid")
    /\ \/ cri' = (IF cri = "nil" THEN "status" ELSE cri) /\ UNCHANGED failed
       \/ failed' = TRUE /\ UNCHANGED cri
    /\ UNCHANGED <<spec, spoofed, spoofedOnce, mountsOnce, asked, crashed>>

\* ensureCRIMounts does not look at h.spoofed.
EnsureCRIMounts(c) ==
    /\ At(c, "mounts")
    /\ \/ mountsOnce = "new" /\ Go(c, "listing") /\ mountsOnce' = "running" /\ Ask(c)
       \/ mountsOnce = "done" /\ Go(c, "pid") /\ UNCHANGED <<mountsOnce, asked>>
    /\ UNCHANGED <<spec, cri, spoofed, spoofedOnce, statusOnce, failed, crashed>>

MountsCome(c) ==
    /\ At(c, "listing") /\ mountsOnce' = "done" /\ Go(c, "pid")
    /\ UNCHANGED <<spec, cri, spoofed, spoofedOnce, statusOnce, asked, failed, crashed>>

Pid(c) ==
    /\ At(c, "pid") /\ Go(c, "use")
    /\ IF spoofed THEN UNCHANGED asked ELSE Ask(c)
    /\ UNCHANGED <<spec, cri, spoofed, spoofedOnce, statusOnce, mountsOnce, failed, crashed>>

\* Info and Stdio may ask for another status.  Info does without h.cri; Stdio
\* reads its annotations.
Use(c) ==
    /\ At(c, "use") /\ Go(c, "idle")
    /\ IF call[c].method \in Settling /\ ~spoofed THEN Ask(c) ELSE UNCHANGED asked
    /\ crashed' = (call[c].method = "Stdio" /\ cri = "nil")
    /\ UNCHANGED <<spec, cri, spoofed, spoofedOnce, statusOnce, mountsOnce, failed>>

Next == \E c \in Caller :
           \/ Begin(c) \/ EnsureSpoofed(c) \/ MarkSpoofed(c) \/ NameSpoofed(c) \/ NotSpoofed(c)
           \/ EnsureStatus(c) \/ StatusComes(c) \/ EnsureCRIMounts(c) \/ MountsCome(c)
           \/ Pid(c) \/ Use(c)

Spec == Init /\ [][Next]_vars

-----------------------------------------------------------------------------
(***************************************************************************)
(* Properties.                                                             *)
(***************************************************************************)

\* "This runs once and is a no-op for spoofed containers", for the methods
\* that begin with it, however they overlap with each other and the rest: they
\* never ask CRI about a spoofed container.
SettledNotAsked == asked \cap Settling = {}

\* "Spoofed containers are not visible to CRI so we skip the call."  A method
\* that does not begin with ensureCRISupplement does not skip it, until
\* another one has.
SpoofedNotAsked == asked = {}

\* A call meets a nil h.cri only when CRI neither listed the container nor
\* answered the one status, and the spec does not say it is spoofed.
CrashNeedsFailure == crashed => failed /\ spec # "spoofed" /\ statusOnce = "done"

\* "from CRI (supplementary, may be nil)": no call needs it.  Stdio does.
SupplementMayBeNil == ~crashed
=============================================================================
