----------------------------- MODULE Connection -----------------------------
(***************************************************************************)
(* The connection of a runtime (pkg/runtime/*/client.go): Connect opens a  *)
(* client and, for Docker with a containerd image store, a containerd      *)
(* runtime to delegate images to; CRI-O opens the storage on the host      *)
(* first.  Close frees them while refreshes may still be calling.  Each    *)
(* call checks a field and uses it later.                                  *)
(***************************************************************************)
EXTENDS Naturals

CONSTANT Caller         \* bound: calls under way at once

VARIABLES
    backend,            \* "containerd", "crio" or "docker"
    phase,              \* of the application's use of the runtime
    client,             \* the field and what it points to: "nil", "open", "closed"
    second,             \* the same for the storage (CRI-O), the delegate (Docker)
    mode,               \* Docker's image store: "classic" or "containerd"
    store,              \* CRI-O's storeOnce and storeErr: "never", "ok" or "error"
    call,               \* what each call is about to use
    crashed             \* a nil field was called

vars == <<backend, phase, client, second, mode, store, call, crashed>>

TypeOK ==
    /\ backend \in {"containerd", "crio", "docker"}
    /\ phase \in {"new", "opening", "delegating", "failed", "up", "closing", "closed"}
    /\ client \in {"nil", "open", "closed"} /\ second \in {"nil", "open", "closed"}
    /\ mode \in {"classic", "containerd"} /\ store \in {"never", "ok", "error"}
    /\ call \in [Caller -> {"idle", "client", "delegate", "store", "nothing"}]
    /\ crashed \in BOOLEAN
    /\ phase \in {"delegating", "up", "closing", "closed"} => client # "nil"

Init ==
    /\ backend \in {"containerd", "crio", "docker"}
    /\ phase = "new" /\ client = "nil" /\ second = "nil"
    /\ mode = "classic" /\ store = "never"
    /\ call = [c \in Caller |-> "idle"] /\ crashed = FALSE

-----------------------------------------------------------------------------
(***************************************************************************)
(* Connect, before the pages start to call.                                *)
(***************************************************************************)

ConnectContainerd ==
    /\ backend = "containerd" /\ phase = "new"
    /\ \/ client' = "open" /\ phase' = "up"
       \/ phase' = "failed" /\ UNCHANGED client
    /\ UNCHANGED <<backend, second, mode, store, call, crashed>>

\* A mutant of OpenStore: the error is not kept.
OpenStoreForgetting ==
    /\ backend = "crio" /\ phase = "new" /\ store = "never"
    /\ \/ store' = "ok" /\ second' = "open"
       \/ store' = "ok" /\ UNCHANGED second
    /\ phase' = "opening"
    /\ UNCHANGED <<backend, client, mode, call, crashed>>

OpenStore ==
    /\ backend = "crio" /\ phase = "new" /\ store = "never"
    /\ \/ store' = "ok" /\ second' = "open" /\ phase' = "opening"
       \/ store' = "error" /\ phase' = "failed" /\ UNCHANGED second
    /\ UNCHANGED <<backend, client, mode, call, crashed>>

\* The answer to Version decides; a connection without one is closed at once.
ConnectCRI ==
    /\ backend = "crio" /\ phase = "opening"
    /\ \/ client' = "open" /\ phase' = "up"
       \/ phase' = "failed" /\ UNCHANGED client
    /\ UNCHANGED <<backend, second, mode, store, call, crashed>>

\* A mutant of ProbeDocker: what fails is reported, and Connect goes on.
ProbeDockerLeniently ==
    /\ backend = "docker" /\ phase = "new"
    /\ \/ phase' = "up" /\ UNCHANGED <<client, mode>>
       \/ client' = "open" /\ phase' = "up" /\ UNCHANGED mode
    /\ UNCHANGED <<backend, second, store, call, crashed>>

\* Connect and probeDaemon: the daemon's information gives the mode.
ProbeDocker ==
    /\ backend = "docker" /\ phase = "new"
    /\ \/ phase' = "failed" /\ UNCHANGED <<client, mode>>
       \/ client' = "open" /\ phase' = "up" /\ UNCHANGED mode
       \/ client' = "open" /\ phase' = "delegating" /\ mode' = "containerd"
    /\ UNCHANGED <<backend, second, store, call, crashed>>

\* initContainerdDelegate; without one, images are as in the classic store.
InitDelegate ==
    /\ phase = "delegating" /\ phase' = "up"
    /\ \/ second' = "open" /\ UNCHANGED mode
       \/ mode' = "classic" /\ UNCHANGED second
    /\ UNCHANGED <<backend, client, store, call, crashed>>

Connect == ConnectContainerd \/ OpenStore \/ ConnectCRI \/ ProbeDocker \/ InitDelegate

-----------------------------------------------------------------------------
(***************************************************************************)
(* Close, after the pages stopped, without waiting for their calls.        *)
(***************************************************************************)

Conn == <<backend, mode, store, call, crashed>>

\* A mutant: what closing the storage or the delegate returns is returned.
CloseSecondOnly ==
    /\ phase = "up" /\ phase' = IF second = "nil" THEN "closing" ELSE "closed"
    /\ second' = IF second = "nil" THEN "nil" ELSE "closed"
    /\ UNCHANGED <<Conn, client>>

CloseSecond ==
    /\ phase = "up" /\ phase' = "closing"
    /\ second' = IF second = "nil" THEN "nil" ELSE "closed"
    /\ UNCHANGED <<Conn, client>>

\* The assignment of nil is a step of its own.
ForgetSecond ==
    /\ phase = "closing" /\ second = "closed" /\ second' = "nil"
    /\ UNCHANGED <<Conn, phase, client>>

\* The fields of the clients keep what is closed.
CloseClient ==
    /\ phase = "closing" /\ second # "closed" /\ phase' = "closed"
    /\ client' = "closed"
    /\ UNCHANGED <<Conn, second>>

-----------------------------------------------------------------------------
(***************************************************************************)
(* The calls of the pages.                                                 *)
(***************************************************************************)

Rest == <<backend, phase, client, second, mode, store>>

\* What a call finds to call: the client; Docker's delegate, checked now and
\* read again later, for every candidate of a reference; or what getStore returns, its error checked, which for a
\* closed storage there is none.
Found ==
    {"client"} \cup
    (IF mode = "containerd" /\ second # "nil" THEN {"delegate"} ELSE {}) \cup
    (IF store = "ok" THEN {IF second = "nil" THEN "nothing" ELSE "store"} ELSE {})

Begin(c) ==
    /\ phase \in {"up", "closing", "closed"} /\ call[c] = "idle" /\ ~crashed
    /\ \E f \in Found : call' = [call EXCEPT ![c] = f]
    /\ UNCHANGED <<Rest, crashed>>

\* A closed client or storage answers with an error; a nil one does not.
Use(c) ==
    /\ call[c] # "idle" /\ ~crashed
    /\ crashed' = (call[c] \in {"nothing"} \cup (IF second = "nil" THEN {"delegate"} ELSE {}))
    /\ call' = [call EXCEPT ![c] = "idle"]
    /\ UNCHANGED Rest

Close == CloseSecond \/ ForgetSecond \/ CloseClient

Next == Connect \/ Close \/ \E c \in Caller : Begin(c) \/ Use(c)

Spec == Init /\ [][Next]_vars

-----------------------------------------------------------------------------
(***************************************************************************)
(* Properties.                                                             *)
(***************************************************************************)

\* Only a call that Close overtook finds a field nil: whatever part of
\* Connect failed, before Close every call finds what it checked; and
\* containerd's fields are never nil again.
CrashNeedsClose == crashed => phase \in {"closing", "closed"} /\ backend # "containerd"

\* Whatever was opened is closed once Close returned.
AllReleased == phase = "closed" => client # "open" /\ second # "open"
=============================================================================
