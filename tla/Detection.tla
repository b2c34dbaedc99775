------------------------------ MODULE Detection -----------------------------
(***************************************************************************)
(* Which runtime cray talks to (cmd/cray/runtime_detect.go, cli.go).  The  *)
(* candidates are tried in a fixed order, or the socket of the command     *)
(* line is asked what it speaks.  `speaks` gives the protocols the probes  *)
(* of each path find, none where there is no socket; the paths stand for   *)
(* those of the code.                                                      *)
(***************************************************************************)
EXTENDS Naturals, SequencesExt

crioSockets       == <<"/run/crio", "/var/run/crio">>
containerdSockets == <<"/run/containerd", "/var/run/containerd">>
dockerSockets     == <<"/var/run/docker", "/run/docker">>

Socket == ToSet(crioSockets \o containerdSockets \o dockerSockets)

\* looksLikeCRIOSocket, and the test of inferRuntimeFromPath for "docker".
LooksLikeCRIO   == ToSet(crioSockets)
LooksLikeDocker == ToSet(dockerSockets)

Found(type, sock) == [type |-> type, sock |-> sock]
NotFound == Found("none", "")

inferRuntimeFromPath(sock) ==
    IF sock \in LooksLikeCRIO THEN "crio"
    ELSE IF sock \in LooksLikeDocker THEN "docker" ELSE "containerd"

\* A bug for the checks: whatever speaks CRI is CRI-O.
detectExplicitCRI(speaks, sock) ==
    IF "cri" \in speaks[sock] THEN "crio"
    ELSE IF "docker" \in speaks[sock] THEN "docker"
    ELSE IF "containerd" \in speaks[sock] THEN "containerd"
    ELSE inferRuntimeFromPath(sock)

detectExplicit(speaks, sock) ==
    IF "cri" \in speaks[sock] THEN
        IF sock \notin LooksLikeCRIO /\ "containerd" \in speaks[sock]
        THEN "containerd" ELSE "crio"
    ELSE IF "docker" \in speaks[sock] THEN "docker"
    ELSE IF "containerd" \in speaks[sock] THEN "containerd"
    ELSE inferRuntimeFromPath(sock)

\* The four loops, in order: whose sockets, what they must speak, what is then
\* taken for running.
Rounds ==
    << [socks |-> crioSockets,       needs |-> {"cri"},               type |-> "crio"],
       [socks |-> containerdSockets, needs |-> {"containerd", "cri"}, type |-> "containerd"],
       [socks |-> dockerSockets,     needs |-> {"docker"},            type |-> "docker"],
       [socks |-> containerdSockets, needs |-> {"containerd"},        type |-> "containerd"] >>

Hits(speaks) ==
    {p \in (DOMAIN Rounds) \X (1..2) :
        LET sock == Rounds[p[1]].socks[p[2]]
        IN  Rounds[p[1]].needs \subseteq speaks[sock]}

detectAuto(speaks) ==
    LET hits == Hits(speaks) IN
    IF hits = {} THEN NotFound
    ELSE LET p == CHOOSE p \in hits :
                    \A q \in hits : p[1] < q[1] \/ (p[1] = q[1] /\ p[2] <= q[2])
         IN  Found(Rounds[p[1]].type, Rounds[p[1]].socks[p[2]])

resolveContainerdNamespace(speaks, configured, sock) ==
    IF configured # "" THEN configured
    ELSE IF "cri" \in speaks[sock] THEN "k8s.io" ELSE "default"

\* newRuntime: sock is "" when the command line names none.
newRuntime(speaks, sock, configured) ==
    LET found == IF sock = "" THEN detectAuto(speaks)
                 ELSE Found(detectExplicit(speaks, sock), sock)
    IN  [type |-> found.type, sock |-> found.sock,
         namespace |-> IF found.type = "containerd"
                       THEN resolveContainerdNamespace(speaks, configured, found.sock)
                       ELSE configured]

-----------------------------------------------------------------------------
\* What a daemon makes its socket speak.
Daemon == [crio |-> {"cri"}, containerd |-> {"containerd"},
           criContainerd |-> {"containerd", "cri"}, docker |-> {"docker"}, nothing |-> {}]

ClientOf == [crio |-> "crio", containerd |-> "containerd", criContainerd |-> "containerd",
             docker |-> "docker"]

\* CRI-O listens at paths of its name only, and nothing else does there.
Deployments ==
    {daemonAt \in [Socket -> DOMAIN Daemon] :
        \A s \in Socket : IF s \in LooksLikeCRIO THEN daemonAt[s] \in {"crio", "nothing"}
                                               ELSE daemonAt[s] # "crio"}

\* Given which daemon listens where, the automatic choice is a client of the
\* daemon that listens there, and naming its socket on the command line gives
\* the same client with the same namespace.  (CRI-O listens on sockets of its
\* name only; a cri-dockerd on one of them would be taken for CRI-O.)
ExplicitAgreesWithAuto(daemonAt) ==
    LET speaks == [s \in Socket |-> Daemon[daemonAt[s]]]
        auto   == newRuntime(speaks, "", "")
    IN  auto.type # "none" =>
            /\ daemonAt[auto.sock] \in DOMAIN ClientOf
            /\ auto.type = ClientOf[daemonAt[auto.sock]]
            /\ newRuntime(speaks, auto.sock, "") = auto
=============================================================================
