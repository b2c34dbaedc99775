------------------------------ MODULE HostPids ------------------------------
(***************************************************************************)
(* How the processes of a container get their host PIDs and their place in *)
(* the process tree (pkg/sysinfo/process.go, process_tree_view.go).  The   *)
(* container's own /proc is listed and read one process after the other;   *)
(* then the host's /proc is scanned for processes of the container's PID   *)
(* namespace.  Meanwhile processes are forked, exit and give their PIDs    *)
(* free.                                                                   *)
(***************************************************************************)
EXTENDS Naturals

CONSTANTS
    HostPid,            \* PIDs of the host, positive numbers
    NsPid,              \* PIDs inside the container, 1 being its init
    Shim,               \* the parent of the container's init, a PID of the host
    MaxBorn             \* bound: processes over a behaviour

\* What the parameters are assumed to be.
PidAssumption ==
    /\ HostPid \subseteq Nat \ {0} /\ HostPid # {}
    /\ NsPid \subseteq Nat \ {0} /\ 1 \in NsPid
    /\ Shim \notin HostPid /\ MaxBorn \in Nat \ {0}

VARIABLES
    proc,               \* the process of a host PID: [id, inside, pid, ppid], or none
    born,               \* processes so far
    reused,             \* whether a PID was given to a second process
    used,               \* the PIDs given so far: [host, ns]
    at,                 \* where CollectContainerProcesses stands
    todo,               \* the PIDs still to be read
    inner,              \* whether the namespace sought is the container's
    here,               \* the host PID whose NSpid is read next, or 0
    rows,               \* what was read: [id, ppid, up, host, hostParent] by container
                        \* PID; id and up are those of the process and its parent
    hostOf              \* nsPIDToHostPID

sysVars == <<proc, born, reused, used>>
vars == <<sysVars, at, todo, inner, here, rows, hostOf>>

Gone    == [id |-> 0, inside |-> FALSE, pid |-> 0, ppid |-> 0]
Init1   == CHOOSE h \in HostPid : \A k \in HostPid : h <= k    \* the container's PID

Alive  == {h \in HostPid : proc[h].id # 0}
Inside == {h \in Alive : proc[h].inside}
HostAt(n) == {h \in Inside : proc[h].pid = n}

\* The parent of a process, as the host's /proc shows it.
ParentOf(h) == IF proc[h].ppid = 0 THEN Shim ELSE CHOOSE k \in HostAt(proc[h].ppid) : TRUE
ParentId(h) == IF proc[h].ppid = 0 THEN 0 ELSE proc[ParentOf(h)].id

TypeOK ==
    /\ proc \in [HostPid -> [id : 0..MaxBorn, inside : BOOLEAN, pid : Nat, ppid : NsPid \cup {0}]]
    /\ born \in 0..MaxBorn /\ reused \in BOOLEAN
    /\ used \in [host : SUBSET HostPid, ns : SUBSET NsPid]
    /\ at \in {"idle", "read", "scan", "gaps", "done"} /\ here \in HostPid \cup {0}
    /\ inner \in BOOLEAN
    /\ todo \subseteq HostPid \cup NsPid
    /\ DOMAIN rows \subseteq NsPid
    /\ \A n \in DOMAIN rows : 
         rows[n] \in [id : 1..MaxBorn, ppid : NsPid \cup {0}, up : 0..MaxBorn,
                     host : HostPid \cup {0}, hostParent : HostPid \cup {0, Shim}]
    /\ DOMAIN hostOf \subseteq NsPid \cup HostPid
    /\ \A n \in DOMAIN hostOf : hostOf[n] \in HostPid

Init ==
    /\ proc = [h \in HostPid |-> IF h = Init1 THEN [id |-> 1, inside |-> TRUE, pid |-> 1, ppid |-> 0]
                                 ELSE Gone]
    /\ born = 1 /\ reused = FALSE
    /\ used = [host |-> {Init1}, ns |-> {1}]
    /\ at = "idle" /\ todo = {} /\ inner = TRUE /\ here = 0
    /\ rows = <<>> /\ hostOf = <<>>

-----------------------------------------------------------------------------
\* The system.  A process of the container is a child of one of its processes;
\* one of the host has its host PID for a PID.
Spawn(h, new) ==
    LET inside == {n \in {new.pid} : new.inside} IN
    /\ h \notin Alive /\ born < MaxBorn
    /\ born' = born + 1
    /\ proc' = [proc EXCEPT ![h] = new]
    /\ used' = [host |-> used.host \cup {h}, ns |-> used.ns \cup inside]
    /\ reused' = (reused \/ h \in used.host \/ inside \cap used.ns # {})
    /\ UNCHANGED <<at, todo, inner, here, rows, hostOf>>

Fork ==
    \E h \in HostPid, n \in NsPid, parent \in Inside :
        /\ n \notin {proc[k].pid : k \in Inside}
        /\ Spawn(h, [id |-> born + 1, inside |-> TRUE, pid |-> n, ppid |-> proc[parent].pid])

ForkOutside == \E h \in HostPid : Spawn(h, [id |-> born + 1, inside |-> FALSE, pid |-> h, ppid |-> 0])

\* The children of a process pass to the container's init; with that one the
\* whole container ends.
Exit(h) ==
    /\ h \in Alive
    /\ proc' = [k \in HostPid |->
                  IF k = h \/ (h \in Inside /\ proc[h].pid = 1 /\ k \in Inside) THEN Gone
                  ELSE IF h \in Inside /\ k \in Inside /\ proc[k].ppid = proc[h].pid
                       THEN [proc[k] EXCEPT !.ppid = 1] ELSE proc[k]]
    /\ UNCHANGED <<born, reused, used, at, todo, inner, here, rows, hostOf>>

-----------------------------------------------------------------------------
\* CollectContainerProcesses, of a container that runs.  Its own /proc is
\* listed; where there is none to list only the main PID is read, from the host.
ListContainer ==
    /\ at = "idle" /\ Inside # {}
    /\ todo' = {proc[h].pid : h \in Inside} /\ at' = "read"
    /\ UNCHANGED <<sysVars, inner, here, rows, hostOf>>

ReadMain ==
    /\ at = "idle" /\ Inside # {}
    /\ rows' = [n \in {1} |-> [id |-> proc[Init1].id, ppid |-> 0, up |-> 0,
                            host |-> Init1, hostParent |-> Shim]]
    /\ at' = "done"
    /\ UNCHANGED <<sysVars, todo, inner, here, hostOf>>

\* Who has PID n in the /proc below the root of the main PID: in the host's,
\* should the main PID belong to a process outside by now.
Seen(n) == IF Inside # {} THEN HostAt(n)
           ELSE IF proc[Init1].id # 0 THEN Alive \cap {n} ELSE {}

\* ReadProcess; a process that is gone is skipped.
ReadProcess(n) ==
    /\ at = "read" /\ n \in todo /\ todo' = todo \ {n}
    /\ rows' = IF Seen(n) = {} THEN rows
               ELSE LET h == CHOOSE h \in Seen(n) : TRUE
                    IN  [k \in DOMAIN rows \cup {n} |->
                            IF k = n THEN [id |-> proc[h].id, ppid |-> proc[h].ppid, up |-> ParentId(h),
                                              host |-> 0, hostParent |-> 0]
                            ELSE rows[k]]
    /\ UNCHANGED <<sysVars, at, inner, here, hostOf>>

\* buildNsPIDToHostPIDMap: the inode of the container's PID namespace, or of
\* the one its PID stands for by now; then the host's PIDs.
ListHost ==
    /\ at = "read" /\ todo = {}
    /\ \/ proc[Init1].id # 0 /\ at' = "scan" /\ todo' = Alive /\ inner' = proc[Init1].inside
       \/ proc[Init1].id = 0 /\ at' = "done" /\ UNCHANGED <<todo, inner>>
    /\ UNCHANGED <<sysVars, here, rows, hostOf>>

\* One PID of the host at a time: its namespace, then its NSpid line, and
\* whoever has the PID by then.
ReadInode(h) ==
    /\ at = "scan" /\ here = 0 /\ h \in todo /\ todo' = todo \ {h}
    /\ here' = IF h \in Alive /\ proc[h].inside = inner THEN h ELSE 0
    /\ UNCHANGED <<sysVars, at, inner, rows, hostOf>>

\* A bug for the checks: the first PID of the NSpid line, which is the host's.
ReadNSpidFirst ==
    /\ here # 0 /\ here' = 0
    /\ hostOf' = [n \in DOMAIN hostOf \cup {here} |-> IF n = here THEN here ELSE hostOf[n]]
    /\ UNCHANGED <<sysVars, at, todo, inner, rows>>

ReadNSpid ==
    /\ here # 0 /\ here' = 0
    /\ hostOf' = IF here \notin Alive THEN hostOf
                 ELSE [n \in DOMAIN hostOf \cup {proc[here].pid} |->
                         IF n = proc[here].pid THEN here ELSE hostOf[n]]
    /\ UNCHANGED <<sysVars, at, todo, inner, rows>>

HostPidOf(n) == IF n \in DOMAIN hostOf THEN hostOf[n] ELSE 0

applyHostPIDs ==
    /\ at = "scan" /\ todo = {} /\ here = 0 /\ at' = "gaps"
    /\ rows' = [n \in DOMAIN rows |->
                  [rows[n] EXCEPT !.host = HostPidOf(n), !.hostParent = HostPidOf(rows[n].ppid)]]
    /\ todo' = {n \in DOMAIN rows : HostPidOf(n) # 0 /\ HostPidOf(rows[n].ppid) = 0}
    /\ UNCHANGED <<sysVars, inner, here, hostOf>>

\* resolveHostPIDs: a parent the map does not know is read from the host.
FillGap(n) ==
    /\ at = "gaps" /\ n \in todo /\ todo' = todo \ {n}
    /\ rows' = IF rows[n].host \notin Inside THEN rows
               ELSE [rows EXCEPT ![n].hostParent = ParentOf(rows[n].host)]
    /\ UNCHANGED <<sysVars, at, inner, here, hostOf>>

Finish ==
    /\ at = "gaps" /\ todo = {} /\ at' = "done"
    /\ UNCHANGED <<sysVars, todo, inner, here, rows, hostOf>>

Next ==
    \/ Fork \/ ForkOutside \/ \E h \in HostPid : Exit(h)
    \/ ListContainer \/ ReadMain \/ ListHost \/ ReadNSpid \/ applyHostPIDs \/ Finish
    \/ \E n \in NsPid : ReadProcess(n) \/ FillGap(n)
    \/ \E h \in HostPid : ReadInode(h)

Spec == Init /\ [][Next]_vars

-----------------------------------------------------------------------------
\* A bug for the checks: only a process without a parent is a root.
RootsWithoutOrphans == {n \in DOMAIN rows : rows[n].ppid = 0}

\* ProcessTreeView.render: the roots are the processes whose parent was not
\* read, and below a process are those that name it as their parent.
Roots == {n \in DOMAIN rows : rows[n].ppid \notin DOMAIN rows}

\* What the drawing of the roots and of everything below them reaches.
Drawn ==
    {n \in DOMAIN rows :
        \A S \in SUBSET DOMAIN rows :
            Roots \subseteq S /\ (\A m \in DOMAIN rows : rows[m].ppid \in S => m \in S) => n \in S}

\* The host PID shown for a process is that of this very process, and the
\* host PID of its parent is of the parent it was read with or of the init
\* that adopted it, although the container's /proc and the host's were read at
\* different times; as long as no PID came back meanwhile.
HostPidsAreTheirs ==
    at = "done" /\ ~reused =>
        \A n \in DOMAIN rows :
            /\ rows[n].host # 0 => proc[rows[n].host].id \in {0, rows[n].id}
            /\ rows[n].hostParent \in HostPid =>
                  proc[rows[n].hostParent].id \in {0, 1, rows[n].up}

\* Every process that was read stands in the tree: parents that exited before
\* they were read, or were read before their children, lose none.  (Where PIDs
\* come back two processes may name each other as parents, and both are lost.)
EveryProcessDrawn == ~reused => Drawn = DOMAIN rows
=============================================================================
