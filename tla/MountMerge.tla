----------------------------- MODULE MountMerge -----------------------------
(***************************************************************************)
(* How the mounts of a container are put together from their sources:      *)
(* MergeMountSources (pkg/runtime/cri/mounts.go) from CRI's config and     *)
(* status, the OCI spec and /proc/<pid>/mountinfo; mergeDockerMounts       *)
(* (pkg/runtime/docker/mounts.go) from `docker inspect`, the spec and      *)
(* mountinfo; and how MountsView groups them.                              *)
(*                                                                         *)
(* A source is a sequence of destinations.  A row of the result is a       *)
(* record of the entries it was built from, by position, 0 for none.       *)
(***************************************************************************)
EXTENDS Naturals, FiniteSets, Sequences

CONSTANTS
    Normal,             \* a destination to itself with /var/run as /run
    Injected,           \* the destinations kubelet injects
    Root                \* the destination "/"

SameDestination(a, b) == Normal[a] = Normal[b]

\* The position of the first entry for d that is not used, 0 for none.
FindMount(mounts, used, d) ==
    LET I == {i \in DOMAIN mounts \ used : SameDestination(mounts[i], d)}
    IN  IF I = {} THEN 0 ELSE CHOOSE i \in I : \A k \in I : i <= k

Row(d, origin, decl, status, spec, live, state) ==
    [dest |-> d, origin |-> origin, decl |-> decl, status |-> status,
     spec |-> spec, live |-> live, state |-> state]

criMountOrigin(d) == IF d \in Injected THEN "kubelet" ELSE "user"
declaredState(live) == IF live THEN "declared-live" ELSE "declared-only"

\* What is claimed so far: the rows, and the entries they took, by source.
None == [rows |-> <<>>, status |-> {}, spec |-> {}, live |-> {}]

\* A bug for the checks: a phase leaves the live mount it found to those after it.
ClaimWithoutLive(acc, row) ==
    [rows |-> Append(acc.rows, row), status |-> acc.status \cup {row.status},
     spec |-> acc.spec \cup {row.spec}, live |-> acc.live]

Claim(acc, row) ==
    [rows |-> Append(acc.rows, row), status |-> acc.status \cup {row.status},
     spec |-> acc.spec \cup {row.spec}, live |-> acc.live \cup {row.live}]

buildCRIMount(d, i, status, spec, live) ==
    Row(d, criMountOrigin(d), i, status, spec, live, declaredState(status # 0 \/ live # 0))
buildCRIStatusOnlyMount(d, i, live) == Row(d, criMountOrigin(d), 0, i, 0, live, "live-only")
BuildRuntimeDefaultMount(d, i, live) ==
    Row(d, "runtime-default", 0, 0, i, live, declaredState(live # 0))
BuildLiveExtraMount(d, i) == Row(d, "live-extra", 0, 0, 0, i, "live-only")

\* The bodies of the loops, for entry i of their source: all that is declared
\* has a row, and what of the status, the spec and the live mounts is left.
AddConfig(a, config, status, spec, live, i) ==
    Claim(a, buildCRIMount(config[i], i, FindMount(status, a.status, config[i]),
                           FindMount(spec, a.spec, config[i]), FindMount(live, a.live, config[i])))

AddDeclared(a, declared, spec, live, i) ==
    LET l == FindMount(live, a.live, declared[i])
    IN  Claim(a, Row(declared[i], "user", i, 0, FindMount(spec, a.spec, declared[i]), l,
                     declaredState(l # 0)))

AddStatus(a, status, live, i) ==
    IF i \in a.status THEN a
    ELSE Claim(a, buildCRIStatusOnlyMount(status[i], i, FindMount(live, a.live, status[i])))

AddSpec(a, spec, live, i) ==
    IF i \in a.spec THEN a
    ELSE Claim(a, BuildRuntimeDefaultMount(spec[i], i, FindMount(live, a.live, spec[i])))

AddLive(a, live, i) ==
    IF i \in a.live THEN a ELSE Claim(a, BuildLiveExtraMount(live[i], i))

\* The loops: what is claimed after each entry.
Configured(config, status, spec, live) ==
    LET after[i \in 0..Len(config)] ==
            IF i = 0 THEN None ELSE AddConfig(after[i - 1], config, status, spec, live, i)
    IN  after

Declared(declared, spec, live) ==
    LET after[i \in 0..Len(declared)] ==
            IF i = 0 THEN None ELSE AddDeclared(after[i - 1], declared, spec, live, i)
    IN  after

RestOfStatus(a, status, live) ==
    LET after[i \in 0..Len(status)] ==
            IF i = 0 THEN a ELSE AddStatus(after[i - 1], status, live, i)
    IN  after

RestOfSpec(a, spec, live) ==
    LET after[i \in 0..Len(spec)] == IF i = 0 THEN a ELSE AddSpec(after[i - 1], spec, live, i)
    IN  after

RestOfLive(a, live) ==
    LET after[i \in 0..Len(live)] == IF i = 0 THEN a ELSE AddLive(after[i - 1], live, i)
    IN  after

\* The phases both merges end with.
AddRest(a, spec, live) == RestOfLive(RestOfSpec(a, spec, live)[Len(spec)], live)[Len(live)]

\* The rows, without the sort by origin, destination, source and type that
\* only orders them.
MergeMountSources(config, status, spec, live) ==
    LET configured == Configured(config, status, spec, live)[Len(config)]
    IN  AddRest(RestOfStatus(configured, status, live)[Len(status)], spec, live).rows

mergeDockerMounts(declared, spec, live) ==
    AddRest(Declared(declared, spec, live)[Len(declared)], spec, live).rows

\* MountsView: the first mount of "/" is the root's, the others go by origin.
splitMounts(rows) ==
    LET roots == {i \in DOMAIN rows : rows[i].dest = Root}
        root  == {i \in roots : \A k \in roots : i <= k}
        Of(o) == {i \in DOMAIN rows \ root : rows[i].origin = o}
    IN  [root |-> root, user |-> Of("user"), cri |-> Of("kubelet"),
         runtime |-> Of("runtime-default"),
         other |-> {i \in DOMAIN rows \ root :
                      rows[i].origin \notin {"user", "kubelet", "runtime-default"}}]

-----------------------------------------------------------------------------
\* Every entry of a source stands in exactly one row.
EachOnce(rows, field, source) ==
    \A i \in DOMAIN source : Cardinality({r \in DOMAIN rows : rows[r][field] = i}) = 1

\* No source names a destination twice, /run and /var/run being one.
Distinct(source) ==
    \A i, k \in DOMAIN source : SameDestination(source[i], source[k]) => i = k

OneRowEach(rows) ==
    \A r, s \in DOMAIN rows : SameDestination(rows[r].dest, rows[s].dest) => r = s

\* The mount list loses no mount and shows none twice: every entry of every
\* source stands in one row, and, where no source repeats itself, a
\* destination has one row.  But for a mount that CRI's status reports, its
\* config does not, and the spec has: Phase 2 of MergeMountSources leaves the
\* spec entry to Phase 3, which shows it again.
CRIMergedOnce(config, status, spec, live) ==
    LET rows == MergeMountSources(config, status, spec, live) IN
    /\ EachOnce(rows, "decl", config) /\ EachOnce(rows, "status", status)
    /\ EachOnce(rows, "spec", spec) /\ EachOnce(rows, "live", live)
    /\ (/\ Distinct(config) /\ Distinct(status) /\ Distinct(spec) /\ Distinct(live)
        /\ \A i \in DOMAIN status, k \in DOMAIN spec :
             SameDestination(status[i], spec[k]) =>
                \E j \in DOMAIN config : SameDestination(config[j], spec[k]))
       => OneRowEach(rows)

DockerMergedOnce(declared, spec, live) ==
    LET rows == mergeDockerMounts(declared, spec, live) IN
    /\ EachOnce(rows, "decl", declared) /\ EachOnce(rows, "spec", spec)
    /\ EachOnce(rows, "live", live)
    /\ (Distinct(declared) /\ Distinct(spec) /\ Distinct(live)) => OneRowEach(rows)

\* Every row is drawn in one place of the mounts view.
SplitOnce(rows) ==
    LET parts == splitMounts(rows) IN
    \A i \in DOMAIN rows : Cardinality({f \in DOMAIN parts : i \in parts[f]}) = 1
=============================================================================
