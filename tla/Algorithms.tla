----------------------------- MODULE Algorithms -----------------------------
(***************************************************************************)
(* The computations that have no state, each on any input: the merged      *)
(* directory (LayerMerge), the mounts (MountMerge), the runtime that is    *)
(* detected (Detection).  A behaviour chooses one input.                   *)
(***************************************************************************)
EXTENDS Sequences

CONSTANTS
    FileName, SubDir,   \* names in the layers' directories; SubDir is a directory's
    LayerLists,         \* the layers of an image, of which one is chosen
    Normal, Injected, Root,     \* the destinations of mounts, as in MountMerge
    Sources             \* the mounts a source may name

VARIABLE input

LM == INSTANCE LayerMerge WITH Name <- FileName, Sub <- SubDir
MM == INSTANCE MountMerge
DT == INSTANCE Detection

\* An image has layers, a source of mounts names destinations.
ASSUME LayersAssumption == LayerLists \subseteq Seq(LM!Layer)
ASSUME MountsAssumption == Sources \subseteq Seq(DOMAIN Normal)

NoInput == [kind |-> "none"]

ChooseLayers == \E l \in LayerLists : input' = [kind |-> "layers", layers |-> l]

ChooseCRIMounts ==
    \E config, status, spec, live \in Sources :
        input' = [kind |-> "cri", config |-> config, status |-> status, spec |-> spec, live |-> live]

ChooseDockerMounts ==
    \E declared, spec, live \in Sources :
        input' = [kind |-> "docker", declared |-> declared, spec |-> spec, live |-> live]

ChooseDaemons == \E a \in DT!Deployments : input' = [kind |-> "daemons", at |-> a]

Choose ==
    /\ input = NoInput
    /\ ChooseLayers \/ ChooseCRIMounts \/ ChooseDockerMounts \/ ChooseDaemons

ChooseSpec == input = NoInput /\ [][Choose]_input

-----------------------------------------------------------------------------
\* The properties of LayerMerge, MountMerge and Detection, on the input chosen:
\* the merged browser shows what an overlay mount of the layers would.
MergedIsOverlay == input.kind = "layers" => LM!MergedAsOverlay(input.layers, "root")

\* The same of a directory below the root, as the comment at
\* image_detail.go:1328 has it.
SubMergedIsOverlay == input.kind = "layers" => LM!SubMergedAsOverlay(input.layers)

\* No mount is lost and none is shown twice, in the list and in its groups.
MountsAreMergedOnce ==
    /\ input.kind = "cri" =>
         /\ MM!CRIMergedOnce(input.config, input.status, input.spec, input.live)
         /\ MM!SplitOnce(MM!MergeMountSources(input.config, input.status, input.spec, input.live))
    /\ input.kind = "docker" =>
         /\ MM!DockerMergedOnce(input.declared, input.spec, input.live)
         /\ MM!SplitOnce(MM!mergeDockerMounts(input.declared, input.spec, input.live))

\* A socket that is found and the same one named are taken for the same runtime.
DetectionAgrees == input.kind = "daemons" => DT!ExplicitAgreesWithAuto(input.at)
=============================================================================
