---------------------------- MODULE DockerHandle ----------------------------
(***************************************************************************)
(* What the methods of Docker's container handle ask (pkg/runtime/docker/  *)
(* container.go).  All of the container's inspection is kept, its state    *)
(* and its process too; nothing asks the daemon for the process again.     *)
(***************************************************************************)
EXTENDS Questions

Kept == {"inspect"}

\* GetContainer inspects; ListContainers does not.
Given == Kept

\* With the summary of a list at hand, Info does without the inspection.
Info         == <<Keep("inspect"), Recall("inspect")>>
Config       == <<Need("inspect"), Recall("inspect"), Read>>
State        == <<Need("inspect"), Recall("inspect"), Read>>
CGroup       == <<Need("inspect"), Recall("inspect"), Read>>
Network      == <<Need("inspect"), Recall("inspect"), Read>>
Storage      == <<Need("inspect"), Recall("inspect"), Read>>
Mounts       == <<Need("inspect"), Recall("inspect"), Read>>
Runtime      == <<Need("inspect"), Recall("inspect"), Read>>
RWLayerStats == <<Need("inspect"), Recall("inspect"), Read>>
Processes    == <<Need("inspect"), Recall("inspect"), Running, Read>>
ProcessStats == <<Need("inspect"), Recall("inspect"), Running, Keep("inspect"), Read>>
Image        == <<Need("inspect")>>
Stdio        == <<Need("inspect"), Recall("inspect"), Read>>

Asks == [Info |-> Info, Config |-> Config, State |-> State, CGroup |-> CGroup,
         Network |-> Network, Storage |-> Storage, Mounts |-> Mounts, Runtime |-> Runtime,
         RWLayerStats |-> RWLayerStats, Processes |-> Processes,
         ProcessStats |-> ProcessStats, Image |-> Image, Stdio |-> Stdio]
=============================================================================
