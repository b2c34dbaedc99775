-------------------------- MODULE ContainerdHandle --------------------------
(***************************************************************************)
(* What the methods of containerd's container handle ask (pkg/runtime/     *)
(* containerd/container.go).  The OCI spec, the CRI status and the CRI     *)
(* mounts are kept; the containerd record comes with the handle; the task  *)
(* is asked for anew.                                                      *)
(***************************************************************************)
EXTENDS Questions

Kept == {"spec", "status", "mounts"}
Given == {}

Info         == <<Keep("status"), Ask>>
Config       == <<Need("spec"), Keep("status")>>
State        == <<Keep("status"), Ask, Read>>
CGroup       == <<Need("spec"), Ask, Read>>
Network      == <<Keep("spec"), Ask, Read>>
Storage      == <<Keep("spec")>>
Mounts       == <<Need("spec"), Keep("mounts"), Ask, Read>>
Runtime      == <<Keep("spec"), Ask, Read>>
Processes    == <<Ask, Running, Read>>
ProcessStats == <<Ask, Running, Keep("spec"), Read>>
Stdio        == <<Keep("spec"), Keep("status"), Ask, Read>>

\* Image and RWLayerStats ask nothing of these: the image service and the
\* snapshotter answer them.
Asks == [Info |-> Info, Config |-> Config, State |-> State, CGroup |-> CGroup,
         Network |-> Network, Storage |-> Storage, Mounts |-> Mounts, Runtime |-> Runtime,
         Processes |-> Processes, ProcessStats |-> ProcessStats, Stdio |-> Stdio]
=============================================================================
