----------------------------- MODULE CrioHandle -----------------------------
(***************************************************************************)
(* What the methods of CRI-O's container handle ask (pkg/runtime/crio/     *)
(* container.go), for a container that CRI listed (see Supplement for the  *)
(* others).  The spec, the labels from the CRI status and the CRI mounts   *)
(* are kept; the process is asked for anew, from a status of its own.      *)
(***************************************************************************)
EXTENDS Questions

Kept == {"spec", "status", "mounts"}
Given == {}

Info         == <<Keep("status"), Ask>>
Config       == <<Keep("status"), Keep("spec")>>
State        == <<Keep("status"), Ask, Read>>
CGroup       == <<Keep("spec"), Ask, Read>>
Network      == <<Keep("status"), Keep("spec"), Ask, Read>>
Storage      == <<Keep("spec"), Keep("status")>>
Mounts       == <<Keep("spec"), Keep("mounts"), Ask, Read>>
Runtime      == <<Keep("status"), Keep("spec"), Ask, Read>>
RWLayerStats == <<Ask, Read>>
Processes    == <<Ask, Running, Read>>
ProcessStats == <<Ask, Running, Keep("spec"), Read>>
Image        == <<Keep("status")>>
Stdio        == <<Keep("status"), Keep("spec"), Ask, Read>>

Asks == [Info |-> Info, Config |-> Config, State |-> State, CGroup |-> CGroup,
         Network |-> Network, Storage |-> Storage, Mounts |-> Mounts, Runtime |-> Runtime,
         RWLayerStats |-> RWLayerStats, Processes |-> Processes,
         ProcessStats |-> ProcessStats, Image |-> Image, Stdio |-> Stdio]
=============================================================================
