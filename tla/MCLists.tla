------------------------------ MODULE MCLists ------------------------------
(***************************************************************************)
(* Small instances of ListsAndAlgorithms: every input of a small domain.   *)
(*                                                                         *)
(* Two images, one of them under two names, two refreshes at once; three   *)
(* more processes besides the container's init; three layers; sources of   *)
(* up to two mounts.                                                       *)
(***************************************************************************)
EXTENDS ListsAndAlgorithms, SequencesExt, TLC

CONSTANTS
    A, B, R1, R2,
    NName, NSub,        \* names of files; NSub is a directory's
    Deep                \* bound: what stands in the directory NSub of a layer

TwoImages  == {A, B}
RowCount     == (A :> 2) @@ (B :> 1)
ThreeLists == {<<>>, <<B>>, <<A, B>>}
Symmetry   == Permutations({R1, R2})

\* A directory lists a name once, and a name and its whiteout in any order but
\* never both.
File(n) == [kind |-> "file", name |-> n]
DirEntries == {File(NName), [kind |-> "whiteout", name |-> NName], [kind |-> "dir", name |-> NSub],
            [kind |-> "whiteout", name |-> NSub], [kind |-> "opaque", name |-> NSub]}
Listings == {s \in SeqOf(DirEntries, 2) :
                Len(s) = 2 => s[1] # s[2] /\ (s[1].name = s[2].name =>
                                                "opaque" \in {s[1].kind, s[2].kind})}
SubListings == IF Deep = 0 THEN {<<>>} ELSE {<<>>, <<File(NName)>>}

\* What has files in the directory has the directory.
Layers == {l \in [path : BOOLEAN, root : Listings, sub : SubListings] :
              l.sub # <<>> => \E i \in DOMAIN l.root : l.root[i].kind = "dir"}

Names       == {NName, NSub}
ThreeLayers == {<<l1, l2, l3>> : l1, l2, l3 \in Layers}

Dests    == {"/", "/run/secrets", "/var/run/secrets"}
Clean    == [d \in Dests |-> IF d = "/var/run/secrets" THEN "/run/secrets" ELSE d]
UpToTwo  == SeqOf(Dests, 2)
=============================================================================
