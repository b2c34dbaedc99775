--------------------------- MODULE MCImageDetail ---------------------------
(* ImageDetail with an image of two layers, one of them without a directory, *)
(* and an image of one layer.                                                *)
EXTENDS ImageDetail, TLC

CONSTANTS A, B, R1, R2

Symmetry  == Permutations({R1, R2})
Images    == {A, B}
LayersOf  == (A :> 2) @@ (B :> 1)
Dirs      == (A :> {1}) @@ (B :> {0})
=============================================================================
