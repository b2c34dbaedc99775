----------------------------- MODULE LayerMerge -----------------------------
(***************************************************************************)
(* The merged file browser of the image page: mergeLayerDir of             *)
(* image_detail.go lists one directory of all layers, lowest first, with   *)
(* the names later layers deleted (.wh.<name>) or hid (.wh..wh..opq).      *)
(*                                                                         *)
(* A layer is [path, root, sub]: whether its directory is known, and the   *)
(* listings of its root and of the directory Sub there.  A listing is a    *)
(* sequence of entries, as os.ReadDir returns it.  Names are model values. *)
(***************************************************************************)
EXTENDS Integers, SequencesExt

CONSTANTS Name, Sub

Entry == [kind : {"file", "dir", "whiteout"}, name : Name] \cup [kind : {"opaque"}, name : {Sub}]

\* A directory lists no name together with its whiteout.
Listing ==
    {s \in Seq(Entry) : \A i, j \in DOMAIN s :
        s[i].kind = "whiteout" /\ s[j].kind \in {"file", "dir"} => s[i].name # s[j].name}

Layer == [path : BOOLEAN, root : Listing, sub : Listing]

\* What is found so far: the layer a name is visible from and the layer that
\* deleted it, -1 for none.
Nothing == [vis |-> [n \in Name |-> -1], del |-> [n \in Name |-> -1]]

HideBelow(f, i) == [n \in Name |-> IF f[n] < i THEN -1 ELSE f[n]]

\* A bug for the checks: opaque markers are skipped.
ApplyIgnoringOpaque(found, i, e) ==
    CASE e.kind = "opaque" -> found
      [] e.kind = "whiteout" ->
            [vis |-> [found.vis EXCEPT ![e.name] = -1], del |-> [found.del EXCEPT ![e.name] = i]]
      [] OTHER ->
            [vis |-> [found.vis EXCEPT ![e.name] = i], del |-> [found.del EXCEPT ![e.name] = -1]]

Apply(found, i, e) ==
    CASE e.kind = "opaque" ->
            [vis |-> HideBelow(found.vis, i), del |-> HideBelow(found.del, i)]
      [] e.kind = "whiteout" ->
            [vis |-> [found.vis EXCEPT ![e.name] = -1], del |-> [found.del EXCEPT ![e.name] = i]]
      [] OTHER ->
            [vis |-> [found.vis EXCEPT ![e.name] = i], del |-> [found.del EXCEPT ![e.name] = -1]]

\* The loop over the entries of a layer: what is found after each of them.
AfterEntries(found, i, listing) ==
    LET after[n \in 0..Len(listing)] ==
            IF n = 0 THEN found ELSE Apply(after[n - 1], i, listing[n])
    IN  after

\* A layer without a path, or without the directory, is skipped.
ApplyLayer(found, i, layer, relDir) ==
    IF layer.path THEN AfterEntries(found, i, layer[relDir])[Len(layer[relDir])] ELSE found

\* The loop over the layers.
AfterLayers(layers, relDir) ==
    LET after[k \in 0..Len(layers)] ==
            IF k = 0 THEN Nothing ELSE ApplyLayer(after[k - 1], k - 1, layers[k], relDir)
    IN  after

\* relDir is "root" or "sub".
mergeLayerDir(layers, relDir) == AfterLayers(layers, relDir)[Len(layers)]

-----------------------------------------------------------------------------
\* The reference: overlay semantics over the layers whose path is known.

Has(layers, k, relDir, kinds, n) ==
    layers[k].path /\ \E e \in ToSet(layers[k][relDir]) : e.kind \in kinds /\ e.name = n

Opaque(layers, k, relDir) ==
    layers[k].path /\ \E e \in ToSet(layers[k][relDir]) : e.kind = "opaque"

\* Of the layers up to top, k provides n in the directory and none above takes
\* it away there.
Provides(layers, k, top, relDir, n) ==
    /\ Has(layers, k, relDir, {"file", "dir"}, n)
    /\ \A j \in k+1..top : ~Has(layers, j, relDir, {"whiteout"}, n) /\ ~Opaque(layers, j, relDir)

\* Of the layers up to top, k deletes n and none above has it again, or has
\* nothing left to delete it from.
Deletes(layers, k, top, relDir, n) ==
    /\ Has(layers, k, relDir, {"whiteout"}, n)
    /\ \A j \in k+1..top : ~Has(layers, j, relDir, {"file", "dir"}, n) /\ ~Opaque(layers, j, relDir)

\* v names the last of the layers in K.
IsLast(v, K) == IF K = {} THEN v = -1 ELSE v + 1 \in K /\ \A k \in K : k - 1 <= v

\* A listing of the merged directory is that of an overlay mount of the layers
\* up to top.
Overlay(found, layers, top, relDir) ==
    \A n \in Name :
        /\ IsLast(found.vis[n], {k \in 1..top : Provides(layers, k, top, relDir, n)})
        /\ IsLast(found.del[n], {k \in 1..top : Deletes(layers, k, top, relDir, n)})
        /\ found.vis[n] = -1 \/ found.del[n] = -1

\* The merged browser lists a directory as an overlay mount of the layers
\* would, each name from the highest layer that has it; the names listed as
\* deleted are those a layer deleted that was not overruled, and nothing shows
\* them.  For mergeLayerDir, whatever the order in which os.ReadDir lists
\* markers and files.
MergedAsOverlay(layers, relDir) ==
    Overlay(mergeLayerDir(layers, relDir), layers, Len(layers), relDir)

\* In a directory the layers above may take away whole: by its whiteout, an
\* opaque marker of its parent, or a file of its name.
HidesSub(layers, j) ==
    Has(layers, j, "root", {"whiteout", "file"}, Sub) \/ Opaque(layers, j, "root")

VisibleInSub(layers) ==
    {n \in Name : \E k \in DOMAIN layers :
        /\ Provides(layers, k, Len(layers), "sub", n)
        /\ \A j \in k+1..Len(layers) : ~HidesSub(layers, j)}

\* The comment at image_detail.go:1328, "applying OCI overlay semantics
\* (whiteouts, opaques)", of a directory below the root that the browser shows
\* and lets one open: the code looks at the markers inside the directory and
\* not at those of the directories above.
SubMergedAsOverlay(layers) ==
    mergeLayerDir(layers, "root").vis[Sub] # -1 =>
        {n \in Name : mergeLayerDir(layers, "sub").vis[n] # -1} = VisibleInSub(layers)
=============================================================================
