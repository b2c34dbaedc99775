----------------------------- MODULE ImageList -----------------------------
(***************************************************************************)
(* The image list of the main page (pkg/ui/views/image_list.go).  Refresh  *)
(* runs in a goroutine (the 3 s ticker, the r key, a tab switch) and       *)
(* replaces v.entries without a lock; the closure it queues then rebuilds  *)
(* the table and the two row maps on the UI goroutine from whatever        *)
(* v.entries is by then.  Keys pressed in between go through the old maps. *)
(*                                                                         *)
(* A slice is a pointer and a length, stored one after the other, in an    *)
(* order the compiler chooses: a reader in between combines the array of   *)
(* one list with the length of another.  Indexing past a slice panics;     *)
(* reading past the array of a torn slice is taken as a crash as well.     *)
(***************************************************************************)
EXTENDS Naturals, SequencesExt

CONSTANTS
    Image,              \* images, by digest
    Rows,               \* how many rows an image has: one per visible name
    Lists,              \* what the runtime may answer: sequences of images
    NoImage,            \* nil
    Notice,             \* a row of text: loading, or an error
    Refresher           \* bound: Refresh calls under way at once

ASSUME RowsAssumption == Rows \in [Image -> Nat \ {0}]
ASSUME ListsAssumption == Lists \subseteq Seq(Image)

VARIABLES
    entries,            \* v.entries: an array and a length
    rowMap,             \* v.rowMap: data row -> entries index
    entryPrimaryRow,    \* v.entryPrimaryRow: entries index -> data row
    table,              \* what each data row of the table shows
    cursor,             \* the selected data row
    ui,                 \* the closure the UI goroutine is in, and where
    pc,                 \* where each Refresh is
    saved,              \* Refresh: savedSelection
    answer,             \* Refresh: the list it stores
    closure,            \* what each Refresh queued
    opened,             \* the last Enter: the row shown, the image opened
    crashed             \* an index out of range, or a read past an array

listVars == <<entries, rowMap, entryPrimaryRow, table, cursor>>
loadVars == <<pc, saved, answer, closure>>
vars     == <<listVars, ui, loadVars, opened, crashed>>

\* The rows of the i-th entry, and of all before it.
RowsOf(list, i)     == {i} \X (1..Rows[list[i]])
RowsBefore(list, i) == Cardinality(UNION {RowsOf(list, j) : j \in 1..i - 1})

\* The first data row of the i-th entry.
PrimaryRow(list, i) == RowsBefore(list, i) + 1

\* The indices of list, each as often as its image has rows: a data row belongs
\* to the last entry that begins at or before it.
RowMapOf(list) ==
    [row \in 1..RowsBefore(list, Len(list) + 1) |->
        Cardinality({i \in DOMAIN list : PrimaryRow(list, i) <= row})]

Cell    == Image \cup {Notice}
Idle    == [at |-> "idle", wanted |-> NoImage]
NoList  == [list |-> <<>>, ok |-> FALSE]

TypeOK ==
    /\ entries \in [arr : Lists \cup {<<>>}, len : Nat]
    /\ rowMap \in Seq(Nat \ {0})
    /\ entryPrimaryRow \in Seq(Nat)
    /\ table \in Seq(Cell)
    /\ cursor \in Nat
    /\ ui \in [at : {"idle", "fill", "status", "restore", "selected"},
              wanted : Image \cup {NoImage}]
    /\ pc \in [Refresher -> {"idle", "list", "store", "arr", "len"}]
    /\ saved \in [Refresher -> Image \cup {NoImage}]
    /\ answer \in [Refresher -> [list : Lists \cup {<<>>}, ok : BOOLEAN]]
    /\ closure \in [Refresher -> {"none", "render", "error"}]
    /\ opened \in [shown : Cell \cup {NoImage}, image : Image \cup {NoImage}]
    /\ crashed \in BOOLEAN

Init ==
    /\ entries = [arr |-> <<>>, len |-> 0]
    /\ rowMap = <<>> /\ entryPrimaryRow = <<>>
    /\ table = <<Notice>> /\ cursor = 1
    /\ ui = Idle
    /\ pc = [r \in Refresher |-> "idle"]
    /\ saved = [r \in Refresher |-> NoImage]
    /\ answer = [r \in Refresher |-> NoList]
    /\ closure = [r \in Refresher |-> "none"]
    /\ opened = [shown |-> NoImage, image |-> NoImage]
    /\ crashed = FALSE

-----------------------------------------------------------------------------
(***************************************************************************)
(* Reading the entries.                                                    *)
(***************************************************************************)

\* Ranging over v.entries reads past its array.
Torn == entries.len > Len(entries.arr)

Entries == SubSeq(entries.arr, 1, entries.len)

\* entryForDataRow: whether the row has an entry, whether fetching it is sound.
HasEntry(row)   == row \in DOMAIN rowMap /\ rowMap[row] <= entries.len
WildEntry(row)  == HasEntry(row) /\ rowMap[row] > Len(entries.arr)
EntryForRow(row) == IF HasEntry(row) THEN entries.arr[rowMap[row]] ELSE NoImage

-----------------------------------------------------------------------------
(***************************************************************************)
(* Refresh, in a goroutine.                                                *)
(***************************************************************************)

BeginRefresh(r) ==
    /\ ~crashed /\ pc[r] = "idle" /\ closure[r] = "none"
    /\ IF WildEntry(cursor)
       THEN crashed' = TRUE /\ UNCHANGED <<pc, saved>>
       ELSE /\ saved' = [saved EXCEPT ![r] = EntryForRow(cursor)]
            /\ pc' = [pc EXCEPT ![r] = "list"]
            /\ UNCHANGED crashed
    /\ UNCHANGED <<listVars, ui, answer, closure, opened>>

\* ListImages and each Info answer; an error makes the list nil.
ListImages(r) ==
    /\ ~crashed /\ pc[r] = "list"
    /\ \E a \in [list : Lists, ok : {TRUE}] \cup {NoList} :
          answer' = [answer EXCEPT ![r] = a]
    /\ pc' = [pc EXCEPT ![r] = "store"]
    /\ UNCHANGED <<listVars, ui, saved, closure, opened, crashed>>

\* v.entries = entries: the array and the length, in either order.
StoreHalf(r) ==
    /\ ~crashed /\ pc[r] = "store"
    /\ \/ /\ entries' = [entries EXCEPT !.arr = answer[r].list]
          /\ pc' = [pc EXCEPT ![r] = "arr"]
       \/ /\ entries' = [entries EXCEPT !.len = Len(answer[r].list)]
          /\ pc' = [pc EXCEPT ![r] = "len"]
    /\ UNCHANGED <<rowMap, entryPrimaryRow, table, cursor, ui, saved, answer,
                   closure, opened, crashed>>

\* The other half, and the closure is queued, with the saved selection in it.
StoreLast(r, last) ==
    /\ ~crashed /\ pc[r] \in {"arr", "len"}
    /\ entries' = IF pc[r] = "arr"
                  THEN [entries EXCEPT !.len = Len(answer[r].list)]
                  ELSE [entries EXCEPT !.arr = answer[r].list]
    /\ closure' = [closure EXCEPT ![r] = last]
    /\ answer' = [answer EXCEPT ![r] = NoList]
    /\ pc' = [pc EXCEPT ![r] = "idle"]
    /\ UNCHANGED <<rowMap, entryPrimaryRow, table, cursor, ui, saved, opened, crashed>>

\* A mutant: the error path drops the entries and queues no redraw.
StoreRestSilently(r) == StoreLast(r, IF answer[r].ok THEN "render" ELSE "none")

StoreRest(r) == StoreLast(r, IF answer[r].ok THEN "render" ELSE "error")

Refresh(r) == BeginRefresh(r) \/ ListImages(r) \/ StoreHalf(r) \/ StoreRest(r)

-----------------------------------------------------------------------------
(***************************************************************************)
(* The closures, on the UI goroutine.  The entries may change between any  *)
(* two of their steps.                                                     *)
(***************************************************************************)

RunError(r) ==
    /\ ~crashed /\ ui.at = "idle" /\ closure[r] = "error"
    /\ table' = <<Notice>>
    /\ closure' = [closure EXCEPT ![r] = "none"]
    /\ saved' = [saved EXCEPT ![r] = NoImage]
    /\ UNCHANGED <<entries, rowMap, entryPrimaryRow, cursor, ui, pc, answer,
                   opened, crashed>>

\* renderFlat up to its loop: the table and the row map are emptied, and a
\* row number is allocated for each entry there is now.
StartRender(r, rows) ==
    /\ ~crashed /\ ui.at = "idle" /\ closure[r] = "render"
    /\ table' = <<>> /\ rowMap' = rows
    /\ entryPrimaryRow' = [i \in 1..entries.len |-> 0]
    /\ closure' = [closure EXCEPT ![r] = "none"]
    /\ ui' = [at |-> "fill", wanted |-> saved[r]]
    /\ saved' = [saved EXCEPT ![r] = NoImage]
    /\ UNCHANGED <<entries, cursor, pc, answer, opened, crashed>>

\* A mutant: the row map is appended to and never emptied.
BeginRenderAppending(r) == StartRender(r, rowMap)

BeginRender(r) == StartRender(r, <<>>)

\* The loop of renderFlat, over the entries as they are now.
Fill ==
    /\ ~crashed /\ ui.at = "fill"
    /\ IF Torn \/ entries.len > Len(entryPrimaryRow)
       THEN crashed' = TRUE /\ UNCHANGED <<rowMap, table, entryPrimaryRow, ui>>
       ELSE LET rows == RowMapOf(Entries)
            IN  /\ rowMap' = rowMap \o rows
                /\ table' = table \o [k \in DOMAIN rows |-> Entries[rows[k]]]
                /\ entryPrimaryRow' =
                      [i \in DOMAIN entryPrimaryRow |->
                          IF i \in DOMAIN Entries THEN PrimaryRow(Entries, i) ELSE 0]
                /\ ui' = [ui EXCEPT !.at = "status"]
                /\ UNCHANGED crashed
    /\ UNCHANGED <<entries, cursor, loadVars, opened>>

\* updateStatusBar sums up the entries and looks at the selected one: after
\* renderFlat, and again when restoreSelection has moved the selection.
UpdateStatusBar ==
    /\ ~crashed /\ ui.at \in {"status", "selected"}
    /\ crashed' = (Torn \/ WildEntry(cursor))
    /\ ui' = IF ui.at = "status" THEN [ui EXCEPT !.at = "restore"] ELSE Idle
    /\ UNCHANGED <<listVars, loadVars, opened>>

\* table.Select: the callback updates the status bar, unless on the header.
Select(row) ==
    /\ cursor' = row
    /\ ui' = IF row > 0 THEN [Idle EXCEPT !.at = "selected"] ELSE Idle
    /\ UNCHANGED crashed

\* restoreSelection: the saved image's first row, else the first row.
RestoreSelection ==
    /\ ~crashed /\ ui.at = "restore"
    /\ LET found == {i \in 1..entries.len :
                        i \in DOMAIN entries.arr /\ entries.arr[i] = ui.wanted}
       IN  CASE table = <<>> ->
                    ui' = Idle /\ UNCHANGED <<cursor, crashed>>
             [] table # <<>> /\ found # {} /\ Min(found) \in DOMAIN entryPrimaryRow ->
                    Select(entryPrimaryRow[Min(found)])
             [] table # <<>> /\ found = {} /\ ~Torn /\ entryPrimaryRow # <<>> ->
                    Select(entryPrimaryRow[1])
             [] table # <<>> /\ found = {} /\ ~Torn /\ entryPrimaryRow = <<>> ->
                    ui' = Idle /\ UNCHANGED <<cursor, crashed>>
             [] OTHER ->
                    crashed' = TRUE /\ UNCHANGED <<cursor, ui>>
    /\ UNCHANGED <<entries, rowMap, entryPrimaryRow, table, loadVars, opened>>

RunClosures ==
    \/ \E r \in Refresher : RunError(r) \/ BeginRender(r)
    \/ Fill \/ UpdateStatusBar \/ RestoreSelection

-----------------------------------------------------------------------------
(***************************************************************************)
(* Keys on the list.                                                       *)
(***************************************************************************)

\* The arrow keys; the selection callback updates the status bar.
Move(row) ==
    /\ ~crashed /\ ui.at = "idle" /\ row # cursor
    /\ cursor' = row
    /\ crashed' = (Torn \/ WildEntry(row))
    /\ UNCHANGED <<entries, rowMap, entryPrimaryRow, table, ui, loadVars, opened>>

\* Enter opens the entry the row leads to, if there is one.
Enter ==
    /\ ~crashed /\ ui.at = "idle" /\ HasEntry(cursor)
    /\ IF WildEntry(cursor)
       THEN crashed' = TRUE /\ UNCHANGED opened
       ELSE /\ opened' = [shown |-> IF cursor \in DOMAIN table THEN table[cursor]
                                    ELSE NoImage,
                          image |-> EntryForRow(cursor)]
            /\ UNCHANGED crashed
    /\ UNCHANGED <<listVars, ui, loadVars>>

Next ==
    \/ \E r \in Refresher : Refresh(r)
    \/ RunClosures
    \/ \E row \in DOMAIN table : Move(row)
    \/ Enter

Spec == Init /\ [][Next]_vars

-----------------------------------------------------------------------------
(***************************************************************************)
(* Properties.                                                             *)
(***************************************************************************)

\* No refresh is under way and no closure waits.
Quiet ==
    /\ ui.at = "idle" /\ ~crashed
    /\ \A r \in Refresher : pc[r] = "idle" /\ closure[r] = "none"

\* Whatever refreshes overlapped, failed, and drew in whatever order: once all
\* is quiet, every image row leads to the entry it shows.
QuietRowsLeadToTheirEntries ==
    Quiet => \A row \in DOMAIN table : table[row] # Notice =>
                 EntryForRow(row) = table[row]

\* "Open selected resource detail": Enter opens the image its row shows.
EnterOpensShownImage ==
    opened.image = opened.shown

\* "entries index -> primary table row (1-based)", "data-row (0-based) ->
\* entries index": the maps cover the lists they are indexed with.
MapsCoverEntries == ~crashed
=============================================================================
