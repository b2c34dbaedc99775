----------------------------- MODULE ListsProofs -----------------------------
(***************************************************************************)
(* Proofs about the image list, for any images and refreshes; about the    *)
(* host PIDs of a container's processes, for any processes; and about the  *)
(* computations of Algorithms, for any layers, mounts and daemons.  Their  *)
(* loops are recursive functions; what holds after every round is proved   *)
(* from a first round at which it would fail (Rounds).                     *)
(***************************************************************************)
EXTENDS ListsAndAlgorithms, FiniteSetTheorems, SequenceTheorems, WellFoundedInduction, TLAPS

(***************************************************************************)
(* The image list.                                                         *)
(***************************************************************************)

\* As many processes have come as were counted.
LEMMA FirstNumbers ==
    ASSUME NEW b \in Nat
    PROVE  IsFiniteSet(1..b) /\ Cardinality(1..b) = b
<1>1. 1 \in Int /\ b \in Int  OBVIOUS
<1> QED  BY <1>1, FS_Interval

\* How many rows some entries have is a number.
LEMMA RowsAreCounted ==
    ASSUME NEW list \in Seq(Image), NEW n \in 1..Len(list) + 1
    PROVE  RowsBefore(list, n) \in Nat
<1> DEFINE I == 1..n - 1
           T == {RowsOf(list, j) : j \in I}
           f == [j \in I |-> RowsOf(list, j)]
<1>1. IsFiniteSet(I)  BY FS_Interval
<1>2. f \in Surjection(I, T)  BY DEF Surjection
<1>3. IsFiniteSet(T)  BY <1>1, <1>2, FS_Surjection
<1>4. ASSUME NEW j \in I PROVE IsFiniteSet(RowsOf(list, j))
  <2>1. Rows[list[j]] \in Nat  BY RowsAssumption
  <2>2. IsFiniteSet({j})  BY FS_Singleton
  <2>3. IsFiniteSet(1..Rows[list[j]])  BY <2>1, FirstNumbers
  <2> QED  BY <2>2, <2>3, FS_Product DEF RowsOf
<1>5. IsFiniteSet(UNION T)  BY <1>3, <1>4, FS_UNION
<1> QED  BY <1>5, FS_CardinalityType DEF RowsBefore

\* A data row belongs to an entry of the list.
LEMMA RowsHaveEntries ==
    ASSUME NEW list \in Seq(Image)
    PROVE  /\ RowMapOf(list) \in Seq(1..Len(list))
           /\ \A row \in DOMAIN RowMapOf(list) : RowMapOf(list)[row] \in 1..Len(list)
<1> DEFINE count == RowsBefore(list, Len(list) + 1)
           begun(row) == {i \in DOMAIN list : PrimaryRow(list, i) <= row}
<1>1. count \in Nat  BY RowsAreCounted
<1>2. ASSUME NEW row \in 1..count PROVE Cardinality(begun(row)) \in 1..Len(list)
  <2>1. DOMAIN list = 1..Len(list) /\ Len(list) \in Nat  OBVIOUS
  <2>2. IsFiniteSet(1..Len(list)) /\ Cardinality(1..Len(list)) = Len(list)  BY <2>1, FirstNumbers
  <2>3. begun(row) \in SUBSET (1..Len(list))  BY <2>1
  <2>4. IsFiniteSet(begun(row)) /\ Cardinality(begun(row)) <= Len(list)
    BY <2>2, <2>3, FS_Subset
  <2>5. Cardinality(begun(row)) \in Nat  BY <2>4, FS_CardinalityType
  <2>6. RowsBefore(list, 1) = 0
    <3>1. UNION {RowsOf(list, j) : j \in 1..1 - 1} = {}  OBVIOUS
    <3> QED  BY <3>1, FS_EmptySet DEF RowsBefore
  <2>7. 1 \in begun(row)
    <3>1. Len(list) # 0
      <4>1. ASSUME Len(list) = 0 PROVE FALSE  BY <1>1, <2>6, <4>1
      <4> QED  BY <4>1
    <3> QED  BY <2>1, <2>6, <3>1 DEF PrimaryRow
  <2>8. Cardinality(begun(row)) # 0  BY <2>4, <2>7, FS_EmptySet
  <2> QED  BY <2>1, <2>4, <2>5, <2>8
<1>3. RowMapOf(list) = [row \in 1..count |-> Cardinality(begun(row))]  BY DEF RowMapOf
<1> HIDE DEF count, begun
<1> QED  BY <1>1, <1>2, <1>3

\* The types that matter: an array of images and a length.
Answers == [list : Lists \cup {<<>>}, ok : BOOLEAN]
ListsTyped ==
    /\ entries \in [arr : Lists \cup {<<>>}, len : Nat]
    /\ ui = [at |-> ui.at, wanted |-> ui.wanted]
    /\ pc \in [Refresher -> {"idle", "list", "store", "arr", "len"}]
    /\ answer \in [Refresher -> Answers]
    /\ closure \in [Refresher -> {"none", "render", "error"}]

\* The table and the map are filled from nothing.
Emptied == ui.at = "fill" => table = <<>> /\ rowMap = <<>>

RowsLead == \A row \in DOMAIN table : table[row] # Notice => EntryForRow(row) = table[row]

\* A refresh is between its two halves, or has a closure waiting.
Late(r) == pc[r] \in {"arr", "len"} \/ closure[r] # "none"

\* Rows that do not lead to their entries are about to be drawn again.
Follows == RowsLead \/ crashed \/ ui.at = "fill" \/ \E r \in Refresher : Late(r)

ListsInv == ListsTyped /\ Emptied /\ Follows

\* The lists and their prefixes are lists of images.
LEMMA EntriesAreImages ==
    ASSUME ListsTyped, ~Torn
    PROVE  /\ Entries \in Seq(Image) /\ Len(Entries) = entries.len
           /\ \A i \in 1..entries.len : Entries[i] = entries.arr[i]
<1>1. entries.arr \in Seq(Image) /\ entries.len \in Nat /\ entries.len <= Len(entries.arr)
  <2>1. entries \in [arr : Lists \cup {<<>>}, len : Nat]  BY DEF ListsTyped
  <2>2. entries.arr \in Seq(Image) /\ entries.len \in Nat
    <3>1. <<>> \in Seq(Image)  OBVIOUS
    <3>2. Lists \cup {<<>>} \subseteq Seq(Image)  BY <3>1, ListsAssumption
    <3>3. entries.arr \in Lists \cup {<<>>} /\ entries.len \in Nat  BY <2>1
    <3> QED  BY <3>2, <3>3
  <2> QED  BY <2>2 DEF Torn
<1>2. \A i \in 1..entries.len : entries.arr[i] \in Image  BY <1>1
<1> DEFINE arr == entries.arr
           len == entries.len
<1>3. 1 \in Int /\ len \in Int  BY <1>1
<1>4. \A i \in 1..len : arr[i] \in Image  BY <1>2
<1> HIDE DEF arr, len
<1>5. /\ SubSeq(arr, 1, len) \in Seq(Image)
      /\ Len(SubSeq(arr, 1, len)) = IF 1 <= len THEN len - 1 + 1 ELSE 0
      /\ \A i \in 1..len - 1 + 1 : SubSeq(arr, 1, len)[i] = arr[1 + i - 1]
  <2>1. \A i \in 1..len - 1 + 1 : arr[i + 1 - 1] = arr[1 + i - 1]  BY <1>3
  <2> QED  BY <1>3, <1>4, <2>1, SubSeqProperties
<1> USE DEF arr, len
<1> QED  BY <1>1, <1>5 DEF Entries

\* The image list starts empty.
LEMMA ListsBegin == Init => ListsInv
<1> SUFFICES ASSUME Init PROVE ListsInv  OBVIOUS
<1>1. ListsTyped
  <2>1. NoList \in Answers  BY DEF NoList, Answers
  <2>2. ui = [at |-> ui.at, wanted |-> ui.wanted]  BY DEF Init, Idle
  <2> QED  BY <2>1, <2>2 DEF Init, ListsTyped
<1>2. Emptied  BY DEF Init, Emptied, Idle
<1>3. RowsLead  BY DEF Init, RowsLead
<1> QED  BY <1>1, <1>2, <1>3 DEF ListsInv, Follows

\* The steps of a Refresh of the image list, the torn stores among them.
LEMMA RefreshKeeps ==
    ASSUME ListsInv, NEW r \in Refresher, Refresh(r)
    PROVE  ListsInv'
<1> USE DEF ListsInv
<1>1. CASE BeginRefresh(r)
  <2>1. ListsTyped' /\ Emptied'  BY <1>1 DEF BeginRefresh, ListsTyped, Emptied, listVars
  <2>2. Follows'  BY <1>1 DEF BeginRefresh, ListsTyped, Follows, Late, RowsLead, EntryForRow, HasEntry, listVars
  <2> QED  BY <2>1, <2>2
<1>2. CASE ListImages(r)
  <2>1. PICK a \in [list : Lists, ok : {TRUE}] \cup {NoList} : answer' = [answer EXCEPT ![r] = a]
    BY <1>2 DEF ListImages
  <2>2. a \in Answers
    <3>1. NoList \in Answers  BY DEF Answers, NoList
    <3>2. [list : Lists, ok : {TRUE}] \subseteq Answers  BY DEF Answers
    <3> QED  BY <2>1, <3>1, <3>2
  <2>3. ListsTyped' /\ Emptied'  BY <1>2, <2>1, <2>2 DEF ListImages, ListsTyped, Emptied, listVars
  <2>4. Follows'  BY <1>2 DEF ListImages, ListsTyped, Follows, Late, RowsLead, EntryForRow, HasEntry, listVars
  <2> QED  BY <2>3, <2>4
<1>3. ASSUME StoreHalf(r) \/ StoreRest(r) PROVE entries' \in [arr : Lists \cup {<<>>}, len : Nat]
  <2>1. answer[r].list \in Lists \cup {<<>>} /\ Len(answer[r].list) \in Nat
    BY ListsAssumption DEF ListsTyped, Answers
  <2> QED  BY <1>3, <2>1 DEF StoreHalf, StoreRest, StoreLast, ListsTyped
<1>4. CASE StoreHalf(r)
  <2>1. pc' \in [Refresher -> {"idle", "list", "store", "arr", "len"}] /\ pc'[r] \in {"arr", "len"}
    BY <1>4 DEF StoreHalf, ListsTyped
  <2>2. ListsTyped' /\ Emptied'  BY <1>3, <1>4, <2>1 DEF StoreHalf, ListsTyped, Emptied
  <2> QED  BY <2>1, <2>2 DEF Follows, Late
<1>5. CASE StoreRest(r)
  <2>1. closure' \in [Refresher -> {"none", "render", "error"}] /\ closure'[r] # "none"
    BY <1>5 DEF StoreRest, StoreLast, ListsTyped
  <2>2. NoList \in Answers  BY DEF NoList, Answers
  <2>3. ListsTyped' /\ Emptied'  BY <1>3, <1>5, <2>1, <2>2 DEF StoreRest, StoreLast, ListsTyped, Emptied
  <2> QED  BY <2>1, <2>3 DEF Follows, Late
<1> QED  BY <1>1, <1>2, <1>4, <1>5 DEF Refresh

\* What the loop of renderFlat leaves leads to the entries there are by then.
LEMMA FillKeeps ==
    ASSUME ListsInv, Fill
    PROVE  ListsInv'
<1>1. ListsTyped'  BY DEF ListsInv, ListsTyped, Fill, loadVars
<1>2. CASE Torn \/ entries.len > Len(entryPrimaryRow)
  BY <1>1, <1>2 DEF ListsInv, Emptied, Follows, Fill
<1>4. ui = [at |-> ui.at, wanted |-> ui.wanted]
  BY DEF ListsInv, ListsTyped
<1>3. CASE ~(Torn \/ entries.len > Len(entryPrimaryRow))
  <2> DEFINE map == RowMapOf(Entries)
             t   == [k \in DOMAIN map |-> Entries[map[k]]]
  <2>1. table = <<>> /\ rowMap = <<>>  BY DEF ListsInv, Emptied, Fill
  <2>2. rowMap' = rowMap \o map /\ table' = table \o t /\ ui'.at = "status" /\ entries' = entries
    <3>1. rowMap' = rowMap \o map /\ entries' = entries  BY <1>3 DEF Fill
    <3>2. table' = table \o t  BY <1>3 DEF Fill
    <3>3. ui' = [ui EXCEPT !.at = "status"]  BY <1>3 DEF Fill
    <3> QED  BY <3>1, <3>2, <3>3, <1>4
  <2>3. Entries \in Seq(Image) /\ Len(Entries) = entries.len
        /\ \A i \in 1..entries.len : Entries[i] = entries.arr[i]
    BY <1>3, EntriesAreImages DEF ListsInv
  <2>4. map \in Seq(1..entries.len) /\ \A k \in DOMAIN map : map[k] \in 1..entries.len
    BY <2>3, RowsHaveEntries
  <2> HIDE DEF map
  <2>5. t \in Seq(Image) /\ DOMAIN t = DOMAIN map
    <3>1. \A k \in DOMAIN map : Entries[map[k]] \in Image  BY <2>3, <2>4
    <3>2. PICK n \in Nat : DOMAIN map = 1..n  BY <2>4
    <3> QED  BY <3>1, <3>2
  <2>6. rowMap' = map  BY <2>1, <2>2, <2>4
  <2>7. table' = t  BY <2>1, <2>2, <2>5
  <2>8. RowsLead'
    BY <2>2, <2>3, <2>4, <2>5, <2>6, <2>7 DEF RowsLead, EntryForRow, HasEntry
  <2> QED  BY <1>1, <2>2, <2>8 DEF ListsInv, Emptied, Follows
<1> QED  BY <1>2, <1>3

\* The steps of the closures on the UI goroutine.
LEMMA ClosuresKeep ==
    ASSUME ListsInv, RunClosures
    PROVE  ListsInv'
<1> USE DEF ListsInv
<1>1. ASSUME NEW r \in Refresher, RunError(r) PROVE ListsInv'
  <2>1. ListsTyped' /\ Emptied'  BY <1>1 DEF RunError, ListsTyped, Emptied
  <2>2. RowsLead'  BY <1>1 DEF RunError, RowsLead
  <2> QED  BY <2>1, <2>2 DEF Follows
<1>2. ASSUME NEW r \in Refresher, BeginRender(r) PROVE ListsInv'
  <2>1. ListsTyped' /\ Emptied'  BY <1>2 DEF BeginRender, StartRender, ListsTyped, Emptied
  <2> QED  BY <1>2, <2>1 DEF BeginRender, StartRender, Follows
<1>3. CASE UpdateStatusBar
  <2>1. ListsTyped' /\ Emptied'
    BY <1>3 DEF UpdateStatusBar, ListsTyped, Emptied, listVars, loadVars, Idle
  <2>2. Follows'
    BY <1>3 DEF UpdateStatusBar, Follows, Late, RowsLead, EntryForRow, HasEntry, listVars, loadVars
  <2> QED  BY <2>1, <2>2
<1>4. CASE RestoreSelection
  <2>1. UNCHANGED <<entries, rowMap, table, loadVars>> /\ ~crashed /\ ui.at = "restore"
    BY <1>4 DEF RestoreSelection
  <2>2. ui'.at # "fill" /\ ui' = [at |-> ui'.at, wanted |-> ui'.wanted]
    <3>1. ui' \in {ui, Idle, [Idle EXCEPT !.at = "selected"]}  BY <1>4 DEF RestoreSelection, Select
    <3> QED  BY <2>1, <3>1 DEF Idle, ListsTyped
  <2>3. ListsTyped' /\ Emptied'  BY <2>1, <2>2 DEF ListsTyped, Emptied, loadVars
  <2>4. Follows'  BY <2>1 DEF Follows, Late, RowsLead, EntryForRow, HasEntry, loadVars
  <2> QED  BY <2>3, <2>4
<1> QED  BY <1>1, <1>2, <1>3, <1>4, FillKeeps DEF RunClosures

\* Every step of the image list keeps the invariant.
LEMMA ListsKeep == ASSUME ListsInv, [Next]_vars PROVE ListsInv'
<1>1. ASSUME UNCHANGED <<entries, rowMap, table, ui, pc, answer, closure>>, crashed => crashed' PROVE ListsInv'
  <2>1. ListsTyped' /\ Emptied'  BY <1>1 DEF ListsInv, ListsTyped, Emptied
  <2>2. Follows'  BY <1>1 DEF ListsInv, Follows, Late, RowsLead, EntryForRow, HasEntry
  <2> QED  BY <2>1, <2>2 DEF ListsInv
<1>2. CASE \E row \in DOMAIN table : Move(row)  BY <1>1, <1>2 DEF Move, loadVars
<1>3. CASE Enter  BY <1>1, <1>3 DEF Enter, listVars, loadVars
<1>4. CASE UNCHANGED vars  BY <1>1, <1>4 DEF vars, listVars, loadVars
<1> QED  BY <1>2, <1>3, <1>4, RefreshKeeps, ClosuresKeep DEF Next

\* However many refreshes overlap, fail and draw: rows that do not lead to
\* their entries are about to be drawn again.
THEOREM ListsInductive == Spec => []ListsInv
<1>1. ListsInv /\ [Next]_vars => ListsInv'  BY ListsKeep
<1> QED  BY ListsBegin, <1>1, PTL DEF Spec

\* When no refresh is under way, every image row of the list leads to the entry
\* it shows, for any lists the runtime answered and any number of refreshes.
THEOREM QuietRows == Spec => []QuietRowsLeadToTheirEntries
<1>1. ListsInv => QuietRowsLeadToTheirEntries
  BY DEF ListsInv, Follows, Late, RowsLead, QuietRowsLeadToTheirEntries, Quiet
<1> QED  BY <1>1, ListsInductive, PTL

\* What the image list holds beside ListsInv.
ListsTypes ==
    /\ rowMap \in Seq(Nat \ {0}) /\ entryPrimaryRow \in Seq(Nat)
    /\ table \in Seq(Cell) /\ cursor \in Nat
    /\ ui \in [at : {"idle", "fill", "status", "restore", "selected"}, wanted : Image \cup {NoImage}]
    /\ saved \in [Refresher -> Image \cup {NoImage}]
    /\ opened \in [shown : Cell \cup {NoImage}, image : Image \cup {NoImage}]
    /\ crashed \in BOOLEAN

\* The row map leads to an image, or past the array.
LEMMA RowsLeadToImages ==
    ASSUME ListsInv, ListsTypes, NEW row, ~WildEntry(row)
    PROVE  EntryForRow(row) \in Image \cup {NoImage}
<1>1. CASE ~HasEntry(row)  BY <1>1 DEF EntryForRow
<1>2. CASE HasEntry(row)
  <2>1. rowMap[row] \in Nat \ {0}  BY <1>2 DEF HasEntry, ListsTypes
  <2>2. entries.arr \in Seq(Image)
    <3>1. <<>> \in Seq(Image)  OBVIOUS
    <3>2. entries.arr \in Lists \cup {<<>>}  BY DEF ListsInv, ListsTyped
    <3> QED  BY <3>1, <3>2, ListsAssumption
  <2>3. rowMap[row] <= Len(entries.arr)  BY <1>2, <2>1, <2>2 DEF WildEntry
  <2>4. entries.arr[rowMap[row]] \in Image  BY <2>1, <2>2, <2>3
  <2> QED  BY <1>2, <2>4 DEF EntryForRow
<1> QED  BY <1>1, <1>2

\* The loop of renderFlat.
LEMMA FillTyped ==
    ASSUME ListsInv, ListsTypes, Fill
    PROVE  ListsTypes'
<1>1. UNCHANGED <<entries, cursor, saved, opened>> /\ ui.at = "fill"  BY DEF Fill, loadVars
<1>2. CASE Torn \/ entries.len > Len(entryPrimaryRow)
  BY <1>1, <1>2 DEF Fill, ListsTypes
<1>3. CASE ~(Torn \/ entries.len > Len(entryPrimaryRow))
  <2> DEFINE map == RowMapOf(Entries)
             t   == [k \in DOMAIN map |-> Entries[map[k]]]
             first(i) == PrimaryRow(Entries, i)
  <2>1. rowMap = <<>> /\ table = <<>>  BY <1>1 DEF ListsInv, Emptied
  <2>2. Entries \in Seq(Image) /\ Len(Entries) \in Nat
    BY <1>3, EntriesAreImages DEF ListsInv, ListsTyped
  <2>3. map \in Seq(1..Len(Entries)) /\ \A k \in DOMAIN map : map[k] \in 1..Len(Entries)
    BY <2>2, RowsHaveEntries
  <2>4. \A i \in DOMAIN Entries : first(i) \in Nat
    <3> TAKE i \in DOMAIN Entries
    <3>1. i \in 1..Len(Entries) + 1  BY <2>2
    <3> QED  BY <2>2, <3>1, RowsAreCounted DEF PrimaryRow
  <2>5. /\ rowMap' = rowMap \o map /\ table' = table \o t /\ UNCHANGED crashed
        /\ entryPrimaryRow' = [i \in DOMAIN entryPrimaryRow |-> IF i \in DOMAIN Entries THEN first(i) ELSE 0]
        /\ ui' = [ui EXCEPT !.at = "status"]
    BY <1>3 DEF Fill
  <2> HIDE DEF map, first
  <2>6. t \in Seq(Cell)
    <3>1. \A k \in DOMAIN map : Entries[map[k]] \in Image  BY <2>2, <2>3
    <3>2. PICK n \in Nat : DOMAIN map = 1..n  BY <2>3
    <3> QED  BY <3>1, <3>2 DEF Cell
  <2>7. table' \in Seq(Cell)
    <3> HIDE DEF t
    <3> QED  BY <2>1, <2>5, <2>6
  <2>8. rowMap' \in Seq(Nat \ {0})
    <3>1. map \in Seq(Nat \ {0})  BY <2>2, <2>3
    <3> QED  BY <2>1, <2>5, <3>1
  <2>9. entryPrimaryRow' \in Seq(Nat)
    <3> DEFINE g(i) == IF i \in DOMAIN Entries THEN first(i) ELSE 0
    <3>1. \A i \in DOMAIN entryPrimaryRow : g(i) \in Nat  BY <2>4
    <3>2. PICK n \in Nat : DOMAIN entryPrimaryRow = 1..n  BY DEF ListsTypes
    <3>3. entryPrimaryRow' = [i \in DOMAIN entryPrimaryRow |-> g(i)]  BY <2>5
    <3> HIDE DEF g
    <3> QED  BY <3>1, <3>2, <3>3
  <2> QED  BY <1>1, <2>5, <2>7, <2>8, <2>9 DEF ListsTypes
<1> QED  BY <1>2, <1>3

\* The other closures.
LEMMA ClosuresTyped ==
    ASSUME ListsInv, ListsTypes, RunClosures
    PROVE  ListsTypes'
<1>1. ASSUME NEW r \in Refresher, RunError(r) PROVE ListsTypes'
  <2>1. table' \in Seq(Cell)  BY <1>1 DEF RunError, Cell
  <2> QED  BY <1>1, <2>1 DEF RunError, ListsTypes
<1>2. ASSUME NEW r \in Refresher, BeginRender(r) PROVE ListsTypes'
  <2>1. /\ table' = <<>> /\ rowMap' = <<>> /\ entryPrimaryRow' = [i \in 1..entries.len |-> 0]
        /\ ui' = [at |-> "fill", wanted |-> saved[r]] /\ saved' = [saved EXCEPT ![r] = NoImage]
        /\ UNCHANGED <<cursor, opened, crashed>>
    BY <1>2 DEF BeginRender, StartRender
  <2>2. entryPrimaryRow' \in Seq(Nat)
    <3>1. entries.len \in Nat  BY DEF ListsInv, ListsTyped
    <3> QED  BY <2>1, <3>1
  <2>3. ui' \in [at : {"idle", "fill", "status", "restore", "selected"}, wanted : Image \cup {NoImage}]
    BY <2>1 DEF ListsTypes
  <2> QED  BY <2>1, <2>2, <2>3 DEF ListsTypes
<1>3. CASE UpdateStatusBar
  BY <1>3 DEF UpdateStatusBar, ListsTypes, listVars, loadVars, Idle, Torn, WildEntry, HasEntry
<1>4. CASE RestoreSelection
  <2> DEFINE found == {i \in 1..entries.len : i \in DOMAIN entries.arr /\ entries.arr[i] = ui.wanted}
             m == Min(found)
  <2>1. UNCHANGED <<rowMap, entryPrimaryRow, table, saved, opened>>  BY <1>4 DEF RestoreSelection, loadVars
  <2>2. \/ /\ ui' = Idle \/ (crashed' = TRUE /\ UNCHANGED ui)
           /\ UNCHANGED cursor /\ (UNCHANGED crashed \/ crashed' = TRUE)
        \/ m \in DOMAIN entryPrimaryRow /\ Select(entryPrimaryRow[m])
        \/ entryPrimaryRow # <<>> /\ Select(entryPrimaryRow[1])
    <3> HIDE DEF found
    <3> QED  BY <1>4 DEF RestoreSelection, found
  <2>3. ASSUME NEW i \in DOMAIN entryPrimaryRow, Select(entryPrimaryRow[i]) PROVE ListsTypes'
    <3>1. entryPrimaryRow[i] \in Nat  BY DEF ListsTypes
    <3> QED  BY <2>1, <2>3, <3>1 DEF Select, Idle, ListsTypes
  <2>4. entryPrimaryRow # <<>> => 1 \in DOMAIN entryPrimaryRow  BY DEF ListsTypes
  <2> HIDE DEF m
  <2>5. CASE /\ ui' = Idle \/ (crashed' = TRUE /\ UNCHANGED ui)
             /\ UNCHANGED cursor /\ (UNCHANGED crashed \/ crashed' = TRUE)
    <3>1. Idle \in [at : {"idle", "fill", "status", "restore", "selected"}, wanted : Image \cup {NoImage}]
      BY DEF Idle
    <3>2. crashed' \in BOOLEAN  BY <2>5 DEF ListsTypes
    <3> QED  BY <2>1, <2>5, <3>1, <3>2 DEF ListsTypes
  <2> QED  BY <2>2, <2>3, <2>4, <2>5
<1> QED  BY <1>1, <1>2, <1>3, <1>4, FillTyped DEF RunClosures

\* The variables of the image list stay in their types, for any images, rows
\* per image, lists and refreshes.
THEOREM ImageListTyped == Spec => []TypeOK
<1>1. Init => ListsTypes
  <2> SUFFICES ASSUME Init PROVE ListsTypes  OBVIOUS
  <2>1. table \in Seq(Cell)  BY DEF Init, Cell
  <2>2. rowMap \in Seq(Nat \ {0}) /\ entryPrimaryRow \in Seq(Nat) /\ cursor \in Nat  BY DEF Init
  <2>3. ui \in [at : {"idle", "fill", "status", "restore", "selected"}, wanted : Image \cup {NoImage}]
    BY DEF Init, Idle
  <2>4. /\ saved \in [Refresher -> Image \cup {NoImage}] /\ crashed \in BOOLEAN
        /\ opened \in [shown : Cell \cup {NoImage}, image : Image \cup {NoImage}]
    BY DEF Init
  <2> QED  BY <2>1, <2>2, <2>3, <2>4 DEF ListsTypes
<1>2. ListsInv /\ ListsTypes /\ [Next]_vars => ListsTypes'
  <2> SUFFICES ASSUME ListsInv, ListsTypes, [Next]_vars PROVE ListsTypes'  OBVIOUS
  <2>1. ASSUME NEW r \in Refresher, Refresh(r) PROVE ListsTypes'
    <3>1. CASE BeginRefresh(r)
      <4>1. CASE WildEntry(cursor)  BY <3>1, <4>1 DEF BeginRefresh, ListsTypes, listVars
      <4>2. CASE ~WildEntry(cursor)
        <5>1. EntryForRow(cursor) \in Image \cup {NoImage}  BY <4>2, RowsLeadToImages
        <5> QED  BY <3>1, <4>2, <5>1 DEF BeginRefresh, ListsTypes, listVars
      <4> QED  BY <4>1, <4>2
    <3>2. CASE ListImages(r) \/ StoreHalf(r) \/ StoreRest(r)
      BY <3>2 DEF ListImages, StoreHalf, StoreRest, StoreLast, ListsTypes, listVars
    <3> QED  BY <2>1, <3>1, <3>2 DEF Refresh
  <2>2. ASSUME NEW row \in DOMAIN table, Move(row) PROVE ListsTypes'
    BY <2>2 DEF Move, ListsTypes, loadVars, Torn, WildEntry, HasEntry
  <2>3. CASE Enter
    <3>1. CASE WildEntry(cursor)  BY <2>3, <3>1 DEF Enter, ListsTypes, listVars, loadVars
    <3>2. CASE ~WildEntry(cursor)
      <4>1. EntryForRow(cursor) \in Image \cup {NoImage}  BY <3>2, RowsLeadToImages
      <4>2. cursor \in DOMAIN table => table[cursor] \in Cell  BY DEF ListsTypes
      <4> QED  BY <2>3, <3>2, <4>1, <4>2 DEF Enter, ListsTypes, listVars, loadVars
    <3> QED  BY <3>1, <3>2
  <2>4. CASE UNCHANGED vars  BY <2>4 DEF vars, listVars, loadVars, ListsTypes
  <2> QED  BY <2>1, <2>2, <2>3, <2>4, ClosuresTyped DEF Next
<1>3. ListsInv /\ ListsTypes => TypeOK
  BY DEF ListsInv, ListsTyped, ListsTypes, Answers, TypeOK
<1> QED  BY <1>1, <1>2, <1>3, ListsInductive, PTL DEF Spec

-----------------------------------------------------------------------------
(***************************************************************************)
(* The host PIDs.  The inductive invariant PidsInv says which process a    *)
(* PID stands for: ProcInv of the system, ReadInv of what was read of it.  *)
(***************************************************************************)

\* The system: who is alive has its PIDs from those given, inside the container
\* each its own; the container lives as long as its init; the others are
\* children of an older process.
ProcInv ==
    /\ \A h \in HP!Alive : proc[h].id \in 1..born /\ h \in used.host
    /\ \A h \in HP!Alive : ~proc[h].inside => proc[h].pid = h /\ proc[h].ppid = 0
    /\ \A h \in HP!Inside : proc[h].pid \in NsPid /\ proc[h].pid \in used.ns
    /\ \A h, k \in HP!Inside : proc[h].pid = proc[k].pid => h = k
    /\ HP!Inside # {} => HP!Init1 \in HP!Inside
    /\ HP!Init1 \in HP!Inside =>
          proc[HP!Init1].id = 1 /\ proc[HP!Init1].pid = 1 /\ proc[HP!Init1].ppid = 0
    /\ \A h \in HP!Inside : h # HP!Init1 =>
          /\ proc[h].id > 1 /\ proc[h].ppid \in NsPid
          /\ \E k \in HP!Inside : proc[k].pid = proc[h].ppid /\ proc[k].id < proc[h].id
    /\ HP!Init1 \in used.host
    /\ ~reused => (HP!Init1 \in HP!Alive => HP!Init1 \in HP!Inside)

\* Whoever has the PID n inside is the process i.
Known(n, i) == n \in used.ns /\ \A h \in HP!Inside : proc[h].pid = n => proc[h].id = i

\* The host PID h is of the process with the PID n inside, or of none.
Stands(h, n) ==
    h \in used.host /\ (h \in HP!Alive => h \in HP!Inside /\ proc[h].pid = n)

\* A row and the processes it was read from: they are the same as long as they
\* live, but for a parent that exited.
RowInv(n) ==
    /\ Known(n, rows[n].id)
    /\ rows[n].ppid # 0 => Known(rows[n].ppid, rows[n].up) /\ rows[n].up < rows[n].id
    /\ \A h \in HP!Inside : proc[h].pid = n => proc[h].ppid \in {rows[n].ppid, 1}
    /\ \A m \in DOMAIN rows : rows[n].ppid = m => rows[m].id = rows[n].up
    /\ rows[n].host # 0 => Stands(rows[n].host, n)
    /\ rows[n].hostParent \in HostPid =>
          /\ rows[n].hostParent \in used.host
          /\ proc[rows[n].hostParent].id \in {0, 1, rows[n].up}

\* As long as no PID was given twice: the namespace sought is the container's,
\* and rows and host PIDs are those of their processes.
ReadInv ==
    ~reused =>
        /\ inner
        /\ here # 0 => here \in used.host /\ (here \in HP!Alive => here \in HP!Inside)
        /\ \A n \in DOMAIN hostOf : Stands(hostOf[n], n)
        /\ \A n \in DOMAIN rows : RowInv(n)

PidsInv == HP!TypeOK /\ ProcInv /\ ReadInv

Process == [id : 0..MaxBorn, inside : BOOLEAN, pid : Nat, ppid : NsPid \cup {0}]

ReadRow == [id : 1..MaxBorn, ppid : NsPid \cup {0}, up : 0..MaxBorn,
            host : HostPid \cup {0}, hostParent : HostPid \cup {0, Shim}]

\* What is assumed of the PIDs.
LEMMA Pids ==
    /\ HostPid \subseteq Nat \ {0} /\ HostPid # {} /\ NsPid \subseteq Nat \ {0} /\ 1 \in NsPid
    /\ Shim \notin HostPid /\ MaxBorn \in Nat \ {0}
BY HostPidsAssumption DEF HP!PidAssumption

\* A set of numbers has a least one; the container's PID is that of the host's.
LEMMA Less == IsWellFoundedOn({s \in Nat \X Nat : s[1] < s[2]}, Nat)
BY NatLessThanWellFounded DEF OpToRel

\* Some member of a set of numbers is the least.
LEMMA Least ==
    ASSUME NEW T, T \subseteq Nat, T # {}
    PROVE  \E x \in T : \A y \in T : x <= y
<1> DEFINE R == {s \in Nat \X Nat : s[1] < s[2]}
<1>1. PICK x \in T : \A y \in T : <<y, x>> \notin R
  <2> HIDE DEF R
  <2>1. IsWellFoundedOn(R, Nat)  BY Less DEF R
  <2> QED  BY <2>1, WFMin
<1>2. \A y \in T : ~(y < x)  BY <1>1
<1> QED  BY <1>2

\* The main process has a host PID.
LEMMA MainPid == HP!Init1 \in HostPid
<1>1. \E x \in HostPid : \A y \in HostPid : x <= y  BY Pids, Least
<1> QED  BY <1>1 DEF HP!Init1

\* TypeOK, as the processes and the rows need it.
LEMMA ProcsTyped ==
    ASSUME HP!TypeOK
    PROVE  /\ proc \in [HostPid -> Process] /\ born \in 0..MaxBorn /\ reused \in BOOLEAN
           /\ used \in [host : SUBSET HostPid, ns : SUBSET NsPid]
           /\ \A n \in DOMAIN rows : rows[n] \in ReadRow
BY DEF HP!TypeOK, Process, ReadRow

\* The container starts with its main process, and nothing is read.
LEMMA PidsBegin == HP!Init => PidsInv
<1> SUFFICES ASSUME HP!Init PROVE PidsInv  OBVIOUS
<1> DEFINE i == HP!Init1
           p == [id |-> 1, inside |-> TRUE, pid |-> 1, ppid |-> 0]
<1>1. i \in HostPid  BY MainPid
<1>2. HP!Gone \in Process /\ p \in Process  BY Pids DEF HP!Gone, Process
<1>3. proc = [h \in HostPid |-> IF h = i THEN p ELSE HP!Gone]  BY DEF HP!Init
<1>4. proc \in [HostPid -> Process] /\ proc[i] = p /\ \A h \in HostPid : h # i => proc[h] = HP!Gone
  BY <1>1, <1>2, <1>3
<1>5. HP!Alive = {i} /\ HP!Inside = {i}  BY <1>1, <1>4 DEF HP!Alive, HP!Inside, HP!Gone
<1>6. DOMAIN rows = {} /\ DOMAIN hostOf = {}  BY DEF HP!Init
<1>7. used = [host |-> {i}, ns |-> {1}] /\ born = 1 /\ reused = FALSE /\ inner = TRUE /\ here = 0
  BY DEF HP!Init
<1>8. HP!TypeOK
  <2>1. at = "idle" /\ todo = {}  BY DEF HP!Init
  <2>2. used \in [host : SUBSET HostPid, ns : SUBSET NsPid]  BY <1>1, <1>7, Pids
  <2>3. born \in 0..MaxBorn /\ reused \in BOOLEAN /\ inner \in BOOLEAN
    <3>1. MaxBorn \in Nat /\ MaxBorn >= 1  BY Pids
    <3>2. born \in 0..MaxBorn  BY <1>7, <3>1
    <3>3. reused \in BOOLEAN /\ inner \in BOOLEAN  BY <1>7
    <3> QED  BY <3>2, <3>3
  <2>4. /\ DOMAIN rows \subseteq NsPid /\ DOMAIN hostOf \subseteq NsPid \cup HostPid
        /\ \A n \in DOMAIN rows : rows[n] \in ReadRow
        /\ \A n \in DOMAIN hostOf : hostOf[n] \in HostPid
    BY <1>6
  <2>5. here \in HostPid \cup {0} /\ todo \subseteq HostPid \cup NsPid  BY <1>7, <2>1
  <2> QED  BY <1>4, <2>1, <2>2, <2>3, <2>4, <2>5 DEF HP!TypeOK, Process, ReadRow
<1>9. ProcInv  BY <1>4, <1>5, <1>7, Pids DEF ProcInv
<1>10. ReadInv  BY <1>6, <1>7 DEF ReadInv
<1> QED  BY <1>8, <1>9, <1>10 DEF PidsInv

-----------------------------------------------------------------------------
\* What the system does later of a PID given before: its process stays or goes,
\* at most adopted; new processes inside have PIDs not given before.
Later ==
    /\ used.host \subseteq (used.host)' /\ used.ns \subseteq (used.ns)'
    /\ \A k \in used.host : proc'[k].id \in {0, proc[k].id}
    /\ \A k \in used.host : k \in HP!Alive' =>
          k \in HP!Alive /\ proc'[k].pid = proc[k].pid /\ (k \in HP!Inside => k \in HP!Inside')
    /\ \A k \in HP!Inside' : proc'[k].pid \in used.ns =>
          /\ k \in HP!Inside /\ proc'[k].id = proc[k].id /\ proc'[k].pid = proc[k].pid
          /\ proc'[k].ppid \in {proc[k].ppid, 1}

\* What was read stays true of processes that only die, lose parents or come anew.
LEMMA LaterKeeps ==
    ASSUME PidsInv, ~reused' => ~reused /\ Later, UNCHANGED <<inner, here, rows, hostOf>>
    PROVE  ReadInv'
<1> SUFFICES ASSUME ~reused' PROVE ReadInv'  BY DEF ReadInv
<1>1. ~reused /\ Later  OBVIOUS
<1>2. \A h \in used.host : h \in HostPid  BY ProcsTyped DEF PidsInv
<1>3. ASSUME NEW n, NEW i, Known(n, i) PROVE Known(n, i)'
  BY <1>1, <1>3 DEF Known, Later
<1>4. ASSUME NEW h, NEW n, Stands(h, n) PROVE Stands(h, n)'
  BY <1>1, <1>4 DEF Stands, Later
<1>5. ASSUME NEW n \in DOMAIN rows PROVE RowInv(n)'
  <2>1. RowInv(n)  BY <1>1, <1>5 DEF PidsInv, ReadInv
  <2>2. \A h \in HP!Inside' : proc'[h].pid = n => proc'[h].ppid \in {rows[n].ppid, 1}
    BY <1>1, <2>1 DEF RowInv, Later, Known
  <2>3. rows[n].hostParent \in HostPid =>
          rows[n].hostParent \in (used.host)' /\ proc'[rows[n].hostParent].id \in {0, 1, rows[n].up}
    BY <1>1, <2>1 DEF RowInv, Later
  <2> QED  BY <1>3, <1>4, <2>1, <2>2, <2>3 DEF RowInv
<1>6. here # 0 => here \in (used.host)' /\ (here \in HP!Alive' => here \in HP!Inside')
  BY <1>1 DEF PidsInv, ReadInv, Later
<1> QED  BY <1>1, <1>4, <1>5, <1>6 DEF PidsInv, ReadInv

\* A process is born.
LEMMA SpawnKeeps ==
    ASSUME PidsInv, NEW h \in HostPid, NEW new \in Process, HP!Spawn(h, new),
           new.id = born + 1,
           ~new.inside => new.pid = h /\ new.ppid = 0,
           new.inside =>
              /\ new.pid \in NsPid /\ \A k \in HP!Inside : proc[k].pid # new.pid
              /\ \E k \in HP!Inside : proc[k].pid = new.ppid
    PROVE  PidsInv'
<1>1. /\ proc \in [HostPid -> Process] /\ born \in 0..MaxBorn /\ reused \in BOOLEAN
      /\ used \in [host : SUBSET HostPid, ns : SUBSET NsPid]
  BY ProcsTyped DEF PidsInv
<1>2. /\ h \notin HP!Alive /\ born < MaxBorn /\ born' = born + 1
      /\ proc' = [proc EXCEPT ![h] = new]
      /\ (used.host)' = used.host \cup {h}
      /\ (used.ns)' = used.ns \cup {n \in {new.pid} : new.inside}
      /\ used' \in [host : SUBSET HostPid, ns : SUBSET NsPid]
      /\ UNCHANGED <<at, todo, inner, here, rows, hostOf>>
  BY <1>1 DEF HP!Spawn
<1>3. reused' \in BOOLEAN
      /\ (~reused' => ~reused /\ h \notin used.host /\ (new.inside => new.pid \notin used.ns))
  BY <1>1, <1>2 DEF HP!Spawn
<1>4. \A k \in HostPid : k # h => proc'[k] = proc[k]  BY <1>1, <1>2
<1>5. proc'[h] = new  BY <1>1, <1>2
<1>6. h \in HP!Alive' /\ (h \in HP!Inside' <=> new.inside)
  <2>1. new.id # 0  BY <1>1
  <2> QED  BY <1>5, <2>1 DEF HP!Alive, HP!Inside
<1>7. \A k \in HostPid : k # h => (k \in HP!Alive' <=> k \in HP!Alive) /\ (k \in HP!Inside' <=> k \in HP!Inside)
  BY <1>4 DEF HP!Alive, HP!Inside
<1>8. HP!Inside \subseteq HP!Alive /\ HP!Alive \subseteq HostPid /\ h \notin HP!Inside
      /\ HP!Inside' \subseteq HostPid /\ HP!Alive' \subseteq HostPid
  BY <1>2 DEF HP!Inside, HP!Alive
<1>9. ProcInv  BY DEF PidsInv
<1>10. new.inside => h # HP!Init1  BY <1>8, <1>9 DEF ProcInv
<1>11. HP!TypeOK'
  <2>1. proc' \in [HostPid -> Process]  BY <1>1, <1>2
  <2>2. born' \in 0..MaxBorn  BY <1>1, <1>2, Pids
  <2>3. HP!TypeOK  BY DEF PidsInv
  <2> QED  BY <1>2, <1>3, <2>1, <2>2, <2>3 DEF HP!TypeOK, Process
<1>12. ProcInv'
  <2>1. \A k \in HP!Alive' : proc'[k].id \in 1..(born + 1) /\ k \in (used.host)'
    <3>1. \A k \in HP!Alive : proc[k].id \in 1..(born + 1)  BY <1>1, <1>9 DEF ProcInv
    <3>2. new.id \in 1..(born + 1)  BY <1>1
    <3> QED  BY <1>2, <1>4, <1>5, <1>7, <1>8, <1>9, <3>1, <3>2 DEF ProcInv
  <2>2. \A k \in HP!Alive' : ~proc'[k].inside => proc'[k].pid = k /\ proc'[k].ppid = 0
    BY <1>4, <1>5, <1>7, <1>8, <1>9 DEF ProcInv
  <2>3. \A k \in HP!Inside' : proc'[k].pid \in NsPid /\ proc'[k].pid \in (used.ns)'
    BY <1>2, <1>4, <1>5, <1>6, <1>7, <1>8, <1>9 DEF ProcInv
  <2>4. \A k, m \in HP!Inside' : proc'[k].pid = proc'[m].pid => k = m
    BY <1>4, <1>5, <1>6, <1>7, <1>8, <1>9 DEF ProcInv
  <2>5. HP!Inside' # {} => HP!Init1 \in HP!Inside'
    BY <1>6, <1>7, <1>8, <1>9, <1>10, MainPid DEF ProcInv
  <2>6. HP!Init1 \in HP!Inside' =>
          proc'[HP!Init1].id = 1 /\ proc'[HP!Init1].pid = 1 /\ proc'[HP!Init1].ppid = 0
    BY <1>4, <1>6, <1>7, <1>9, <1>10, MainPid DEF ProcInv
  <2>7. ASSUME NEW k \in HP!Inside', k # HP!Init1
        PROVE  /\ proc'[k].id > 1 /\ proc'[k].ppid \in NsPid
               /\ \E m \in HP!Inside' : proc'[m].pid = proc'[k].ppid /\ proc'[m].id < proc'[k].id
    <3>1. CASE k # h
      BY <1>4, <1>7, <1>8, <1>9, <2>7, <3>1 DEF ProcInv
    <3>2. CASE k = h
      <4>1. new.inside  BY <1>6, <2>7, <3>2
      <4>2. PICK m \in HP!Inside : proc[m].pid = new.ppid  BY <4>1
      <4>3. m # h /\ m \in HP!Inside' /\ proc'[m] = proc[m]  BY <1>4, <1>7, <1>8
      <4>4. proc[m].id \in 1..born /\ proc[m].pid \in NsPid  BY <1>8, <1>9 DEF ProcInv
      <4>5. born + 1 > 1 /\ proc[m].id < born + 1  BY <1>1, <4>4
      <4> QED  BY <1>5, <3>2, <4>2, <4>3, <4>4, <4>5
    <3> QED  BY <3>1, <3>2
  <2>8. HP!Init1 \in (used.host)'  BY <1>2, <1>9 DEF ProcInv
  <2>9. ~reused' => (HP!Init1 \in HP!Alive' => HP!Init1 \in HP!Inside')
    BY <1>3, <1>7, <1>9, MainPid DEF ProcInv
  <2> QED  BY <1>2, <2>1, <2>2, <2>3, <2>4, <2>5, <2>6, <2>7, <2>8, <2>9 DEF ProcInv
<1>13. ~reused' => ~reused /\ Later
  <2> SUFFICES ASSUME ~reused' PROVE ~reused /\ Later  OBVIOUS
  <2>1. ~reused /\ h \notin used.host /\ (new.inside => new.pid \notin used.ns)  BY <1>3
  <2>2. \A k \in used.host : k \in HostPid /\ k # h /\ proc'[k] = proc[k]  BY <1>1, <1>4, <2>1
  <2>3. \A k \in HP!Inside' : proc'[k].pid \in used.ns => k \in HP!Inside /\ proc'[k] = proc[k]
    BY <1>4, <1>5, <1>6, <1>7, <1>8, <2>1
  <2> QED  BY <1>2, <1>7, <2>1, <2>2, <2>3 DEF Later
<1> QED  BY <1>2, <1>11, <1>12, <1>13, LaterKeeps DEF PidsInv

\* A process forks another one, inside the container or outside.
LEMMA ForksKeep ==
    ASSUME PidsInv, HP!Fork \/ HP!ForkOutside
    PROVE  PidsInv'
<1>1. /\ proc \in [HostPid -> Process] /\ born \in 0..MaxBorn
  BY ProcsTyped DEF PidsInv
<1>2. CASE HP!Fork
  <2>1. PICK h \in HostPid, n \in NsPid, parent \in HP!Inside :
           /\ n \notin {proc[k].pid : k \in HP!Inside}
           /\ HP!Spawn(h, [id |-> born + 1, inside |-> TRUE, pid |-> n, ppid |-> proc[parent].pid])
    BY <1>2 DEF HP!Fork
  <2> DEFINE new == [id |-> born + 1, inside |-> TRUE, pid |-> n, ppid |-> proc[parent].pid]
  <2>2. born < MaxBorn  BY <2>1 DEF HP!Spawn
  <2>3. proc[parent].pid \in NsPid  BY DEF PidsInv, ProcInv
  <2>4. new \in Process
    <3>1. born + 1 \in 0..MaxBorn /\ n \in Nat  BY <1>1, <2>2, Pids
    <3> QED  BY <2>3, <3>1 DEF Process
  <2>5. new.id = born + 1 /\ new.inside /\ new.pid = n /\ new.ppid = proc[parent].pid  OBVIOUS
  <2>6. \A k \in HP!Inside : proc[k].pid # n  BY <2>1
  <2>7. HP!Spawn(h, new)  BY <2>1
  <2> HIDE DEF new
  <2> QED  BY <2>4, <2>5, <2>6, <2>7, SpawnKeeps
<1>3. CASE HP!ForkOutside
  <2>1. PICK h \in HostPid :
           HP!Spawn(h, [id |-> born + 1, inside |-> FALSE, pid |-> h, ppid |-> 0])
    BY <1>3 DEF HP!ForkOutside
  <2> DEFINE new == [id |-> born + 1, inside |-> FALSE, pid |-> h, ppid |-> 0]
  <2>2. born < MaxBorn  BY <2>1 DEF HP!Spawn
  <2>3. new \in Process
    <3>1. born + 1 \in 0..MaxBorn /\ h \in Nat  BY <1>1, <2>2, Pids
    <3> QED  BY <3>1 DEF Process
  <2>4. new.id = born + 1 /\ ~new.inside /\ new.pid = h /\ new.ppid = 0  OBVIOUS
  <2>5. HP!Spawn(h, new)  BY <2>1
  <2> HIDE DEF new
  <2> QED  BY <2>3, <2>4, <2>5, SpawnKeeps
<1> QED  BY <1>2, <1>3

\* A process ends; the container's init takes its children, or all end with it.
LEMMA ExitKeeps ==
    ASSUME PidsInv, NEW h \in HostPid, HP!Exit(h)
    PROVE  PidsInv'
<1> DEFINE ends(k) == k = h \/ (h \in HP!Inside /\ proc[h].pid = 1 /\ k \in HP!Inside)
           orphan(k) == h \in HP!Inside /\ k \in HP!Inside /\ proc[k].ppid = proc[h].pid
<1>1. /\ proc \in [HostPid -> Process] /\ born \in 0..MaxBorn /\ ProcInv /\ HP!TypeOK
  BY ProcsTyped DEF PidsInv
<1>2. /\ h \in HP!Alive
      /\ proc' = [k \in HostPid |-> IF ends(k) THEN HP!Gone
                                    ELSE IF orphan(k) THEN [proc[k] EXCEPT !.ppid = 1] ELSE proc[k]]
      /\ UNCHANGED <<born, reused, used, at, todo, inner, here, rows, hostOf>>
  BY DEF HP!Exit
<1>3. ASSUME NEW k \in HostPid
      PROVE  /\ proc'[k] \in Process
             /\ ends(k) => proc'[k].id = 0
             /\ ~ends(k) => /\ proc'[k].id = proc[k].id /\ proc'[k].inside = proc[k].inside
                            /\ proc'[k].pid = proc[k].pid
                            /\ orphan(k) => proc'[k].ppid = 1
                            /\ ~orphan(k) => proc'[k].ppid = proc[k].ppid
  <2>1. proc[k] \in Process  BY <1>1
  <2>2. CASE ends(k)
    <3>1. proc'[k] = HP!Gone  BY <1>2, <2>2
    <3>2. HP!Gone \in Process /\ HP!Gone.id = 0  BY Pids DEF HP!Gone, Process
    <3> QED  BY <2>2, <3>1, <3>2
  <2>3. CASE ~ends(k) /\ orphan(k)
    <3>1. proc'[k] = [proc[k] EXCEPT !.ppid = 1]  BY <1>2, <2>3
    <3> QED  BY <2>1, <2>3, <3>1, Pids DEF Process
  <2>4. CASE ~ends(k) /\ ~orphan(k)
    <3>1. proc'[k] = proc[k]  BY <1>2, <2>4
    <3> QED  BY <2>1, <2>4, <3>1
  <2> QED  BY <2>2, <2>3, <2>4
<1>4. \A k \in HostPid : (k \in HP!Alive' <=> k \in HP!Alive /\ ~ends(k))
                         /\ (k \in HP!Inside' <=> k \in HP!Inside /\ ~ends(k))
  BY <1>3 DEF HP!Alive, HP!Inside
<1>5. HP!Inside \subseteq HP!Alive /\ HP!Alive \subseteq HostPid /\ HP!Inside' \subseteq HostPid
      /\ HP!Alive' \subseteq HostPid
  BY DEF HP!Inside, HP!Alive
<1>6. HP!Inside' # {} => HP!Init1 \in HP!Inside /\ ~ends(HP!Init1) /\ h # HP!Init1
  <2> SUFFICES ASSUME NEW k \in HP!Inside'
               PROVE  HP!Init1 \in HP!Inside /\ ~ends(HP!Init1) /\ h # HP!Init1
    OBVIOUS
  <2>1. k \in HP!Inside /\ ~ends(k)  BY <1>4, <1>5
  <2>2. HP!Init1 \in HP!Inside /\ proc[HP!Init1].pid = 1  BY <1>1, <2>1 DEF ProcInv
  <2> QED  BY <2>1, <2>2
<1>7. HP!TypeOK'
  <2>1. proc' \in [HostPid -> Process]
    <3>1. proc' = [k \in HostPid |-> proc'[k]]  BY <1>2
    <3> QED  BY <1>3, <3>1
  <2> QED  BY <1>1, <1>2, <2>1 DEF HP!TypeOK, Process
<1> HIDE DEF ends
<1>8. ProcInv'
  <2>1. \A k \in HP!Alive' : proc'[k].id \in 1..born /\ k \in used.host
    BY <1>1, <1>3, <1>4, <1>5 DEF ProcInv
  <2>2. \A k \in HP!Alive' : ~proc'[k].inside => proc'[k].pid = k /\ proc'[k].ppid = 0
    <3> SUFFICES ASSUME NEW k \in HP!Alive', ~proc'[k].inside
                 PROVE  proc'[k].pid = k /\ proc'[k].ppid = 0
      OBVIOUS
    <3>1. k \in HP!Alive /\ k \in HostPid /\ ~ends(k)  BY <1>4, <1>5
    <3>2. ~proc[k].inside /\ proc'[k].pid = proc[k].pid
      BY <1>3, <3>1
    <3>3. k \notin HP!Inside  BY <3>2 DEF HP!Inside
    <3>4. proc'[k].ppid = proc[k].ppid  BY <1>3, <3>1, <3>3
    <3> QED  BY <1>1, <3>1, <3>2, <3>4 DEF ProcInv
  <2>3. \A k \in HP!Inside' : proc'[k].pid \in NsPid /\ proc'[k].pid \in used.ns
    BY <1>1, <1>3, <1>4, <1>5 DEF ProcInv
  <2>4. \A k, m \in HP!Inside' : proc'[k].pid = proc'[m].pid => k = m
    BY <1>1, <1>3, <1>4, <1>5 DEF ProcInv
  <2>5. HP!Inside' # {} => HP!Init1 \in HP!Inside'
    BY <1>4, <1>6, MainPid
  <2>6. HP!Init1 \in HP!Inside' =>
          proc'[HP!Init1].id = 1 /\ proc'[HP!Init1].pid = 1 /\ proc'[HP!Init1].ppid = 0
    <3> SUFFICES ASSUME HP!Init1 \in HP!Inside'
                 PROVE  proc'[HP!Init1].id = 1 /\ proc'[HP!Init1].pid = 1 /\ proc'[HP!Init1].ppid = 0
      OBVIOUS
    <3>1. HP!Init1 \in HP!Inside /\ ~ends(HP!Init1)  BY <1>4, MainPid
    <3>2. proc[HP!Init1].id = 1 /\ proc[HP!Init1].pid = 1 /\ proc[HP!Init1].ppid = 0
      BY <1>1, <3>1 DEF ProcInv
    <3>3. ~orphan(HP!Init1)
      <4>1. h \in HP!Inside => proc[h].pid # 0  BY <1>1, Pids DEF ProcInv
      <4> QED  BY <3>2, <4>1
    <3> QED  BY <1>3, <3>1, <3>2, <3>3, MainPid
  <2>7. ASSUME NEW k \in HP!Inside', k # HP!Init1
        PROVE  /\ proc'[k].id > 1 /\ proc'[k].ppid \in NsPid
               /\ \E m \in HP!Inside' : proc'[m].pid = proc'[k].ppid /\ proc'[m].id < proc'[k].id
    <3>1. k \in HP!Inside /\ k \in HostPid /\ ~ends(k)  BY <1>4, <1>5
    <3>2. proc[k].id > 1 /\ proc[k].ppid \in NsPid  BY <1>1, <2>7, <3>1 DEF ProcInv
    <3>3. proc'[k].id = proc[k].id  BY <1>3, <3>1
    <3>4. HP!Init1 \in HP!Inside' /\ proc'[HP!Init1].id = 1 /\ proc'[HP!Init1].pid = 1
      BY <2>5, <2>6
    <3>5. CASE orphan(k)
      <4>1. proc'[k].ppid = 1  BY <1>3, <3>1, <3>5
      <4> QED  BY <3>2, <3>3, <3>4, <4>1, Pids
    <3>6. CASE ~orphan(k)
      <4>1. proc'[k].ppid = proc[k].ppid  BY <1>3, <3>1, <3>6
      <4>2. PICK m \in HP!Inside : proc[m].pid = proc[k].ppid /\ proc[m].id < proc[k].id
        BY <1>1, <2>7, <3>1 DEF ProcInv
      <4>3. m # h  BY <3>1, <3>6, <4>2
      <4>4. ~ends(m)
        BY <3>1, <4>2, <4>3 DEF ends
      <4>5. m \in HP!Inside' /\ proc'[m].pid = proc[m].pid /\ proc'[m].id = proc[m].id
        BY <1>3, <1>4, <1>5, <4>4
      <4> QED  BY <3>2, <3>3, <4>1, <4>2, <4>5
    <3> QED  BY <3>5, <3>6
  <2>8. ~reused => (HP!Init1 \in HP!Alive' => HP!Init1 \in HP!Inside')
    BY <1>1, <1>4, MainPid DEF ProcInv
  <2>9. HP!Init1 \in used.host  BY <1>1 DEF ProcInv
  <2> QED  BY <1>2, <2>1, <2>2, <2>3, <2>4, <2>5, <2>6, <2>7, <2>8, <2>9 DEF ProcInv
<1>9. ~reused' => ~reused /\ Later
  <2>1. used.host \subseteq HostPid  BY <1>1 DEF HP!TypeOK
  <2>2. \A k \in used.host : proc'[k].id \in {0, proc[k].id}  BY <1>3, <2>1
  <2>3. \A k \in used.host : k \in HP!Alive' =>
          k \in HP!Alive /\ proc'[k].pid = proc[k].pid /\ (k \in HP!Inside => k \in HP!Inside')
    BY <1>3, <1>4, <2>1
  <2>4. \A k \in HP!Inside' :
          /\ k \in HP!Inside /\ proc'[k].id = proc[k].id /\ proc'[k].pid = proc[k].pid
          /\ proc'[k].ppid \in {proc[k].ppid, 1}
    BY <1>3, <1>4, <1>5
  <2> QED  BY <1>2, <2>2, <2>3, <2>4 DEF Later
<1> QED  BY <1>2, <1>7, <1>8, <1>9, LaterKeeps DEF PidsInv

-----------------------------------------------------------------------------
\* The parent of a process inside is inside and older, or it is the shim.
LEMMA ParentIs ==
    ASSUME ProcInv, NEW h \in HP!Inside
    PROVE  /\ h = HP!Init1 => proc[h].ppid = 0 /\ HP!ParentOf(h) = Shim /\ HP!ParentId(h) = 0
           /\ h # HP!Init1 =>
                /\ proc[h].ppid # 0 /\ HP!ParentOf(h) \in HP!Inside
                /\ proc[HP!ParentOf(h)].pid = proc[h].ppid
                /\ HP!ParentId(h) = proc[HP!ParentOf(h)].id /\ HP!ParentId(h) < proc[h].id
<1>1. CASE h = HP!Init1
  <2>1. proc[h].ppid = 0  BY <1>1 DEF ProcInv
  <2> QED  BY <1>1, <2>1 DEF HP!ParentOf, HP!ParentId
<1>2. CASE h # HP!Init1
  <2>1. proc[h].ppid \in NsPid  BY <1>2 DEF ProcInv
  <2>2. proc[h].ppid # 0  BY <2>1, Pids
  <2>3. PICK k \in HP!Inside : proc[k].pid = proc[h].ppid /\ proc[k].id < proc[h].id
    BY <1>2 DEF ProcInv
  <2>4. k \in HP!HostAt(proc[h].ppid)  BY <2>3 DEF HP!HostAt
  <2>5. HP!ParentOf(h) \in HP!HostAt(proc[h].ppid)  BY <2>2, <2>4 DEF HP!ParentOf
  <2>6. HP!ParentOf(h) \in HP!Inside /\ proc[HP!ParentOf(h)].pid = proc[h].ppid
    BY <2>5 DEF HP!HostAt
  <2>7. HP!ParentOf(h) = k  BY <2>3, <2>6 DEF ProcInv
  <2>8. HP!ParentId(h) = proc[HP!ParentOf(h)].id  BY <2>2 DEF HP!ParentId
  <2> QED  BY <1>2, <2>2, <2>3, <2>6, <2>7, <2>8
<1> QED  BY <1>1, <1>2

\* Who is inside is alive.
LEMMA InsideIs ==
    HP!Inside \subseteq HP!Alive /\ HP!Alive \subseteq HostPid
BY DEF HP!Inside, HP!Alive

\* A step that reads leaves the processes as they are.
LEMMA Still ==
    ASSUME UNCHANGED <<proc, born, reused, used>>
    PROVE  /\ HP!Alive' = HP!Alive /\ HP!Inside' = HP!Inside
           /\ ProcInv => ProcInv'
           /\ \A n, i : Known(n, i) => Known(n, i)'
           /\ \A h, n : Stands(h, n) => Stands(h, n)'
<1>1. HP!Alive' = HP!Alive /\ HP!Inside' = HP!Inside  BY DEF HP!Alive, HP!Inside
<1> QED  BY <1>1 DEF ProcInv, Known, Stands

\* A row stays true while neither processes nor rows change.
LEMMA RowsStill ==
    ASSUME UNCHANGED <<proc, born, reused, used, rows>>, NEW n \in DOMAIN rows, RowInv(n)
    PROVE  RowInv(n)'
BY Still DEF RowInv

\* The /proc of the container and that of the host are listed, a namespace is read.
LEMMA ListingKeeps ==
    ASSUME PidsInv,
           \/ HP!ListContainer \/ HP!ListHost \/ HP!Finish
           \/ \E h \in HostPid : HP!ReadInode(h)
           \/ UNCHANGED pidVars
    PROVE  PidsInv'
<1>1. HP!TypeOK /\ ProcInv /\ ReadInv  BY DEF PidsInv
<1>2. /\ UNCHANGED <<proc, born, reused, used, rows, hostOf>>
      /\ at' \in {"idle", "read", "scan", "gaps", "done"} /\ todo' \subseteq HostPid \cup NsPid
      /\ inner' \in BOOLEAN /\ here' \in HostPid \cup {0}
      /\ ~reused => inner'
      /\ ~reused => (here' # 0 => here' \in used.host /\ (here' \in HP!Alive => here' \in HP!Inside))
  <2>1. CASE HP!ListContainer
    <3>1. \A h \in HP!Inside : proc[h].pid \in NsPid  BY <1>1 DEF ProcInv
    <3> QED  BY <1>1, <2>1, <3>1 DEF HP!ListContainer, HP!sysVars, HP!TypeOK, ReadInv
  <2>2. CASE HP!ListHost
    <3>1. /\ UNCHANGED <<proc, born, reused, used, rows, hostOf, here>>
          /\ at' \in {"scan", "done"}
      BY <2>2 DEF HP!ListHost, HP!sysVars
    <3>2. todo' \subseteq HostPid \cup NsPid
      BY <1>1, <2>2, InsideIs DEF HP!ListHost, HP!TypeOK
    <3>3. \/ proc[HP!Init1].id # 0 /\ inner' = proc[HP!Init1].inside
          \/ inner' = inner
      BY <2>2 DEF HP!ListHost
    <3>4. proc[HP!Init1].inside \in BOOLEAN
      <4>1. proc[HP!Init1] \in Process  BY <1>1, ProcsTyped, MainPid
      <4> QED  BY <4>1 DEF Process
    <3>5. ~reused => inner'
      <4>1. HP!Init1 \in HP!Inside => proc[HP!Init1].inside  BY DEF HP!Inside
      <4>2. proc[HP!Init1].id # 0 => HP!Init1 \in HP!Alive  BY MainPid DEF HP!Alive
      <4> QED  BY <1>1, <3>3, <4>1, <4>2 DEF ProcInv, ReadInv
    <3>6. inner \in BOOLEAN /\ here \in HostPid \cup {0}  BY <1>1 DEF HP!TypeOK
    <3>7. inner' \in BOOLEAN  BY <3>3, <3>4, <3>6
    <3> QED  BY <1>1, <3>1, <3>2, <3>5, <3>6, <3>7 DEF ReadInv
  <2>3. CASE HP!Finish
    BY <1>1, <2>3 DEF HP!Finish, HP!sysVars, HP!TypeOK, ReadInv
  <2>4. ASSUME NEW h \in HostPid, HP!ReadInode(h)
        PROVE  /\ UNCHANGED <<proc, born, reused, used, rows, hostOf>>
               /\ at' \in {"idle", "read", "scan", "gaps", "done"} /\ todo' \subseteq HostPid \cup NsPid
               /\ inner' \in BOOLEAN /\ here' \in HostPid \cup {0}
               /\ ~reused => inner'
               /\ ~reused => (here' # 0 => here' \in used.host /\ (here' \in HP!Alive => here' \in HP!Inside))
    <3>1. /\ UNCHANGED <<proc, born, reused, used, rows, hostOf, at, inner>>
          /\ todo' = todo \ {h}
          /\ here' = 0 \/ (here' = h /\ h \in HP!Alive /\ proc[h].inside = inner)
      BY <2>4 DEF HP!ReadInode, HP!sysVars
    <3>2. inner \in BOOLEAN /\ at \in {"idle", "read", "scan", "gaps", "done"} /\ todo \subseteq HostPid \cup NsPid
      BY <1>1 DEF HP!TypeOK
    <3>3. ~reused => inner  BY <1>1 DEF ReadInv
    <3>4. here' # 0 => here' \in used.host  BY <1>1, <3>1 DEF ProcInv
    <3>5. ~reused /\ here' # 0 => here' \in HP!Inside  BY <3>1, <3>3 DEF HP!Inside
    <3>6. here' \in HostPid \cup {0}  BY <3>1
    <3> QED  BY <3>1, <3>2, <3>3, <3>4, <3>5, <3>6
  <2>5. CASE UNCHANGED pidVars
    BY <1>1, <2>5 DEF pidVars, HP!TypeOK, ReadInv
  <2> QED  BY <2>1, <2>2, <2>3, <2>4, <2>5
<1>3. HP!TypeOK'  BY <1>1, <1>2 DEF HP!TypeOK
<1>4. ReadInv'  BY <1>1, <1>2, Still, RowsStill DEF ReadInv
<1> QED  BY <1>1, <1>2, <1>3, <1>4, Still DEF PidsInv

\* The NSpid line: whoever has the host PID by then has the PID in it.
LEMMA NSpidKeeps ==
    ASSUME PidsInv, HP!ReadNSpid
    PROVE  PidsInv'
<1> DEFINE n == proc[here].pid
<1>1. HP!TypeOK /\ ProcInv /\ ReadInv  BY DEF PidsInv
<1>2. /\ UNCHANGED <<proc, born, reused, used, rows, at, todo, inner>>
      /\ here # 0 /\ here' = 0 /\ here \in HostPid
      /\ here \notin HP!Alive => hostOf' = hostOf
      /\ here \in HP!Alive =>
            hostOf' = [m \in DOMAIN hostOf \cup {n} |-> IF m = n THEN here ELSE hostOf[m]]
  BY <1>1 DEF HP!ReadNSpid, HP!sysVars, HP!TypeOK
<1>3. here \in HP!Alive => n \in NsPid \cup HostPid
  BY <1>1, <1>2 DEF ProcInv, HP!Inside
<1>4. ~reused /\ here \in HP!Alive => Stands(here, n)
  BY <1>1, <1>2 DEF ReadInv, Stands
<1> HIDE DEF n
<1>5. DOMAIN hostOf' \subseteq NsPid \cup HostPid /\ \A m \in DOMAIN hostOf' : hostOf'[m] \in HostPid
  <2>1. DOMAIN hostOf \subseteq NsPid \cup HostPid /\ \A m \in DOMAIN hostOf : hostOf[m] \in HostPid
    BY <1>1 DEF HP!TypeOK
  <2>2. CASE here \notin HP!Alive
    <3>1. hostOf' = hostOf  BY <1>2, <2>2
    <3> QED  BY <2>1, <3>1
  <2>3. CASE here \in HP!Alive  BY <1>2, <1>3, <2>1, <2>3
  <2> QED  BY <2>2, <2>3
<1>6. ~reused => \A m \in DOMAIN hostOf' : Stands(hostOf'[m], m)
  <2> SUFFICES ASSUME ~reused, NEW m \in DOMAIN hostOf' PROVE Stands(hostOf'[m], m)
    OBVIOUS
  <2>1. \A k \in DOMAIN hostOf : Stands(hostOf[k], k)  BY <1>1 DEF ReadInv
  <2>2. CASE here \notin HP!Alive
    <3>1. hostOf' = hostOf  BY <1>2, <2>2
    <3> QED  BY <2>1, <3>1
  <2>3. CASE here \in HP!Alive /\ m = n
    <3>1. hostOf'[m] = here  BY <1>2, <2>3
    <3> QED  BY <1>4, <2>3, <3>1
  <2>4. CASE here \in HP!Alive /\ m # n
    <3>1. m \in DOMAIN hostOf /\ hostOf'[m] = hostOf[m]  BY <1>2, <2>4
    <3> QED  BY <2>1, <3>1
  <2> QED  BY <2>2, <2>3, <2>4
<1>7. HP!TypeOK'
  <2>1. here' \in HostPid \cup {0}  BY <1>2
  <2> QED  BY <1>1, <1>2, <1>5, <2>1 DEF HP!TypeOK
<1>8. ReadInv'  BY <1>1, <1>2, <1>6, Still, RowsStill DEF ReadInv
<1> QED  BY <1>1, <1>2, <1>7, <1>8, Still DEF PidsInv

\* A step that reads rows keeps the invariant if it keeps the rows'.
LEMMA RowsKeep ==
    ASSUME PidsInv, UNCHANGED <<proc, born, reused, used, inner, here, hostOf>>,
           at' \in {"idle", "read", "scan", "gaps", "done"}, todo' \subseteq HostPid \cup NsPid,
           DOMAIN rows' \subseteq NsPid, \A n \in DOMAIN rows' : rows'[n] \in ReadRow,
           ~reused => \A n \in DOMAIN rows' : RowInv(n)'
    PROVE  PidsInv'
<1>1. HP!TypeOK /\ ProcInv /\ ReadInv  BY DEF PidsInv
<1>2. HP!TypeOK'  BY <1>1 DEF HP!TypeOK, ReadRow
<1>3. ReadInv'  BY <1>1, Still DEF ReadInv
<1> QED  BY <1>1, <1>2, <1>3, Still DEF PidsInv

\* The row of the main process is read from the host.
LEMMA MainKeeps ==
    ASSUME PidsInv, HP!ReadMain
    PROVE  PidsInv'
<1> DEFINE r == [id |-> proc[HP!Init1].id, ppid |-> 0, up |-> 0, host |-> HP!Init1, hostParent |-> Shim]
<1>1. HP!TypeOK /\ ProcInv /\ ReadInv  BY DEF PidsInv
<1>2. /\ UNCHANGED <<proc, born, reused, used, inner, here, hostOf, todo>>
      /\ at' = "done" /\ HP!Inside # {} /\ rows' = [n \in {1} |-> r]
  BY DEF HP!ReadMain, HP!sysVars
<1>3. DOMAIN rows' = {1} /\ rows'[1] = r  BY <1>2
<1>4. /\ HP!Init1 \in HP!Inside /\ proc[HP!Init1].id = 1 /\ proc[HP!Init1].pid = 1
      /\ proc[HP!Init1].ppid = 0
  BY <1>1, <1>2 DEF ProcInv
<1>5. r.id = 1 /\ r.ppid = 0 /\ r.up = 0 /\ r.host = HP!Init1 /\ r.hostParent = Shim
  BY <1>4
<1>6. r \in ReadRow
  <2>1. 1 \in 1..MaxBorn /\ 0 \in 0..MaxBorn  BY Pids
  <2> QED  BY <1>4, <2>1, MainPid DEF ReadRow
<1> HIDE DEF r
<1>7. RowInv(1)'
  <2>1. Known(1, 1) /\ Stands(HP!Init1, 1)
    BY <1>1, <1>4 DEF Known, Stands, ProcInv
  <2>2. \A h \in HP!Inside : proc[h].pid = 1 => proc[h].ppid = 0
    BY <1>1, <1>4 DEF ProcInv
  <2>3. HP!Inside' = HP!Inside /\ HP!Alive' = HP!Alive  BY <1>2, Still
  <2>4. Known(1, rows[1].id)' /\ Stands(rows[1].host, 1)'
    BY <1>2, <1>3, <1>5, <2>1, <2>3 DEF Known, Stands
  <2> QED  BY <1>2, <1>3, <1>5, <2>2, <2>3, <2>4, Pids DEF RowInv
<1>8. 1 \in NsPid /\ todo \subseteq HostPid \cup NsPid  BY <1>1, Pids DEF HP!TypeOK
<1> QED  BY <1>2, <1>3, <1>6, <1>7, <1>8, RowsKeep

\* One process read: whoever had the PID in the container's /proc.
LEMMA ProcessKeeps ==
    ASSUME PidsInv, NEW n \in NsPid, HP!ReadProcess(n)
    PROVE  PidsInv'
<1> DEFINE h == CHOOSE k \in HP!Seen(n) : TRUE
           r == [id |-> proc[h].id, ppid |-> proc[h].ppid, up |-> HP!ParentId(h),
                 host |-> 0, hostParent |-> 0]
<1>1. /\ HP!TypeOK /\ ProcInv /\ ReadInv
      /\ proc \in [HostPid -> Process] /\ born \in 0..MaxBorn
      /\ \A m \in DOMAIN rows : rows[m] \in ReadRow
  BY ProcsTyped DEF PidsInv
<1>2. /\ UNCHANGED <<proc, born, reused, used, inner, here, hostOf, at>>
      /\ todo' = todo \ {n}
      /\ HP!Seen(n) = {} => rows' = rows
      /\ HP!Seen(n) # {} =>
            rows' = [m \in DOMAIN rows \cup {n} |-> IF m = n THEN r ELSE rows[m]]
  BY DEF HP!ReadProcess, HP!sysVars
<1>3. at \in {"idle", "read", "scan", "gaps", "done"} /\ todo' \subseteq HostPid \cup NsPid
      /\ DOMAIN rows \subseteq NsPid
  BY <1>1, <1>2 DEF HP!TypeOK
<1>4. HP!Inside' = HP!Inside  BY <1>2, Still
<1>5. CASE HP!Seen(n) = {}
  <2>1. rows' = rows  BY <1>2, <1>5
  <2>2. ~reused => \A m \in DOMAIN rows' : RowInv(m)'
    BY <1>1, <1>2, <2>1, RowsStill DEF ReadInv
  <2> QED  BY <1>1, <1>2, <1>3, <2>1, <2>2, RowsKeep
<1>6. CASE HP!Seen(n) # {}
  <2>1. h \in HP!Seen(n)  BY <1>6
  <2>2. h \in HP!Alive  BY <2>1, InsideIs DEF HP!Seen, HP!HostAt
  <2> HIDE DEF h
  <2>3. r.id = proc[h].id /\ r.ppid = proc[h].ppid /\ r.up = HP!ParentId(h) /\ r.host = 0
        /\ r.hostParent = 0
    OBVIOUS
  <2>4. HP!ParentId(h) \in 0..MaxBorn
    <3>1. CASE h \in HP!Inside /\ h # HP!Init1
      <4>1. HP!ParentOf(h) \in HostPid /\ HP!ParentId(h) = proc[HP!ParentOf(h)].id
        BY <1>1, <3>1, ParentIs, InsideIs
      <4>2. proc[HP!ParentOf(h)] \in Process  BY <1>1, <4>1
      <4> QED  BY <4>1, <4>2 DEF Process
    <3>2. CASE h \notin HP!Inside \/ h = HP!Init1
      <4>1. proc[h].ppid = 0
        BY <1>1, <2>2, <3>2 DEF ProcInv, HP!Inside
      <4>2. HP!ParentId(h) = 0  BY <4>1 DEF HP!ParentId
      <4> QED  BY <4>2, Pids
    <3> QED  BY <3>1, <3>2
  <2>5. r \in ReadRow
    <3>1. proc[h] \in Process /\ proc[h].id \in 1..born  BY <1>1, <2>2, InsideIs DEF ProcInv
    <3>2. proc[h].id \in 1..MaxBorn  BY <1>1, <3>1, Pids
    <3>3. proc[h].ppid \in NsPid \cup {0}  BY <3>1 DEF Process
    <3> QED  BY <2>4, <3>2, <3>3 DEF ReadRow
  <2> HIDE DEF r
  <2>6. DOMAIN rows' = DOMAIN rows \cup {n} /\ rows'[n] = r
        /\ \A m \in DOMAIN rows : m # n => rows'[m] = rows[m]
    BY <1>2, <1>6
  <2>7. DOMAIN rows' \subseteq NsPid /\ \A m \in DOMAIN rows' : rows'[m] \in ReadRow
    BY <1>1, <1>3, <2>5, <2>6
  <2>8. ASSUME ~reused, NEW m \in DOMAIN rows' PROVE RowInv(m)'
    <3>1. h \in HP!Inside /\ proc[h].pid = n
      BY <1>1, <2>1, <2>8, MainPid DEF HP!Seen, HP!HostAt, HP!Alive, ProcInv
    <3>2. \A k \in HP!Inside : proc[k].pid = n => k = h  BY <1>1, <3>1 DEF ProcInv
    <3>3. n \in used.ns  BY <1>1, <3>1 DEF ProcInv
    <3>4. \A k \in DOMAIN rows : RowInv(k)  BY <1>1, <2>8 DEF ReadInv
    <3>5. CASE m = n
      <4>1. Known(n, rows[n].id)'
        BY <1>2, <1>4, <2>3, <2>6, <3>2, <3>3 DEF Known
      <4>2. \A k \in HP!Inside' : proc'[k].pid = n => proc'[k].ppid \in {rows'[n].ppid, 1}
        BY <1>2, <1>4, <2>3, <2>6, <3>2
      <4>3. CASE h = HP!Init1
        <5>1. rows'[n].ppid = 0  BY <1>1, <2>3, <2>6, <3>1, <4>3, ParentIs
        <5>2. \A k \in DOMAIN rows' : rows'[n].ppid # k  BY <2>7, <5>1, Pids
        <5> QED  BY <2>3, <2>6, <3>5, <4>1, <4>2, <5>1, <5>2, Pids DEF RowInv
      <4>4. CASE h # HP!Init1
        <5> DEFINE k == HP!ParentOf(h)
        <5>1. /\ r.ppid # 0 /\ k \in HP!Inside /\ proc[k].pid = r.ppid
              /\ r.up = proc[k].id /\ r.up < r.id
          BY <1>1, <2>3, <3>1, <4>4, ParentIs
        <5> HIDE DEF k
        <5>2. r.ppid \in used.ns /\ \A x \in HP!Inside : proc[x].pid = r.ppid => x = k
          BY <1>1, <5>1 DEF ProcInv
        <5>3. Known(rows[n].ppid, rows[n].up)'
          BY <1>2, <1>4, <2>6, <5>1, <5>2 DEF Known
        <5>4. r.ppid # n
          <6>1. SUFFICES ASSUME r.ppid = n PROVE FALSE  OBVIOUS
          <6>2. k = h  BY <3>2, <5>1, <6>1
          <6>3. r.up = r.id /\ r.id \in Int  BY <2>3, <2>5, <5>1, <6>2 DEF ReadRow
          <6> QED  BY <5>1, <6>3
        <5>5. \A x \in DOMAIN rows' : rows'[n].ppid = x => rows'[x].id = rows'[n].up
          <6> SUFFICES ASSUME NEW x \in DOMAIN rows', r.ppid = x PROVE rows'[x].id = r.up
            BY <2>6
          <6>1. x \in DOMAIN rows /\ rows'[x] = rows[x]  BY <2>6, <5>4
          <6>2. Known(x, rows[x].id)  BY <3>4, <6>1 DEF RowInv
          <6> QED  BY <5>1, <6>1, <6>2 DEF Known
        <5> QED  BY <2>3, <2>6, <3>5, <4>1, <4>2, <5>1, <5>3, <5>5, Pids DEF RowInv
      <4> QED  BY <4>3, <4>4
    <3>6. CASE m # n
      <4>1. m \in DOMAIN rows /\ rows'[m] = rows[m]  BY <2>6, <3>6
      <4>2. RowInv(m)  BY <3>4, <4>1
      <4>3. \A x \in DOMAIN rows' : rows[m].ppid = x => rows'[x].id = rows[m].up
        <5> SUFFICES ASSUME NEW x \in DOMAIN rows', rows[m].ppid = x PROVE rows'[x].id = rows[m].up
          OBVIOUS
        <5>1. CASE x = n
          <6>1. x # 0  BY <2>7, Pids
          <6>2. Known(n, rows[m].up)  BY <4>2, <5>1, <6>1 DEF RowInv
          <6> QED  BY <2>3, <2>6, <3>1, <5>1, <6>2 DEF Known
        <5>2. CASE x # n  BY <2>6, <4>2, <5>2 DEF RowInv
        <5> QED  BY <5>1, <5>2
      <4>4. /\ Known(m, rows[m].id)
            /\ rows[m].ppid # 0 => Known(rows[m].ppid, rows[m].up) /\ rows[m].up < rows[m].id
            /\ \A k \in HP!Inside : proc[k].pid = m => proc[k].ppid \in {rows[m].ppid, 1}
            /\ rows[m].host # 0 => Stands(rows[m].host, m)
            /\ rows[m].hostParent \in HostPid =>
                  /\ rows[m].hostParent \in used.host
                  /\ proc[rows[m].hostParent].id \in {0, 1, rows[m].up}
        BY <4>2 DEF RowInv
      <4> QED  BY <1>2, <1>4, <4>1, <4>3, <4>4, Still DEF RowInv
    <3> QED  BY <3>5, <3>6
  <2> QED  BY <1>2, <1>3, <2>7, <2>8, RowsKeep
<1> QED  BY <1>5, <1>6

\* The host PIDs found are given to the rows, and to the parents of the rows.
LEMMA ApplyKeeps ==
    ASSUME PidsInv, HP!applyHostPIDs
    PROVE  PidsInv'
<1> DEFINE new(n) == [rows[n] EXCEPT !.host = HP!HostPidOf(n), !.hostParent = HP!HostPidOf(rows[n].ppid)]
<1>1. /\ HP!TypeOK /\ ProcInv /\ ReadInv
      /\ \A m \in DOMAIN rows : rows[m] \in ReadRow
  BY ProcsTyped DEF PidsInv
<1>2. /\ UNCHANGED <<proc, born, reused, used, inner, here, hostOf>>
      /\ at' = "gaps" /\ todo' \subseteq DOMAIN rows
      /\ rows' = [n \in DOMAIN rows |-> new(n)]
  BY DEF HP!applyHostPIDs, HP!sysVars
<1>3. \A n : HP!HostPidOf(n) \in HostPid \cup {0}
             /\ (HP!HostPidOf(n) # 0 => n \in DOMAIN hostOf /\ HP!HostPidOf(n) = hostOf[n])
  BY <1>1 DEF HP!HostPidOf, HP!TypeOK
<1>4. ASSUME NEW n \in DOMAIN rows
      PROVE  /\ rows'[n] \in ReadRow /\ rows'[n].id = rows[n].id /\ rows'[n].up = rows[n].up
             /\ rows'[n].ppid = rows[n].ppid /\ rows'[n].host = HP!HostPidOf(n)
             /\ rows'[n].hostParent = HP!HostPidOf(rows[n].ppid)
  <2>1. rows'[n] = new(n) /\ rows[n] \in ReadRow  BY <1>1, <1>2
  <2>2. HP!HostPidOf(n) \in HostPid \cup {0} /\ HP!HostPidOf(rows[n].ppid) \in HostPid \cup {0, Shim}
    BY <1>3
  <2> QED  BY <2>1, <2>2 DEF ReadRow
<1>5. DOMAIN rows' = DOMAIN rows /\ DOMAIN rows \subseteq NsPid  BY <1>1, <1>2 DEF HP!TypeOK
<1>6. ASSUME ~reused, NEW n \in DOMAIN rows PROVE RowInv(n)'
  <2>1. RowInv(n) /\ \A k \in DOMAIN hostOf : Stands(hostOf[k], k)  BY <1>1, <1>6 DEF ReadInv
  <2>2. \A m \in DOMAIN rows : rows[n].ppid = m => rows'[m].id = rows[n].up
    BY <1>4, <2>1 DEF RowInv
  <2>3. HP!HostPidOf(n) # 0 => Stands(HP!HostPidOf(n), n)  BY <1>3, <2>1
  <2>4. ASSUME HP!HostPidOf(rows[n].ppid) \in HostPid
        PROVE  /\ HP!HostPidOf(rows[n].ppid) \in used.host
               /\ proc[HP!HostPidOf(rows[n].ppid)].id \in {0, 1, rows[n].up}
    <3> DEFINE p == rows[n].ppid
               g == HP!HostPidOf(p)
    <3>1. g # 0  BY <2>4, Pids
    <3>2. Stands(g, p)  BY <1>3, <2>1, <3>1
    <3>3. CASE g \notin HP!Alive  BY <2>4, <3>2, <3>3 DEF Stands, HP!Alive
    <3>4. CASE g \in HP!Alive
      <4>1. g \in HP!Inside /\ proc[g].pid = p  BY <3>2, <3>4 DEF Stands
      <4>2. p # 0  BY <1>1, <4>1, Pids DEF ProcInv
      <4>3. Known(p, rows[n].up)  BY <2>1, <4>2 DEF RowInv
      <4>4. proc[g].id = rows[n].up  BY <4>1, <4>3 DEF Known
      <4> QED  BY <3>2, <4>4 DEF Stands
    <3> QED  BY <3>3, <3>4
  <2>5. HP!Inside' = HP!Inside /\ HP!Alive' = HP!Alive  BY <1>2, Still
  <2>6. Known(n, rows[n].id)' /\ (rows'[n].ppid # 0 => Known(rows[n].ppid, rows[n].up)')
    <3>1. Known(n, rows[n].id) /\ (rows[n].ppid # 0 => Known(rows[n].ppid, rows[n].up))
      BY <2>1 DEF RowInv
    <3>2. rows'[n].id = rows[n].id /\ rows'[n].up = rows[n].up /\ rows'[n].ppid = rows[n].ppid
      BY <1>4
    <3>3. UNCHANGED <<proc, used>>  BY <1>2
    <3> QED  BY <2>5, <3>1, <3>2, <3>3 DEF Known
  <2>7. rows'[n].host # 0 => Stands(rows[n].host, n)'
    <3> DEFINE g == HP!HostPidOf(n)
    <3>1. rows'[n].host = g  BY <1>4
    <3>2. g # 0 => g \in used.host /\ (g \in HP!Alive => g \in HP!Inside /\ proc[g].pid = n)
      BY <2>3 DEF Stands
    <3> HIDE DEF g
    <3>3. rows'[n].host # 0 =>
            /\ rows'[n].host \in (used.host)'
            /\ rows'[n].host \in HP!Alive' => rows'[n].host \in HP!Inside' /\ proc'[rows'[n].host].pid = n
      BY <1>2, <2>5, <3>1, <3>2
    <3> QED  BY <3>3 DEF Stands
  <2>8. rows'[n].ppid # 0 => rows'[n].up < rows'[n].id  BY <1>4, <2>1 DEF RowInv
  <2>9. \A h \in HP!Inside' : proc'[h].pid = n => proc'[h].ppid \in {rows'[n].ppid, 1}
    BY <1>2, <1>4, <2>1, <2>5 DEF RowInv
  <2>10. \A m \in DOMAIN rows' : rows'[n].ppid = m => rows'[m].id = rows'[n].up
    BY <1>4, <1>5, <2>2
  <2>11. rows'[n].hostParent \in HostPid =>
           rows'[n].hostParent \in (used.host)' /\ proc'[rows'[n].hostParent].id \in {0, 1, rows'[n].up}
    BY <1>2, <1>4, <2>4
  <2> QED  BY <2>6, <2>7, <2>8, <2>9, <2>10, <2>11 DEF RowInv
<1>7. at' \in {"idle", "read", "scan", "gaps", "done"} /\ todo' \subseteq HostPid \cup NsPid
  BY <1>2, <1>5
<1> QED  BY <1>2, <1>4, <1>5, <1>6, <1>7, RowsKeep

\* A parent the map does not know is read from the host.
LEMMA GapKeeps ==
    ASSUME PidsInv, NEW n \in NsPid, HP!FillGap(n)
    PROVE  PidsInv'
<1> DEFINE h == rows[n].host
           p == HP!ParentOf(h)
<1>1. /\ HP!TypeOK /\ ProcInv /\ ReadInv
      /\ \A m \in DOMAIN rows : rows[m] \in ReadRow
  BY ProcsTyped DEF PidsInv
<1>2. /\ UNCHANGED <<proc, born, reused, used, inner, here, hostOf, at>>
      /\ todo' = todo \ {n}
      /\ h \notin HP!Inside => rows' = rows
      /\ h \in HP!Inside => rows' = [rows EXCEPT ![n].hostParent = p]
  BY DEF HP!FillGap, HP!sysVars
<1>3. at' \in {"idle", "read", "scan", "gaps", "done"} /\ todo' \subseteq HostPid \cup NsPid
      /\ DOMAIN rows' = DOMAIN rows /\ DOMAIN rows \subseteq NsPid
  BY <1>1, <1>2 DEF HP!TypeOK
<1>4. CASE h \notin HP!Inside
  <2>1. rows' = rows  BY <1>2, <1>4
  <2>2. ~reused => \A m \in DOMAIN rows' : RowInv(m)'
    BY <1>1, <1>2, <2>1, RowsStill DEF ReadInv
  <2> QED  BY <1>1, <1>2, <1>3, <2>1, <2>2, RowsKeep
<1>5. CASE h \in HP!Inside
  <2>1. p \in HostPid \cup {Shim}  BY <1>1, <1>5, ParentIs, InsideIs
  <2>2. rows' = [rows EXCEPT ![n].hostParent = p]  BY <1>2, <1>5
  <2> HIDE DEF p
  <2>3. ASSUME NEW m \in DOMAIN rows
        PROVE  /\ rows'[m] \in ReadRow
               /\ rows'[m].id = rows[m].id /\ rows'[m].up = rows[m].up
               /\ rows'[m].ppid = rows[m].ppid /\ rows'[m].host = rows[m].host
               /\ rows'[m].hostParent = IF m = n THEN p ELSE rows[m].hostParent
    <3>1. rows[m] \in ReadRow  BY <1>1
    <3>2. CASE m = n
      <4>1. rows'[m] = [rows[m] EXCEPT !.hostParent = p]  BY <2>2, <3>2
      <4> QED  BY <2>1, <3>1, <3>2, <4>1 DEF ReadRow
    <3>3. CASE m # n
      <4>1. rows'[m] = rows[m]  BY <2>2, <3>3
      <4> QED  BY <3>1, <3>3, <4>1
    <3> QED  BY <3>2, <3>3
  <2>4. ASSUME ~reused, NEW m \in DOMAIN rows PROVE RowInv(m)'
    <3>1. RowInv(m)  BY <1>1, <2>4 DEF ReadInv
    <3>2. HP!Inside' = HP!Inside /\ HP!Alive' = HP!Alive  BY <1>2, Still
    <3>3. Known(m, rows[m].id)' /\ (rows'[m].ppid # 0 => Known(rows[m].ppid, rows[m].up)')
      BY <1>2, <2>3, <3>1, <3>2 DEF RowInv, Known
    <3>4. rows'[m].host # 0 => Stands(rows[m].host, m)'
      BY <1>2, <2>3, <3>1, <3>2 DEF RowInv, Stands
    <3>5. \A x \in DOMAIN rows : rows[m].ppid = x => rows'[x].id = rows[m].up
      BY <2>3, <3>1 DEF RowInv
    <3>6. rows'[m].hostParent \in HostPid =>
            /\ rows'[m].hostParent \in used.host
            /\ proc[rows'[m].hostParent].id \in {0, 1, rows[m].up}
      <4>1. CASE m # n  BY <2>3, <3>1, <4>1 DEF RowInv
      <4>2. CASE m = n
        <5> SUFFICES ASSUME p \in HostPid
                     PROVE  p \in used.host /\ proc[p].id \in {0, 1, rows[n].up}
          BY <2>3, <4>2
        <5>1. h # 0  BY <1>5, InsideIs, Pids
        <5>2. proc[h].pid = n
          BY <1>5, <3>1, <4>2, <5>1, InsideIs DEF RowInv, Stands
        <5>3. proc[h].ppid \in {rows[n].ppid, 1}  BY <1>5, <3>1, <4>2, <5>2 DEF RowInv
        <5>4. h # HP!Init1  BY <1>1, <1>5, ParentIs, Pids DEF p
        <5>5. p \in HP!Inside /\ proc[p].pid = proc[h].ppid /\ proc[h].ppid # 0
          BY <1>1, <1>5, <5>4, ParentIs DEF p
        <5>6. p \in used.host  BY <1>1, <5>5, InsideIs DEF ProcInv
        <5>7. CASE proc[h].ppid = rows[n].ppid
          BY <3>1, <4>2, <5>5, <5>6, <5>7 DEF RowInv, Known
        <5>8. CASE proc[h].ppid = 1
          BY <1>1, <5>5, <5>6, <5>8 DEF ProcInv
        <5> QED  BY <5>3, <5>7, <5>8
      <4> QED  BY <4>1, <4>2
    <3> QED  BY <1>2, <1>3, <2>3, <3>1, <3>2, <3>3, <3>4, <3>5, <3>6 DEF RowInv
  <2> QED  BY <1>2, <1>3, <2>3, <2>4, RowsKeep
<1> QED  BY <1>4, <1>5

-----------------------------------------------------------------------------
\* What holds of the processes and of what was read of them, at every point at
\* which the system may fork, kill or adopt a process between two reads.
THEOREM PidsInductive == HP!Spec => []PidsInv
<1>1. HP!Init => PidsInv  BY PidsBegin
<1>2. PidsInv /\ [HP!Next]_(HP!vars) => PidsInv'
  <2> SUFFICES ASSUME PidsInv, [HP!Next]_(HP!vars) PROVE PidsInv'  OBVIOUS
  <2>1. CASE HP!Fork \/ HP!ForkOutside  BY <2>1, ForksKeep
  <2>2. CASE \E h \in HostPid : HP!Exit(h)  BY <2>2, ExitKeeps
  <2>3. CASE HP!ListContainer \/ HP!ListHost \/ HP!Finish \/ \E h \in HostPid : HP!ReadInode(h)
    BY <2>3, ListingKeeps
  <2>4. CASE HP!ReadMain  BY <2>4, MainKeeps
  <2>5. CASE HP!ReadNSpid  BY <2>5, NSpidKeeps
  <2>6. CASE HP!applyHostPIDs  BY <2>6, ApplyKeeps
  <2>7. CASE \E n \in NsPid : HP!ReadProcess(n) \/ HP!FillGap(n)
    BY <2>7, ProcessKeeps, GapKeeps
  <2>8. CASE UNCHANGED HP!vars
    <3>1. UNCHANGED pidVars  BY <2>8 DEF HP!vars, HP!sysVars, pidVars
    <3> QED  BY <3>1, ListingKeeps
  <2> QED  BY <2>1, <2>2, <2>3, <2>4, <2>5, <2>6, <2>7, <2>8 DEF HP!Next
<1> QED  BY <1>1, <1>2, PTL DEF HP!Spec

\* The processes, the host PIDs and the rows of CollectContainerProcesses have
\* the types HostPids gives them.
THEOREM HostPidsTyped == HP!Spec => []HP!TypeOK
<1>1. PidsInv => HP!TypeOK  BY DEF PidsInv
<1> QED  BY <1>1, PidsInductive, PTL

\* As long as no PID comes back, a row shows the host PID of its own process
\* and for the parent that of the parent it was read with or of the init.
THEOREM HostPidsCorrect == HP!Spec => []HostPidsAreTheirs
<1>1. PidsInv => HostPidsAreTheirs
  <2> SUFFICES ASSUME PidsInv, ~reused, NEW n \in DOMAIN rows
               PROVE  /\ rows[n].host # 0 => proc[rows[n].host].id \in {0, rows[n].id}
                      /\ rows[n].hostParent \in HostPid =>
                            proc[rows[n].hostParent].id \in {0, 1, rows[n].up}
    BY DEF HostPidsAreTheirs, HP!HostPidsAreTheirs
  <2>1. RowInv(n)  BY DEF PidsInv, ReadInv
  <2>2. rows[n].host \in HostPid \cup {0}  BY ProcsTyped DEF PidsInv, ReadRow
  <2>3. ASSUME rows[n].host # 0 PROVE proc[rows[n].host].id \in {0, rows[n].id}
    <3>1. CASE rows[n].host \in HP!Alive  BY <2>1, <2>3, <3>1 DEF RowInv, Stands, Known
    <3>2. CASE rows[n].host \notin HP!Alive  BY <2>2, <2>3, <3>2 DEF HP!Alive
    <3> QED  BY <3>1, <3>2
  <2> QED  BY <2>1, <2>3 DEF RowInv
<1> QED  BY <1>1, PidsInductive, PTL

\* As long as no PID comes back, ProcessTreeView.render reaches every process
\* that was read: following the parents only leads to older ones, and so ends
\* at a root.
THEOREM AllDrawn == HP!Spec => []EveryProcessDrawn
<1>1. PidsInv => EveryProcessDrawn
  <2> SUFFICES ASSUME PidsInv, ~reused PROVE DOMAIN rows \subseteq HP!Drawn
    BY DEF EveryProcessDrawn, HP!EveryProcessDrawn, HP!Drawn
  <2> DEFINE lost == DOMAIN rows \ HP!Drawn
             ids == {rows[n].id : n \in lost}
  <2>1. \A n \in DOMAIN rows : rows[n].id \in Nat /\ RowInv(n)
    BY ProcsTyped DEF PidsInv, ReadInv, ReadRow
  <2> SUFFICES ASSUME lost # {} PROVE FALSE  OBVIOUS
  <2>2. ids \subseteq Nat /\ ids # {}  BY <2>1
  <2>3. \E x \in ids : \A y \in ids : x <= y
    <3> HIDE DEF ids
    <3> QED  BY <2>2, Least
  <2>4. PICK n \in lost : \A m \in lost : rows[n].id <= rows[m].id  BY <2>3
  <2>5. PICK S \in SUBSET DOMAIN rows :
           /\ HP!Roots \subseteq S /\ n \notin S
           /\ \A m \in DOMAIN rows : rows[m].ppid \in S => m \in S
    BY <2>4 DEF HP!Drawn
  <2> DEFINE p == rows[n].ppid
  <2>6. p \in DOMAIN rows  BY <2>4, <2>5 DEF HP!Roots
  <2>7. p # 0
    <3>1. DOMAIN rows \subseteq NsPid  BY DEF PidsInv, HP!TypeOK
    <3> QED  BY <2>6, <3>1, Pids
  <2>8. rows[p].id < rows[n].id  BY <2>1, <2>4, <2>6, <2>7 DEF RowInv
  <2>9. p \in HP!Drawn  BY <2>1, <2>4, <2>6, <2>8
  <2>10. p \in S  BY <2>5, <2>9 DEF HP!Drawn
  <2> QED  BY <2>4, <2>5, <2>10
<1> QED  BY <1>1, PidsInductive, PTL

-----------------------------------------------------------------------------
\* A behaviour of the parts side by side is one of each, so what is proved of a
\* part holds of ListsSpec, which the run checks.
THEOREM ListPartsOfAll == ListsSpec => Spec /\ HP!Spec /\ ChooseSpec
<1>1. ListsInit => Init /\ HP!Init /\ input = NoInput  BY DEF ListsInit, AllInit
<1>2. [ListsNext]_<<allVars, input>> => [Next]_vars
  BY DEF ListsNext, AllNext, allVars
<1>3. [ListsNext]_<<allVars, input>> => [HP!Next]_(HP!vars)
  BY DEF ListsNext, AllNext, allVars, pidVars, HP!vars, HP!sysVars
<1>4. [ListsNext]_<<allVars, input>> => [Choose]_input
  BY DEF ListsNext
<1> QED  BY <1>1, <1>2, <1>3, <1>4, PTL DEF ListsSpec, Spec, HP!Spec, ChooseSpec

-----------------------------------------------------------------------------
(***************************************************************************)
(* Loops.                                                                  *)
(***************************************************************************)

\* What holds before a loop, and after each round if it did before, holds
\* throughout.
LEMMA Rounds ==
    ASSUME NEW n \in Nat, NEW S, 0 \in S, \A k \in 1..n : k - 1 \in S => k \in S
    PROVE  \A k \in 0..n : k \in S
<1> DEFINE lost == {k \in 0..n : k \notin S}
<1> SUFFICES ASSUME lost # {} PROVE FALSE  OBVIOUS
<1>1. PICK m \in lost : \A k \in lost : m <= k
  <2>1. lost \subseteq Nat  OBVIOUS
  <2> HIDE DEF lost
  <2> QED  BY <2>1, Least
<1>2. m \in 1..n /\ m - 1 \in 0..n  BY <1>1
<1>3. m - 1 \in S  BY <1>1, <1>2
<1> QED  BY <1>1, <1>2, <1>3

\* The values of a loop of n rounds from base, each a step from the one before.
HasRun(n, T, base, step) ==
    \E g \in [0..n -> T] : g[0] = base /\ \A k \in 1..n : g[k] = step[k][g[k - 1]]

\* A loop over values of a type has a value after each round.
LEMMA Loop ==
    ASSUME NEW n \in Nat, NEW T, NEW base \in T, NEW step \in [1..n -> [T -> T]]
    PROVE  HasRun(n, T, base, step)
<1> DEFINE Runs(m, g) == g[0] = base /\ \A k \in 1..m : g[k] = step[k][g[k - 1]]
           S == {m \in 0..n : \E g \in [0..m -> T] : Runs(m, g)}
<1>1. 0 \in S
  <2> DEFINE h == [k \in 0..0 |-> base]
  <2>1. h \in [0..0 -> T] /\ Runs(0, h)  OBVIOUS
  <2> HIDE DEF h, Runs
  <2> QED  BY <2>1
<1>2. ASSUME NEW m \in 1..n, m - 1 \in S PROVE m \in S
  <2>1. PICK g \in [0..m - 1 -> T] : Runs(m - 1, g)
    <3> HIDE DEF Runs
    <3> QED  BY <1>2
  <2> DEFINE h == [k \in 0..m |-> IF k = m THEN step[m][g[m - 1]] ELSE g[k]]
  <2>2. g[m - 1] \in T /\ step[m][g[m - 1]] \in T  BY <2>1
  <2>3. h \in [0..m -> T]  BY <2>1, <2>2
  <2>4. Runs(m, h)
    <3>1. ASSUME NEW k \in 1..m PROVE h[k] = step[k][h[k - 1]]
      <4>1. k - 1 \in 0..m - 1 /\ h[k - 1] = g[k - 1]  OBVIOUS
      <4>2. k # m => k \in 1..m - 1 /\ h[k] = g[k]  OBVIOUS
      <4> QED  BY <2>1, <4>1, <4>2
    <3> QED  BY <2>1, <3>1
  <2> HIDE DEF h, Runs
  <2> QED  BY <2>3, <2>4
<1> HIDE DEF S
<1>3. \A k \in 0..n : k \in S  BY <1>1, <1>2, Rounds
<1> QED  BY <1>3, n \in 0..n DEF S, HasRun

-----------------------------------------------------------------------------
(***************************************************************************)
(* The merged directory.                                                   *)
(***************************************************************************)

Found == [vis : [FileName -> Int], del : [FileName -> Int]]

\* What an entry makes of what is found has its type.
LEMMA ApplyTyped ==
    ASSUME NEW f \in Found, NEW i \in Int, NEW e \in LM!Entry
    PROVE  LM!Apply(f, i, e) \in Found
<1>1. LM!HideBelow(f.vis, i) \in [FileName -> Int] /\ LM!HideBelow(f.del, i) \in [FileName -> Int]
  BY DEF LM!HideBelow, Found
<1>2. e.kind # "opaque" => e.name \in FileName  BY DEF LM!Entry
<1>3. -1 \in Int  OBVIOUS
<1> QED  BY <1>1, <1>2, <1>3 DEF LM!Apply, Found

\* The loop over the entries is what it looks like.
LEMMA EntriesLoop ==
    ASSUME NEW f \in Found, NEW i \in Int, NEW s \in Seq(LM!Entry)
    PROVE  /\ LM!AfterEntries(f, i, s) \in [0..Len(s) -> Found]
           /\ LM!AfterEntries(f, i, s)[0] = f
           /\ \A n \in 1..Len(s) :
                LM!AfterEntries(f, i, s)[n] = LM!Apply(LM!AfterEntries(f, i, s)[n - 1], i, s[n])
<1> DEFINE a == LM!AfterEntries(f, i, s)
           After(g) == [n \in 0..Len(s) |-> IF n = 0 THEN f ELSE LM!Apply(g[n - 1], i, s[n])]
           step == [n \in 1..Len(s) |-> [t \in Found |-> LM!Apply(t, i, s[n])]]
<1>1. Len(s) \in Nat /\ \A n \in 1..Len(s) : s[n] \in LM!Entry  OBVIOUS
<1>2. step \in [1..Len(s) -> [Found -> Found]]  BY <1>1, ApplyTyped
<1>3. PICK g \in [0..Len(s) -> Found] : g[0] = f /\ \A n \in 1..Len(s) : g[n] = step[n][g[n - 1]]
  <2> DEFINE N == Len(s)
  <2>1. f \in Found /\ N \in Nat /\ step \in [1..N -> [Found -> Found]]  BY <1>1, <1>2
  <2> HIDE DEF Found, step, N
  <2>2. HasRun(N, Found, f, step)  BY <2>1, Loop
  <2> QED  BY <2>2 DEF N, HasRun
<1>4. g = After(g)
  <2>1. ASSUME NEW n \in 1..Len(s) PROVE g[n] = LM!Apply(g[n - 1], i, s[n])
    <3>1. g[n - 1] \in Found  BY <1>1, <1>3
    <3> QED  BY <1>3, <3>1
  <2> QED  BY <1>1, <1>3, <2>1
<1>5. a = After(a)
  <2>1. a = CHOOSE h : h = After(h)  BY Zenon DEF LM!AfterEntries
  <2> HIDE DEF a, After
  <2> QED  BY <1>4, <2>1, Zenon
<1>6. a[0] = f /\ \A n \in 1..Len(s) : a[n] = LM!Apply(a[n - 1], i, s[n])
  <2> HIDE DEF a
  <2> QED  BY <1>1, <1>5
<1>7. a \in [0..Len(s) -> Found]
  <2> DEFINE S == {n \in 0..Len(s) : a[n] \in Found}
  <2>1. 0 \in S  BY <1>1, <1>6
  <2>2. ASSUME NEW n \in 1..Len(s), n - 1 \in S PROVE n \in S  BY <1>1, <1>6, <2>2, ApplyTyped
  <2> HIDE DEF S
  <2>3. \A n \in 0..Len(s) : n \in S  BY <1>1, <2>1, <2>2, Rounds
  <2> HIDE DEF a
  <2> QED  BY <1>5, <2>3 DEF S
<1> QED  BY <1>6, <1>7

\* What entries 1 to n of a listing say of a name, and whether they hide the
\* layers below.
Named(s, n, K, m) == \E j \in 1..n : s[j].kind \in K /\ s[j].name = m
Marked(s, n) == \E j \in 1..n : s[j].kind = "opaque"

\* What is found of a name in g after n entries of layer i's listing, f before.
Listed(f, g, i, s, n, m) ==
    /\ Named(s, n, {"file", "dir"}, m) => g.vis[m] = i /\ g.del[m] = -1
    /\ Named(s, n, {"whiteout"}, m) => g.vis[m] = -1 /\ g.del[m] = i
    /\ ~Named(s, n, {"file", "dir", "whiteout"}, m) =>
         IF Marked(s, n) THEN g.vis[m] = -1 /\ g.del[m] = -1
         ELSE g.vis[m] = f.vis[m] /\ g.del[m] = f.del[m]

\* One more entry.
LEMMA OneMore ==
    ASSUME NEW s, NEW n \in Nat \ {0}
    PROVE  /\ \A K, m : Named(s, n, K, m) <=>
                          Named(s, n - 1, K, m) \/ (s[n].kind \in K /\ s[n].name = m)
           /\ Marked(s, n) <=> Marked(s, n - 1) \/ s[n].kind = "opaque"
<1>1. \A j : j \in 1..n <=> j \in 1..n - 1 \/ j = n  OBVIOUS
<1> QED  BY <1>1, Zenon DEF Named, Marked

\* One more entry keeps to what the entries before it say of a name.
LEMMA EntryListed ==
    ASSUME NEW f \in Found, NEW g \in Found, NEW i \in Nat, NEW s \in LM!Listing, NEW n \in 1..Len(s),
           NEW m \in FileName, f.vis[m] < i, f.del[m] < i, Listed(f, g, i, s, n - 1, m)
    PROVE  Listed(f, LM!Apply(g, i, s[n]), i, s, n, m)
<1> DEFINE e == s[n]
           h == LM!Apply(g, i, e)
<1>1. s \in Seq(LM!Entry) /\ e \in LM!Entry  BY DEF LM!Listing
<1>2. n \in Nat \ {0} /\ \A j \in 1..n - 1 : j \in DOMAIN s  BY <1>1
<1>3. /\ g.vis \in [FileName -> Int] /\ g.del \in [FileName -> Int]
      /\ f.vis[m] \in Int /\ f.del[m] \in Int
  BY DEF Found
<1>4. CASE e.kind = "opaque"
  <2>1. /\ h.vis[m] = IF g.vis[m] < i THEN -1 ELSE g.vis[m]
        /\ h.del[m] = IF g.del[m] < i THEN -1 ELSE g.del[m]
    BY <1>4 DEF LM!Apply, LM!HideBelow
  <2>2. \A K \in SUBSET {"file", "dir", "whiteout"} : Named(s, n, K, m) <=> Named(s, n - 1, K, m)
    BY <1>2, <1>4, OneMore
  <2>3. Marked(s, n)  BY <1>2, <1>4, OneMore
  <2>4. CASE Named(s, n - 1, {"file", "dir"}, m)
    <3>1. g.vis[m] = i /\ g.del[m] = -1  BY <2>4 DEF Listed
    <3>2. h.vis[m] = i /\ h.del[m] = -1  BY <1>3, <2>1, <3>1
    <3>3. ~Named(s, n - 1, {"whiteout"}, m)  BY <3>1 DEF Listed
    <3>4. Named(s, n, {"file", "dir", "whiteout"}, m)  BY <2>2, <2>4 DEF Named
    <3> QED  BY <2>2, <3>2, <3>3, <3>4 DEF Listed
  <2>5. CASE Named(s, n - 1, {"whiteout"}, m)
    <3>1. g.vis[m] = -1 /\ g.del[m] = i  BY <2>5 DEF Listed
    <3>2. h.vis[m] = -1 /\ h.del[m] = i  BY <1>3, <2>1, <3>1
    <3>3. ~Named(s, n - 1, {"file", "dir"}, m)  BY <3>1 DEF Listed
    <3>4. Named(s, n, {"file", "dir", "whiteout"}, m)  BY <2>2, <2>5 DEF Named
    <3> QED  BY <2>2, <3>2, <3>3, <3>4 DEF Listed
  <2>6. CASE ~Named(s, n - 1, {"file", "dir"}, m) /\ ~Named(s, n - 1, {"whiteout"}, m)
    <3>1. ~Named(s, n - 1, {"file", "dir", "whiteout"}, m)  BY <2>6 DEF Named
    <3>2. g.vis[m] < i /\ g.del[m] < i  BY <3>1 DEF Listed
    <3>3. h.vis[m] = -1 /\ h.del[m] = -1  BY <2>1, <3>2
    <3> QED  BY <2>2, <2>3, <2>6, <3>1, <3>3 DEF Listed
  <2> QED  BY <2>4, <2>5, <2>6
<1>5. CASE e.kind = "whiteout"
  <2>1. h.vis = [g.vis EXCEPT ![e.name] = -1] /\ h.del = [g.del EXCEPT ![e.name] = i]
    BY <1>5 DEF LM!Apply
  <2>2. CASE e.name = m
    <3>1. h.vis[m] = -1 /\ h.del[m] = i  BY <1>3, <2>1, <2>2
    <3>2. Named(s, n, {"whiteout"}, m) /\ Named(s, n, {"file", "dir", "whiteout"}, m)
      BY <1>2, <1>5, <2>2, OneMore
    <3>3. ~Named(s, n, {"file", "dir"}, m)
      BY <1>1, <1>5, <2>2 DEF Named, LM!Listing
    <3> QED  BY <3>1, <3>2, <3>3 DEF Listed
  <2>3. CASE e.name # m
    <3>1. h.vis[m] = g.vis[m] /\ h.del[m] = g.del[m]  BY <1>3, <2>1, <2>3
    <3>2. \A K : Named(s, n, K, m) <=> Named(s, n - 1, K, m)  BY <1>2, <2>3, OneMore
    <3>3. Marked(s, n) <=> Marked(s, n - 1)  BY <1>2, <1>5, OneMore
    <3> QED  BY <3>1, <3>2, <3>3 DEF Listed
  <2> QED  BY <2>2, <2>3
<1>6. CASE e.kind \in {"file", "dir"}
  <2>1. h.vis = [g.vis EXCEPT ![e.name] = i] /\ h.del = [g.del EXCEPT ![e.name] = -1]
    BY <1>6 DEF LM!Apply
  <2>2. CASE e.name = m
    <3>1. h.vis[m] = i /\ h.del[m] = -1  BY <1>3, <2>1, <2>2
    <3>2. Named(s, n, {"file", "dir"}, m) /\ Named(s, n, {"file", "dir", "whiteout"}, m)
      BY <1>2, <1>6, <2>2, OneMore
    <3>3. ~Named(s, n, {"whiteout"}, m)
      BY <1>1, <1>6, <2>2 DEF Named, LM!Listing
    <3> QED  BY <3>1, <3>2, <3>3 DEF Listed
  <2>3. CASE e.name # m
    <3>1. h.vis[m] = g.vis[m] /\ h.del[m] = g.del[m]  BY <1>3, <2>1, <2>3
    <3>2. \A K : Named(s, n, K, m) <=> Named(s, n - 1, K, m)  BY <1>2, <2>3, OneMore
    <3>3. Marked(s, n) <=> Marked(s, n - 1)  BY <1>2, <1>6, OneMore
    <3> QED  BY <3>1, <3>2, <3>3 DEF Listed
  <2> QED  BY <2>2, <2>3
<1> QED  BY <1>1, <1>4, <1>5, <1>6 DEF LM!Entry

\* What a layer's directory makes of what was found below.
LEMMA DirectoryListed ==
    ASSUME NEW f \in Found, NEW i \in Nat, NEW s \in LM!Listing,
           \A m \in FileName : f.vis[m] < i /\ f.del[m] < i
    PROVE  /\ LM!AfterEntries(f, i, s)[Len(s)] \in Found
           /\ \A m \in FileName : Listed(f, LM!AfterEntries(f, i, s)[Len(s)], i, s, Len(s), m)
<1> DEFINE a == LM!AfterEntries(f, i, s)
           S == {n \in 0..Len(s) : \A m \in FileName : Listed(f, a[n], i, s, n, m)}
<1>1. s \in Seq(LM!Entry) /\ Len(s) \in Nat  BY DEF LM!Listing
<1>2. a \in [0..Len(s) -> Found] /\ a[0] = f
      /\ \A n \in 1..Len(s) : a[n] = LM!Apply(a[n - 1], i, s[n])
  BY <1>1, EntriesLoop
<1> HIDE DEF a
<1>3. 0 \in S  BY <1>1, <1>2 DEF Listed, Named, Marked
<1>4. ASSUME NEW n \in 1..Len(s), n - 1 \in S PROVE n \in S
  <2>1. a[n - 1] \in Found  BY <1>1, <1>2
  <2>2. ASSUME NEW m \in FileName PROVE Listed(f, a[n], i, s, n, m)
    <3>1. Listed(f, a[n - 1], i, s, n - 1, m)  BY <1>4
    <3> QED  BY <1>2, <2>1, <3>1, EntryListed
  <2> QED  BY <1>1, <2>2
<1> HIDE DEF S
<1>5. \A n \in 0..Len(s) : n \in S  BY <1>1, <1>3, <1>4, Rounds
<1>6. Len(s) \in S /\ Len(s) \in 0..Len(s)  BY <1>1, <1>5
<1> QED  BY <1>2, <1>6 DEF S, a

\* A directory of a layer is a listing.
LEMMA ListingOf ==
    ASSUME NEW l \in LM!Layer, NEW relDir \in {"root", "sub"}
    PROVE  l.path \in BOOLEAN /\ l[relDir] \in LM!Listing /\ l[relDir] \in Seq(LM!Entry)
<1>1. l[relDir] \in LM!Listing /\ l.path \in BOOLEAN  BY DEF LM!Layer
<1> QED  BY <1>1 DEF LM!Listing

\* What a layer makes of what is found has its type.
LEMMA ApplyLayerTyped ==
    ASSUME NEW f \in Found, NEW i \in Int, NEW l \in LM!Layer, NEW relDir \in {"root", "sub"}
    PROVE  LM!ApplyLayer(f, i, l, relDir) \in Found
<1> DEFINE s == l[relDir]
<1>1. s \in Seq(LM!Entry) /\ Len(s) \in 0..Len(s)  BY ListingOf
<1>2. LM!AfterEntries(f, i, s) \in [0..Len(s) -> Found]  BY <1>1, EntriesLoop
<1> QED  BY <1>1, <1>2 DEF LM!ApplyLayer

\* Nothing is found before the first layer.
LEMMA NothingFound == LM!Nothing \in Found
<1>1. -1 \in Int  OBVIOUS
<1> QED  BY <1>1 DEF LM!Nothing, Found

\* The loop over the layers is what it looks like.
LEMMA LayersLoop ==
    ASSUME NEW ls \in Seq(LM!Layer), NEW relDir \in {"root", "sub"}
    PROVE  /\ LM!AfterLayers(ls, relDir) \in [0..Len(ls) -> Found]
           /\ LM!AfterLayers(ls, relDir)[0] = LM!Nothing
           /\ \A k \in 1..Len(ls) :
                LM!AfterLayers(ls, relDir)[k] =
                    LM!ApplyLayer(LM!AfterLayers(ls, relDir)[k - 1], k - 1, ls[k], relDir)
<1> DEFINE a == LM!AfterLayers(ls, relDir)
           After(g) == [k \in 0..Len(ls) |->
                          IF k = 0 THEN LM!Nothing ELSE LM!ApplyLayer(g[k - 1], k - 1, ls[k], relDir)]
           step == [k \in 1..Len(ls) |-> [t \in Found |-> LM!ApplyLayer(t, k - 1, ls[k], relDir)]]
<1>1. Len(ls) \in Nat /\ \A k \in 1..Len(ls) : ls[k] \in LM!Layer /\ k - 1 \in Int  OBVIOUS
<1>2. step \in [1..Len(ls) -> [Found -> Found]]  BY <1>1, ApplyLayerTyped
<1>3. PICK g \in [0..Len(ls) -> Found] :
        g[0] = LM!Nothing /\ \A k \in 1..Len(ls) : g[k] = step[k][g[k - 1]]
  <2> DEFINE N == Len(ls)
  <2>1. LM!Nothing \in Found /\ N \in Nat /\ step \in [1..N -> [Found -> Found]]
    BY <1>1, <1>2, NothingFound
  <2> HIDE DEF Found, step, N
  <2>2. HasRun(N, Found, LM!Nothing, step)  BY <2>1, Loop
  <2> QED  BY <2>2 DEF N, HasRun
<1>4. g = After(g)
  <2>1. ASSUME NEW k \in 1..Len(ls) PROVE g[k] = LM!ApplyLayer(g[k - 1], k - 1, ls[k], relDir)
    <3>1. g[k - 1] \in Found  BY <1>1, <1>3
    <3> QED  BY <1>3, <3>1
  <2> QED  BY <1>1, <1>3, <2>1
<1>5. a = After(a)
  <2>1. a = CHOOSE h : h = After(h)  BY Zenon DEF LM!AfterLayers
  <2> HIDE DEF a, After
  <2> QED  BY <1>4, <2>1, Zenon
<1>6. /\ a[0] = LM!Nothing
      /\ \A k \in 1..Len(ls) : a[k] = LM!ApplyLayer(a[k - 1], k - 1, ls[k], relDir)
  <2> HIDE DEF a
  <2> QED  BY <1>1, <1>5
<1>7. a \in [0..Len(ls) -> Found]
  <2> DEFINE S == {k \in 0..Len(ls) : a[k] \in Found}
  <2>1. 0 \in S  BY <1>1, <1>6, NothingFound
  <2>2. ASSUME NEW k \in 1..Len(ls), k - 1 \in S PROVE k \in S
    BY <1>1, <1>6, <2>2, ApplyLayerTyped
  <2> HIDE DEF S
  <2>3. \A k \in 0..Len(ls) : k \in S  BY <1>1, <2>1, <2>2, Rounds
  <2> HIDE DEF a
  <2> QED  BY <1>5, <2>3 DEF S
<1> QED  BY <1>6, <1>7

\* What a layer has of a name, in terms of its listing.
LEMMA HasNamed ==
    ASSUME NEW ls \in Seq(LM!Layer), NEW k \in 1..Len(ls), NEW relDir \in {"root", "sub"}
    PROVE  /\ \A K, m : LM!Has(ls, k, relDir, K, m) <=>
                          ls[k].path /\ Named(ls[k][relDir], Len(ls[k][relDir]), K, m)
           /\ LM!Opaque(ls, k, relDir) <=> ls[k].path /\ Marked(ls[k][relDir], Len(ls[k][relDir]))
<1> DEFINE s == ls[k][relDir]
<1>1. ls[k] \in LM!Layer  OBVIOUS
<1>2. s \in Seq(LM!Entry)  BY <1>1, ListingOf
<1>3. LM!ToSet(s) = {s[j] : j \in 1..Len(s)}  BY <1>2 DEF LM!ToSet
<1> HIDE DEF s
<1>4. (\E e \in LM!ToSet(s) : e.kind = "opaque") <=> \E j \in 1..Len(s) : s[j].kind = "opaque"
  BY <1>3
<1>5. LM!Opaque(ls, k, relDir) <=> ls[k].path /\ Marked(s, Len(s))
  BY <1>4, Zenon DEF LM!Opaque, Marked, s
<1>6. ASSUME NEW K, NEW m
      PROVE  LM!Has(ls, k, relDir, K, m) <=> ls[k].path /\ Named(s, Len(s), K, m)
  <2>1. (\E e \in LM!ToSet(s) : e.kind \in K /\ e.name = m) <=> Named(s, Len(s), K, m)
    BY <1>3, SMT DEF Named
  <2> QED  BY <2>1, Zenon DEF LM!Has, s
<1> QED  BY <1>5, <1>6, Zenon DEF s

\* One more layer.
LEMMA NextLayer ==
    ASSUME NEW ls, NEW k \in Nat \ {0}, NEW relDir, NEW n
    PROVE  /\ LM!Provides(ls, k, k, relDir, n) <=> LM!Has(ls, k, relDir, {"file", "dir"}, n)
           /\ LM!Deletes(ls, k, k, relDir, n) <=> LM!Has(ls, k, relDir, {"whiteout"}, n)
           /\ \A j \in 1..k - 1 :
                /\ LM!Provides(ls, j, k, relDir, n) <=>
                     (/\ LM!Provides(ls, j, k - 1, relDir, n)
                      /\ ~LM!Has(ls, k, relDir, {"whiteout"}, n) /\ ~LM!Opaque(ls, k, relDir))
                /\ LM!Deletes(ls, j, k, relDir, n) <=>
                     (/\ LM!Deletes(ls, j, k - 1, relDir, n)
                      /\ ~LM!Has(ls, k, relDir, {"file", "dir"}, n) /\ ~LM!Opaque(ls, k, relDir))
<1>1. k+1..k = {} /\ \A j \in 1..k - 1 : j+1..k = (j+1..k - 1) \cup {k}  OBVIOUS
<1>2. ASSUME NEW j \in 1..k - 1
      PROVE  /\ LM!Provides(ls, j, k, relDir, n) <=>
                  (/\ LM!Provides(ls, j, k - 1, relDir, n)
                   /\ ~LM!Has(ls, k, relDir, {"whiteout"}, n) /\ ~LM!Opaque(ls, k, relDir))
             /\ LM!Deletes(ls, j, k, relDir, n) <=>
                  (/\ LM!Deletes(ls, j, k - 1, relDir, n)
                   /\ ~LM!Has(ls, k, relDir, {"file", "dir"}, n) /\ ~LM!Opaque(ls, k, relDir))
  <2>1. j+1..k = (j+1..k - 1) \cup {k}  BY <1>1
  <2> QED  BY <2>1, Zenon DEF LM!Provides, LM!Deletes
<1>3. (LM!Provides(ls, k, k, relDir, n) <=> LM!Has(ls, k, relDir, {"file", "dir"}, n))
      /\ (LM!Deletes(ls, k, k, relDir, n) <=> LM!Has(ls, k, relDir, {"whiteout"}, n))
  BY <1>1, Zenon DEF LM!Provides, LM!Deletes
<1> QED  BY <1>2, <1>3

\* The layers up to top that provide a name, and that delete it.
Providers(ls, top, relDir, n) == {k \in 1..top : LM!Provides(ls, k, top, relDir, n)}
Deleters(ls, top, relDir, n) == {k \in 1..top : LM!Deletes(ls, k, top, relDir, n)}

\* They change with a layer by what it says of the name.
LEMMA NextProviders ==
    ASSUME NEW ls, NEW k \in Nat \ {0}, NEW relDir, NEW n
    PROVE  LET file  == LM!Has(ls, k, relDir, {"file", "dir"}, n)
               white == LM!Has(ls, k, relDir, {"whiteout"}, n)
               opaque == LM!Opaque(ls, k, relDir)
           IN  /\ file => k \in Providers(ls, k, relDir, n)
               /\ ~file /\ (white \/ opaque) => Providers(ls, k, relDir, n) = {}
               /\ ~file /\ ~white /\ ~opaque =>
                    Providers(ls, k, relDir, n) = Providers(ls, k - 1, relDir, n)
               /\ white => k \in Deleters(ls, k, relDir, n)
               /\ ~white /\ (file \/ opaque) => Deleters(ls, k, relDir, n) = {}
               /\ ~file /\ ~white /\ ~opaque =>
                    Deleters(ls, k, relDir, n) = Deleters(ls, k - 1, relDir, n)
<1> DEFINE file  == LM!Has(ls, k, relDir, {"file", "dir"}, n)
           white == LM!Has(ls, k, relDir, {"whiteout"}, n)
           opaque == LM!Opaque(ls, k, relDir)
           V == Providers(ls, k, relDir, n)
           W == Providers(ls, k - 1, relDir, n)
           D == Deleters(ls, k, relDir, n)
           E == Deleters(ls, k - 1, relDir, n)
           I == 1..k
           J == 1..k - 1
<1>1. k \in I /\ k \notin J /\ \A j : j \in I <=> j \in J \/ j = k  OBVIOUS
<1>2. V \subseteq I /\ W \subseteq J /\ D \subseteq I /\ E \subseteq J
  BY DEF Providers, Deleters
<1>3. (k \in V <=> file) /\ (k \in D <=> white)
  BY <1>1, NextLayer, Zenon DEF Providers, Deleters
<1>4. \A j \in J :
        /\ j \in V <=> (j \in W /\ ~white /\ ~opaque)
        /\ j \in D <=> (j \in E /\ ~file /\ ~opaque)
  BY <1>1, NextLayer, Zenon DEF Providers, Deleters
<1> HIDE DEF V, W, D, E, I, J, file, white, opaque
<1>5. ~file /\ (white \/ opaque) => V = {}  BY <1>1, <1>2, <1>3, <1>4
<1>6. ~white /\ (file \/ opaque) => D = {}  BY <1>1, <1>2, <1>3, <1>4
<1>7. ~file /\ ~white /\ ~opaque => V = W  BY <1>1, <1>2, <1>3, <1>4
<1>8. ~file /\ ~white /\ ~opaque => D = E  BY <1>1, <1>2, <1>3, <1>4
<1> QED  BY <1>3, <1>5, <1>6, <1>7, <1>8, Zenon DEF V, W, D, E, file, white, opaque

\* The last of a set of layers.
LEMMA LastOf ==
    ASSUME NEW k \in Nat \ {0}, NEW K \in SUBSET (1..k)
    PROVE  /\ k \in K => LM!IsLast(k - 1, K)
           /\ K = {} => LM!IsLast(-1, K)
           /\ \A v \in Int : LM!IsLast(v, K) => v < k
BY DEF LM!IsLast

\* A layer of a merge keeps to the overlay semantics.
LEMMA LayerKeeps ==
    ASSUME NEW ls \in Seq(LM!Layer), NEW k \in 1..Len(ls), NEW relDir \in {"root", "sub"},
           NEW f \in Found, LM!Overlay(f, ls, k - 1, relDir)
    PROVE  LM!Overlay(LM!ApplyLayer(f, k - 1, ls[k], relDir), ls, k, relDir)
<1> DEFINE l == ls[k]
           s == l[relDir]
           h == LM!ApplyLayer(f, k - 1, l, relDir)
           V(top, n) == Providers(ls, top, relDir, n)
           D(top, n) == Deleters(ls, top, relDir, n)
           file(n)  == LM!Has(ls, k, relDir, {"file", "dir"}, n)
           white(n) == LM!Has(ls, k, relDir, {"whiteout"}, n)
           opaque   == LM!Opaque(ls, k, relDir)
<1>1. l \in LM!Layer /\ k \in Nat \ {0} /\ k - 1 \in Nat /\ k - 1 \in Int  OBVIOUS
<1>2. s \in LM!Listing /\ s \in Seq(LM!Entry) /\ l.path \in BOOLEAN  BY <1>1, ListingOf
<1>3. \A n \in FileName : /\ LM!IsLast(f.vis[n], V(k - 1, n)) /\ LM!IsLast(f.del[n], D(k - 1, n))
                          /\ f.vis[n] = -1 \/ f.del[n] = -1
  BY Zenon DEF LM!Overlay, Providers, Deleters
<1>4. \A n \in FileName : f.vis[n] \in Int /\ f.del[n] \in Int  BY DEF Found
<1>5. \A n \in FileName : f.vis[n] < k - 1 /\ f.del[n] < k - 1
  <2> TAKE n \in FileName
  <2>1. V(k - 1, n) \subseteq 1..k - 1 /\ D(k - 1, n) \subseteq 1..k - 1
    BY DEF Providers, Deleters
  <2> HIDE DEF V, D
  <2> QED  BY <1>1, <1>3, <1>4, <2>1 DEF LM!IsLast
<1>6. ASSUME NEW n \in FileName
      PROVE  /\ LM!IsLast(h.vis[n], V(k, n)) /\ LM!IsLast(h.del[n], D(k, n))
             /\ h.vis[n] = -1 \/ h.del[n] = -1
  <2>1. V(k, n) \in SUBSET (1..k) /\ D(k, n) \in SUBSET (1..k)  BY DEF Providers, Deleters
  <2>2. /\ file(n) => k \in V(k, n)
        /\ ~file(n) /\ (white(n) \/ opaque) => V(k, n) = {}
        /\ ~file(n) /\ ~white(n) /\ ~opaque => V(k, n) = V(k - 1, n)
        /\ white(n) => k \in D(k, n)
        /\ ~white(n) /\ (file(n) \/ opaque) => D(k, n) = {}
        /\ ~file(n) /\ ~white(n) /\ ~opaque => D(k, n) = D(k - 1, n)
    BY <1>1, NextProviders, Zenon
  <2>3. CASE ~l.path
    <3>1. h = f  BY <2>3 DEF LM!ApplyLayer
    <3>2. ~file(n) /\ ~white(n) /\ ~opaque  BY <2>3 DEF LM!Has, LM!Opaque
    <3> HIDE DEF h, file, white, opaque, V, D
    <3> QED  BY <1>3, <2>2, <3>1, <3>2, Zenon
  <2>4. CASE l.path
    <3>1. h = LM!AfterEntries(f, k - 1, s)[Len(s)]  BY <2>4 DEF LM!ApplyLayer
    <3>2. Listed(f, h, k - 1, s, Len(s), n)  BY <1>1, <1>2, <1>5, <3>1, DirectoryListed
    <3>3. /\ file(n) <=> Named(s, Len(s), {"file", "dir"}, n)
          /\ white(n) <=> Named(s, Len(s), {"whiteout"}, n)
          /\ opaque <=> Marked(s, Len(s))
      BY <2>4, HasNamed, Zenon
    <3>4. Named(s, Len(s), {"file", "dir", "whiteout"}, n) <=> file(n) \/ white(n)
      <4> HIDE DEF file, white
      <4> QED  BY <3>3 DEF Named
    <3>5. ~(file(n) /\ white(n))
      <4>1. DOMAIN s = 1..Len(s)  BY <1>2
      <4> HIDE DEF file, white, s
      <4> QED  BY <1>2, <3>3, <4>1 DEF Named, LM!Listing
    <3> HIDE DEF file, white, opaque, V, D, h, s
    <3>6. /\ file(n) => h.vis[n] = k - 1 /\ h.del[n] = -1
          /\ white(n) => h.vis[n] = -1 /\ h.del[n] = k - 1
          /\ ~file(n) /\ ~white(n) => IF opaque THEN h.vis[n] = -1 /\ h.del[n] = -1
                                      ELSE h.vis[n] = f.vis[n] /\ h.del[n] = f.del[n]
      BY <3>2, <3>3, <3>4 DEF Listed
    <3>7. CASE file(n)
      <4>1. LM!IsLast(k - 1, V(k, n)) /\ LM!IsLast(-1, D(k, n))
        BY <1>1, <2>1, <2>2, <3>5, <3>7, LastOf
      <4> QED  BY <3>6, <3>7, <4>1
    <3>8. CASE white(n)
      <4>1. LM!IsLast(-1, V(k, n)) /\ LM!IsLast(k - 1, D(k, n))
        BY <1>1, <2>1, <2>2, <3>5, <3>8, LastOf
      <4> QED  BY <3>6, <3>8, <4>1
    <3>9. CASE ~file(n) /\ ~white(n) /\ opaque
      <4>1. LM!IsLast(-1, V(k, n)) /\ LM!IsLast(-1, D(k, n))
        BY <1>1, <2>1, <2>2, <3>9, LastOf
      <4> QED  BY <3>6, <3>9, <4>1
    <3>10. CASE ~file(n) /\ ~white(n) /\ ~opaque
      BY <1>3, <2>2, <3>6, <3>10, Zenon
    <3> QED  BY <3>7, <3>8, <3>9, <3>10
  <2> QED  BY <1>2, <2>3, <2>4
<1> HIDE DEF h
<1> QED  BY <1>6, Zenon DEF LM!Overlay, Providers, Deleters, h

\* mergeLayerDir lists a directory as an overlay mount of the layers would.
LEMMA MergeIsOverlay ==
    ASSUME NEW ls \in Seq(LM!Layer), NEW relDir \in {"root", "sub"}
    PROVE  LM!MergedAsOverlay(ls, relDir)
<1> DEFINE a == LM!AfterLayers(ls, relDir)
           S == {k \in 0..Len(ls) : LM!Overlay(a[k], ls, k, relDir)}
<1>1. Len(ls) \in Nat /\ Len(ls) \in 0..Len(ls)  OBVIOUS
<1>2. /\ a \in [0..Len(ls) -> Found] /\ a[0] = LM!Nothing
      /\ \A k \in 1..Len(ls) : a[k] = LM!ApplyLayer(a[k - 1], k - 1, ls[k], relDir)
  BY LayersLoop
<1> HIDE DEF a
<1>3. 0 \in S
  <2>2. LM!IsLast(-1, {})  BY DEF LM!IsLast
  <2>3. 1..0 = {}  OBVIOUS
  <2>4. \A n \in FileName : LM!Nothing.vis[n] = -1 /\ LM!Nothing.del[n] = -1  BY DEF LM!Nothing
  <2>5. LM!Overlay(LM!Nothing, ls, 0, relDir)  BY <2>2, <2>3, <2>4, Zenon DEF LM!Overlay
  <2> QED  BY <1>1, <1>2, <2>5
<1>4. ASSUME NEW k \in 1..Len(ls), k - 1 \in S PROVE k \in S
  <2>1. a[k - 1] \in Found  BY <1>1, <1>2
  <2> QED  BY <1>2, <1>4, <2>1, LayerKeeps
<1> HIDE DEF S
<1>5. \A k \in 0..Len(ls) : k \in S  BY <1>1, <1>3, <1>4, Rounds
<1> QED  BY <1>1, <1>5 DEF S, a, LM!MergedAsOverlay, LM!mergeLayerDir

\* What is chosen is an input.
Chosen ==
    \/ input = NoInput
    \/ \E l \in LayerLists : input = [kind |-> "layers", layers |-> l]
    \/ \E config, status, spec, live \in Sources :
         input = [kind |-> "cri", config |-> config, status |-> status, spec |-> spec, live |-> live]
    \/ \E declared, spec, live \in Sources :
         input = [kind |-> "docker", declared |-> declared, spec |-> spec, live |-> live]
    \/ \E a \in DT!Deployments : input = [kind |-> "daemons", at |-> a]

\* A behaviour is at an input it chose, or has chosen none.
LEMMA ChosenHolds == ChooseSpec => []Chosen
<1>1. input = NoInput => Chosen  BY DEF Chosen
<1>2. Chosen /\ [Choose]_input => Chosen'
  <2> SUFFICES ASSUME Chosen, [Choose]_input PROVE Chosen'  OBVIOUS
  <2>1. CASE ChooseLayers  BY <2>1 DEF ChooseLayers, Chosen
  <2>2. CASE ChooseCRIMounts  BY <2>2 DEF ChooseCRIMounts, Chosen
  <2>3. CASE ChooseDockerMounts  BY <2>3 DEF ChooseDockerMounts, Chosen
  <2>4. CASE ChooseDaemons  BY <2>4 DEF ChooseDaemons, Chosen
  <2>5. CASE UNCHANGED input  BY <2>5 DEF Chosen
  <2> QED  BY <2>1, <2>2, <2>3, <2>4, <2>5 DEF Choose
<1> QED  BY <1>1, <1>2, PTL DEF ChooseSpec

\* The merged browser shows what an overlay mount of the layers would.
THEOREM BrowserMergesLayers == ChooseSpec => []MergedIsOverlay
<1>1. Chosen => MergedIsOverlay
  <2> SUFFICES ASSUME Chosen, input.kind = "layers" PROVE LM!MergedAsOverlay(input.layers, "root")
    BY DEF MergedIsOverlay
  <2>1. input.layers \in LayerLists  BY DEF Chosen, NoInput
  <2> QED  BY <2>1, LayersAssumption, MergeIsOverlay
<1> QED  BY <1>1, ChosenHolds, PTL

\* Below the root, where an opaque marker or a whiteout of the parent is not
\* looked at, the merged browser still shows whatever an overlay mount would,
\* and nothing else unless a layer takes the whole directory away: this is all
\* that is wrong with SubMergedAsOverlay.
THEOREM SubDirectoryMerges ==
    ASSUME NEW ls \in Seq(LM!Layer)
    PROVE  /\ LM!VisibleInSub(ls) \subseteq {n \in FileName : LM!mergeLayerDir(ls, "sub").vis[n] # -1}
           /\ (\A j \in DOMAIN ls : ~LM!HidesSub(ls, j)) => LM!SubMergedAsOverlay(ls)
<1> DEFINE vis == LM!mergeLayerDir(ls, "sub").vis
           Seen(n) == Providers(ls, Len(ls), "sub", n)
           shown == {n \in FileName : vis[n] # -1}
<1>1. DOMAIN ls = 1..Len(ls) /\ Len(ls) \in Nat  OBVIOUS
<1>2. \A n \in FileName : LM!IsLast(vis[n], Seen(n))
  BY MergeIsOverlay, Zenon DEF LM!MergedAsOverlay, LM!Overlay, Providers
<1>3. shown = {n \in FileName : Seen(n) # {}}
  <2>1. \A n \in FileName : Seen(n) \subseteq 1..Len(ls)  BY DEF Providers
  <2>2. ASSUME NEW n \in FileName PROVE vis[n] # -1 <=> Seen(n) # {}
    <3> HIDE DEF vis, Seen
    <3>1. CASE Seen(n) = {}  BY <1>2, <3>1 DEF LM!IsLast
    <3>2. CASE Seen(n) # {}
      <4>1. vis[n] + 1 \in 1..Len(ls)  BY <1>2, <2>1, <3>2 DEF LM!IsLast
      <4> QED  BY <3>2, <4>1
    <3> QED  BY <3>1, <3>2
  <2> HIDE DEF vis, Seen
  <2> QED  BY <2>2
<1>4. \A n \in FileName : Seen(n) # {} <=> \E k \in DOMAIN ls : LM!Provides(ls, k, Len(ls), "sub", n)
  <2>1. \A n \in FileName : Seen(n) = {k \in DOMAIN ls : LM!Provides(ls, k, Len(ls), "sub", n)}
    BY <1>1, Zenon DEF Providers
  <2> QED  BY <2>1, Zenon
<1>5. LM!VisibleInSub(ls) \subseteq {n \in FileName : Seen(n) # {}}
  BY <1>4, Zenon DEF LM!VisibleInSub
<1>6. ASSUME \A j \in DOMAIN ls : ~LM!HidesSub(ls, j)
      PROVE  {n \in FileName : Seen(n) # {}} \subseteq LM!VisibleInSub(ls)
  <2>1. \A k \in DOMAIN ls : \A j \in k+1..Len(ls) : j \in DOMAIN ls  BY <1>1
  <2> QED  BY <1>4, <1>6, <2>1, Zenon DEF LM!VisibleInSub
<1> HIDE DEF Seen, shown
<1>7. shown = {n \in FileName : LM!mergeLayerDir(ls, "sub").vis[n] # -1}  BY DEF shown
<1> QED  BY <1>3, <1>5, <1>6, <1>7, Zenon DEF LM!SubMergedAsOverlay

\* What two lists of paths have when joined.
LEMMA Joined ==
    ASSUME NEW S, NEW s \in Seq(S), NEW t \in Seq(S)
    PROVE  /\ s \o t \in Seq(S)
           /\ DT!ToSet(s) \subseteq DT!ToSet(s \o t) /\ DT!ToSet(t) \subseteq DT!ToSet(s \o t)
<1> DEFINE u == s \o t
<1>1. u \in Seq(S) /\ Len(u) = Len(s) + Len(t)
      /\ \A i \in 1..Len(s) + Len(t) : u[i] = IF i <= Len(s) THEN s[i] ELSE t[i - Len(s)]
  BY ConcatProperties
<1>2. \A i \in DOMAIN s : i \in DOMAIN u /\ u[i] = s[i]
  <2> HIDE DEF u
  <2> QED  BY <1>1
<1>3. \A i \in DOMAIN t : i + Len(s) \in DOMAIN u /\ u[i + Len(s)] = t[i]
  <2> HIDE DEF u
  <2> QED  BY <1>1
<1> HIDE DEF u
<1>4. DT!ToSet(s) \subseteq DT!ToSet(u)
  <2> SUFFICES ASSUME NEW i \in DOMAIN s PROVE s[i] \in DT!ToSet(u)  BY Zenon DEF DT!ToSet
  <2> QED  BY <1>2, Zenon DEF DT!ToSet
<1>5. DT!ToSet(t) \subseteq DT!ToSet(u)
  <2> SUFFICES ASSUME NEW i \in DOMAIN t PROVE t[i] \in DT!ToSet(u)  BY Zenon DEF DT!ToSet
  <2> QED  BY <1>3, Zenon DEF DT!ToSet
<1> QED  BY <1>1, <1>4, <1>5, Zenon DEF u

\* The paths that are tried.
LEMMA SocketPaths ==
    /\ DT!LooksLikeCRIO = {"/run/crio", "/var/run/crio"}
    /\ DT!LooksLikeDocker = {"/var/run/docker", "/run/docker"}
    /\ {"/run/crio", "/var/run/crio", "/run/containerd", "/var/run/containerd",
        "/var/run/docker", "/run/docker"} \subseteq DT!Socket
<1> DEFINE c == DT!crioSockets
           d == DT!containerdSockets
           e == DT!dockerSockets
           S == {"/run/crio", "/var/run/crio", "/run/containerd", "/var/run/containerd",
                 "/var/run/docker", "/run/docker"}
<1>1. c \in Seq(S) /\ d \in Seq(S) /\ e \in Seq(S)
  <2>1. ASSUME NEW T, NEW x \in T, NEW y \in T PROVE <<x, y>> \in Seq(T)  OBVIOUS
  <2> QED  BY <2>1 DEF DT!crioSockets, DT!containerdSockets, DT!dockerSockets
<1>2. /\ DT!ToSet(c) = {"/run/crio", "/var/run/crio"}
      /\ DT!ToSet(d) = {"/run/containerd", "/var/run/containerd"}
      /\ DT!ToSet(e) = {"/var/run/docker", "/run/docker"}
  BY DEF DT!crioSockets, DT!containerdSockets, DT!dockerSockets, DT!ToSet
<1> HIDE DEF c, d, e, S
<1>3. c \o d \in Seq(S) /\ (c \o d) \o e \in Seq(S)
      /\ DT!ToSet(c) \subseteq DT!ToSet((c \o d) \o e)
      /\ DT!ToSet(d) \subseteq DT!ToSet((c \o d) \o e)
      /\ DT!ToSet(e) \subseteq DT!ToSet((c \o d) \o e)
  <2>1. /\ c \o d \in Seq(S)
        /\ DT!ToSet(c) \subseteq DT!ToSet(c \o d) /\ DT!ToSet(d) \subseteq DT!ToSet(c \o d)
    BY <1>1, Joined
  <2>2. /\ (c \o d) \o e \in Seq(S)
        /\ DT!ToSet(c \o d) \subseteq DT!ToSet((c \o d) \o e)
        /\ DT!ToSet(e) \subseteq DT!ToSet((c \o d) \o e)
    BY <1>1, <2>1, Joined
  <2> QED  BY <2>1, <2>2, Zenon
<1>4. DT!Socket = DT!ToSet((c \o d) \o e) /\ DT!LooksLikeCRIO = DT!ToSet(c)
      /\ DT!LooksLikeDocker = DT!ToSet(e)
  BY Zenon DEF DT!Socket, DT!LooksLikeCRIO, DT!LooksLikeDocker, c, d, e
<1> QED  BY <1>2, <1>3, <1>4 DEF S

\* Where something answers, a first candidate does.
LEMMA FirstHit ==
    ASSUME NEW speaks, DT!Hits(speaks) # {}
    PROVE  \E p \in DT!Hits(speaks) : \A q \in DT!Hits(speaks) :
              p[1] < q[1] \/ (p[1] = q[1] /\ p[2] <= q[2])
<1> DEFINE H == DT!Hits(speaks)
           N == {2 * q[1] + q[2] : q \in H}
<1>1. \A q \in H : q[1] \in 1..4 /\ q[2] \in 1..2
  BY DEF DT!Hits, DT!Rounds
<1> HIDE DEF H
<1>2. N \subseteq Nat /\ N # {}  BY <1>1 DEF H
<1> HIDE DEF N
<1>3. PICK least \in N : \A v \in N : least <= v  BY <1>2, Least
<1>4. PICK p \in H : least = 2 * p[1] + p[2]  BY DEF N
<1>5. ASSUME NEW q \in H PROVE p[1] < q[1] \/ (p[1] = q[1] /\ p[2] <= q[2])
  <2>1. 2 * p[1] + p[2] <= 2 * q[1] + q[2]  BY <1>3, <1>4 DEF N
  <2> QED  BY <1>1, <1>4, <2>1
<1> QED  BY <1>4, <1>5 DEF H

\* The candidate that is taken for running answers as its round needs.
LEMMA AutoHits ==
    ASSUME NEW speaks, DT!detectAuto(speaks) # DT!NotFound
    PROVE  \E p \in DT!Hits(speaks) :
              DT!detectAuto(speaks) = DT!Found(DT!Rounds[p[1]].type, DT!Rounds[p[1]].socks[p[2]])
<1> DEFINE First(p) == \A q \in DT!Hits(speaks) : p[1] < q[1] \/ (p[1] = q[1] /\ p[2] <= q[2])
           chosen == CHOOSE p \in DT!Hits(speaks) : First(p)
<1>1. DT!Hits(speaks) # {}  BY Zenon DEF DT!detectAuto
<1>2. \E p \in DT!Hits(speaks) : First(p)  BY <1>1, FirstHit, Zenon
<1> HIDE DEF First
<1>3. chosen \in DT!Hits(speaks)  BY <1>2, Zenon
<1>4. DT!detectAuto(speaks) = DT!Found(DT!Rounds[chosen[1]].type, DT!Rounds[chosen[1]].socks[chosen[2]])
  BY <1>1, Zenon DEF DT!detectAuto, First
<1> HIDE DEF chosen
<1> QED  BY <1>3, <1>4, Zenon

\* What a hit says, by round.
LEMMA HitsByRound ==
    ASSUME NEW speaks, NEW p \in DT!Hits(speaks)
    PROVE  LET type == DT!Rounds[p[1]].type
               sock == DT!Rounds[p[1]].socks[p[2]]
           IN  \/ type = "crio" /\ sock \in {"/run/crio", "/var/run/crio"} /\ "cri" \in speaks[sock]
               \/ /\ type = "containerd" /\ sock \in {"/run/containerd", "/var/run/containerd"}
                  /\ "containerd" \in speaks[sock]
               \/ /\ type = "docker" /\ sock \in {"/var/run/docker", "/run/docker"}
                  /\ "docker" \in speaks[sock]
<1> DEFINE type == DT!Rounds[p[1]].type
           sock == DT!Rounds[p[1]].socks[p[2]]
<1>1. p[1] \in 1..4 /\ p[2] \in 1..2 /\ DT!Rounds[p[1]].needs \subseteq speaks[sock]
  BY DEF DT!Hits, DT!Rounds
<1>2. CASE p[1] = 1
  <2>1. /\ DT!Rounds[1].needs = {"cri"} /\ DT!Rounds[1].type = "crio"
        /\ DT!Rounds[1].socks = DT!crioSockets
    BY DEF DT!Rounds
  <2> QED  BY <1>1, <1>2, <2>1 DEF DT!crioSockets
<1>3. CASE p[1] = 2
  <2>1. /\ DT!Rounds[2].needs = {"containerd", "cri"} /\ DT!Rounds[2].type = "containerd"
        /\ DT!Rounds[2].socks = DT!containerdSockets
    BY DEF DT!Rounds
  <2> QED  BY <1>1, <1>3, <2>1 DEF DT!containerdSockets
<1>4. CASE p[1] = 3
  <2>1. /\ DT!Rounds[3].needs = {"docker"} /\ DT!Rounds[3].type = "docker"
        /\ DT!Rounds[3].socks = DT!dockerSockets
    BY DEF DT!Rounds
  <2> QED  BY <1>1, <1>4, <2>1 DEF DT!dockerSockets
<1>5. CASE p[1] = 4
  <2>1. /\ DT!Rounds[4].needs = {"containerd"} /\ DT!Rounds[4].type = "containerd"
        /\ DT!Rounds[4].socks = DT!containerdSockets
    BY DEF DT!Rounds
  <2> QED  BY <1>1, <1>5, <2>1 DEF DT!containerdSockets
<1> QED  BY <1>1, <1>2, <1>3, <1>4, <1>5

\* The automatic choice and the explicit one agree, whatever daemons listen.
LEMMA Agreement ==
    ASSUME NEW daemonAt \in DT!Deployments
    PROVE  DT!ExplicitAgreesWithAuto(daemonAt)
<1> DEFINE speaks == [s \in DT!Socket |-> DT!Daemon[daemonAt[s]]]
           auto == DT!newRuntime(speaks, "", "")
           sock == auto.sock
<1> SUFFICES ASSUME auto.type # "none"
             PROVE  /\ daemonAt[sock] \in DOMAIN DT!ClientOf /\ auto.type = DT!ClientOf[daemonAt[sock]]
                    /\ DT!newRuntime(speaks, sock, "") = auto
  BY Zenon DEF DT!ExplicitAgreesWithAuto
<1>1. /\ auto.type = DT!detectAuto(speaks).type /\ sock = DT!detectAuto(speaks).sock
      /\ auto = [type |-> auto.type, sock |-> sock,
                 namespace |-> IF auto.type = "containerd"
                               THEN DT!resolveContainerdNamespace(speaks, "", sock) ELSE ""]
  BY DEF DT!newRuntime
<1>2. DT!detectAuto(speaks) # DT!NotFound
  <2>1. DT!NotFound.type = "none"  BY DEF DT!NotFound, DT!Found
  <2> HIDE DEF auto, speaks
  <2> QED  BY <1>1, <2>1, Zenon
<1>3. \/ auto.type = "crio" /\ sock \in {"/run/crio", "/var/run/crio"} /\ "cri" \in speaks[sock]
      \/ /\ auto.type = "containerd" /\ sock \in {"/run/containerd", "/var/run/containerd"}
         /\ "containerd" \in speaks[sock]
      \/ /\ auto.type = "docker" /\ sock \in {"/var/run/docker", "/run/docker"}
         /\ "docker" \in speaks[sock]
  <2> HIDE DEF speaks
  <2>1. PICK p \in DT!Hits(speaks) :
          DT!detectAuto(speaks) = DT!Found(DT!Rounds[p[1]].type, DT!Rounds[p[1]].socks[p[2]])
    BY <1>2, AutoHits
  <2>2. auto.type = DT!Rounds[p[1]].type /\ sock = DT!Rounds[p[1]].socks[p[2]]
    <3>1. /\ DT!detectAuto(speaks).type = DT!Rounds[p[1]].type
          /\ DT!detectAuto(speaks).sock = DT!Rounds[p[1]].socks[p[2]]
      <4> DEFINE found == DT!detectAuto(speaks)
                 type == DT!Rounds[p[1]].type
                 path == DT!Rounds[p[1]].socks[p[2]]
      <4>1. found = [type |-> type, sock |-> path]  BY <2>1, Zenon DEF DT!Found
      <4> HIDE DEF found, type, path
      <4>2. found.type = type /\ found.sock = path  BY <4>1
      <4> QED  BY <4>2 DEF found, type, path
    <3> HIDE DEF auto
    <3> QED  BY <1>1, <3>1, Zenon
  <2> HIDE DEF auto
  <2> QED  BY <2>2, HitsByRound, Zenon
<1>4. sock # "" /\ sock \in DT!Socket /\ (sock \in DT!LooksLikeCRIO <=> auto.type = "crio")
  <2> HIDE DEF auto, speaks
  <2> QED  BY <1>3, SocketPaths
<1>5. /\ daemonAt[sock] \in DOMAIN DT!Daemon /\ speaks[sock] = DT!Daemon[daemonAt[sock]]
      /\ IF auto.type = "crio" THEN daemonAt[sock] \in {"crio", "nothing"} ELSE daemonAt[sock] # "crio"
  <2> HIDE DEF auto
  <2> QED  BY <1>4 DEF DT!Deployments
<1> HIDE DEF speaks, auto
<1>6. /\ daemonAt[sock] \in DOMAIN DT!ClientOf /\ auto.type = DT!ClientOf[daemonAt[sock]]
      /\ DT!detectExplicit(speaks, sock) = auto.type
  <2>1. daemonAt[sock] \in {"crio", "containerd", "criContainerd", "docker", "nothing"}
    BY <1>5 DEF DT!Daemon
  <2> DEFINE d == daemonAt[sock]
  <2>5. /\ DT!Daemon["crio"] = {"cri"} /\ DT!Daemon["containerd"] = {"containerd"}
        /\ DT!Daemon["criContainerd"] = {"containerd", "cri"} /\ DT!Daemon["docker"] = {"docker"}
        /\ DT!Daemon["nothing"] = {}
    BY DEF DT!Daemon
  <2>6. /\ DOMAIN DT!ClientOf = {"crio", "containerd", "criContainerd", "docker"}
        /\ DT!ClientOf["crio"] = "crio" /\ DT!ClientOf["containerd"] = "containerd"
        /\ DT!ClientOf["criContainerd"] = "containerd" /\ DT!ClientOf["docker"] = "docker"
    BY DEF DT!ClientOf
  <2> HIDE DEF d
  <2>2. CASE auto.type = "crio"
    <3>1. d = "crio"  BY <1>3, <1>5, <2>2, <2>5 DEF d
    <3> QED  BY <1>4, <1>5, <2>2, <2>5, <2>6, <3>1 DEF d, DT!detectExplicit
  <2>3. CASE auto.type = "containerd"
    <3>1. d \in {"containerd", "criContainerd"}  BY <1>3, <1>5, <2>1, <2>3, <2>5 DEF d
    <3> QED  BY <1>4, <1>5, <2>3, <2>5, <2>6, <3>1 DEF d, DT!detectExplicit
  <2>4. CASE auto.type = "docker"
    <3>1. d = "docker"  BY <1>3, <1>5, <2>1, <2>4, <2>5 DEF d
    <3> QED  BY <1>4, <1>5, <2>4, <2>5, <2>6, <3>1 DEF d, DT!detectExplicit
  <2> QED  BY <1>3, <2>2, <2>3, <2>4
<1>7. DT!newRuntime(speaks, sock, "") = auto
  BY <1>1, <1>4, <1>6 DEF DT!newRuntime, DT!Found
<1> QED  BY <1>6, <1>7

\* A socket that is found and the same one named are taken for the same runtime.
THEOREM NamedAsFound == ChooseSpec => []DetectionAgrees
<1>1. Chosen => DetectionAgrees
  BY Agreement DEF Chosen, DetectionAgrees, NoInput
<1> QED  BY <1>1, ChosenHolds, PTL

-----------------------------------------------------------------------------
(***************************************************************************)
(* The mounts.  A row names at most one entry of each source; what is      *)
(* claimed of a source are the entries the rows name, and 0.               *)
(***************************************************************************)

Field == {"decl", "status", "spec", "live"}
Destination == DOMAIN Normal

MountRow ==
    [dest : Destination, origin : {"user", "kubelet", "runtime-default", "live-extra"},
     decl : Nat, status : Nat, spec : Nat, live : Nat,
     state : {"declared-live", "declared-only", "live-only"}]

Claims == [rows : Seq(MountRow), status : SUBSET Nat, spec : SUBSET Nat, live : SUBSET Nat]

\* The sources by the field of a row that names their entries.
By(declared, status, spec, live) ==
    [decl |-> declared, status |-> status, spec |-> spec, live |-> live]

\* The entries that are claimed, of the declared mounts the first n.
Taken(a, n) == [decl |-> 0..n, status |-> a.status, spec |-> a.spec, live |-> a.live]

\* The rows name the entries taken, each once, and have the destination of
\* every entry they name.
Kept(rws, taken, src) ==
    /\ \A f \in Field : taken[f] \subseteq 0..Len(src[f])
    /\ \A f \in Field : \A r \in DOMAIN rws : rws[r][f] = 0 \/ rws[r][f] \in taken[f]
    /\ \A f \in Field : \A i \in taken[f] \ {0} : \E r \in DOMAIN rws : rws[r][f] = i
    /\ \A f \in Field : \A r, s \in DOMAIN rws : rws[r][f] = rws[s][f] /\ rws[r][f] # 0 => r = s
    /\ \A f \in Field : \A r \in DOMAIN rws :
         rws[r][f] # 0 => MM!SameDestination(src[f][rws[r][f]], rws[r].dest)

\* A destination has one row, which took all that has the destination.
Single(rws, taken, src) ==
    /\ MM!OneRowEach(rws)
    /\ \A f \in Field : \A r \in DOMAIN rws : \A i \in DOMAIN src[f] :
         MM!SameDestination(src[f][i], rws[r].dest) => i \in taken[f]

\* A row that can be added: its entries are of its destination and not taken.
Fresh(row, taken, src) ==
    \A f \in Field : row[f] # 0 => /\ row[f] \in DOMAIN src[f] /\ row[f] \notin taken[f]
                                   /\ MM!SameDestination(src[f][row[f]], row.dest)

\* A row that leaves nothing of its destination.
Exhausts(row, taken, src) ==
    /\ \E f \in Field : row[f] # 0
    /\ \A f \in Field : \A i \in DOMAIN src[f] :
         MM!SameDestination(src[f][i], row.dest) => i \in taken[f] \/ i = row[f]

\* A row's entries are numbers.
LEMMA RowNats == \A row \in MountRow : \A f \in Field : row[f] \in Nat
BY DEF MountRow, Field

\* Adding a row.
LEMMA AppendRow ==
    ASSUME NEW rws \in Seq(MountRow), NEW row \in MountRow
    PROVE  /\ Append(rws, row) \in Seq(MountRow)
           /\ DOMAIN Append(rws, row) = DOMAIN rws \cup {Len(rws) + 1}
           /\ \A r \in DOMAIN rws : Append(rws, row)[r] = rws[r]
           /\ Append(rws, row)[Len(rws) + 1] = row
           /\ Len(rws) + 1 \notin DOMAIN rws
OBVIOUS

\* A fresh row keeps every row's entries its own.
LEMMA KeptWithRow ==
    ASSUME NEW rws \in Seq(MountRow), NEW row \in MountRow, NEW taken, NEW left,
           NEW src \in [Field -> Seq(Destination)],
           Kept(rws, taken, src), Fresh(row, taken, src),
           \A f \in Field : left[f] = taken[f] \cup {row[f]}
    PROVE  Kept(Append(rws, row), left, src)
<1> DEFINE new == Append(rws, row)
           top == Len(rws) + 1
           D == DOMAIN rws
<1>1. /\ DOMAIN new = D \cup {top} /\ top \notin D
      /\ \A r \in D : new[r] = rws[r]
      /\ new[top] = row
  BY AppendRow
<1>2. \A f \in Field : row[f] \in Nat /\ src[f] \in Seq(Destination) /\ Len(src[f]) \in Nat
  BY RowNats
<1> HIDE DEF new, top, D
<1>3. ASSUME NEW f \in Field
      PROVE  /\ left[f] \subseteq 0..Len(src[f])
             /\ \A r \in DOMAIN new : new[r][f] = 0 \/ new[r][f] \in left[f]
             /\ \A i \in left[f] \ {0} : \E r \in DOMAIN new : new[r][f] = i
             /\ \A r, s \in DOMAIN new : new[r][f] = new[s][f] /\ new[r][f] # 0 => r = s
             /\ \A r \in DOMAIN new :
                  new[r][f] # 0 => MM!SameDestination(src[f][new[r][f]], new[r].dest)
  <2>1. left[f] = taken[f] \cup {row[f]}  OBVIOUS
  <2>2. /\ taken[f] \subseteq 0..Len(src[f])
        /\ \A r \in D : rws[r][f] = 0 \/ rws[r][f] \in taken[f]
        /\ \A i \in taken[f] \ {0} : \E r \in D : rws[r][f] = i
        /\ \A r, s \in D : rws[r][f] = rws[s][f] /\ rws[r][f] # 0 => r = s
        /\ \A r \in D : rws[r][f] # 0 => MM!SameDestination(src[f][rws[r][f]], rws[r].dest)
    BY Zenon DEF Kept, D
  <2>3. row[f] # 0 => /\ row[f] \in DOMAIN src[f] /\ row[f] \notin taken[f]
                      /\ MM!SameDestination(src[f][row[f]], row.dest)
    BY DEF Fresh
  <2>4. left[f] \subseteq 0..Len(src[f])  BY <1>2, <2>1, <2>2, <2>3
  <2>5. \A r \in DOMAIN new : new[r][f] = 0 \/ new[r][f] \in left[f]  BY <1>1, <2>1, <2>2
  <2>6. \A i \in left[f] \ {0} : \E r \in DOMAIN new : new[r][f] = i  BY <1>1, <2>1, <2>2
  <2>7. \A r, s \in DOMAIN new : new[r][f] = new[s][f] /\ new[r][f] # 0 => r = s
    BY <1>1, <2>2, <2>3
  <2>8. \A r \in DOMAIN new : new[r][f] # 0 => MM!SameDestination(src[f][new[r][f]], new[r].dest)
    BY <1>1, <2>2, <2>3
  <2> QED  BY <2>4, <2>5, <2>6, <2>7, <2>8
<1> QED  BY <1>3, Zenon DEF Kept, new

\* A fresh row that leaves nothing of its destination is its only row.
LEMMA SingleWithRow ==
    ASSUME NEW rws \in Seq(MountRow), NEW row \in MountRow, NEW taken, NEW left,
           NEW src \in [Field -> Seq(Destination)],
           Single(rws, taken, src), Fresh(row, taken, src), Exhausts(row, taken, src),
           \A f \in Field : left[f] = taken[f] \cup {row[f]}
    PROVE  Single(Append(rws, row), left, src)
<1> DEFINE new == Append(rws, row)
           top == Len(rws) + 1
           D == DOMAIN rws
           same(c, d) == MM!SameDestination(c, d)
<1>1. /\ DOMAIN new = D \cup {top} /\ top \notin D
      /\ \A r \in D : new[r] = rws[r]
      /\ new[top] = row
  BY AppendRow
<1>2. \A c, d, e : /\ same(c, d) => same(d, c)
                   /\ same(c, d) /\ same(d, e) => same(c, e)
  BY DEF MM!SameDestination
<1> HIDE DEF new, top, same, D
<1>3. ASSUME NEW r \in D PROVE ~same(rws[r].dest, row.dest)
  <2>1. PICK f \in Field : row[f] # 0  BY Zenon DEF Exhausts
  <2>2. row[f] \in DOMAIN src[f] /\ row[f] \notin taken[f] /\ same(src[f][row[f]], row.dest)
    BY <2>1, Zenon DEF Fresh, same
  <2>3. ~same(src[f][row[f]], rws[r].dest)  BY <2>2, Zenon DEF Single, same, D
  <2> QED  BY <1>2, <2>2, <2>3, Zenon
<1>4. MM!OneRowEach(new)
  <2>1. \A r, s \in D : same(rws[r].dest, rws[s].dest) => r = s
    BY Zenon DEF Single, MM!OneRowEach, same, D
  <2>2. ASSUME NEW r \in DOMAIN new, NEW s \in DOMAIN new, same(new[r].dest, new[s].dest)
        PROVE  r = s
    <3>1. CASE r \in D /\ s \in D
      <4>1. new[r] = rws[r] /\ new[s] = rws[s]  BY <1>1, <3>1
      <4> QED  BY <2>1, <2>2, <3>1, <4>1
    <3>2. CASE r \in D /\ s = top
      <4>1. new[r] = rws[r] /\ new[s] = row  BY <1>1, <3>2
      <4> QED  BY <1>3, <2>2, <3>2, <4>1
    <3>3. CASE r = top /\ s \in D
      <4>1. new[r] = row /\ new[s] = rws[s]  BY <1>1, <3>3
      <4>2. same(rws[s].dest, row.dest)  BY <1>2, <2>2, <4>1
      <4> QED  BY <1>3, <3>3, <4>2
    <3> QED  BY <1>1, <3>1, <3>2, <3>3
  <2> QED  BY <2>2, Zenon DEF MM!OneRowEach, same
<1>5. \A f \in Field : \A r \in DOMAIN new : \A i \in DOMAIN src[f] :
         same(src[f][i], new[r].dest) => i \in left[f]
  <2> TAKE f \in Field
  <2> TAKE r \in DOMAIN new
  <2> TAKE i \in DOMAIN src[f]
  <2>1. left[f] = taken[f] \cup {row[f]}  OBVIOUS
  <2>2. CASE r \in D
    <3>1. new[r] = rws[r]  BY <1>1, <2>2
    <3>2. same(src[f][i], rws[r].dest) => i \in taken[f]  BY <2>2, Zenon DEF Single, same, D
    <3> QED  BY <2>1, <3>1, <3>2
  <2>3. CASE r = top
    <3>1. new[r] = row  BY <1>1, <2>3
    <3>2. same(src[f][i], row.dest) => i \in taken[f] \/ i = row[f]  BY Zenon DEF Exhausts, same
    <3> QED  BY <2>1, <3>1, <3>2
  <2> QED  BY <1>1, <2>2, <2>3
<1> QED  BY <1>4, <1>5, Zenon DEF Single, new, same

\* FindMount finds an entry of the destination that is not used, if there is one.
LEMMA Finds ==
    ASSUME NEW mounts \in Seq(Destination), NEW taken, NEW d
    PROVE  LET found == MM!FindMount(mounts, taken, d)
           IN  /\ found \in Nat
               /\ found # 0 => /\ found \in DOMAIN mounts /\ found \notin taken
                               /\ MM!SameDestination(mounts[found], d)
               /\ found = 0 => \A i \in DOMAIN mounts :
                                  MM!SameDestination(mounts[i], d) => i \in taken
<1> DEFINE I == {i \in DOMAIN mounts \ taken : MM!SameDestination(mounts[i], d)}
           first == CHOOSE i \in I : \A k \in I : i <= k
           found == MM!FindMount(mounts, taken, d)
<1>1. I \subseteq Nat \ {0}  OBVIOUS
<1>2. found = IF I = {} THEN 0 ELSE first  BY DEF MM!FindMount
<1>3. CASE I = {}
  <2>1. found = 0  BY <1>2, <1>3
  <2> QED  BY <1>3, <2>1
<1>4. CASE I # {}
  <2>1. \E i \in I : \A k \in I : i <= k
    <3> HIDE DEF I
    <3> QED  BY <1>1, <1>4, Least
  <2>2. first \in I
    <3> HIDE DEF I
    <3> QED  BY <2>1, Zenon
  <2>3. found = first  BY <1>2, <1>4
  <2> HIDE DEF first
  <2> QED  BY <1>1, <2>2, <2>3
<1> QED  BY <1>3, <1>4

\* Where a source names no destination twice, it then has nothing else of it.
LEMMA FindsAll ==
    ASSUME NEW mounts \in Seq(Destination), NEW taken, NEW d, MM!Distinct(mounts),
           NEW i \in DOMAIN mounts, MM!SameDestination(mounts[i], d)
    PROVE  i \in taken \/ i = MM!FindMount(mounts, taken, d)
<1> DEFINE found == MM!FindMount(mounts, taken, d)
<1>1. CASE found = 0  BY <1>1, Finds
<1>2. CASE found # 0
  <2>1. found \in DOMAIN mounts /\ MM!SameDestination(mounts[found], d)  BY <1>2, Finds
  <2>2. MM!SameDestination(mounts[found], mounts[i])  BY <2>1 DEF MM!SameDestination
  <2> QED  BY <2>1, <2>2 DEF MM!Distinct
<1> QED  BY <1>1, <1>2

CleanSources(src) ==
    /\ \A f \in Field : MM!Distinct(src[f])
    /\ \A i \in DOMAIN src["status"], k \in DOMAIN src["spec"] :
         MM!SameDestination(src["status"][i], src["spec"][k]) =>
            \E j \in DOMAIN src["decl"] : MM!SameDestination(src["decl"][j], src["spec"][k])

Good(a, n, src) ==
    /\ Kept(a.rows, Taken(a, n), src)
    /\ CleanSources(src) => Single(a.rows, Taken(a, n), src)

\* The entries taken, field by field.
LEMMA TakenBy ==
    ASSUME NEW a, NEW n
    PROVE  /\ Taken(a, n)["decl"] = 0..n /\ Taken(a, n)["status"] = a.status
           /\ Taken(a, n)["spec"] = a.spec /\ Taken(a, n)["live"] = a.live
BY DEF Taken

\* The sources, field by field.
LEMMA SourcesBy ==
    ASSUME NEW declared \in Seq(Destination), NEW status \in Seq(Destination),
           NEW spec \in Seq(Destination), NEW live \in Seq(Destination)
    PROVE  /\ By(declared, status, spec, live) \in [Field -> Seq(Destination)]
           /\ By(declared, status, spec, live)["decl"] = declared
           /\ By(declared, status, spec, live)["status"] = status
           /\ By(declared, status, spec, live)["spec"] = spec
           /\ By(declared, status, spec, live)["live"] = live
<1>1. By(declared, status, spec, live) =
        [f \in Field |-> IF f = "decl" THEN declared ELSE IF f = "status" THEN status
                         ELSE IF f = "spec" THEN spec ELSE live]
  BY DEF By, Field
<1> QED  BY <1>1 DEF Field

\* A row in the fields' order.
LEMMA RowBy ==
    ASSUME NEW row \in MountRow
    PROVE  /\ row["decl"] = row.decl /\ row["status"] = row.status
           /\ row["spec"] = row.spec /\ row["live"] = row.live
BY DEF MountRow

\* Claiming a row keeps what is claimed good.
LEMMA ClaimKeeps ==
    ASSUME NEW a \in Claims, NEW n \in Nat, NEW m \in Nat, NEW src \in [Field -> Seq(Destination)],
           NEW row \in MountRow, Good(a, n, src), 0..m = (0..n) \cup {row.decl},
           Fresh(row, Taken(a, n), src), CleanSources(src) => Exhausts(row, Taken(a, n), src)
    PROVE  MM!Claim(a, row) \in Claims /\ Good(MM!Claim(a, row), m, src)
<1> DEFINE b == MM!Claim(a, row)
<1>1. /\ b.rows = Append(a.rows, row) /\ b.status = a.status \cup {row.status}
      /\ b.spec = a.spec \cup {row.spec} /\ b.live = a.live \cup {row.live}
  BY DEF MM!Claim
<1>2. /\ a.rows \in Seq(MountRow) /\ a.status \subseteq Nat /\ a.spec \subseteq Nat
      /\ a.live \subseteq Nat
  BY DEF Claims
<1>3. row.decl \in Nat /\ row.status \in Nat /\ row.spec \in Nat /\ row.live \in Nat
  BY DEF MountRow
<1>4. b \in Claims
  <2>1. Append(a.rows, row) \in Seq(MountRow)  BY <1>2, AppendRow
  <2> QED  BY <1>2, <1>3, <2>1 DEF Claims, MM!Claim
<1> HIDE DEF b
<1>5. \A f \in Field : Taken(b, m)[f] = Taken(a, n)[f] \cup {row[f]}
  <2>1. Taken(b, m)["decl"] = Taken(a, n)["decl"] \cup {row["decl"]}  BY TakenBy, RowBy
  <2>2. Taken(b, m)["status"] = Taken(a, n)["status"] \cup {row["status"]}  BY <1>1, TakenBy, RowBy
  <2>3. Taken(b, m)["spec"] = Taken(a, n)["spec"] \cup {row["spec"]}  BY <1>1, TakenBy, RowBy
  <2>4. Taken(b, m)["live"] = Taken(a, n)["live"] \cup {row["live"]}  BY <1>1, TakenBy, RowBy
  <2> QED  BY <2>1, <2>2, <2>3, <2>4 DEF Field
<1>6. Kept(b.rows, Taken(b, m), src)
  <2>1. Kept(a.rows, Taken(a, n), src)  BY DEF Good
  <2>2. Kept(Append(a.rows, row), Taken(b, m), src)  BY <1>2, <1>5, <2>1, KeptWithRow
  <2> QED  BY <1>1, <2>2
<1>7. ASSUME CleanSources(src) PROVE Single(b.rows, Taken(b, m), src)
  <2>1. Single(a.rows, Taken(a, n), src) /\ Exhausts(row, Taken(a, n), src)  BY <1>7 DEF Good
  <2>2. Single(Append(a.rows, row), Taken(b, m), src)  BY <1>2, <1>5, <2>1, SingleWithRow
  <2> QED  BY <1>1, <2>2
<1> QED  BY <1>4, <1>6, <1>7 DEF Good, b

\* A row of a destination that names these entries.
Names(row, d, declared, status, spec, live) ==
    /\ row \in MountRow
    /\ row.dest = d
    /\ row.decl = declared
    /\ row.status = status
    /\ row.spec = spec
    /\ row.live = live

\* What the rows are built from.
LEMMA RowNames ==
    ASSUME NEW d \in Destination, NEW o \in {"user", "kubelet", "runtime-default", "live-extra"},
           NEW p \in Nat, NEW q \in Nat, NEW r \in Nat, NEW s \in Nat,
           NEW t \in {"declared-live", "declared-only", "live-only"}
    PROVE  Names(MM!Row(d, o, p, q, r, s, t), d, p, q, r, s)
BY DEF MM!Row, MountRow, Names

\* What the builders of the code make a row of.
LEMMA RowsBuilt ==
    ASSUME NEW d \in Destination, NEW i \in Nat, NEW x \in Nat, NEW y \in Nat, NEW z \in Nat
    PROVE  /\ Names(MM!buildCRIMount(d, i, x, y, z), d, i, x, y, z)
           /\ Names(MM!Row(d, "user", i, 0, y, z, MM!declaredState(z # 0)), d, i, 0, y, z)
           /\ Names(MM!buildCRIStatusOnlyMount(d, i, z), d, 0, i, 0, z)
           /\ Names(MM!BuildRuntimeDefaultMount(d, i, z), d, 0, 0, i, z)
           /\ Names(MM!BuildLiveExtraMount(d, i), d, 0, 0, 0, i)
<1>1. MM!criMountOrigin(d) \in {"user", "kubelet", "runtime-default", "live-extra"}
  BY DEF MM!criMountOrigin
<1>2. \A b : MM!declaredState(b) \in {"declared-live", "declared-only", "live-only"}
  BY DEF MM!declaredState
<1>3. Names(MM!buildCRIMount(d, i, x, y, z), d, i, x, y, z)
  BY <1>1, <1>2, RowNames DEF MM!buildCRIMount
<1>4. Names(MM!Row(d, "user", i, 0, y, z, MM!declaredState(z # 0)), d, i, 0, y, z)
  BY <1>2, RowNames
<1>5. Names(MM!buildCRIStatusOnlyMount(d, i, z), d, 0, i, 0, z)
  BY <1>1, RowNames DEF MM!buildCRIStatusOnlyMount
<1>6. Names(MM!BuildRuntimeDefaultMount(d, i, z), d, 0, 0, i, z)
  BY <1>2, RowNames DEF MM!BuildRuntimeDefaultMount
<1>7. Names(MM!BuildLiveExtraMount(d, i), d, 0, 0, 0, i)
  BY RowNames DEF MM!BuildLiveExtraMount
<1> QED  BY <1>3, <1>4, <1>5, <1>6, <1>7

\* An entry a row may name, 0 for none; and nothing of a destination is left of
\* a source when it does.
Takes(e, taken, source, d) ==
    e # 0 => e \in DOMAIN source /\ e \notin taken /\ MM!SameDestination(source[e], d)

TakesAll(e, taken, source, d) ==
    \A i \in DOMAIN source : MM!SameDestination(source[i], d) => i \in taken \/ i = e

\* FindMount gives a row an entry it may name, and all there is of the destination
\* where the source has it once.
LEMMA FindTakes ==
    ASSUME NEW source \in Seq(Destination), NEW taken, NEW d
    PROVE  /\ MM!FindMount(source, taken, d) \in Nat
           /\ Takes(MM!FindMount(source, taken, d), taken, source, d)
           /\ MM!Distinct(source) => TakesAll(MM!FindMount(source, taken, d), taken, source, d)
<1>1. MM!FindMount(source, taken, d) \in Nat
      /\ Takes(MM!FindMount(source, taken, d), taken, source, d)
  BY Finds, Zenon DEF Takes
<1>2. MM!Distinct(source) => TakesAll(MM!FindMount(source, taken, d), taken, source, d)
  BY FindsAll, Zenon DEF TakesAll
<1> QED  BY <1>1, <1>2

\* One more row, by its entries.
LEMMA RowKeeps ==
    ASSUME NEW declared \in Seq(Destination), NEW status \in Seq(Destination),
           NEW spec \in Seq(Destination), NEW live \in Seq(Destination),
           NEW a \in Claims, NEW n \in Nat, NEW m \in Nat, NEW row, NEW d,
           NEW p \in Nat, NEW q \in Nat, NEW r \in Nat, NEW s \in Nat,
           Names(row, d, p, q, r, s), 0..m = (0..n) \cup {p},
           Good(a, n, By(declared, status, spec, live)),
           Takes(p, 0..n, declared, d), Takes(q, a.status, status, d),
           Takes(r, a.spec, spec, d), Takes(s, a.live, live, d),
           p # 0 \/ q # 0 \/ r # 0 \/ s # 0,
           CleanSources(By(declared, status, spec, live)) =>
              /\ TakesAll(p, 0..n, declared, d) /\ TakesAll(q, a.status, status, d)
              /\ TakesAll(r, a.spec, spec, d) /\ TakesAll(s, a.live, live, d)
    PROVE  MM!Claim(a, row) \in Claims /\ Good(MM!Claim(a, row), m, By(declared, status, spec, live))
<1> DEFINE src == By(declared, status, spec, live)
           taken == Taken(a, n)
<1>1. /\ src \in [Field -> Seq(Destination)]
      /\ src["decl"] = declared /\ src["status"] = status /\ src["spec"] = spec /\ src["live"] = live
  BY SourcesBy, SMTT(30)
<1>2. /\ taken["decl"] = 0..n /\ taken["status"] = a.status
      /\ taken["spec"] = a.spec /\ taken["live"] = a.live
  BY TakenBy
<1>3. row \in MountRow /\ row.dest = d /\ row.decl = p /\ row.status = q /\ row.spec = r /\ row.live = s
  BY DEF Names
<1>4. row["decl"] = p /\ row["status"] = q /\ row["spec"] = r /\ row["live"] = s
  BY <1>3, RowBy
<1>5. "decl" \in Field /\ "status" \in Field /\ "spec" \in Field /\ "live" \in Field
  BY DEF Field
<1> HIDE DEF src, taken
<1>6. Fresh(row, taken, src)
  <2>1. ASSUME NEW f \in Field, row[f] # 0
        PROVE  /\ row[f] \in DOMAIN src[f] /\ row[f] \notin taken[f]
               /\ MM!SameDestination(src[f][row[f]], row.dest)
    <3>1. CASE f = "decl"  BY <1>1, <1>2, <1>3, <1>4, <2>1, <3>1, Zenon DEF Takes
    <3>2. CASE f = "status"  BY <1>1, <1>2, <1>3, <1>4, <2>1, <3>2, Zenon DEF Takes
    <3>3. CASE f = "spec"  BY <1>1, <1>2, <1>3, <1>4, <2>1, <3>3, Zenon DEF Takes
    <3>4. CASE f = "live"  BY <1>1, <1>2, <1>3, <1>4, <2>1, <3>4, Zenon DEF Takes
    <3> QED  BY <3>1, <3>2, <3>3, <3>4 DEF Field
  <2> QED  BY <2>1, Zenon DEF Fresh
<1>7. ASSUME CleanSources(src) PROVE Exhausts(row, taken, src)
  <2>1. \E f \in Field : row[f] # 0  BY <1>4, <1>5, Zenon
  <2>2. /\ TakesAll(p, 0..n, declared, d) /\ TakesAll(q, a.status, status, d)
        /\ TakesAll(r, a.spec, spec, d) /\ TakesAll(s, a.live, live, d)
    BY <1>7, Zenon DEF src
  <2>3. ASSUME NEW f \in Field, NEW i \in DOMAIN src[f], MM!SameDestination(src[f][i], row.dest)
        PROVE  i \in taken[f] \/ i = row[f]
    <3>1. CASE f = "decl"  BY <1>1, <1>2, <1>3, <1>4, <2>2, <2>3, <3>1 DEF TakesAll
    <3>2. CASE f = "status"  BY <1>1, <1>2, <1>3, <1>4, <2>2, <2>3, <3>2 DEF TakesAll
    <3>3. CASE f = "spec"  BY <1>1, <1>2, <1>3, <1>4, <2>2, <2>3, <3>3 DEF TakesAll
    <3>4. CASE f = "live"  BY <1>1, <1>2, <1>3, <1>4, <2>2, <2>3, <3>4 DEF TakesAll
    <3> QED  BY <3>1, <3>2, <3>3, <3>4 DEF Field
  <2> QED  BY <2>1, <2>3, Zenon DEF Exhausts
<1>8. Good(a, n, src)  BY DEF src
<1>9. MM!Claim(a, row) \in Claims /\ Good(MM!Claim(a, row), m, src)
  BY <1>1, <1>3, <1>6, <1>7, <1>8, ClaimKeeps DEF taken
<1> QED  BY <1>9 DEF src

\* A row is claimed with its type.
LEMMA ClaimTyped ==
    ASSUME NEW a \in Claims, NEW row \in MountRow
    PROVE  MM!Claim(a, row) \in Claims
<1>1. Append(a.rows, row) \in Seq(MountRow)  BY AppendRow DEF Claims
<1>2. row.status \in Nat /\ row.spec \in Nat /\ row.live \in Nat  BY DEF MountRow
<1> QED  BY <1>1, <1>2 DEF Claims, MM!Claim

\* The bodies of the loops claim rows of the right shape.
LEMMA BodiesTyped ==
    ASSUME NEW declared \in Seq(Destination), NEW status \in Seq(Destination),
           NEW spec \in Seq(Destination), NEW live \in Seq(Destination), NEW a \in Claims
    PROVE  /\ \A i \in 1..Len(declared) : MM!AddConfig(a, declared, status, spec, live, i) \in Claims
           /\ \A i \in 1..Len(declared) : MM!AddDeclared(a, declared, spec, live, i) \in Claims
           /\ \A i \in 1..Len(status) : MM!AddStatus(a, status, live, i) \in Claims
           /\ \A i \in 1..Len(spec) : MM!AddSpec(a, spec, live, i) \in Claims
           /\ \A i \in 1..Len(live) : MM!AddLive(a, live, i) \in Claims
<1>1. \A d : /\ MM!FindMount(status, a.status, d) \in Nat
             /\ MM!FindMount(spec, a.spec, d) \in Nat
             /\ MM!FindMount(live, a.live, d) \in Nat
  BY FindTakes
<1>2. ASSUME NEW i \in 1..Len(declared)
      PROVE  /\ MM!AddConfig(a, declared, status, spec, live, i) \in Claims
             /\ MM!AddDeclared(a, declared, spec, live, i) \in Claims
  <2>1. declared[i] \in Destination /\ i \in Nat  OBVIOUS
  <2>2. MM!buildCRIMount(declared[i], i, MM!FindMount(status, a.status, declared[i]),
            MM!FindMount(spec, a.spec, declared[i]),
            MM!FindMount(live, a.live, declared[i])) \in MountRow
    BY <1>1, <2>1, RowsBuilt DEF Names
  <2>3. MM!Row(declared[i], "user", i, 0, MM!FindMount(spec, a.spec, declared[i]),
            MM!FindMount(live, a.live, declared[i]),
            MM!declaredState(MM!FindMount(live, a.live, declared[i]) # 0)) \in MountRow
    BY <1>1, <2>1, RowsBuilt DEF Names
  <2> QED  BY <2>2, <2>3, ClaimTyped, Zenon DEF MM!AddConfig, MM!AddDeclared
<1>3. ASSUME NEW i \in 1..Len(status) PROVE MM!AddStatus(a, status, live, i) \in Claims
  <2>1. status[i] \in Destination /\ i \in Nat  OBVIOUS
  <2>2. MM!buildCRIStatusOnlyMount(status[i], i, MM!FindMount(live, a.live, status[i])) \in MountRow
    BY <1>1, <2>1, RowsBuilt DEF Names
  <2> QED  BY <2>2, ClaimTyped, Zenon DEF MM!AddStatus
<1>4. ASSUME NEW i \in 1..Len(spec) PROVE MM!AddSpec(a, spec, live, i) \in Claims
  <2>1. spec[i] \in Destination /\ i \in Nat  OBVIOUS
  <2>2. MM!BuildRuntimeDefaultMount(spec[i], i, MM!FindMount(live, a.live, spec[i])) \in MountRow
    BY <1>1, <2>1, RowsBuilt DEF Names
  <2> QED  BY <2>2, ClaimTyped, Zenon DEF MM!AddSpec
<1>5. ASSUME NEW i \in 1..Len(live) PROVE MM!AddLive(a, live, i) \in Claims
  <2>1. live[i] \in Destination /\ i \in Nat  OBVIOUS
  <2>2. MM!BuildLiveExtraMount(live[i], i) \in MountRow  BY <2>1, RowsBuilt DEF Names
  <2> QED  BY <2>2, ClaimTyped, Zenon DEF MM!AddLive
<1> QED  BY <1>2, <1>3, <1>4, <1>5

\* What sources without repeats are.
LEMMA CleanDistinct ==
    ASSUME NEW declared \in Seq(Destination), NEW status \in Seq(Destination),
           NEW spec \in Seq(Destination), NEW live \in Seq(Destination),
           CleanSources(By(declared, status, spec, live))
    PROVE  /\ MM!Distinct(declared) /\ MM!Distinct(status) /\ MM!Distinct(spec) /\ MM!Distinct(live)
           /\ \A i \in DOMAIN status, k \in DOMAIN spec :
                MM!SameDestination(status[i], spec[k]) =>
                   \E j \in DOMAIN declared : MM!SameDestination(declared[j], spec[k])
<1>1. "decl" \in Field /\ "status" \in Field /\ "spec" \in Field /\ "live" \in Field
  BY DEF Field
<1> DEFINE src == By(declared, status, spec, live)
<1>2. /\ src["decl"] = declared /\ src["status"] = status /\ src["spec"] = spec /\ src["live"] = live
  BY SourcesBy, SMTT(30)
<1>3. CleanSources(src)  OBVIOUS
<1> HIDE DEF src
<1>4. MM!Distinct(declared) /\ MM!Distinct(status) /\ MM!Distinct(spec) /\ MM!Distinct(live)
  BY <1>1, <1>2, <1>3 DEF CleanSources
<1>5. \A i \in DOMAIN status, k \in DOMAIN spec :
        MM!SameDestination(status[i], spec[k]) =>
           \E j \in DOMAIN declared : MM!SameDestination(declared[j], spec[k])
  BY <1>2, <1>3 DEF CleanSources
<1> QED  BY <1>4, <1>5

\* An entry takes itself, and all of its destination if its source has it once.
LEMMA TakesItself ==
    ASSUME NEW source \in Seq(Destination), NEW taken, NEW i \in DOMAIN source, i \notin taken
    PROVE  /\ i \in Nat /\ i # 0 /\ Takes(i, taken, source, source[i])
           /\ MM!Distinct(source) => TakesAll(i, taken, source, source[i])
<1>1. MM!SameDestination(source[i], source[i])  BY DEF MM!SameDestination
<1> QED  BY <1>1 DEF Takes, TakesAll, MM!Distinct

\* None is taken, and there is none of the destination left.
LEMMA TakesNone ==
    ASSUME NEW source, NEW taken, NEW d
    PROVE  /\ Takes(0, taken, source, d)
           /\ DOMAIN source \subseteq taken => TakesAll(0, taken, source, d)
BY DEF Takes, TakesAll

\* A mount of CRI's config, with what the status, the spec and the live mounts have
\* of its destination.
LEMMA ConfigKeeps ==
    ASSUME NEW declared \in Seq(Destination), NEW status \in Seq(Destination),
           NEW spec \in Seq(Destination), NEW live \in Seq(Destination),
           NEW a \in Claims, NEW i \in 1..Len(declared),
           Good(a, i - 1, By(declared, status, spec, live))
    PROVE  Good(MM!AddConfig(a, declared, status, spec, live, i), i, By(declared, status, spec, live))
<1> DEFINE d == declared[i]
           q == MM!FindMount(status, a.status, d)
           r == MM!FindMount(spec, a.spec, d)
           s == MM!FindMount(live, a.live, d)
           row == MM!buildCRIMount(d, i, q, r, s)
           src == By(declared, status, spec, live)
<1>1. /\ i \in DOMAIN declared /\ i \notin 0..i - 1 /\ i \in Nat /\ i # 0 /\ i - 1 \in Nat
      /\ d \in Destination
  OBVIOUS
<1>2. 0..i = (0..i - 1) \cup {i}  OBVIOUS
<1>3. q \in Nat /\ r \in Nat /\ s \in Nat  BY FindTakes
<1>4. Names(row, d, i, q, r, s)  BY <1>1, <1>3, RowsBuilt
<1>5. /\ Takes(i, 0..i - 1, declared, d) /\ Takes(q, a.status, status, d)
      /\ Takes(r, a.spec, spec, d) /\ Takes(s, a.live, live, d)
  BY <1>1, FindTakes, TakesItself
<1>6. CleanSources(src) => /\ TakesAll(i, 0..i - 1, declared, d) /\ TakesAll(q, a.status, status, d)
                           /\ TakesAll(r, a.spec, spec, d) /\ TakesAll(s, a.live, live, d)
  BY <1>1, CleanDistinct, FindTakes, TakesItself
<1>7. MM!AddConfig(a, declared, status, spec, live, i) = MM!Claim(a, row)  BY DEF MM!AddConfig
<1> HIDE DEF d, q, r, s, row
<1>8. Good(MM!Claim(a, row), i, src)
  BY <1>1, <1>2, <1>3, <1>4, <1>5, <1>6, RowKeeps
<1> QED  BY <1>7, <1>8

\* A mount of `docker inspect`, with what the spec and the live mounts have of it.
LEMMA DeclaredKeeps ==
    ASSUME NEW declared \in Seq(Destination), NEW spec \in Seq(Destination),
           NEW live \in Seq(Destination), NEW a \in Claims, NEW i \in 1..Len(declared),
           Good(a, i - 1, By(declared, <<>>, spec, live))
    PROVE  Good(MM!AddDeclared(a, declared, spec, live, i), i, By(declared, <<>>, spec, live))
<1> DEFINE d == declared[i]
           r == MM!FindMount(spec, a.spec, d)
           s == MM!FindMount(live, a.live, d)
           row == MM!Row(d, "user", i, 0, r, s, MM!declaredState(s # 0))
           none == <<>>
           src == By(declared, none, spec, live)
<1>1. /\ i \in DOMAIN declared /\ i \notin 0..i - 1 /\ i \in Nat /\ i # 0 /\ i - 1 \in Nat
      /\ d \in Destination
  OBVIOUS
<1>2. 0..i = (0..i - 1) \cup {i} /\ 0 \in Nat  OBVIOUS
<1>3. r \in Nat /\ s \in Nat  BY FindTakes
<1>4. Names(row, d, i, 0, r, s)  BY <1>1, <1>3, RowsBuilt
<1>5. none \in Seq(Destination) /\ DOMAIN none \subseteq a.status  OBVIOUS
<1> HIDE DEF none
<1>6. /\ Takes(i, 0..i - 1, declared, d) /\ Takes(0, a.status, none, d)
      /\ Takes(r, a.spec, spec, d) /\ Takes(s, a.live, live, d)
  BY <1>1, FindTakes, TakesItself, TakesNone
<1>7. CleanSources(src) => /\ TakesAll(i, 0..i - 1, declared, d) /\ TakesAll(0, a.status, none, d)
                           /\ TakesAll(r, a.spec, spec, d) /\ TakesAll(s, a.live, live, d)
  BY <1>1, <1>5, CleanDistinct, FindTakes, TakesItself, TakesNone
<1>8. MM!AddDeclared(a, declared, spec, live, i) = MM!Claim(a, row)  BY DEF MM!AddDeclared
<1>9. Good(a, i - 1, src)  BY DEF none
<1> HIDE DEF d, r, s, row
<1>10. Good(MM!Claim(a, row), i, src)
  BY <1>1, <1>2, <1>3, <1>4, <1>5, <1>6, <1>7, <1>9, RowKeeps
<1> QED  BY <1>8, <1>10 DEF none

\* Once all that is declared has a row, so much of the others.
Upto(a, src, i, j, k) ==
    /\ a \in Claims
    /\ Good(a, Len(src["decl"]), src)
    /\ 1..i \subseteq a.status /\ 1..j \subseteq a.spec /\ 1..k \subseteq a.live

\* What is claimed stays so.
LEMMA ClaimGrows ==
    ASSUME NEW a, NEW row
    PROVE  /\ a.status \subseteq MM!Claim(a, row).status /\ a.spec \subseteq MM!Claim(a, row).spec
           /\ a.live \subseteq MM!Claim(a, row).live
           /\ row.status \in MM!Claim(a, row).status /\ row.spec \in MM!Claim(a, row).spec
           /\ row.live \in MM!Claim(a, row).live
BY DEF MM!Claim

\* A mount only the status has.  Here the spec's entry of the destination is not
\* looked for: by CleanSources the config has the destination too, so its row took
\* that entry.
LEMMA StatusKeeps ==
    ASSUME NEW declared \in Seq(Destination), NEW status \in Seq(Destination),
           NEW spec \in Seq(Destination), NEW live \in Seq(Destination),
           NEW a, NEW i \in 1..Len(status), Upto(a, By(declared, status, spec, live), i - 1, 0, 0)
    PROVE  Upto(MM!AddStatus(a, status, live, i), By(declared, status, spec, live), i, 0, 0)
<1> DEFINE d == status[i]
           s == MM!FindMount(live, a.live, d)
           row == MM!buildCRIStatusOnlyMount(d, i, s)
           src == By(declared, status, spec, live)
           n == Len(declared)
<1>1. src["decl"] = declared /\ src["spec"] = spec  BY SourcesBy, SMTT(30)
<1>2. a \in Claims /\ Good(a, n, src) /\ 1..i - 1 \subseteq a.status  BY <1>1 DEF Upto
<1>3. 1..i = (1..i - 1) \cup {i} /\ 1..0 = {}  OBVIOUS
<1>4. CASE i \in a.status
  <2>1. MM!AddStatus(a, status, live, i) = a  BY <1>4 DEF MM!AddStatus
  <2> QED  BY <1>1, <1>2, <1>3, <1>4, <2>1 DEF Upto
<1>5. CASE i \notin a.status
  <2>1. i \in DOMAIN status /\ i \in Nat /\ i # 0 /\ d \in Destination /\ 0 \in Nat /\ n \in Nat
    OBVIOUS
  <2>2. 0..n = (0..n) \cup {0} /\ DOMAIN declared \subseteq 0..n  OBVIOUS
  <2>3. s \in Nat  BY FindTakes
  <2>4. Names(row, d, 0, i, 0, s)  BY <2>1, <2>3, RowsBuilt
  <2>5. /\ Takes(0, 0..n, declared, d) /\ Takes(i, a.status, status, d)
        /\ Takes(0, a.spec, spec, d) /\ Takes(s, a.live, live, d)
    BY <1>5, <2>1, FindTakes, TakesItself, TakesNone
  <2>6. ASSUME CleanSources(src)
        PROVE  /\ TakesAll(0, 0..n, declared, d) /\ TakesAll(i, a.status, status, d)
               /\ TakesAll(0, a.spec, spec, d) /\ TakesAll(s, a.live, live, d)
    <3>1. TakesAll(0, a.spec, spec, d)
      <4>1. ASSUME NEW k \in DOMAIN spec, MM!SameDestination(spec[k], d) PROVE k \in a.spec
        <5>1. PICK j \in DOMAIN declared : MM!SameDestination(declared[j], spec[k])
          <6>1. MM!SameDestination(d, spec[k])  BY <4>1 DEF MM!SameDestination
          <6> QED  BY <2>1, <2>6, <6>1, CleanDistinct
        <5>2. Kept(a.rows, Taken(a, n), src) /\ Single(a.rows, Taken(a, n), src)
          BY <1>2, <2>6 DEF Good
        <5>3. /\ "decl" \in Field /\ "spec" \in Field /\ j \in Taken(a, n)["decl"] \ {0}
              /\ Taken(a, n)["spec"] = a.spec
          BY <2>2, TakenBy DEF Field
        <5>4. PICK r \in DOMAIN a.rows : a.rows[r]["decl"] = j
          BY <5>2, <5>3, Zenon DEF Kept
        <5>5. MM!SameDestination(declared[j], a.rows[r].dest)
          <6>1. a.rows[r]["decl"] # 0  BY <5>3, <5>4
          <6>2. MM!SameDestination(src["decl"][a.rows[r]["decl"]], a.rows[r].dest)
            BY <5>2, <5>3, <6>1, Zenon DEF Kept
          <6> QED  BY <1>1, <5>4, <6>2
        <5>6. MM!SameDestination(src["spec"][k], a.rows[r].dest)
          BY <1>1, <5>1, <5>5 DEF MM!SameDestination
        <5>7. k \in Taken(a, n)["spec"]  BY <1>1, <5>2, <5>3, <5>6, Zenon DEF Single
        <5> QED  BY <5>3, <5>7
      <4> QED  BY <4>1 DEF TakesAll
    <3>2. MM!Distinct(status) /\ MM!Distinct(live)  BY <2>6, CleanDistinct
    <3> QED  BY <1>5, <2>1, <2>2, <3>1, <3>2, FindTakes, TakesItself, TakesNone
  <2>7. MM!AddStatus(a, status, live, i) = MM!Claim(a, row)  BY <1>5 DEF MM!AddStatus
  <2>8. row.status = i  BY <2>4 DEF Names
  <2> HIDE DEF d, s, row
  <2>9. MM!Claim(a, row) \in Claims /\ Good(MM!Claim(a, row), n, src)
    BY <1>2, <2>1, <2>2, <2>3, <2>4, <2>5, <2>6, RowKeeps
  <2>10. 1..i \subseteq MM!Claim(a, row).status  BY <1>2, <1>3, <2>8, ClaimGrows
  <2> QED  BY <1>1, <1>3, <2>7, <2>9, <2>10 DEF Upto
<1> QED  BY <1>4, <1>5

\* A mount of the spec that no row took.
LEMMA SpecKeeps ==
    ASSUME NEW declared \in Seq(Destination), NEW status \in Seq(Destination),
           NEW spec \in Seq(Destination), NEW live \in Seq(Destination),
           NEW a, NEW i \in 1..Len(spec),
           Upto(a, By(declared, status, spec, live), Len(status), i - 1, 0)
    PROVE  Upto(MM!AddSpec(a, spec, live, i), By(declared, status, spec, live), Len(status), i, 0)
<1> DEFINE d == spec[i]
           s == MM!FindMount(live, a.live, d)
           row == MM!BuildRuntimeDefaultMount(d, i, s)
           src == By(declared, status, spec, live)
           n == Len(declared)
<1>1. src["decl"] = declared
  BY SourcesBy, SMTT(30)
<1>2. a \in Claims /\ Good(a, n, src) /\ 1..Len(status) \subseteq a.status /\ 1..i - 1 \subseteq a.spec
  BY <1>1 DEF Upto
<1>3. 1..i = (1..i - 1) \cup {i} /\ 1..0 = {}  OBVIOUS
<1>4. CASE i \in a.spec
  <2>1. MM!AddSpec(a, spec, live, i) = a  BY <1>4 DEF MM!AddSpec
  <2> QED  BY <1>1, <1>2, <1>3, <1>4, <2>1 DEF Upto
<1>5. CASE i \notin a.spec
  <2>1. i \in DOMAIN spec /\ i \in Nat /\ i # 0 /\ d \in Destination /\ 0 \in Nat /\ n \in Nat
    OBVIOUS
  <2>2. 0..n = (0..n) \cup {0} /\ DOMAIN declared \subseteq 0..n /\ DOMAIN status \subseteq a.status
    <3>1. DOMAIN status = 1..Len(status) /\ DOMAIN declared = 1..n /\ n \in Nat  OBVIOUS
    <3> QED  BY <1>2, <3>1
  <2>3. s \in Nat  BY FindTakes
  <2>4. Names(row, d, 0, 0, i, s)  BY <2>1, <2>3, RowsBuilt
  <2>5. /\ Takes(0, 0..n, declared, d) /\ Takes(0, a.status, status, d)
        /\ Takes(i, a.spec, spec, d) /\ Takes(s, a.live, live, d)
    BY <1>5, <2>1, FindTakes, TakesItself, TakesNone
  <2>6. CleanSources(src) => /\ TakesAll(0, 0..n, declared, d) /\ TakesAll(0, a.status, status, d)
                             /\ TakesAll(i, a.spec, spec, d) /\ TakesAll(s, a.live, live, d)
    BY <1>5, <2>1, <2>2, CleanDistinct, FindTakes, TakesItself, TakesNone
  <2>7. MM!AddSpec(a, spec, live, i) = MM!Claim(a, row)  BY <1>5 DEF MM!AddSpec
  <2>8. row.spec = i  BY <2>4 DEF Names
  <2> HIDE DEF d, s, row
  <2>9. MM!Claim(a, row) \in Claims /\ Good(MM!Claim(a, row), n, src)
    BY <1>2, <2>1, <2>2, <2>3, <2>4, <2>5, <2>6, RowKeeps
  <2>10. 1..Len(status) \subseteq MM!Claim(a, row).status /\ 1..i \subseteq MM!Claim(a, row).spec
    BY <1>2, <1>3, <2>8, ClaimGrows
  <2> QED  BY <1>1, <1>3, <2>7, <2>9, <2>10 DEF Upto
<1> QED  BY <1>4, <1>5

\* A live mount that no row took.
LEMMA LiveKeeps ==
    ASSUME NEW declared \in Seq(Destination), NEW status \in Seq(Destination),
           NEW spec \in Seq(Destination), NEW live \in Seq(Destination),
           NEW a, NEW i \in 1..Len(live),
           Upto(a, By(declared, status, spec, live), Len(status), Len(spec), i - 1)
    PROVE  Upto(MM!AddLive(a, live, i), By(declared, status, spec, live), Len(status), Len(spec), i)
<1> DEFINE d == live[i]
           row == MM!BuildLiveExtraMount(d, i)
           src == By(declared, status, spec, live)
           n == Len(declared)
<1>1. src["decl"] = declared
  BY SourcesBy, SMTT(30)
<1>2. a \in Claims /\ Good(a, n, src) /\ 1..Len(status) \subseteq a.status
      /\ 1..Len(spec) \subseteq a.spec /\ 1..i - 1 \subseteq a.live
  BY <1>1 DEF Upto
<1>3. 1..i = (1..i - 1) \cup {i}  OBVIOUS
<1>4. CASE i \in a.live
  <2>1. MM!AddLive(a, live, i) = a  BY <1>4 DEF MM!AddLive
  <2> QED  BY <1>1, <1>2, <1>3, <1>4, <2>1 DEF Upto
<1>5. CASE i \notin a.live
  <2>1. i \in DOMAIN live /\ i \in Nat /\ i # 0 /\ d \in Destination /\ 0 \in Nat /\ n \in Nat
    OBVIOUS
  <2>2. /\ 0..n = (0..n) \cup {0} /\ DOMAIN declared \subseteq 0..n
        /\ DOMAIN status \subseteq a.status /\ DOMAIN spec \subseteq a.spec
    <3>1. /\ DOMAIN status = 1..Len(status) /\ DOMAIN spec = 1..Len(spec)
          /\ DOMAIN declared = 1..n /\ n \in Nat
      OBVIOUS
    <3> QED  BY <1>2, <3>1
  <2>4. Names(row, d, 0, 0, 0, i)  BY <2>1, RowsBuilt
  <2>5. /\ Takes(0, 0..n, declared, d) /\ Takes(0, a.status, status, d)
        /\ Takes(0, a.spec, spec, d) /\ Takes(i, a.live, live, d)
    BY <1>5, <2>1, TakesItself, TakesNone
  <2>6. CleanSources(src) => /\ TakesAll(0, 0..n, declared, d) /\ TakesAll(0, a.status, status, d)
                             /\ TakesAll(0, a.spec, spec, d) /\ TakesAll(i, a.live, live, d)
    BY <1>5, <2>1, <2>2, CleanDistinct, TakesItself, TakesNone
  <2>7. MM!AddLive(a, live, i) = MM!Claim(a, row)  BY <1>5 DEF MM!AddLive
  <2>8. row.live = i  BY <2>4 DEF Names
  <2> HIDE DEF d, row
  <2>9. MM!Claim(a, row) \in Claims /\ Good(MM!Claim(a, row), n, src)
    BY <1>2, <2>1, <2>2, <2>4, <2>5, <2>6, RowKeeps
  <2>10. /\ 1..Len(status) \subseteq MM!Claim(a, row).status
         /\ 1..Len(spec) \subseteq MM!Claim(a, row).spec
         /\ 1..i \subseteq MM!Claim(a, row).live
    BY <1>2, <1>3, <2>8, ClaimGrows
  <2> QED  BY <1>1, <2>7, <2>9, <2>10 DEF Upto
<1> QED  BY <1>4, <1>5

-----------------------------------------------------------------------------
\* Nothing is claimed before the loops.
LEMMA NoClaims == MM!None \in Claims
BY DEF MM!None, Claims

\* The loops are what they look like: over CRI's config,
LEMMA ConfiguredLoop ==
    ASSUME NEW declared \in Seq(Destination), NEW status \in Seq(Destination),
           NEW spec \in Seq(Destination), NEW live \in Seq(Destination)
    PROVE  /\ MM!Configured(declared, status, spec, live) \in [0..Len(declared) -> Claims]
           /\ MM!Configured(declared, status, spec, live)[0] = MM!None
           /\ \A i \in 1..Len(declared) :
                MM!Configured(declared, status, spec, live)[i] =
                    MM!AddConfig(MM!Configured(declared, status, spec, live)[i - 1],
                                 declared, status, spec, live, i)
<1> DEFINE N == Len(declared)
           a == MM!Configured(declared, status, spec, live)
           After(g) == [i \in 0..N |->
                          IF i = 0 THEN MM!None ELSE MM!AddConfig(g[i - 1], declared, status, spec, live, i)]
           step == [i \in 1..N |-> [t \in Claims |-> MM!AddConfig(t, declared, status, spec, live, i)]]
<1>1. N \in Nat /\ 0 \in 0..N /\ MM!None \in Claims  BY NoClaims
<1>2. \A i \in 1..N : i \in 0..N /\ i - 1 \in 0..N /\ i # 0  OBVIOUS
<1>3. \A t \in Claims : \A i \in 1..N : MM!AddConfig(t, declared, status, spec, live, i) \in Claims
  BY BodiesTyped
<1> HIDE DEF N
<1>4. step \in [1..N -> [Claims -> Claims]]  BY <1>3
<1>5. PICK g \in [0..N -> Claims] : g[0] = MM!None /\ \A i \in 1..N : g[i] = step[i][g[i - 1]]
  <2> HIDE DEF step
  <2>1. HasRun(N, Claims, MM!None, step)  BY <1>1, <1>4, Loop
  <2> QED  BY <2>1 DEF HasRun
<1>6. g = After(g)
  <2>1. ASSUME NEW i \in 1..N PROVE g[i] = MM!AddConfig(g[i - 1], declared, status, spec, live, i)
    <3>1. g[i - 1] \in Claims  BY <1>5, <1>2
    <3> QED  BY <1>5, <3>1
  <2> QED  BY <1>5, <2>1
<1>7. a = After(a)
  <2>1. a = CHOOSE h : h = After(h)  BY Zenon DEF MM!Configured, N
  <2> HIDE DEF a, After
  <2> QED  BY <1>6, <2>1, Zenon
<1>8. a[0] = MM!None /\ \A i \in 1..N : a[i] = MM!AddConfig(a[i - 1], declared, status, spec, live, i)
  <2> HIDE DEF a
  <2> QED  BY <1>1, <1>7, <1>2
<1>9. a \in [0..N -> Claims]
  <2> DEFINE S == {i \in 0..N : a[i] \in Claims}
  <2>1. 0 \in S  BY <1>1, <1>8
  <2>2. ASSUME NEW i \in 1..N, i - 1 \in S PROVE i \in S
    BY <1>3, <1>8, <1>2, <2>2
  <2> HIDE DEF S
  <2>3. \A i \in 0..N : i \in S  BY <1>1, <2>1, <2>2, Rounds
  <2> HIDE DEF a
  <2> QED  BY <1>7, <2>3 DEF S
<1> QED  BY <1>8, <1>9 DEF N

\* over what `docker inspect` declares,
LEMMA DeclaredLoop ==
    ASSUME NEW declared \in Seq(Destination), NEW spec \in Seq(Destination),
           NEW live \in Seq(Destination)
    PROVE  /\ MM!Declared(declared, spec, live) \in [0..Len(declared) -> Claims]
           /\ MM!Declared(declared, spec, live)[0] = MM!None
           /\ \A i \in 1..Len(declared) :
                MM!Declared(declared, spec, live)[i] =
                    MM!AddDeclared(MM!Declared(declared, spec, live)[i - 1], declared, spec, live, i)
<1> DEFINE N == Len(declared)
           a == MM!Declared(declared, spec, live)
           After(g) == [i \in 0..N |->
                          IF i = 0 THEN MM!None ELSE MM!AddDeclared(g[i - 1], declared, spec, live, i)]
           step == [i \in 1..N |-> [t \in Claims |-> MM!AddDeclared(t, declared, spec, live, i)]]
<1>1. N \in Nat /\ 0 \in 0..N /\ MM!None \in Claims  BY NoClaims
<1>2. \A i \in 1..N : i \in 0..N /\ i - 1 \in 0..N /\ i # 0  OBVIOUS
<1>3. \A t \in Claims : \A i \in 1..N : MM!AddDeclared(t, declared, spec, live, i) \in Claims
  BY BodiesTyped
<1> HIDE DEF N
<1>4. step \in [1..N -> [Claims -> Claims]]  BY <1>3
<1>5. PICK g \in [0..N -> Claims] : g[0] = MM!None /\ \A i \in 1..N : g[i] = step[i][g[i - 1]]
  <2> HIDE DEF step
  <2>1. HasRun(N, Claims, MM!None, step)  BY <1>1, <1>4, Loop
  <2> QED  BY <2>1 DEF HasRun
<1>6. g = After(g)
  <2>1. ASSUME NEW i \in 1..N PROVE g[i] = MM!AddDeclared(g[i - 1], declared, spec, live, i)
    <3>1. g[i - 1] \in Claims  BY <1>5, <1>2
    <3> QED  BY <1>5, <3>1
  <2> QED  BY <1>5, <2>1
<1>7. a = After(a)
  <2>1. a = CHOOSE h : h = After(h)  BY Zenon DEF MM!Declared, N
  <2> HIDE DEF a, After
  <2> QED  BY <1>6, <2>1, Zenon
<1>8. a[0] = MM!None /\ \A i \in 1..N : a[i] = MM!AddDeclared(a[i - 1], declared, spec, live, i)
  <2> HIDE DEF a
  <2> QED  BY <1>1, <1>7, <1>2
<1>9. a \in [0..N -> Claims]
  <2> DEFINE S == {i \in 0..N : a[i] \in Claims}
  <2>1. 0 \in S  BY <1>1, <1>8
  <2>2. ASSUME NEW i \in 1..N, i - 1 \in S PROVE i \in S
    BY <1>3, <1>8, <1>2, <2>2
  <2> HIDE DEF S
  <2>3. \A i \in 0..N : i \in S  BY <1>1, <2>1, <2>2, Rounds
  <2> HIDE DEF a
  <2> QED  BY <1>7, <2>3 DEF S
<1> QED  BY <1>8, <1>9 DEF N

\* over the status,
LEMMA StatusLoop ==
    ASSUME NEW status \in Seq(Destination), NEW live \in Seq(Destination), NEW base \in Claims
    PROVE  /\ MM!RestOfStatus(base, status, live) \in [0..Len(status) -> Claims]
           /\ MM!RestOfStatus(base, status, live)[0] = base
           /\ \A i \in 1..Len(status) :
                MM!RestOfStatus(base, status, live)[i] =
                    MM!AddStatus(MM!RestOfStatus(base, status, live)[i - 1], status, live, i)
<1> DEFINE N == Len(status)
           a == MM!RestOfStatus(base, status, live)
           After(g) == [i \in 0..N |-> IF i = 0 THEN base ELSE MM!AddStatus(g[i - 1], status, live, i)]
           step == [i \in 1..N |-> [t \in Claims |-> MM!AddStatus(t, status, live, i)]]
<1>1. N \in Nat /\ 0 \in 0..N /\ base \in Claims  OBVIOUS
<1>2. \A i \in 1..N : i \in 0..N /\ i - 1 \in 0..N /\ i # 0  OBVIOUS
<1>3. \A t \in Claims : \A i \in 1..N : MM!AddStatus(t, status, live, i) \in Claims
  BY BodiesTyped
<1> HIDE DEF N
<1>4. step \in [1..N -> [Claims -> Claims]]  BY <1>3
<1>5. PICK g \in [0..N -> Claims] : g[0] = base /\ \A i \in 1..N : g[i] = step[i][g[i - 1]]
  <2> HIDE DEF step
  <2>1. HasRun(N, Claims, base, step)  BY <1>1, <1>4, Loop
  <2> QED  BY <2>1 DEF HasRun
<1>6. g = After(g)
  <2>1. ASSUME NEW i \in 1..N PROVE g[i] = MM!AddStatus(g[i - 1], status, live, i)
    <3>1. g[i - 1] \in Claims  BY <1>5, <1>2
    <3> QED  BY <1>5, <3>1
  <2> QED  BY <1>5, <2>1
<1>7. a = After(a)
  <2>1. a = CHOOSE h : h = After(h)  BY Zenon DEF MM!RestOfStatus, N
  <2> HIDE DEF a, After
  <2> QED  BY <1>6, <2>1, Zenon
<1>8. a[0] = base /\ \A i \in 1..N : a[i] = MM!AddStatus(a[i - 1], status, live, i)
  <2> HIDE DEF a
  <2> QED  BY <1>1, <1>7, <1>2
<1>9. a \in [0..N -> Claims]
  <2> DEFINE S == {i \in 0..N : a[i] \in Claims}
  <2>1. 0 \in S  BY <1>1, <1>8
  <2>2. ASSUME NEW i \in 1..N, i - 1 \in S PROVE i \in S
    BY <1>3, <1>8, <1>2, <2>2
  <2> HIDE DEF S
  <2>3. \A i \in 0..N : i \in S  BY <1>1, <2>1, <2>2, Rounds
  <2> HIDE DEF a
  <2> QED  BY <1>7, <2>3 DEF S
<1> QED  BY <1>8, <1>9 DEF N

\* over the spec,
LEMMA SpecLoop ==
    ASSUME NEW spec \in Seq(Destination), NEW live \in Seq(Destination), NEW base \in Claims
    PROVE  /\ MM!RestOfSpec(base, spec, live) \in [0..Len(spec) -> Claims]
           /\ MM!RestOfSpec(base, spec, live)[0] = base
           /\ \A i \in 1..Len(spec) :
                MM!RestOfSpec(base, spec, live)[i] =
                    MM!AddSpec(MM!RestOfSpec(base, spec, live)[i - 1], spec, live, i)
<1> DEFINE N == Len(spec)
           a == MM!RestOfSpec(base, spec, live)
           After(g) == [i \in 0..N |-> IF i = 0 THEN base ELSE MM!AddSpec(g[i - 1], spec, live, i)]
           step == [i \in 1..N |-> [t \in Claims |-> MM!AddSpec(t, spec, live, i)]]
<1>1. N \in Nat /\ 0 \in 0..N /\ base \in Claims  OBVIOUS
<1>2. \A i \in 1..N : i \in 0..N /\ i - 1 \in 0..N /\ i # 0  OBVIOUS
<1>3. \A t \in Claims : \A i \in 1..N : MM!AddSpec(t, spec, live, i) \in Claims
  BY BodiesTyped
<1> HIDE DEF N
<1>4. step \in [1..N -> [Claims -> Claims]]  BY <1>3
<1>5. PICK g \in [0..N -> Claims] : g[0] = base /\ \A i \in 1..N : g[i] = step[i][g[i - 1]]
  <2> HIDE DEF step
  <2>1. HasRun(N, Claims, base, step)  BY <1>1, <1>4, Loop
  <2> QED  BY <2>1 DEF HasRun
<1>6. g = After(g)
  <2>1. ASSUME NEW i \in 1..N PROVE g[i] = MM!AddSpec(g[i - 1], spec, live, i)
    <3>1. g[i - 1] \in Claims  BY <1>5, <1>2
    <3> QED  BY <1>5, <3>1
  <2> QED  BY <1>5, <2>1
<1>7. a = After(a)
  <2>1. a = CHOOSE h : h = After(h)  BY Zenon DEF MM!RestOfSpec, N
  <2> HIDE DEF a, After
  <2> QED  BY <1>6, <2>1, Zenon
<1>8. a[0] = base /\ \A i \in 1..N : a[i] = MM!AddSpec(a[i - 1], spec, live, i)
  <2> HIDE DEF a
  <2> QED  BY <1>1, <1>7, <1>2
<1>9. a \in [0..N -> Claims]
  <2> DEFINE S == {i \in 0..N : a[i] \in Claims}
  <2>1. 0 \in S  BY <1>1, <1>8
  <2>2. ASSUME NEW i \in 1..N, i - 1 \in S PROVE i \in S
    BY <1>3, <1>8, <1>2, <2>2
  <2> HIDE DEF S
  <2>3. \A i \in 0..N : i \in S  BY <1>1, <2>1, <2>2, Rounds
  <2> HIDE DEF a
  <2> QED  BY <1>7, <2>3 DEF S
<1> QED  BY <1>8, <1>9 DEF N

\* over the live mounts.
LEMMA LiveLoop ==
    ASSUME NEW live \in Seq(Destination), NEW base \in Claims
    PROVE  /\ MM!RestOfLive(base, live) \in [0..Len(live) -> Claims]
           /\ MM!RestOfLive(base, live)[0] = base
           /\ \A i \in 1..Len(live) :
                MM!RestOfLive(base, live)[i] =
                    MM!AddLive(MM!RestOfLive(base, live)[i - 1], live, i)
<1> DEFINE N == Len(live)
           a == MM!RestOfLive(base, live)
           After(g) == [i \in 0..N |-> IF i = 0 THEN base ELSE MM!AddLive(g[i - 1], live, i)]
           step == [i \in 1..N |-> [t \in Claims |-> MM!AddLive(t, live, i)]]
<1>1. N \in Nat /\ 0 \in 0..N /\ base \in Claims  OBVIOUS
<1>2. \A i \in 1..N : i \in 0..N /\ i - 1 \in 0..N /\ i # 0  OBVIOUS
<1>3. \A t \in Claims : \A i \in 1..N : MM!AddLive(t, live, i) \in Claims
  BY BodiesTyped
<1> HIDE DEF N
<1>4. step \in [1..N -> [Claims -> Claims]]  BY <1>3
<1>5. PICK g \in [0..N -> Claims] : g[0] = base /\ \A i \in 1..N : g[i] = step[i][g[i - 1]]
  <2> HIDE DEF step
  <2>1. HasRun(N, Claims, base, step)  BY <1>1, <1>4, Loop
  <2> QED  BY <2>1 DEF HasRun
<1>6. g = After(g)
  <2>1. ASSUME NEW i \in 1..N PROVE g[i] = MM!AddLive(g[i - 1], live, i)
    <3>1. g[i - 1] \in Claims  BY <1>5, <1>2
    <3> QED  BY <1>5, <3>1
  <2> QED  BY <1>5, <2>1
<1>7. a = After(a)
  <2>1. a = CHOOSE h : h = After(h)  BY Zenon DEF MM!RestOfLive, N
  <2> HIDE DEF a, After
  <2> QED  BY <1>6, <2>1, Zenon
<1>8. a[0] = base /\ \A i \in 1..N : a[i] = MM!AddLive(a[i - 1], live, i)
  <2> HIDE DEF a
  <2> QED  BY <1>1, <1>7, <1>2
<1>9. a \in [0..N -> Claims]
  <2> DEFINE S == {i \in 0..N : a[i] \in Claims}
  <2>1. 0 \in S  BY <1>1, <1>8
  <2>2. ASSUME NEW i \in 1..N, i - 1 \in S PROVE i \in S
    BY <1>3, <1>8, <1>2, <2>2
  <2> HIDE DEF S
  <2>3. \A i \in 0..N : i \in S  BY <1>1, <2>1, <2>2, Rounds
  <2> HIDE DEF a
  <2> QED  BY <1>7, <2>3 DEF S
<1> QED  BY <1>8, <1>9 DEF N

\* Nothing is claimed at first.
LEMMA NoneGood ==
    ASSUME NEW src \in [Field -> Seq(Destination)]
    PROVE  Good(MM!None, 0, src)
<1> DEFINE rws == MM!None.rows
           taken == Taken(MM!None, 0)
<1>1. rws = <<>> /\ DOMAIN rws = {}  BY DEF MM!None
<1>2. \A f \in Field : taken[f] \subseteq {0}
  <2>1. taken["decl"] = 0..0 /\ taken["status"] = {} /\ taken["spec"] = {} /\ taken["live"] = {}
    BY TakenBy DEF MM!None
  <2> HIDE DEF taken
  <2> QED  BY <2>1 DEF Field
<1>3. \A f \in Field : Len(src[f]) \in Nat  OBVIOUS
<1> HIDE DEF rws, taken
<1>4. Kept(rws, taken, src)  BY <1>1, <1>2, <1>3 DEF Kept
<1>5. Single(rws, taken, src)  BY <1>1, Zenon DEF Single, MM!OneRowEach
<1> QED  BY <1>4, <1>5 DEF Good, rws, taken

\* The phases both merges end with claim whatever is left.
LEMMA RestKeeps ==
    ASSUME NEW declared \in Seq(Destination), NEW status \in Seq(Destination),
           NEW spec \in Seq(Destination), NEW live \in Seq(Destination),
           NEW a, Upto(a, By(declared, status, spec, live), Len(status), 0, 0)
    PROVE  Upto(MM!AddRest(a, spec, live), By(declared, status, spec, live),
                Len(status), Len(spec), Len(live))
<1> DEFINE src == By(declared, status, spec, live)
           M == Len(status)
           u == MM!RestOfSpec(a, spec, live)
           b == u[Len(spec)]
           v == MM!RestOfLive(b, live)
<1>1. a \in Claims /\ Len(spec) \in Nat /\ Len(live) \in Nat  BY DEF Upto
<1>2. u[0] = a /\ \A i \in 1..Len(spec) : u[i] = MM!AddSpec(u[i - 1], spec, live, i)
  BY <1>1, SpecLoop
<1>3. Upto(b, src, M, Len(spec), 0)
  <2> DEFINE S == {i \in 0..Len(spec) : Upto(u[i], src, M, i, 0)}
  <2> HIDE DEF u
  <2>1. 0 \in S  BY <1>1, <1>2
  <2>2. ASSUME NEW i \in 1..Len(spec), i - 1 \in S PROVE i \in S
    <3>1. Upto(u[i - 1], src, M, i - 1, 0)  BY <2>2
    <3> QED  BY <1>2, <3>1, SpecKeeps
  <2> HIDE DEF S
  <2>3. \A i \in 0..Len(spec) : i \in S  BY <1>1, <2>1, <2>2, Rounds
  <2>4. Len(spec) \in S  BY <1>1, <2>3
  <2> QED  BY <2>4 DEF S
<1> HIDE DEF b
<1>4. b \in Claims  BY <1>3 DEF Upto
<1>5. v[0] = b /\ \A i \in 1..Len(live) : v[i] = MM!AddLive(v[i - 1], live, i)
  BY <1>4, LiveLoop
<1>6. Upto(v[Len(live)], src, M, Len(spec), Len(live))
  <2> DEFINE S == {i \in 0..Len(live) : Upto(v[i], src, M, Len(spec), i)}
  <2> HIDE DEF v
  <2>1. 0 \in S  BY <1>1, <1>3, <1>5
  <2>2. ASSUME NEW i \in 1..Len(live), i - 1 \in S PROVE i \in S
    <3>1. Upto(v[i - 1], src, M, Len(spec), i - 1)  BY <2>2
    <3> QED  BY <1>5, <3>1, LiveKeeps
  <2> HIDE DEF S
  <2>3. \A i \in 0..Len(live) : i \in S  BY <1>1, <2>1, <2>2, Rounds
  <2>4. Len(live) \in S  BY <1>1, <2>3
  <2> QED  BY <2>4 DEF S
<1>7. MM!AddRest(a, spec, live) = v[Len(live)]  BY Zenon DEF MM!AddRest, b
<1> QED  BY <1>6, <1>7

\* MergeMountSources claims all of its sources.
LEMMA CRIMerges ==
    ASSUME NEW config \in Seq(Destination), NEW status \in Seq(Destination),
           NEW spec \in Seq(Destination), NEW live \in Seq(Destination)
    PROVE  \E a : /\ Upto(a, By(config, status, spec, live), Len(status), Len(spec), Len(live))
                  /\ MM!MergeMountSources(config, status, spec, live) = a.rows
<1> DEFINE src == By(config, status, spec, live)
           u == MM!Configured(config, status, spec, live)
           b == u[Len(config)]
           v == MM!RestOfStatus(b, status, live)
           c == v[Len(status)]
<1>1. Len(config) \in Nat /\ Len(status) \in Nat  OBVIOUS
<1>2. src \in [Field -> Seq(Destination)] /\ src["decl"] = config
  BY SourcesBy, SMTT(30)
<1>3. /\ u \in [0..Len(config) -> Claims] /\ u[0] = MM!None
      /\ \A i \in 1..Len(config) : u[i] = MM!AddConfig(u[i - 1], config, status, spec, live, i)
  BY ConfiguredLoop, SMTT(30)
<1> HIDE DEF u, src
<1>4. b \in Claims /\ Good(b, Len(config), src)
  <2> DEFINE S == {i \in 0..Len(config) : Good(u[i], i, src)}
  <2>1. 0 \in S  BY <1>1, <1>2, <1>3, NoneGood
  <2>2. ASSUME NEW i \in 1..Len(config), i - 1 \in S PROVE i \in S
    <3>1. Good(u[i - 1], i - 1, src) /\ u[i - 1] \in Claims  BY <1>1, <1>3, <2>2
    <3> QED  BY <1>3, <3>1, ConfigKeeps DEF src
  <2> HIDE DEF S
  <2>3. \A i \in 0..Len(config) : i \in S  BY <1>1, <2>1, <2>2, Rounds
  <2>4. Len(config) \in S /\ Len(config) \in 0..Len(config)  BY <1>1, <2>3
  <2>5. Good(b, Len(config), src)  BY <2>4 DEF S
  <2> QED  BY <1>3, <2>4, <2>5
<1> HIDE DEF b
<1>5. Upto(b, src, 0, 0, 0)  BY <1>2, <1>4 DEF Upto
<1>6. v[0] = b /\ \A i \in 1..Len(status) : v[i] = MM!AddStatus(v[i - 1], status, live, i)
  BY <1>4, StatusLoop
<1> HIDE DEF v
<1>7. Upto(c, src, Len(status), 0, 0)
  <2> DEFINE S == {i \in 0..Len(status) : Upto(v[i], src, i, 0, 0)}
  <2>1. 0 \in S  BY <1>1, <1>5, <1>6
  <2>2. ASSUME NEW i \in 1..Len(status), i - 1 \in S PROVE i \in S
    <3>1. Upto(v[i - 1], src, i - 1, 0, 0)  BY <2>2
    <3> QED  BY <1>6, <3>1, StatusKeeps DEF src
  <2> HIDE DEF S
  <2>3. \A i \in 0..Len(status) : i \in S  BY <1>1, <2>1, <2>2, Rounds
  <2>4. Len(status) \in S  BY <1>1, <2>3
  <2> QED  BY <2>4 DEF S
<1> HIDE DEF c
<1>8. Upto(MM!AddRest(c, spec, live), src, Len(status), Len(spec), Len(live))
  BY <1>7, RestKeeps DEF src
<1>9. MM!MergeMountSources(config, status, spec, live) = MM!AddRest(c, spec, live).rows
  BY Zenon DEF MM!MergeMountSources, b, c, u, v
<1> QED  BY <1>8, <1>9, Zenon DEF src

\* mergeDockerMounts claims all of its sources.
LEMMA DockerMerges ==
    ASSUME NEW declared \in Seq(Destination), NEW spec \in Seq(Destination),
           NEW live \in Seq(Destination)
    PROVE  \E a : /\ Upto(a, By(declared, <<>>, spec, live), 0, Len(spec), Len(live))
                  /\ MM!mergeDockerMounts(declared, spec, live) = a.rows
<1>1. PICK none \in Seq(Destination) : none = <<>>
  <2>1. <<>> \in Seq(Destination)  OBVIOUS
  <2> QED  BY <2>1, Zenon
<1> DEFINE src == By(declared, none, spec, live)
           u == MM!Declared(declared, spec, live)
           b == u[Len(declared)]
<1>2. Len(declared) \in Nat /\ Len(none) = 0  BY <1>1
<1>3. src \in [Field -> Seq(Destination)] /\ src["decl"] = declared
  BY SourcesBy, SMTT(30)
<1>4. /\ u \in [0..Len(declared) -> Claims] /\ u[0] = MM!None
      /\ \A i \in 1..Len(declared) : u[i] = MM!AddDeclared(u[i - 1], declared, spec, live, i)
  BY DeclaredLoop, SMTT(30)
<1> HIDE DEF u, src
<1>5. b \in Claims /\ Good(b, Len(declared), src)
  <2> DEFINE S == {i \in 0..Len(declared) : Good(u[i], i, src)}
  <2>1. 0 \in S  BY <1>2, <1>3, <1>4, NoneGood
  <2>2. ASSUME NEW i \in 1..Len(declared), i - 1 \in S PROVE i \in S
    <3>1. Good(u[i - 1], i - 1, src) /\ u[i - 1] \in Claims  BY <1>2, <1>4, <2>2
    <3> QED  BY <1>4, <3>1, DeclaredKeeps, <1>1 DEF src
  <2> HIDE DEF S
  <2>3. \A i \in 0..Len(declared) : i \in S  BY <1>2, <2>1, <2>2, Rounds
  <2>4. Len(declared) \in S /\ Len(declared) \in 0..Len(declared)  BY <1>2, <2>3
  <2>5. Good(b, Len(declared), src)  BY <2>4 DEF S
  <2> QED  BY <1>4, <2>4, <2>5
<1> HIDE DEF b
<1>6. Upto(b, src, Len(none), 0, 0)  BY <1>2, <1>3, <1>5 DEF Upto
<1>7. Upto(MM!AddRest(b, spec, live), src, Len(none), Len(spec), Len(live))
  BY <1>2, <1>6, RestKeeps DEF src
<1>8. MM!mergeDockerMounts(declared, spec, live) = MM!AddRest(b, spec, live).rows
  BY Zenon DEF MM!mergeDockerMounts, b, u
<1> QED  BY <1>1, <1>2, <1>7, <1>8 DEF src

\* MountMerge counts as we do.
LEMMA SameCount == ASSUME NEW S PROVE MM!Cardinality(S) = Cardinality(S)
BY Zenon DEF MM!Cardinality, Cardinality

\* What was taken of a source stands in one row.
LEMMA TakenOnce ==
    ASSUME NEW rws, NEW taken, NEW src, Kept(rws, taken, src), NEW f \in Field,
           DOMAIN src[f] \subseteq taken[f], 0 \notin DOMAIN src[f]
    PROVE  MM!EachOnce(rws, f, src[f])
<1> SUFFICES ASSUME NEW i \in DOMAIN src[f]
             PROVE  Cardinality({r \in DOMAIN rws : rws[r][f] = i}) = 1
  BY SameCount DEF MM!EachOnce
<1>1. i \in taken[f] \ {0}  OBVIOUS
<1>2. PICK r \in DOMAIN rws : rws[r][f] = i  BY <1>1, Zenon DEF Kept
<1>3. \A s \in DOMAIN rws : rws[s][f] = i => s = r
  <2> TAKE s \in DOMAIN rws
  <2>1. \A x, y \in DOMAIN rws : rws[x][f] = rws[y][f] /\ rws[x][f] # 0 => x = y
    BY Zenon DEF Kept
  <2> QED  BY <1>1, <1>2, <2>1
<1>4. {s \in DOMAIN rws : rws[s][f] = i} = {r}  BY <1>2, <1>3
<1> QED  BY <1>4, FS_Singleton

\* Where all is claimed, every entry stands in one row, and a destination has one
\* row if the sources do not repeat it.
LEMMA MergedOnce ==
    ASSUME NEW declared \in Seq(Destination), NEW status \in Seq(Destination),
           NEW spec \in Seq(Destination), NEW live \in Seq(Destination),
           NEW a, Upto(a, By(declared, status, spec, live), Len(status), Len(spec), Len(live))
    PROVE  /\ MM!EachOnce(a.rows, "decl", declared) /\ MM!EachOnce(a.rows, "status", status)
           /\ MM!EachOnce(a.rows, "spec", spec) /\ MM!EachOnce(a.rows, "live", live)
           /\ CleanSources(By(declared, status, spec, live)) => MM!OneRowEach(a.rows)
<1> DEFINE src == By(declared, status, spec, live)
           taken == Taken(a, Len(declared))
<1>1. src["decl"] = declared /\ src["status"] = status /\ src["spec"] = spec /\ src["live"] = live
  BY SourcesBy, SMTT(30)
<1>2. /\ taken["decl"] = 0..Len(declared) /\ taken["status"] = a.status
      /\ taken["spec"] = a.spec /\ taken["live"] = a.live
  BY TakenBy
<1>3. /\ DOMAIN declared = 1..Len(declared) /\ DOMAIN status = 1..Len(status)
      /\ DOMAIN spec = 1..Len(spec) /\ DOMAIN live = 1..Len(live) /\ Len(declared) \in Nat
  OBVIOUS
<1> HIDE DEF src
<1>4. /\ Good(a, Len(declared), src)
      /\ 1..Len(status) \subseteq a.status /\ 1..Len(spec) \subseteq a.spec
      /\ 1..Len(live) \subseteq a.live
  BY <1>1 DEF Upto, src
<1>5. Kept(a.rows, taken, src) /\ (CleanSources(src) => MM!OneRowEach(a.rows))
  BY <1>4, Zenon DEF Good, Single
<1> HIDE DEF taken
<1>6. "decl" \in Field /\ "status" \in Field /\ "spec" \in Field /\ "live" \in Field
  BY DEF Field
<1>7. MM!EachOnce(a.rows, "decl", src["decl"])
  <2>1. 0 \notin DOMAIN declared /\ DOMAIN declared \subseteq taken["decl"]  BY <1>2, <1>3
  <2> QED  BY <1>1, <1>5, <1>6, <2>1, TakenOnce
<1>8. MM!EachOnce(a.rows, "status", src["status"])
  <2>1. 0 \notin DOMAIN status /\ DOMAIN status \subseteq taken["status"]  BY <1>2, <1>3, <1>4
  <2> QED  BY <1>1, <1>5, <1>6, <2>1, TakenOnce
<1>9. MM!EachOnce(a.rows, "spec", src["spec"])
  <2>1. 0 \notin DOMAIN spec /\ DOMAIN spec \subseteq taken["spec"]  BY <1>2, <1>3, <1>4
  <2> QED  BY <1>1, <1>5, <1>6, <2>1, TakenOnce
<1>10. MM!EachOnce(a.rows, "live", src["live"])
  <2>1. 0 \notin DOMAIN live /\ DOMAIN live \subseteq taken["live"]  BY <1>2, <1>3, <1>4
  <2> QED  BY <1>1, <1>5, <1>6, <2>1, TakenOnce
<1> QED  BY <1>1, <1>5, <1>7, <1>8, <1>9, <1>10 DEF src

\* Sources without repeats, by field.
LEMMA CleanBy ==
    ASSUME NEW declared \in Seq(Destination), NEW status \in Seq(Destination),
           NEW spec \in Seq(Destination), NEW live \in Seq(Destination),
           MM!Distinct(declared), MM!Distinct(status), MM!Distinct(spec), MM!Distinct(live),
           \A i \in DOMAIN status, k \in DOMAIN spec :
             MM!SameDestination(status[i], spec[k]) =>
                \E j \in DOMAIN declared : MM!SameDestination(declared[j], spec[k])
    PROVE  CleanSources(By(declared, status, spec, live))
<1> DEFINE src == By(declared, status, spec, live)
<1>1. src["decl"] = declared /\ src["status"] = status /\ src["spec"] = spec /\ src["live"] = live
  BY SourcesBy, SMTT(30)
<1> HIDE DEF src
<1>2. ASSUME NEW f \in Field PROVE MM!Distinct(src[f])
  BY <1>1 DEF Field
<1>3. CleanSources(src)  BY <1>1, <1>2 DEF CleanSources
<1> QED  BY <1>3 DEF src

\* MergeMountSources loses no mount and shows none twice.
LEMMA CRIOnce ==
    ASSUME NEW config \in Seq(Destination), NEW status \in Seq(Destination),
           NEW spec \in Seq(Destination), NEW live \in Seq(Destination)
    PROVE  MM!CRIMergedOnce(config, status, spec, live)
<1>1. PICK a : /\ Upto(a, By(config, status, spec, live), Len(status), Len(spec), Len(live))
               /\ MM!MergeMountSources(config, status, spec, live) = a.rows
  BY CRIMerges
<1>2. /\ MM!EachOnce(a.rows, "decl", config) /\ MM!EachOnce(a.rows, "status", status)
      /\ MM!EachOnce(a.rows, "spec", spec) /\ MM!EachOnce(a.rows, "live", live)
      /\ CleanSources(By(config, status, spec, live)) => MM!OneRowEach(a.rows)
  BY <1>1, MergedOnce
<1> QED  BY <1>1, <1>2, CleanBy, Zenon DEF MM!CRIMergedOnce

\* Nor does mergeDockerMounts.
LEMMA DockerOnce ==
    ASSUME NEW declared \in Seq(Destination), NEW spec \in Seq(Destination),
           NEW live \in Seq(Destination)
    PROVE  MM!DockerMergedOnce(declared, spec, live)
<1> DEFINE none == <<>>
<1>1. none \in Seq(Destination) /\ Len(none) = 0 /\ DOMAIN none = {}  OBVIOUS
<1>2. PICK a : /\ Upto(a, By(declared, none, spec, live), Len(none), Len(spec), Len(live))
               /\ MM!mergeDockerMounts(declared, spec, live) = a.rows
  BY <1>1, DockerMerges
<1> HIDE DEF none
<1>3. /\ MM!EachOnce(a.rows, "decl", declared)
      /\ MM!EachOnce(a.rows, "spec", spec) /\ MM!EachOnce(a.rows, "live", live)
      /\ CleanSources(By(declared, none, spec, live)) => MM!OneRowEach(a.rows)
  BY <1>1, <1>2, MergedOnce
<1>4. ASSUME MM!Distinct(declared), MM!Distinct(spec), MM!Distinct(live)
      PROVE  CleanSources(By(declared, none, spec, live))
  <2>1. MM!Distinct(none)  BY <1>1 DEF MM!Distinct
  <2> QED  BY <1>1, <1>4, <2>1, CleanBy
<1> QED  BY <1>2, <1>3, <1>4, Zenon DEF MM!DockerMergedOnce

\* The mounts view draws every row in one of its parts.
LEMMA Splits ==
    ASSUME NEW rws
    PROVE  MM!SplitOnce(rws)
<1> DEFINE parts == MM!splitMounts(rws)
<1> SUFFICES ASSUME NEW i \in DOMAIN rws
             PROVE  Cardinality({f \in DOMAIN parts : i \in parts[f]}) = 1
  BY SameCount DEF MM!SplitOnce
<1> DEFINE roots == {k \in DOMAIN rws : rws[k].dest = Root}
           root == {k \in roots : \A l \in roots : k <= l}
           o == rws[i].origin
<1>1. /\ DOMAIN parts = {"root", "user", "cri", "runtime", "other"}
      /\ i \in parts["root"] <=> i \in root
      /\ i \in parts["user"] <=> i \notin root /\ o = "user"
      /\ i \in parts["cri"] <=> i \notin root /\ o = "kubelet"
      /\ i \in parts["runtime"] <=> i \notin root /\ o = "runtime-default"
      /\ i \in parts["other"] <=> i \notin root /\ o \notin {"user", "kubelet", "runtime-default"}
  BY DEF MM!splitMounts
<1> HIDE DEF parts, root, o
<1> DEFINE part == IF i \in root THEN "root" ELSE IF o = "user" THEN "user"
                   ELSE IF o = "kubelet" THEN "cri" ELSE IF o = "runtime-default" THEN "runtime"
                   ELSE "other"
<1>2. {f \in DOMAIN parts : i \in parts[f]} = {part}  BY <1>1
<1> QED  BY <1>2, FS_Singleton

\* No mount is lost and none is shown twice, in the list and in its groups.
THEOREM MountListMerges == ChooseSpec => []MountsAreMergedOnce
<1>1. Chosen => MountsAreMergedOnce
  <2> SUFFICES ASSUME Chosen PROVE MountsAreMergedOnce  OBVIOUS
  <2>1. Sources \subseteq Seq(Destination)  BY MountsAssumption DEF Destination
  <2>2. ASSUME input.kind = "cri"
        PROVE  /\ MM!CRIMergedOnce(input.config, input.status, input.spec, input.live)
               /\ MM!SplitOnce(MM!MergeMountSources(input.config, input.status, input.spec, input.live))
    <3>1. /\ input.config \in Sources /\ input.status \in Sources
          /\ input.spec \in Sources /\ input.live \in Sources
      BY <2>2 DEF Chosen, NoInput
    <3> QED  BY <2>1, <3>1, CRIOnce, Splits
  <2>3. ASSUME input.kind = "docker"
        PROVE  /\ MM!DockerMergedOnce(input.declared, input.spec, input.live)
               /\ MM!SplitOnce(MM!mergeDockerMounts(input.declared, input.spec, input.live))
    <3>1. input.declared \in Sources /\ input.spec \in Sources /\ input.live \in Sources
      BY <2>3 DEF Chosen, NoInput
    <3> QED  BY <2>1, <3>1, DockerOnce, Splits
  <2> QED  BY <2>2, <2>3 DEF MountsAreMergedOnce
<1> QED  BY <1>1, ChosenHolds, PTL
=============================================================================
