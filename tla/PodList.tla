------------------------------ MODULE PodList ------------------------------
(***************************************************************************)
(* The pod list of the main page (pkg/ui/views/pod_list.go).  Refresh runs *)
(* in goroutines: it looks the selected row up in v.pods to know the pod,  *)
(* loads the pods and counts their containers, stores v.pods without a     *)
(* lock and queues a closure that fills the table from whatever v.pods is  *)
(* by then and looks for the saved pod.                                    *)
(*                                                                         *)
(* The row is of the table last drawn and v.pods is of the list last       *)
(* stored: the pod looked up is another one when these differ.             *)
(***************************************************************************)
EXTENDS SharedSlice, FiniteSets

CONSTANTS
    PodInfo,            \* pods, by UID
    NoPod,              \* the empty UID
    Counts,             \* what may be counted of a pod: running and total
    PodLists,           \* what the runtime may answer: sequences of rows
    Notice,             \* a row of text: loading, or an error
    Refresher           \* bound: Refresh calls under way at once

Row == [uid : PodInfo, count : Counts]

\* What the parameters are assumed to be.
NoPodAssumption == NoPod \notin PodInfo /\ Notice \notin Row
CountAssumption == Counts \subseteq [running : Nat, total : Nat]
ListAssumption  == PodLists \subseteq Seq(Row)

VARIABLES
    pods,               \* v.pods
    table,              \* the data rows drawn
    cursor,             \* the selected row; the header is row 0
    ui,                 \* the closure the UI goroutine is in, and where
    job,                \* each Refresh: where it is and what it has
    crashed             \* a read past an array

vars == <<pods, table, cursor, ui, job, crashed>>

Idle  == [at |-> "idle", wanted |-> NoPod, under |-> NoPod]
NoJob == [pc |-> "idle", saved |-> NoPod, list |-> <<>>, ok |-> TRUE, under |-> NoPod]

\* The colour of a row says whether all of its containers run.
Colour(c) == CASE c.running = c.total /\ c.total > 0 -> "green"
               [] c.running > 0 /\ c.running # c.total -> "yellow"
               [] OTHER -> "red"

Cell   == [uid : PodInfo, count : Counts, colour : {"green", "yellow", "red"}]
Draw(s) == [i \in DOMAIN s |-> [uid |-> s[i].uid, count |-> s[i].count,
                                colour |-> Colour(s[i].count)]]

TypeOK ==
    /\ \E s \in PodLists \cup {<<>>} : pods.arr = s
    /\ \E s \in PodLists \cup {<<>>} : pods.len = Len(s)
    /\ \A i \in DOMAIN table : table[i] \in Cell \cup {Notice}
    /\ cursor \in Nat /\ (ui = Idle => cursor <= Len(table))
    /\ ui \in [at : {"idle", "status", "restore"}, wanted : PodInfo \cup {NoPod},
               under : PodInfo \cup {NoPod}]
    /\ job \in [Refresher -> [pc : {"idle", "load", "store", "arr", "len", "queued"},
                              saved : PodInfo \cup {NoPod},
                              list : PodLists \cup {<<>>}, ok : BOOLEAN,
                              under : PodInfo \cup {NoPod}]]
    /\ crashed \in BOOLEAN

Init ==
    /\ pods = Nil /\ table = <<Notice>> /\ cursor = 1
    /\ ui = Idle /\ job = [r \in Refresher |-> NoJob] /\ crashed = FALSE

-----------------------------------------------------------------------------
(***************************************************************************)
(* Refresh, in a goroutine.                                                *)
(***************************************************************************)

\* getSelection checks the row against the length, then reads the array.
SelectedPod == IF cursor \in 1..pods.len THEN pods.arr[cursor].uid ELSE NoPod
WildPod     == cursor \in 1..pods.len /\ cursor > Len(pods.arr)

\* History: the pod drawn under the cursor when a Refresh began, as long as
\* no other is under way and the cursor rests.
Alone        == \A r \in Refresher : job[r].pc = "idle"
DrawnPod     == IF cursor \in DOMAIN table /\ table[cursor] # Notice
                THEN table[cursor].uid ELSE NoPod
Disturb(jobs) == [r \in Refresher |-> [jobs[r] EXCEPT !.under = NoPod]]

BeginRefresh(r) ==
    /\ ~crashed /\ job[r].pc = "idle"
    /\ IF WildPod
       THEN crashed' = TRUE /\ UNCHANGED job
       ELSE /\ job' = [Disturb(job) EXCEPT ![r] =
                          [NoJob EXCEPT !.pc = "load", !.saved = SelectedPod,
                              !.under = IF Alone /\ ui = Idle THEN DrawnPod ELSE NoPod]]
            /\ UNCHANGED crashed
    /\ ui' = [ui EXCEPT !.under = NoPod]
    /\ UNCHANGED <<pods, table, cursor>>

\* ListPods, and the infos and containers of each pod; a pod without info is
\* left out, a container without info is not running.
LoadPods(r) ==
    /\ ~crashed /\ job[r].pc = "load"
    /\ \/ \E s \in PodLists : job' = [job EXCEPT ![r].pc = "store", ![r].list = s]
       \/ job' = [job EXCEPT ![r].pc = "store", ![r].ok = FALSE]
    /\ UNCHANGED <<pods, table, cursor, ui, crashed>>

\* v.pods = entries, or nil, in two words; then the closure is queued.
StoreHalf(r) ==
    /\ ~crashed /\ job[r].pc = "store"
    /\ \E w \in Words : /\ pods' = StoreWord(pods, w, job[r].list)
                        /\ job' = [job EXCEPT ![r].pc = w]
    /\ UNCHANGED <<table, cursor, ui, crashed>>

\* A mutant: the failure is stored and not shown.
StoreRestUnqueued(r) ==
    /\ ~crashed /\ job[r].pc \in Words
    /\ pods' = StoreWord(pods, OtherWord(job[r].pc), job[r].list)
    /\ job' = [job EXCEPT ![r] = IF job[r].ok THEN [@ EXCEPT !.pc = "queued"] ELSE NoJob]
    /\ UNCHANGED <<table, cursor, ui, crashed>>

StoreRest(r) ==
    /\ ~crashed /\ job[r].pc \in Words
    /\ pods' = StoreWord(pods, OtherWord(job[r].pc), job[r].list)
    /\ job' = [job EXCEPT ![r].pc = "queued", ![r].list = <<>>]
    /\ UNCHANGED <<table, cursor, ui, crashed>>

Refresh(r) == BeginRefresh(r) \/ LoadPods(r) \/ StoreHalf(r) \/ StoreRest(r)

-----------------------------------------------------------------------------
(***************************************************************************)
(* The closures and the arrow keys, on the UI goroutine.  tview keeps the  *)
(* selected row within the table when it draws.                            *)
(***************************************************************************)

Clamp(row, t) == IF row > Len(t) THEN Len(t) ELSE row

RunFailed(r) ==
    /\ ~crashed /\ ui = Idle /\ job[r].pc = "queued" /\ ~job[r].ok
    /\ table' = <<Notice>> /\ cursor' = Clamp(cursor, table')
    /\ job' = [job EXCEPT ![r] = NoJob]
    /\ UNCHANGED <<pods, ui, crashed>>

\* render: one row for each pod there is now.
Render(r) ==
    /\ ~crashed /\ ui = Idle /\ job[r].pc = "queued" /\ job[r].ok
    /\ IF Torn(pods)
       THEN crashed' = TRUE /\ UNCHANGED <<table, ui, job>>
       ELSE /\ table' = Draw(Elems(pods))
            /\ ui' = [at |-> "status", wanted |-> job[r].saved, under |-> job[r].under]
            /\ job' = [job EXCEPT ![r] = NoJob]
            /\ UNCHANGED crashed
    /\ UNCHANGED <<pods, cursor>>

UpdateStatusBar ==
    /\ ~crashed /\ ui.at = "status"
    /\ crashed' = Torn(pods)
    /\ ui' = [ui EXCEPT !.at = "restore"]
    /\ UNCHANGED <<pods, table, cursor, job>>

\* The first row with the wanted pod in s, else the first row.
RowOf(s, uid) ==
    IF \E i \in DOMAIN s : s[i].uid = uid
    THEN CHOOSE i \in DOMAIN s : s[i].uid = uid /\ \A k \in 1..(i - 1) : s[k].uid # uid
    ELSE 1

\* A mutant: the table is left as the draw leaves it.
RestoreNothing ==
    /\ ~crashed /\ ui.at = "restore"
    /\ cursor' = Clamp(1, table) /\ ui' = Idle
    /\ UNCHANGED <<pods, table, job, crashed>>

\* restoreSelection looks in the pods as they are now, unless no row is drawn.
RestoreSelection ==
    /\ ~crashed /\ ui.at = "restore"
    /\ IF Torn(pods) /\ table # <<>>
       THEN crashed' = TRUE /\ UNCHANGED <<cursor, ui>>
       ELSE /\ cursor' = IF table = <<>> THEN 0
                         ELSE Clamp(RowOf(Elems(pods), ui.wanted), table)
            /\ ui' = Idle
            /\ UNCHANGED crashed
    /\ UNCHANGED <<pods, table, job>>

Move(row) ==
    /\ ~crashed /\ ui = Idle /\ row # cursor
    /\ cursor' = row /\ job' = Disturb(job)
    /\ UNCHANGED <<pods, table, ui, crashed>>

Next ==
    \/ \E r \in Refresher : Refresh(r) \/ RunFailed(r) \/ Render(r)
    \/ UpdateStatusBar \/ RestoreSelection
    \/ \E row \in DOMAIN table : Move(row)

Spec == Init /\ [][Next]_vars

-----------------------------------------------------------------------------
(***************************************************************************)
(* Properties.                                                             *)
(***************************************************************************)

Quiet == ~crashed /\ ui = Idle /\ Alone

\* However refreshes overlap, fail, tear the list and draw out of order: when
\* all is quiet the table is of the list stored, or shows a notice.
QuietTableShowsPods ==
    Quiet => table = <<Notice>> \/ (~Torn(pods) /\ table = Draw(Elems(pods)))

\* A refresh that no other one overlaps and no key disturbs leaves the cursor
\* on the pod it was drawn under, if the pod is still there.
CursorStaysOnPod ==
    [][ui.at = "restore" /\ ui' = Idle /\ ui.under # NoPod
         /\ (\E i \in DOMAIN table : table[i].uid = ui.under)
         => table[cursor'].uid = ui.under]_vars
=============================================================================
